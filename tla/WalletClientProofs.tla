------------------------- MODULE WalletClientProofs -------------------------
(***************************************************************************)
(* Proofs about WalletClient.  The argument rests on one inductive         *)
(* invariant: a task, between two awaits, only ever remembers what was     *)
(* true when it read it, and the parts of the state it remembers - who was *)
(* ever a peer, what was ever granted or stored - only grow.               *)
(***************************************************************************)
EXTENDS WalletClient, FiniteSetTheorems, TLAPS

\* dApps that are, or were at some time, in the peer list.
Known == store.peers \cup departed

\* How the fields of a task depend on one another.
TaskShape(t) ==
    /\ t.op \in {"prompt", "ack", "reply", "grant"} <=> t.req \in Requests
    /\ t.op = "pair" => t.list = "peers" /\ t.dapps \subseteq t.add
    /\ t.op = "grant" => t.list = "permissions"
    /\ t.pc = "listen" => t.op = "pair"
    /\ t.pc = "prompt" => t.op = "prompt"
    /\ t.pc = "lookup" => t.op = "grant"
    /\ t.pc = "clear" => t.op \in {"unpeer", "edit"}
    /\ t.pc = "collect" => t.list = "permissions" /\ t.op \in {"forget", "farewell"}
    /\ t.pc = "findPeer" => t.op \in {"ack", "reply", "grant"}
    /\ t.pc = "send" => t.op \in {"ack", "reply", "grant", "farewell"}

\* What a task may rely on.
TaskInv(t) ==
    /\ t.req \in Requests => Owner[t.req] \in Known
    /\ t.pc = "listen" => t.dapps \subseteq Known
    /\ t.pc = "send" /\ t.op # "farewell" =>
          \/ t.target = NoPeer /\ Owner[t.req] \in departed
          \/ t.target = Owner[t.req]
    /\ t.list = "permissions" => t.add \cup t.snapshot \subseteq granted
    /\ t.op = "grant" /\ t.pc \in {"findPeer", "send"} => t.add \subseteq stored

RequestsInv ==
    /\ listening \subseteq Known
    /\ \A r \in Requests : incoming[r] > 0 \/ r \in pending => Owner[r] \in Known

TasksInv == \A t \in tasks : TaskShape(t) /\ TaskInv(t)

\* The list holds nothing that was not granted, or not seen written.
Recorded == store.permissions \subseteq granted \cap stored

IInv ==
    /\ TypeOK
    /\ TasksInv
    /\ RequestsInv
    /\ Recorded
    /\ MisdeliveryOnlyAfterDeparture
    /\ GrantStoredBeforeReply

-----------------------------------------------------------------------------
(* Type correctness.                                                       *)

ListsTyped(t) ==
    /\ t.list = "permissions" => t.add \cup t.snapshot \subseteq Pairs
    /\ t.list # "permissions" => t.add \cup t.snapshot \subseteq DApps

\* A task stays one, and keeps its lists, when it moves to another step.
LEMMA MovedTask ==
    ASSUME NEW t \in Tasks, ListsTyped(t), NEW pc \in Steps
    PROVE  /\ [t EXCEPT !.pc = pc] \in Tasks
           /\ ListsTyped([t EXCEPT !.pc = pc])
BY DEF Tasks, ListsTyped

\* A new task without lists is one.
LEMMA NewTask ==
    ASSUME NEW op \in Ops, NEW pc \in Steps,
           NEW list \in {"peers", "metadata", "permissions"},
           NEW req \in Requests \cup {NoRequest}, NEW n \in Nat
    PROVE  /\ Task(op, pc, list, req, n) \in Tasks
           /\ ListsTyped(Task(op, pc, list, req, n))
BY DEF Tasks, ListsTyped, Task

\* Writing a list keeps the store typed.
LEMMA ReplaceType ==
    ASSUME TypeOK, NEW t \in tasks, NEW entries, Replace(t, entries),
           t.list = "permissions" => entries \subseteq Pairs,
           t.list # "permissions" => entries \subseteq DApps
    PROVE  TypeOK'
<1> t \in Tasks /\ ListsTyped(t)
  BY DEF TypeOK, ListsTyped
<1>1. store' \in Stores
  BY DEF TypeOK, Replace, Tasks, Stores
<1>2. stored' \subseteq Pairs /\ departed' \subseteq DApps
  BY <1>1 DEF TypeOK, Replace, Stores
<1> DEFINE Typed == tasks' \subseteq Tasks /\ \A u \in tasks' : ListsTyped(u)
<1>3. Typed
  <2>1. ASSUME NEW pc \in Steps, Resume(t, pc) PROVE Typed
    BY <2>1, MovedTask DEF Resume, TypeOK, ListsTyped
  <2>2. CASE Finish(t)
    BY <2>2 DEF Finish, TypeOK, ListsTyped
  <2> QED
    BY <2>1, <2>2 DEF Replace, AfterWrite, Steps
<1> QED
  BY <1>1, <1>2, <1>3 DEF Replace, TypeOK, ListsTyped

\* What a list may hold.
LEMMA StoredTyped ==
    ASSUME TypeOK, NEW list \in {"peers", "metadata", "permissions"}
    PROVE  /\ list = "permissions" => store[list] \subseteq Pairs
           /\ list # "permissions" => store[list] \subseteq DApps
BY DEF TypeOK, Stores

\* Exchanging a task for a typed one keeps the types.
LEMMA ExchangeType ==
    ASSUME TypeOK, NEW t \in tasks, NEW u \in Tasks, ListsTyped(u),
           tasks' = (tasks \ {t}) \cup {u},
           UNCHANGED <<store, listening, incoming, pending, delivered, calls, ghosts>>
    PROVE  TypeOK'
BY DEF TypeOK, ListsTyped, ghosts

\* Every step preserves the types, given the shape of the tasks.
LEMMA TypeStep == TypeOK /\ TasksInv /\ [Next]_vars => TypeOK'
<1> SUFFICES ASSUME TypeOK, TasksInv, [Next]_vars PROVE TypeOK'
  OBVIOUS
<1> USE NullAssumption, OwnerAssumption, PersistedAssumption
<1>1. ASSUME NEW t \in tasks, Read(t) PROVE TypeOK'
  <2> DEFINE u == [t EXCEPT !.pc = "write", !.snapshot = store[t.list]]
  <2>1. t \in Tasks /\ ListsTyped(t) /\ t.list \in {"peers", "metadata", "permissions"}
    BY DEF TypeOK, ListsTyped, Tasks
  <2>2. store[t.list] \subseteq Entries
    BY <2>1, StoredTyped DEF Entries
  <2>3. u \in Tasks
    BY <2>1, <2>2 DEF Tasks, Steps
  <2>4. ListsTyped(u)
    BY <2>1, StoredTyped DEF Tasks, ListsTyped
  <2> HIDE DEF u
  <2> QED
    BY <1>1, <2>3, <2>4, ExchangeType DEF Read, u
<1>2. ASSUME NEW t \in tasks, Write(t) PROVE TypeOK'
  BY <1>2, ReplaceType DEF Write, Edited, TypeOK
<1>3. ASSUME NEW t \in tasks, Clear(t) PROVE TypeOK'
  BY <1>3, ReplaceType DEF Clear
<1>4. ASSUME NEW t \in tasks, Listen(t) PROVE TypeOK'
  BY <1>4 DEF Listen, Finish, TypeOK, Tasks, ghosts
<1>5. ASSUME NEW t \in tasks, Unsubscribe(t) PROVE TypeOK'
  BY <1>5 DEF Unsubscribe, Finish, TypeOK, ghosts
<1>6. ASSUME NEW t \in tasks, Prompt(t) PROVE TypeOK'
  BY <1>6 DEF Prompt, At, Finish, TypeOK, TasksInv, TaskShape
<1>7. ASSUME NEW t \in tasks, LookupMetadata(t) PROVE TypeOK'
  <2> DEFINE u == [t EXCEPT !.pc = "read"]
  <2>1. u \in Tasks /\ ListsTyped(u)
    BY MovedTask DEF TypeOK, ListsTyped, Steps
  <2>2. CASE tasks' = (tasks \ {t}) \cup {u}
    <3> HIDE DEF u
    <3> QED
      BY <1>7, <2>1, <2>2, ExchangeType DEF LookupMetadata
  <2>3. CASE tasks' = tasks \ {t}
    BY <1>7, <2>3 DEF LookupMetadata, TypeOK, ghosts
  <2> QED
    BY <1>7, <2>2, <2>3 DEF LookupMetadata, Resume, Finish
<1>8. ASSUME NEW t \in tasks, FindPeer(t) PROVE TypeOK'
  <2> DEFINE peer == IF Owner[t.req] \in store.peers THEN Owner[t.req] ELSE NoPeer
             u == [t EXCEPT !.pc = "send", !.target = peer]
  <2>1. peer \in DApps \cup {NoPeer}
    BY DEF TypeOK, Stores
  <2>2. u \in Tasks /\ ListsTyped(u)
    <3> t \in Tasks /\ ListsTyped(t)
      BY DEF TypeOK, ListsTyped
    <3> HIDE DEF peer
    <3> QED
      BY <2>1 DEF Tasks, Steps, ListsTyped
  <2>3. tasks' = (tasks \ {t}) \cup {u}
    BY <1>8 DEF FindPeer
  <2> HIDE DEF u
  <2> QED
    BY <1>8, <2>2, <2>3, ExchangeType DEF FindPeer
<1>9. ASSUME NEW t \in tasks, Send(t) PROVE TypeOK'
  <2>1. Recipients(t) \subseteq DApps
    BY DEF Recipients, TypeOK, Tasks, Stores
  <2>2. Contents(t) \subseteq Pairs
    BY DEF Contents, TypeOK, TasksInv, TaskShape
  <2>3. t.req \in Requests \cup {NoRequest} /\ t.op \in {"ack", "reply", "grant", "farewell"}
    BY <1>9 DEF Send, At, TypeOK, TasksInv, TaskShape, Tasks
  <2> QED
    BY <1>9, <2>1, <2>2, <2>3 DEF Send, Finish, TypeOK, Messages
<1>10. ASSUME NEW t \in tasks, CollectPermissions(t) PROVE TypeOK'
  <2>1. ToRemove(t.dapps) \subseteq Pairs
    BY DEF ToRemove, TypeOK, Stores, Pairs
  <2> DEFINE u == [t EXCEPT !.pc = "read", !.remove = ToRemove(t.dapps)]
  <2>2. u \in Tasks /\ ListsTyped(u)
    <3> t \in Tasks /\ ListsTyped(t)
      BY DEF TypeOK, ListsTyped
    <3> QED
      BY <2>1 DEF Tasks, Steps, Entries, ListsTyped
  <2>3. tasks' = (tasks \ {t}) \cup {u}
    BY <1>10 DEF CollectPermissions
  <2> HIDE DEF u
  <2> QED
    BY <1>10, <2>2, <2>3, ExchangeType DEF CollectPermissions
<1>11. ASSUME NEW new, Start(new), new \subseteq Tasks, \A t \in new : ListsTyped(t)
       PROVE  TypeOK'
  BY <1>11 DEF Start, TypeOK, ListsTyped, ghosts
<1>12. ASSUME NEW d \in DApps, AddPeer(d) PROVE TypeOK'
  <2> DEFINE u == [Call("pair", "read", "peers") EXCEPT !.dapps = {d}, !.add = {d}]
  <2>1. u \in Tasks /\ ListsTyped(u)
    BY DEF Call, Task, Tasks, ListsTyped, TypeOK, Ops, Steps, Entries
  <2>2. Start({u})
    BY <1>12 DEF AddPeer
  <2> HIDE DEF u
  <2> QED
    BY <1>11, <2>1, <2>2
<1>13. ASSUME NEW d \in DApps, NEW op \in {"forget", "farewell"}, RemovePeer(d, op)
       PROVE  TypeOK'
  <2> DEFINE u == [Call("unpeer", "read", "peers") EXCEPT !.dapps = {d}, !.remove = {d}]
             v == [Call(op, "collect", "permissions") EXCEPT !.dapps = {d}]
  <2>1. u \in Tasks /\ ListsTyped(u)
    BY DEF Call, Task, Tasks, ListsTyped, TypeOK, Ops, Steps, Entries
  <2>2. v \in Tasks /\ ListsTyped(v)
    BY DEF Call, Task, Tasks, ListsTyped, TypeOK, Ops, Steps
  <2>3. Start({u, v})
    BY <1>13 DEF RemovePeer
  <2> HIDE DEF u, v
  <2> QED
    BY <1>11, <2>1, <2>2, <2>3
<1>14. ASSUME NEW op \in {"forget", "farewell"}, RemoveAllPeers(op) PROVE TypeOK'
  BY <1>11, <1>14 DEF RemoveAllPeers, Call, Task, Tasks, ListsTyped, TypeOK, Stores, Ops, Steps
<1>15. ASSUME NEW list \in {"metadata", "permissions"}, RemoveAll(list) PROVE TypeOK'
  BY <1>11, <1>15 DEF RemoveAll, Call, Task, Tasks, ListsTyped, TypeOK, Ops, Steps
<1>16. ASSUME NEW list \in {"metadata", "permissions"}, NEW e \in Entries,
              RemoveEntry(list, e)
       PROVE  TypeOK'
  BY <1>11, <1>16 DEF RemoveEntry, Call, Task, Tasks, ListsTyped, TypeOK, Ops, Steps
<1>17. ASSUME NEW r \in Requests, Deliver(r) PROVE TypeOK'
  BY <1>17 DEF Deliver, TypeOK, ghosts
<1>18. ASSUME NEW r \in Requests, HandleRequest(r) PROVE TypeOK'
  <2>1. PromptTask(r) \in Tasks /\ ListsTyped(PromptTask(r))
    BY DEF PromptTask, Task, Tasks, ListsTyped, TypeOK, Ops, Steps, Entries
  <2>2. /\ Task("ack", "findPeer", "peers", r, answers[r]) \in Tasks
        /\ ListsTyped(Task("ack", "findPeer", "peers", r, answers[r]))
    BY NewTask DEF TypeOK, Ops, Steps
  <2> QED
    BY <1>18, <2>1, <2>2 DEF HandleRequest, TypeOK, ListsTyped, ghosts
<1>19. ASSUME NEW r \in Requests, NEW accounts \in SUBSET Accounts, Respond(r, accounts)
       PROVE  TypeOK'
  <2> DEFINE new == IF accounts = {}
                    THEN Task("reply", "findPeer", "peers", r, answers[r])
                    ELSE [Task("grant", "lookup", "permissions", r, answers[r])
                             EXCEPT !.add = Permissions(r, accounts)]
  <2>1. Permissions(r, accounts) \subseteq Pairs
    BY DEF Pairs, Permissions
  <2>2. new \in Tasks /\ ListsTyped(new)
    BY <2>1 DEF Task, Tasks, ListsTyped, TypeOK, Ops, Steps, Entries
  <2>3. tasks' = tasks \cup {new}
    BY <1>19 DEF Respond
  <2> HIDE DEF new
  <2> QED
    BY <1>19, <2>1, <2>2, <2>3 DEF Respond, Permissions, TypeOK, ListsTyped
<1>20. CASE UNCHANGED vars
  BY <1>20 DEF vars, TypeOK
<1> QED
  BY <1>1, <1>2, <1>3, <1>4, <1>5, <1>6, <1>7, <1>8, <1>9, <1>10, <1>12, <1>13,
     <1>14, <1>15, <1>16, <1>17, <1>18, <1>19, <1>20 DEF Next, Continue

-----------------------------------------------------------------------------
(* What tasks rely on.                                                     *)

\* Nothing a task remembers is ever taken back.
LEMMA Growth ==
    ASSUME [Next]_vars
    PROVE  /\ departed \subseteq departed' /\ Known \subseteq Known'
           /\ granted \subseteq granted' /\ stored \subseteq stored'
<1> DEFINE Grows == /\ departed \subseteq departed' /\ Known \subseteq Known'
                    /\ granted \subseteq granted' /\ stored \subseteq stored'
<1>1. ASSUME NEW t, NEW entries, Replace(t, entries) PROVE Grows
  BY <1>1 DEF Replace, Known
<1>2. ASSUME NEW t, Continue(t) PROVE Grows
  BY <1>1, <1>2 DEF Continue, Read, Write, Clear, Listen, Unsubscribe, Prompt,
     LookupMetadata, FindPeer, Send, CollectPermissions, Known, ghosts
<1>3. ASSUME NEW new, Start(new) PROVE Grows
  BY <1>3 DEF Start, Known, ghosts
<1>4. ASSUME NEW r, NEW accounts, Deliver(r) \/ HandleRequest(r) \/ Respond(r, accounts)
      PROVE  Grows
  BY <1>4 DEF Deliver, HandleRequest, Respond, Known, ghosts
<1>5. CASE UNCHANGED vars
  BY <1>5 DEF vars, Known
<1> QED
  BY <1>2, <1>3, <1>4, <1>5
  DEF Next, AddPeer, RemovePeer, RemoveAllPeers, RemoveAll, RemoveEntry

LEMMA TaskStable ==
    ASSUME [Next]_vars, NEW t, TaskInv(t)
    PROVE  TaskInv(t)'
BY Growth DEF TaskInv

\* A step that starts no task, or a step that exchanges one for another.
LEMMA TasksRemain ==
    ASSUME TasksInv, [Next]_vars, tasks' \subseteq tasks
    PROVE  TasksInv'
BY TaskStable DEF TasksInv, TaskShape

LEMMA TaskExchanged ==
    ASSUME TasksInv, [Next]_vars, NEW u, tasks' \subseteq tasks \cup {u},
           TaskShape(u), TaskInv(u)'
    PROVE  TasksInv'
BY TaskStable DEF TasksInv, TaskShape

\* Writing a list: the task resumes where AfterWrite says.
LEMMA ReplaceTasks ==
    ASSUME TypeOK, TasksInv, [Next]_vars, NEW t \in tasks, NEW entries,
           t.pc \in {"write", "clear"},
           t.pc = "write" => t.add \subseteq entries,
           Replace(t, entries), Recorded
    PROVE  TasksInv'
<1>1. t \in Tasks /\ TaskShape(t) /\ TaskInv(t) /\ TaskInv(t)'
  <2>1. t \in Tasks /\ TaskShape(t) /\ TaskInv(t)
    BY DEF TypeOK, TasksInv
  <2> QED
    BY <2>1, TaskStable
<1>2. CASE Finish(t)
  BY <1>2, TasksRemain DEF Finish
<1>3. ASSUME NEW pc \in {"listen", "unsubscribe", "prompt", "findPeer", "send"},
             Resume(t, pc),
             pc = "listen" => t.op = "pair",
             pc = "prompt" => t.op = "prompt",
             pc = "findPeer" => t.op = "grant",
             pc = "send" => t.op = "farewell"
      PROVE  TasksInv'
  <2> PICK u : u = [t EXCEPT !.pc = pc]
    OBVIOUS
  <2>1. TaskShape(u)
    BY <1>1, <1>3 DEF TaskShape, Tasks
  <2>2. pc = "listen" => u.dapps \subseteq store'.peers
    BY <1>1, <1>3 DEF Replace, TaskShape, Tasks, TypeOK, Stores
  <2>3. pc = "findPeer" => u.add \subseteq stored'
    <3> SUFFICES ASSUME pc = "findPeer" PROVE t.add \subseteq stored'
      BY <1>1 DEF Tasks
    <3>1. t.list = "permissions" /\ t.pc = "write"
      BY <1>1, <1>3 DEF TaskShape
    <3>2. store'.permissions = entries
      BY <3>1 DEF Replace, TypeOK, Stores
    <3> QED
      BY <3>1, <3>2 DEF Replace, Recorded
  <2>4. TaskInv(u)'
    BY <1>1, <1>3, <2>2, <2>3 DEF TaskInv, Tasks, Known
  <2>5. tasks' = (tasks \ {t}) \cup {u}
    BY <1>3 DEF Resume
  <2> QED
    BY <2>1, <2>4, <2>5, TaskExchanged
<1> QED
  BY <1>2, <1>3 DEF Replace, AfterWrite

LEMMA TasksAdded ==
    ASSUME TasksInv, [Next]_vars, NEW u, NEW v, tasks' \subseteq tasks \cup {u, v},
           TaskShape(u), TaskInv(u)', TaskShape(v), TaskInv(v)'
    PROVE  TasksInv'
BY TaskStable DEF TasksInv, TaskShape

\* A new call, which serves no request and remembers nothing yet.
LEMMA NewCall ==
    ASSUME NEW u, u.req = NoRequest, u.pc \in {"read", "clear", "collect"},
           u.op \in {"pair", "unpeer", "forget", "farewell", "edit"},
           u.list = "permissions" => u.add \cup u.snapshot = {},
           u.op = "pair" => u.list = "peers" /\ u.dapps \subseteq u.add,
           u.pc = "clear" => u.op \in {"unpeer", "edit"},
           u.pc = "collect" => u.list = "permissions" /\ u.op \in {"forget", "farewell"}
    PROVE  TaskShape(u) /\ TaskInv(u)'
BY NullAssumption DEF TaskShape, TaskInv

\* Every step keeps what the tasks rely on.
LEMMA TasksStep ==
    ASSUME TypeOK, TasksInv, RequestsInv, Recorded,
           [Next]_vars
    PROVE  TasksInv'
<1> USE NullAssumption, OwnerAssumption
<1> DEFINE OfTask(t) == t \in Tasks /\ TaskShape(t) /\ TaskInv(t)
<1>0. ASSUME NEW t \in tasks PROVE OfTask(t) /\ TaskInv(t)'
  <2>1. OfTask(t)
    BY DEF TypeOK, TasksInv
  <2> QED
    BY <2>1, TaskStable
<1>1. ASSUME NEW t \in tasks, Read(t) PROVE TasksInv'
  <2> PICK u : u = [t EXCEPT !.pc = "write", !.snapshot = store[t.list]]
    OBVIOUS
  <2>1. t.list = "permissions" => store[t.list] \subseteq granted
    BY DEF TypeOK, Stores, Recorded
  <2>2. TaskShape(u)
    BY <1>0 DEF TaskShape, Tasks
  <2>3. TaskInv(u)'
    BY <1>0, <1>1, <2>1 DEF TaskInv, Tasks, Read, Known, ghosts
  <2> QED
    BY <1>1, <2>2, <2>3, TaskExchanged DEF Read
<1>2. ASSUME NEW t \in tasks, Write(t) PROVE TasksInv'
  BY <1>2, ReplaceTasks DEF Write, At, Edited
<1>3. ASSUME NEW t \in tasks, Clear(t) PROVE TasksInv'
  BY <1>3, ReplaceTasks DEF Clear, At
<1>4. ASSUME NEW t \in tasks, Listen(t) \/ Unsubscribe(t) \/ Prompt(t) \/ Send(t)
      PROVE  TasksInv'
  BY <1>4, TasksRemain DEF Listen, Unsubscribe, Prompt, Send, Finish
<1>5. ASSUME NEW t \in tasks, LookupMetadata(t) PROVE TasksInv'
  <2> PICK u : u = [t EXCEPT !.pc = "read"]
    OBVIOUS
  <2>1. TaskShape(u)
    BY <1>0 DEF TaskShape, Tasks
  <2>2. TaskInv(u)'
    BY <1>0 DEF TaskInv, Tasks
  <2> QED
    BY <1>5, <2>1, <2>2, TaskExchanged DEF LookupMetadata, Resume, Finish
<1>6. ASSUME NEW t \in tasks, FindPeer(t) PROVE TasksInv'
  <2> PICK peer : peer = IF Owner[t.req] \in store.peers THEN Owner[t.req] ELSE NoPeer
    OBVIOUS
  <2> PICK u : u = [t EXCEPT !.pc = "send", !.target = peer]
    OBVIOUS
  <2>1. t.op \in {"ack", "reply", "grant"} /\ t.req \in Requests
    BY <1>0, <1>6 DEF FindPeer, At, TaskShape
  <2>2. TaskShape(u)
    BY <1>0, <2>1 DEF TaskShape, Tasks
  <2>3. peer = Owner[t.req] \/ (peer = NoPeer /\ Owner[t.req] \in departed')
    BY <1>0, <1>6, <2>1 DEF FindPeer, TaskInv, Known, ghosts
  <2>4. TaskInv(u)'
    BY <1>0, <1>6, <2>1, <2>3 DEF TaskInv, Tasks, FindPeer, At
  <2> QED
    BY <1>6, <2>2, <2>4, TaskExchanged DEF FindPeer
<1>7. ASSUME NEW t \in tasks, CollectPermissions(t) PROVE TasksInv'
  <2> PICK u : u = [t EXCEPT !.pc = "read", !.remove = ToRemove(t.dapps)]
    OBVIOUS
  <2>1. TaskShape(u)
    BY <1>0 DEF TaskShape, Tasks
  <2>2. TaskInv(u)'
    BY <1>0 DEF TaskInv, Tasks
  <2> QED
    BY <1>7, <2>1, <2>2, TaskExchanged DEF CollectPermissions
<1>8. ASSUME NEW d \in DApps, AddPeer(d) PROVE TasksInv'
  <2> PICK u : u = [Call("pair", "read", "peers") EXCEPT !.dapps = {d}, !.add = {d}]
    OBVIOUS
  <2>1. TaskShape(u) /\ TaskInv(u)'
    BY NewCall DEF Call, Task
  <2> QED
    BY <1>8, <2>1, TaskExchanged DEF AddPeer, Start
<1>9. ASSUME NEW d \in DApps, NEW op \in {"forget", "farewell"}, RemovePeer(d, op)
      PROVE  TasksInv'
  <2> PICK u : u = [Call("unpeer", "read", "peers") EXCEPT !.dapps = {d}, !.remove = {d}]
    OBVIOUS
  <2> PICK v : v = [Call(op, "collect", "permissions") EXCEPT !.dapps = {d}]
    OBVIOUS
  <2>1. TaskShape(u) /\ TaskInv(u)'
    BY NewCall DEF Call, Task
  <2>2. TaskShape(v) /\ TaskInv(v)'
    BY NewCall DEF Call, Task
  <2> QED
    BY <1>9, <2>1, <2>2, TasksAdded DEF RemovePeer, Start
<1>10. ASSUME NEW op \in {"forget", "farewell"}, RemoveAllPeers(op) PROVE TasksInv'
  <2> PICK u : u = [Call("unpeer", "clear", "peers") EXCEPT !.dapps = DApps]
    OBVIOUS
  <2> PICK v : v = [Call(op, "collect", "permissions") EXCEPT !.dapps = store.peers]
    OBVIOUS
  <2>1. TaskShape(u) /\ TaskInv(u)'
    BY NewCall DEF Call, Task
  <2>2. TaskShape(v) /\ TaskInv(v)'
    BY NewCall DEF Call, Task
  <2> QED
    BY <1>10, <2>1, <2>2, TasksAdded DEF RemoveAllPeers, Start
<1>11. ASSUME NEW list \in {"metadata", "permissions"}, RemoveAll(list) PROVE TasksInv'
  <2> PICK u : u = Call("edit", "clear", list)
    OBVIOUS
  <2>1. TaskShape(u) /\ TaskInv(u)'
    BY NewCall DEF Call, Task
  <2> QED
    BY <1>11, <2>1, TaskExchanged DEF RemoveAll, Start
<1>12. ASSUME NEW list \in {"metadata", "permissions"}, NEW e, RemoveEntry(list, e)
       PROVE  TasksInv'
  <2> PICK u : u = [Call("edit", "read", list) EXCEPT !.remove = {e}]
    OBVIOUS
  <2>1. TaskShape(u) /\ TaskInv(u)'
    BY NewCall DEF Call, Task
  <2> QED
    BY <1>12, <2>1, TaskExchanged DEF RemoveEntry, Start
<1>13. ASSUME NEW r \in Requests, Deliver(r) PROVE TasksInv'
  BY <1>13, TasksRemain DEF Deliver
<1>14. ASSUME NEW r \in Requests, HandleRequest(r) PROVE TasksInv'
  <2> PICK u : u = PromptTask(r)
    OBVIOUS
  <2> PICK v : v = Task("ack", "findPeer", "peers", r, answers[r])
    OBVIOUS
  <2>1. Owner[r] \in Known'
    BY <1>14, Growth DEF HandleRequest, RequestsInv
  <2>2. TaskShape(u) /\ TaskInv(u)'
    BY <2>1 DEF PromptTask, Task, TaskShape, TaskInv
  <2>3. TaskShape(v) /\ TaskInv(v)'
    BY <2>1 DEF Task, TaskShape, TaskInv
  <2> QED
    BY <1>14, <2>2, <2>3, TasksAdded DEF HandleRequest
<1>15. ASSUME NEW r \in Requests, NEW accounts, Respond(r, accounts) PROVE TasksInv'
  <2> PICK u : u = Task("reply", "findPeer", "peers", r, answers[r])
    OBVIOUS
  <2> PICK v : v = [Task("grant", "lookup", "permissions", r, answers[r])
                      EXCEPT !.add = Permissions(r, accounts)]
    OBVIOUS
  <2>1. Owner[r] \in Known'
    BY <1>15, Growth DEF Respond, RequestsInv
  <2>2. Permissions(r, accounts) \subseteq granted'
    BY <1>15 DEF Respond, Permissions
  <2>3. TaskShape(u) /\ TaskInv(u)'
    BY <2>1 DEF Task, TaskShape, TaskInv
  <2>4. TaskShape(v) /\ TaskInv(v)'
    BY <2>1, <2>2 DEF Task, TaskShape, TaskInv
  <2>5. tasks' \subseteq tasks \cup {u, v}
    BY <1>15 DEF Respond
  <2> QED
    BY <2>3, <2>4, <2>5, TasksAdded
<1>16. CASE UNCHANGED vars
  BY <1>16, TasksRemain DEF vars
<1> QED
  BY <1>1, <1>2, <1>3, <1>4, <1>5, <1>6, <1>7, <1>8, <1>9, <1>10, <1>11, <1>12,
     <1>13, <1>14, <1>15, <1>16 DEF Next, Continue

\* Requests come from dApps that are, or were, peers.
LEMMA RequestsStep ==
    ASSUME TypeOK, TasksInv, RequestsInv, [Next]_vars
    PROVE  RequestsInv'
<1>1. Known \subseteq Known'
  BY Growth
<1>2. ASSUME NEW t, NEW entries, Replace(t, entries) PROVE RequestsInv'
  BY <1>1, <1>2 DEF Replace, RequestsInv
<1>3. ASSUME NEW t \in tasks, Listen(t) PROVE RequestsInv'
  <2>1. t.dapps \subseteq Known
    BY <1>3 DEF Listen, At, TasksInv, TaskInv
  <2> QED
    BY <1>1, <1>3, <2>1 DEF Listen, RequestsInv
<1>4. ASSUME NEW t, Unsubscribe(t) PROVE RequestsInv'
  BY <1>1, <1>4 DEF Unsubscribe, RequestsInv
<1>5. ASSUME NEW t, Read(t) \/ Prompt(t) \/ LookupMetadata(t) \/ FindPeer(t) \/ Send(t)
                    \/ CollectPermissions(t)
      PROVE  RequestsInv'
  BY <1>1, <1>5
  DEF Read, Prompt, LookupMetadata, FindPeer, Send, CollectPermissions, RequestsInv
<1>6. ASSUME NEW new, Start(new) PROVE RequestsInv'
  BY <1>1, <1>6 DEF Start, RequestsInv
<1>7. ASSUME NEW r \in Requests, Deliver(r) PROVE RequestsInv'
  BY <1>1, <1>7 DEF Deliver, RequestsInv, TypeOK
<1>8. ASSUME NEW r \in Requests, HandleRequest(r) PROVE RequestsInv'
  BY <1>1, <1>8 DEF HandleRequest, RequestsInv, TypeOK
<1>9. ASSUME NEW r \in Requests, NEW accounts, Respond(r, accounts) PROVE RequestsInv'
  BY <1>1, <1>9 DEF Respond, RequestsInv
<1>10. CASE UNCHANGED vars
  BY <1>1, <1>10 DEF vars, RequestsInv
<1> QED
  BY <1>2, <1>3, <1>4, <1>5, <1>6, <1>7, <1>8, <1>9, <1>10
  DEF Next, Continue, Write, Clear, AddPeer, RemovePeer, RemoveAllPeers, RemoveAll,
      RemoveEntry

\* A list is only ever overwritten with what was granted, and that is recorded.
LEMMA RecordedStep ==
    ASSUME TypeOK, TasksInv, Recorded, [Next]_vars
    PROVE  Recorded'
<1>1. granted \subseteq granted' /\ stored \subseteq stored'
  BY Growth
<1>2. ASSUME NEW t \in tasks, NEW entries, Replace(t, entries),
             t.list = "permissions" => entries \subseteq granted
      PROVE  Recorded'
  <2>1. store'.permissions \subseteq granted
    <3>1. store \in Stores /\ t.list \in {"peers", "metadata", "permissions"}
      BY DEF TypeOK, Tasks
    <3> QED
      BY <1>2, <3>1 DEF Replace, Recorded, Stores
  <2> QED
    BY <1>1, <1>2, <2>1 DEF Replace, Recorded
<1>3. ASSUME NEW t \in tasks, Write(t) PROVE Recorded'
  BY <1>2, <1>3 DEF Write, Edited, TasksInv, TaskInv
<1>4. ASSUME NEW t \in tasks, Clear(t) PROVE Recorded'
  BY <1>2, <1>4 DEF Clear
<1>5. ASSUME UNCHANGED store PROVE Recorded'
  BY <1>1, <1>5 DEF Recorded
<1> QED
  BY <1>3, <1>4, <1>5
  DEF Next, Continue, Read, Listen, Unsubscribe, Prompt, LookupMetadata, FindPeer, Send,
      CollectPermissions, Start, AddPeer, RemovePeer, RemoveAllPeers, RemoveAll,
      RemoveEntry, Deliver, HandleRequest, Respond, vars

\* What a step sends, it sends to the requester or after the requester left,
\* and it has stored the permissions it tells of.
LEMMA SentStep ==
    ASSUME TypeOK, TasksInv, MisdeliveryOnlyAfterDeparture, GrantStoredBeforeReply,
           [Next]_vars
    PROVE  MisdeliveryOnlyAfterDeparture' /\ GrantStoredBeforeReply'
<1>1. departed \subseteq departed' /\ stored \subseteq stored'
  BY Growth
<1>2. ASSUME UNCHANGED sent
      PROVE  MisdeliveryOnlyAfterDeparture' /\ GrantStoredBeforeReply'
  BY <1>1, <1>2 DEF MisdeliveryOnlyAfterDeparture, GrantStoredBeforeReply
<1>3. ASSUME NEW t \in tasks, Send(t)
      PROVE  MisdeliveryOnlyAfterDeparture' /\ GrantStoredBeforeReply'
  <2>1. t \in Tasks /\ TaskShape(t) /\ TaskInv(t) /\ t.pc = "send"
    BY <1>3 DEF Send, At, TypeOK, TasksInv
  <2>2. ASSUME NEW m \in sent' \ sent
        PROVE  /\ m.req = t.req /\ m.what = t.op /\ m.to \in Recipients(t)
               /\ m.pairs = Contents(t)
    BY <1>3, <2>2 DEF Send
  <2>3. ASSUME NEW m \in sent' \ sent, m.req # NoRequest, m.to # Owner[m.req]
        PROVE  Owner[m.req] \in departed'
    <3>1. t.op # "farewell" /\ t.req = m.req /\ m.to \in Recipients(t)
      BY <2>1, <2>2, <2>3 DEF TaskShape, Tasks
    <3>2. \/ t.target = NoPeer /\ Owner[t.req] \in departed
          \/ t.target = Owner[t.req]
      BY <2>1, <3>1 DEF TaskInv
    <3>3. Owner[t.req] # NoPeer
      BY <2>1, <2>3, <3>1, OwnerAssumption, NullAssumption DEF Tasks
    <3> QED
      BY <1>1, <2>3, <3>1, <3>2, <3>3 DEF Recipients
  <2>4. ASSUME NEW m \in sent' \ sent, m.what = "grant" PROVE m.pairs \subseteq stored'
    BY <1>1, <2>1, <2>2, <2>4 DEF Contents, TaskInv
  <2> QED
    BY <1>1, <2>3, <2>4 DEF MisdeliveryOnlyAfterDeparture, GrantStoredBeforeReply
<1> QED
  BY <1>2, <1>3
  DEF Next, Continue, Read, Write, Clear, Replace, Listen, Unsubscribe, Prompt,
      LookupMetadata, FindPeer, CollectPermissions, Start, AddPeer, RemovePeer,
      RemoveAllPeers, RemoveAll, RemoveEntry, Deliver, HandleRequest, Respond, vars, ghosts

-----------------------------------------------------------------------------
LEMMA InitIInv == Init => IInv
<1> SUFFICES ASSUME Init PROVE IInv
  OBVIOUS
<1>1. store \in Stores
  BY PersistedAssumption DEF Init, Stores, Pairs
<1>2. TypeOK
  BY <1>1 DEF Init, TypeOK, Stores
<1> QED
  BY <1>2 DEF Init, IInv, TasksInv, RequestsInv, Known, Recorded,
     MisdeliveryOnlyAfterDeparture, GrantStoredBeforeReply

LEMMA NextIInv == IInv /\ [Next]_vars => IInv'
BY TypeStep, TasksStep, RequestsStep, RecordedStep, SentStep DEF IInv, Recorded

\* The invariant holds of every behaviour of the wallet.
THEOREM Invariance == Spec => []IInv
BY InitIInv, NextIInv, PTL DEF Spec

\* Every variable and every suspended call has its type.
THEOREM TypeCorrect == Spec => []TypeOK
BY Invariance, PTL DEF IInv

\* A message about a request reaches another dApp only after the requester
\* left the peer list (respondToMessage, Transport.send).
THEOREM NoMisdeliveryBeforeDeparture == Spec => []MisdeliveryOnlyAfterDeparture
BY Invariance, PTL DEF IInv

\* No interleaving of readers and writers of the permission list brings up
\* a permission the user never granted (StorageManager, PermissionManager).
THEOREM OnlyGrantedPermissions == Spec => []PermissionsWereGranted
<1>1. IInv => PermissionsWereGranted
  BY DEF IInv, Recorded, PermissionsWereGranted
<1> QED
  BY <1>1, Invariance, PTL

\* A dApp is told of a permission only once the permission has been written
\* (persistGrantedPermissions before interceptorCallback).
THEOREM StoredBeforeTold == Spec => []GrantStoredBeforeReply
BY Invariance, PTL DEF IInv

-----------------------------------------------------------------------------
(* Counting prompts.  A task on its way to the app's callback counts as a  *)
(* prompt already, and so does a pending request that has none.            *)

Prompting(r) == {t \in tasks : t.op = "prompt" /\ t.req = r}
Open(r) == IF r \in pending THEN 1 ELSE 0

PromptInv ==
    /\ IsFiniteSet(tasks)
    /\ \A r \in Requests : prompts[r] + Cardinality(Prompting(r)) <= answers[r] + Open(r)

\* A step that starts no prompt leaves no more of them.
LEMMA PromptsRemain ==
    ASSUME IsFiniteSet(tasks), IsFiniteSet(tasks'), NEW r,
           \A t \in tasks' \ tasks : t.op # "prompt" \/ t.req # r
    PROVE  /\ Cardinality(Prompting(r)) \in Nat /\ Cardinality(Prompting(r)') \in Nat
           /\ Cardinality(Prompting(r)') <= Cardinality(Prompting(r))
<1>1. IsFiniteSet(Prompting(r)) /\ Prompting(r)' \subseteq Prompting(r)
  BY FS_Subset DEF Prompting
<1> QED
  BY <1>1, FS_Subset, FS_CardinalityType

\* Nor does a step that moves one.
LEMMA PromptMoved ==
    ASSUME IsFiniteSet(tasks), NEW t \in tasks, NEW u, NEW r,
           tasks' = (tasks \ {t}) \cup {u}, u.op = t.op, u.req = t.req
    PROVE  /\ IsFiniteSet(tasks')
           /\ Cardinality(Prompting(r)) \in Nat /\ Cardinality(Prompting(r)') \in Nat
           /\ Cardinality(Prompting(r)') <= Cardinality(Prompting(r))
<1>1. IsFiniteSet(tasks')
  BY FS_AddElement, FS_RemoveElement
<1>2. CASE t \in Prompting(r)
  <2> PICK rest : rest = Prompting(r) \ {t}
    OBVIOUS
  <2>1. IsFiniteSet(Prompting(r))
    BY FS_Subset DEF Prompting
  <2>2. /\ IsFiniteSet(rest) /\ Cardinality(rest) = Cardinality(Prompting(r)) - 1
        /\ Cardinality(rest) \in Nat /\ Cardinality(Prompting(r)) \in Nat
    BY <1>2, <2>1, FS_RemoveElement, FS_CardinalityType
  <2>3. Prompting(r)' \subseteq rest \cup {u}
    BY DEF Prompting
  <2>4. /\ IsFiniteSet(rest \cup {u})
        /\ Cardinality(rest \cup {u}) <= Cardinality(rest) + 1
    <3>1. IsFiniteSet(rest) /\ Cardinality(rest) \in Nat
      BY <2>2
    <3>2. /\ IsFiniteSet(rest \cup {u})
          /\ Cardinality(rest \cup {u})
               = IF u \in rest THEN Cardinality(rest) ELSE Cardinality(rest) + 1
      BY <3>1, FS_AddElement
    <3> QED
      BY <3>1, <3>2
  <2>5. /\ IsFiniteSet(Prompting(r)')
        /\ Cardinality(Prompting(r)') <= Cardinality(rest \cup {u})
    BY <2>3, <2>4, FS_Subset
  <2>6. Cardinality(Prompting(r)') \in Nat /\ Cardinality(rest \cup {u}) \in Nat
    BY <2>4, <2>5, FS_CardinalityType
  <2> QED
    BY <1>1, <2>2, <2>4, <2>5, <2>6
<1>3. CASE t \notin Prompting(r)
  BY <1>1, <1>3, PromptsRemain DEF Prompting
<1> QED
  BY <1>2, <1>3

\* A step that adds no prompt and leaves the rest of the count alone.
LEMMA PromptsKept ==
    ASSUME TypeOK, PromptInv, IsFiniteSet(tasks'), UNCHANGED <<prompts, answers, pending>>,
           \A r \in Requests :
              /\ Cardinality(Prompting(r)) \in Nat /\ Cardinality(Prompting(r)') \in Nat
              /\ Cardinality(Prompting(r)') <= Cardinality(Prompting(r))
    PROVE  PromptInv'
<1> SUFFICES ASSUME NEW r \in Requests
             PROVE  (prompts[r] + Cardinality(Prompting(r)) <= answers[r] + Open(r))'
  BY DEF PromptInv
<1>1. /\ prompts[r] \in Nat /\ answers[r] \in Nat /\ Open(r) \in Nat
      /\ prompts'[r] = prompts[r] /\ answers'[r] = answers[r] /\ Open(r)' = Open(r)
  BY DEF TypeOK, Open
<1>2. prompts[r] + Cardinality(Prompting(r)) <= answers[r] + Open(r)
  BY DEF PromptInv
<1> QED
  BY <1>1, <1>2

LEMMA PromptStep ==
    ASSUME TypeOK, TasksInv, PromptInv, [Next]_vars
    PROVE  PromptInv'
<1> DEFINE Kept == UNCHANGED <<prompts, answers, pending>>
<1>0. IsFiniteSet(tasks)
  BY DEF PromptInv
<1>1. ASSUME Kept, tasks' \subseteq tasks PROVE PromptInv'
  BY <1>0, <1>1, FS_Subset, PromptsRemain, PromptsKept
<1>2. ASSUME Kept, NEW t \in tasks, NEW u, u.op = t.op, u.req = t.req,
             tasks' = (tasks \ {t}) \cup {u}
      PROVE  PromptInv'
  <2>1. \A r \in Requests :
           /\ IsFiniteSet(tasks')
           /\ Cardinality(Prompting(r)) \in Nat /\ Cardinality(Prompting(r)') \in Nat
           /\ Cardinality(Prompting(r)') <= Cardinality(Prompting(r))
    BY <1>0, <1>2, PromptMoved
  <2>2. IsFiniteSet(tasks')
    BY <1>0, <1>2, FS_AddElement, FS_RemoveElement
  <2> QED
    BY <1>2, <2>1, <2>2, PromptsKept
<1>3. ASSUME Kept, NEW u, NEW v, tasks' = tasks \cup {u, v},
             u.op # "prompt", v.op # "prompt"
      PROVE  PromptInv'
  <2>1. tasks' = (tasks \cup {u}) \cup {v}
    BY <1>3
  <2>2. IsFiniteSet(tasks')
    BY <1>0, <2>1, FS_AddElement
  <2> QED
    BY <1>0, <1>3, <2>2, PromptsRemain, PromptsKept
<1>4. ASSUME NEW t \in tasks, t \in Tasks, NEW pc, Kept, Resume(t, pc) PROVE PromptInv'
  <2> PICK u : u = [t EXCEPT !.pc = pc]
    OBVIOUS
  <2> QED
    BY <1>2, <1>4 DEF Resume, Tasks
<1>5. ASSUME NEW t \in tasks, NEW entries, Replace(t, entries) PROVE PromptInv'
  BY <1>1, <1>4, <1>5 DEF Replace, AfterWrite, Finish, TypeOK
<1>6. ASSUME NEW t \in tasks, Read(t) PROVE PromptInv'
  <2> PICK u : u = [t EXCEPT !.pc = "write", !.snapshot = store[t.list]]
    OBVIOUS
  <2> QED
    BY <1>2, <1>6 DEF Read, TypeOK, Tasks, ghosts
<1>7. ASSUME NEW t \in tasks, FindPeer(t) PROVE PromptInv'
  <2> PICK peer : peer = IF Owner[t.req] \in store.peers THEN Owner[t.req] ELSE NoPeer
    OBVIOUS
  <2> PICK u : u = [t EXCEPT !.pc = "send", !.target = peer]
    OBVIOUS
  <2> QED
    BY <1>2, <1>7 DEF FindPeer, TypeOK, Tasks, ghosts
<1>8. ASSUME NEW t \in tasks, CollectPermissions(t) PROVE PromptInv'
  <2> PICK u : u = [t EXCEPT !.pc = "read", !.remove = ToRemove(t.dapps)]
    OBVIOUS
  <2> QED
    BY <1>2, <1>8 DEF CollectPermissions, TypeOK, Tasks, ghosts
<1>9. ASSUME NEW t \in tasks, Listen(t) \/ Unsubscribe(t) \/ LookupMetadata(t) \/ Send(t)
      PROVE  PromptInv'
  BY <1>1, <1>4, <1>9
  DEF Listen, Unsubscribe, LookupMetadata, Send, Finish, TypeOK, ghosts
<1>10. ASSUME NEW t \in tasks, Prompt(t) PROVE PromptInv'
  <2>1. t.op = "prompt" /\ t.req \in Requests /\ tasks' = tasks \ {t}
    BY <1>10 DEF Prompt, At, Finish, TasksInv, TaskShape
  <2>2. IsFiniteSet(tasks')
    BY <1>0, <2>1, FS_RemoveElement
  <2> SUFFICES ASSUME NEW r \in Requests
               PROVE  (prompts[r] + Cardinality(Prompting(r)) <= answers[r] + Open(r))'
    BY <2>2 DEF PromptInv
  <2>3. /\ prompts[r] \in Nat /\ answers[r] \in Nat /\ Open(r) \in Nat
        /\ answers'[r] = answers[r] /\ Open(r)' = Open(r)
        /\ prompts[r] + Cardinality(Prompting(r)) <= answers[r] + Open(r)
    BY <1>10 DEF Prompt, TypeOK, Open, PromptInv
  <2>4. CASE r = t.req
    <3>1. Prompting(r)' = Prompting(r) \ {t} /\ t \in Prompting(r)
      BY <2>1, <2>4 DEF Prompting
    <3>2. IsFiniteSet(Prompting(r))
      BY <1>0, FS_Subset DEF Prompting
    <3>3. /\ Cardinality(Prompting(r)') = Cardinality(Prompting(r)) - 1
          /\ Cardinality(Prompting(r)) \in Nat
      BY <3>1, <3>2, FS_RemoveElement, FS_CardinalityType
    <3>4. prompts'[r] = prompts[r] + 1 \/ prompts'[r] = prompts[r]
      BY <1>10, <2>4 DEF Prompt, TypeOK
    <3> QED
      BY <2>3, <3>3, <3>4
  <2>5. CASE r # t.req
    <3>1. prompts'[r] = prompts[r]
      BY <1>10, <2>5 DEF Prompt, TypeOK
    <3>2. /\ Cardinality(Prompting(r)') <= Cardinality(Prompting(r))
          /\ Cardinality(Prompting(r)) \in Nat /\ Cardinality(Prompting(r)') \in Nat
      BY <1>0, <2>1, <2>2, PromptsRemain
    <3> QED
      BY <2>3, <3>1, <3>2
  <2> QED
    BY <2>4, <2>5
<1>11. ASSUME NEW r \in Requests, HandleRequest(r) PROVE PromptInv'
  <2> PICK u : u = PromptTask(r)
    OBVIOUS
  <2> PICK v : v = Task("ack", "findPeer", "peers", r, answers[r])
    OBVIOUS
  <2>1. u.op = "prompt" /\ u.req = r /\ v.op = "ack"
    BY DEF PromptTask, Task
  <2>2. tasks' \subseteq (tasks \cup {u}) \cup {v} /\ (r \in pending => tasks' = tasks)
    BY <1>11 DEF HandleRequest
  <2>3. IsFiniteSet(tasks')
    BY <1>0, <2>2, FS_AddElement, FS_Subset
  <2> SUFFICES ASSUME NEW q \in Requests
               PROVE  (prompts[q] + Cardinality(Prompting(q)) <= answers[q] + Open(q))'
    BY <2>3 DEF PromptInv
  <2>4. /\ prompts[q] \in Nat /\ answers[q] \in Nat
        /\ answers'[q] = answers[q] /\ prompts'[q] = prompts[q]
        /\ prompts[q] + Cardinality(Prompting(q)) <= answers[q] + Open(q)
    BY <1>11 DEF HandleRequest, TypeOK, PromptInv, ghosts
  <2>5. CASE q = r /\ r \notin pending
    <3>1. Open(q) = 0 /\ Open(q)' = 1
      BY <1>11, <2>5 DEF Open, HandleRequest
    <3>2. Prompting(q)' \subseteq Prompting(q) \cup {u}
      BY <2>1, <2>2, <2>5 DEF Prompting
    <3>3. IsFiniteSet(Prompting(q)) /\ Cardinality(Prompting(q)) \in Nat
      BY <1>0, FS_Subset, FS_CardinalityType DEF Prompting
    <3>4. /\ IsFiniteSet(Prompting(q) \cup {u})
          /\ Cardinality(Prompting(q) \cup {u}) <= Cardinality(Prompting(q)) + 1
      BY <3>3, FS_AddElement
    <3>5. /\ Cardinality(Prompting(q)') <= Cardinality(Prompting(q) \cup {u})
          /\ Cardinality(Prompting(q)') \in Nat
          /\ Cardinality(Prompting(q) \cup {u}) \in Nat
      BY <3>2, <3>4, FS_Subset, FS_CardinalityType
    <3> QED
      BY <2>4, <3>1, <3>3, <3>4, <3>5
  <2>6. CASE ~(q = r /\ r \notin pending)
    <3>1. Open(q)' = Open(q) /\ Open(q) \in Nat
      BY <1>11, <2>6 DEF Open, HandleRequest
    <3>2. \A t \in tasks' \ tasks : t.op # "prompt" \/ t.req # q
      BY <2>1, <2>2, <2>6
    <3>3. /\ Cardinality(Prompting(q)') <= Cardinality(Prompting(q))
          /\ Cardinality(Prompting(q)) \in Nat /\ Cardinality(Prompting(q)') \in Nat
      BY <1>0, <2>3, <3>2, PromptsRemain
    <3> QED
      BY <2>4, <3>1, <3>3
  <2> QED
    BY <2>5, <2>6
<1>12. ASSUME NEW r \in Requests, NEW accounts, Respond(r, accounts) PROVE PromptInv'
  <2> PICK u : u = IF accounts = {}
                   THEN Task("reply", "findPeer", "peers", r, answers[r])
                   ELSE [Task("grant", "lookup", "permissions", r, answers[r])
                            EXCEPT !.add = Permissions(r, accounts)]
    OBVIOUS
  <2>1. tasks' = tasks \cup {u} /\ u.op # "prompt"
    BY <1>12 DEF Respond, Task
  <2>2. IsFiniteSet(tasks')
    BY <1>0, <2>1, FS_AddElement
  <2> SUFFICES ASSUME NEW q \in Requests
               PROVE  (prompts[q] + Cardinality(Prompting(q)) <= answers[q] + Open(q))'
    BY <2>2 DEF PromptInv
  <2>3. /\ prompts[q] \in Nat /\ answers[q] \in Nat /\ prompts'[q] = prompts[q]
        /\ answers'[q] \in Nat /\ answers'[q] + Open(q)' = answers[q] + Open(q)
        /\ prompts[q] + Cardinality(Prompting(q)) <= answers[q] + Open(q)
    BY <1>12 DEF Respond, TypeOK, PromptInv, Open
  <2>4. /\ Cardinality(Prompting(q)') <= Cardinality(Prompting(q))
        /\ Cardinality(Prompting(q)) \in Nat /\ Cardinality(Prompting(q)') \in Nat
    BY <1>0, <2>1, <2>2, PromptsRemain
  <2>5. Open(q) \in Nat /\ Open(q)' \in Nat
    BY DEF Open
  <2> QED
    BY <2>3, <2>4, <2>5
<1>13. ASSUME NEW r, Deliver(r) PROVE PromptInv'
  BY <1>1, <1>13 DEF Deliver, ghosts
<1>14. ASSUME NEW d, AddPeer(d) PROVE PromptInv'
  <2> PICK u : u = [Call("pair", "read", "peers") EXCEPT !.dapps = {d}, !.add = {d}]
    OBVIOUS
  <2>1. tasks' = tasks \cup {u, u} /\ Kept
    BY <1>14 DEF AddPeer, Start, ghosts
  <2>2. u.op # "prompt"
    BY DEF Call, Task
  <2> QED
    BY <1>3, <2>1, <2>2
<1>15. ASSUME NEW d, NEW op \in {"forget", "farewell"}, RemovePeer(d, op) PROVE PromptInv'
  <2> PICK u : u = [Call("unpeer", "read", "peers") EXCEPT !.dapps = {d}, !.remove = {d}]
    OBVIOUS
  <2> PICK v : v = [Call(op, "collect", "permissions") EXCEPT !.dapps = {d}]
    OBVIOUS
  <2>1. tasks' = tasks \cup {u, v} /\ Kept
    BY <1>15 DEF RemovePeer, Start, ghosts
  <2>2. u.op # "prompt" /\ v.op # "prompt"
    BY DEF Call, Task
  <2> QED
    BY <1>3, <2>1, <2>2
<1>16. ASSUME NEW op \in {"forget", "farewell"}, RemoveAllPeers(op) PROVE PromptInv'
  <2> PICK u : u = [Call("unpeer", "clear", "peers") EXCEPT !.dapps = DApps]
    OBVIOUS
  <2> PICK v : v = [Call(op, "collect", "permissions") EXCEPT !.dapps = store.peers]
    OBVIOUS
  <2>1. tasks' = tasks \cup {u, v} /\ Kept
    BY <1>16 DEF RemoveAllPeers, Start, ghosts
  <2>2. u.op # "prompt" /\ v.op # "prompt"
    BY DEF Call, Task
  <2> QED
    BY <1>3, <2>1, <2>2
<1>17. ASSUME NEW list, RemoveAll(list) PROVE PromptInv'
  <2> PICK u : u = Call("edit", "clear", list)
    OBVIOUS
  <2>1. tasks' = tasks \cup {u, u} /\ Kept
    BY <1>17 DEF RemoveAll, Start, ghosts
  <2>2. u.op # "prompt"
    BY DEF Call, Task
  <2> QED
    BY <1>3, <2>1, <2>2
<1>18. ASSUME NEW list, NEW e, RemoveEntry(list, e) PROVE PromptInv'
  <2> PICK u : u = [Call("edit", "read", list) EXCEPT !.remove = {e}]
    OBVIOUS
  <2>1. tasks' = tasks \cup {u, u} /\ Kept
    BY <1>18 DEF RemoveEntry, Start, ghosts
  <2>2. u.op # "prompt"
    BY DEF Call, Task
  <2> QED
    BY <1>3, <2>1, <2>2
<1>19. CASE UNCHANGED vars
  BY <1>1, <1>19 DEF vars
<1> QED
  BY <1>5, <1>6, <1>7, <1>8, <1>9, <1>10, <1>11, <1>12, <1>13, <1>14, <1>15, <1>16,
     <1>17, <1>18, <1>19 DEF Next, Continue, Write, Clear

\* The app is prompted at most once more than it has answered, however often
\* a request is delivered (handleResponse's look into pendingRequests).
THEOREM PromptsBounded == Spec => []PromptedOncePerAnswer
<1>1. Init => PromptInv
  BY FS_EmptySet DEF Init, PromptInv, Prompting, Open
<1>2. TypeOK /\ TasksInv /\ PromptInv /\ [Next]_vars => PromptInv'
  BY PromptStep
<1>3. IInv => TypeOK /\ TasksInv
  BY DEF IInv
<1>4. TypeOK /\ PromptInv => PromptedOncePerAnswer
  <2> SUFFICES ASSUME TypeOK, PromptInv, NEW r \in Requests
               PROVE  prompts[r] <= answers[r] + 1
    BY DEF PromptedOncePerAnswer
  <2>1. Cardinality(Prompting(r)) \in Nat
    BY FS_Subset, FS_CardinalityType DEF PromptInv, Prompting
  <2> QED
    BY <2>1 DEF PromptInv, TypeOK, Open
<1> QED
  BY <1>1, <1>2, <1>3, <1>4, Invariance, PTL DEF Spec

-----------------------------------------------------------------------------
(* Answers and acknowledgements.  Once a task is to send one, it finds the *)
(* requester among the peers and sends to it, unless the requester left.   *)

AnswerShape(t) ==
    /\ t.op \in {"ack", "reply"} => t.pc \in {"findPeer", "send"}
    /\ t.op = "grant" => \A p \in t.add : p[1] = Owner[t.req]
    /\ t.list = "permissions" => /\ t.op # "grant" => t.add = {}
                                 /\ t.snapshot \subseteq stored

AnswersInv == \A t \in tasks : AnswerShape(t)

\* Only what a step puts among the tasks has to be looked at.
LEMMA AnswersKept ==
    ASSUME AnswersInv, [Next]_vars, \A u \in tasks' \ tasks : AnswerShape(u)'
    PROVE  AnswersInv'
BY Growth DEF AnswersInv, AnswerShape

\* A task that is no acknowledgement or reply may resume at any step.
LEMMA AnswerResumes ==
    ASSUME TypeOK, AnswersInv, [Next]_vars, NEW t \in tasks, NEW pc, Resume(t, pc),
           t.pc \notin {"findPeer", "send"}
    PROVE  AnswersInv'
<1>1. t \in Tasks /\ AnswerShape(t)
  BY DEF TypeOK, AnswersInv
<1>2. AnswerShape([t EXCEPT !.pc = pc])'
  BY <1>1, Growth DEF AnswerShape, Tasks
<1> QED
  BY <1>2, AnswersKept DEF Resume

\* A task that stores nothing and serves no request.
LEMMA NoAnswer ==
    ASSUME NEW u, u.op \notin {"ack", "reply", "grant"},
           u.list = "permissions" => u.add = {} /\ u.snapshot = {}
    PROVE  AnswerShape(u)'
BY DEF AnswerShape

\* Every step keeps the tasks that answer in shape.
LEMMA AnswersStep ==
    ASSUME TypeOK, TasksInv, AnswersInv, Recorded, [Next]_vars
    PROVE  AnswersInv'
<1>0. ASSUME NEW t \in tasks PROVE t \in Tasks /\ TaskShape(t) /\ AnswerShape(t)
  BY DEF TypeOK, TasksInv, AnswersInv
<1>1. CASE tasks' \subseteq tasks
  BY <1>1, AnswersKept
<1>2. ASSUME NEW t \in tasks, Read(t) PROVE AnswersInv'
  <2> PICK u : u = [t EXCEPT !.pc = "write", !.snapshot = store[t.list]]
    OBVIOUS
  <2>1. t.list = "permissions" => store[t.list] \subseteq stored
    BY DEF Recorded
  <2>2. AnswerShape(u)'
    BY <1>0, <1>2, <2>1, Growth DEF AnswerShape, Tasks, Read, At
  <2> QED
    BY <1>2, <2>2, AnswersKept DEF Read
<1>3. ASSUME NEW t \in tasks, NEW entries, Replace(t, entries),
             t.pc \in {"write", "clear"}
      PROVE  AnswersInv'
  BY <1>1, <1>3, AnswerResumes DEF Replace, AfterWrite, Finish
<1>4. ASSUME NEW t \in tasks, LookupMetadata(t) PROVE AnswersInv'
  BY <1>1, <1>4, AnswerResumes DEF LookupMetadata, At, Finish
<1>5. ASSUME NEW t \in tasks, FindPeer(t) PROVE AnswersInv'
  <2> PICK peer : peer = IF Owner[t.req] \in store.peers THEN Owner[t.req] ELSE NoPeer
    OBVIOUS
  <2> PICK u : u = [t EXCEPT !.pc = "send", !.target = peer]
    OBVIOUS
  <2>1. AnswerShape(u)'
    BY <1>0, <1>5, Growth DEF AnswerShape, Tasks
  <2> QED
    BY <1>5, <2>1, AnswersKept DEF FindPeer
<1>6. ASSUME NEW t \in tasks, CollectPermissions(t) PROVE AnswersInv'
  <2> PICK u : u = [t EXCEPT !.pc = "read", !.remove = ToRemove(t.dapps)]
    OBVIOUS
  <2>1. AnswerShape(u)'
    BY <1>0, <1>6, Growth DEF AnswerShape, Tasks, CollectPermissions, At
  <2> QED
    BY <1>6, <2>1, AnswersKept DEF CollectPermissions
<1>7. ASSUME NEW t \in tasks, Continue(t) PROVE AnswersInv'
  <2>1. CASE Write(t)
    BY <1>3, <2>1 DEF Write, At
  <2>2. CASE Clear(t)
    BY <1>3, <2>2 DEF Clear, At
  <2>3. CASE Listen(t) \/ Unsubscribe(t) \/ Prompt(t) \/ Send(t)
    BY <1>1, <2>3 DEF Listen, Unsubscribe, Prompt, Send, Finish
  <2> QED
    BY <1>2, <1>4, <1>5, <1>6, <1>7, <2>1, <2>2, <2>3 DEF Continue
<1>8. ASSUME NEW new, Start(new), \A u \in new : AnswerShape(u)' PROVE AnswersInv'
  BY <1>8, AnswersKept DEF Start
<1>9. ASSUME NEW d \in DApps, AddPeer(d) PROVE AnswersInv'
  <2> PICK u : u = [Call("pair", "read", "peers") EXCEPT !.dapps = {d}, !.add = {d}]
    OBVIOUS
  <2>1. AnswerShape(u)'
    BY NoAnswer DEF Call, Task
  <2> QED
    BY <1>8, <1>9, <2>1 DEF AddPeer
<1>10. ASSUME NEW d \in DApps, NEW op \in {"forget", "farewell"}, RemovePeer(d, op)
       PROVE  AnswersInv'
  <2> PICK u : u = [Call("unpeer", "read", "peers") EXCEPT !.dapps = {d}, !.remove = {d}]
    OBVIOUS
  <2> PICK v : v = [Call(op, "collect", "permissions") EXCEPT !.dapps = {d}]
    OBVIOUS
  <2>1. AnswerShape(u)' /\ AnswerShape(v)'
    BY NoAnswer DEF Call, Task
  <2> QED
    BY <1>8, <1>10, <2>1 DEF RemovePeer
<1>11. ASSUME NEW op \in {"forget", "farewell"}, RemoveAllPeers(op) PROVE AnswersInv'
  <2> PICK u : u = [Call("unpeer", "clear", "peers") EXCEPT !.dapps = DApps]
    OBVIOUS
  <2> PICK v : v = [Call(op, "collect", "permissions") EXCEPT !.dapps = store.peers]
    OBVIOUS
  <2>1. AnswerShape(u)' /\ AnswerShape(v)'
    BY NoAnswer DEF Call, Task
  <2> QED
    BY <1>8, <1>11, <2>1 DEF RemoveAllPeers
<1>12. ASSUME NEW list \in {"metadata", "permissions"},
              RemoveAll(list) \/ \E e \in Entries : RemoveEntry(list, e)
       PROVE  AnswersInv'
  <2>1. ASSUME NEW e, RemoveEntry(list, e) PROVE AnswersInv'
    <3> PICK u : u = [Call("edit", "read", list) EXCEPT !.remove = {e}]
      OBVIOUS
    <3>1. AnswerShape(u)'
      BY NoAnswer DEF Call, Task
    <3> QED
      BY <1>8, <2>1, <3>1 DEF RemoveEntry
  <2>2. CASE RemoveAll(list)
    <3> PICK u : u = Call("edit", "clear", list)
      OBVIOUS
    <3>1. AnswerShape(u)'
      BY NoAnswer DEF Call, Task
    <3> QED
      BY <1>8, <2>2, <3>1 DEF RemoveAll
  <2> QED
    BY <1>12, <2>1, <2>2
<1>13. ASSUME NEW r \in Requests, HandleRequest(r) PROVE AnswersInv'
  <2> PICK u : u = PromptTask(r)
    OBVIOUS
  <2> PICK v : v = Task("ack", "findPeer", "peers", r, answers[r])
    OBVIOUS
  <2>1. AnswerShape(u)'
    BY NoAnswer DEF PromptTask, Task
  <2>2. AnswerShape(v)'
    BY DEF AnswerShape, Task
  <2>3. tasks' \subseteq tasks \cup {u, v}
    BY <1>13 DEF HandleRequest
  <2> QED
    BY <2>1, <2>2, <2>3, AnswersKept
<1>14. ASSUME NEW r \in Requests, NEW accounts, Respond(r, accounts) PROVE AnswersInv'
  <2> PICK u : u = Task("reply", "findPeer", "peers", r, answers[r])
    OBVIOUS
  <2> PICK v : v = [Task("grant", "lookup", "permissions", r, answers[r])
                      EXCEPT !.add = Permissions(r, accounts)]
    OBVIOUS
  <2>1. AnswerShape(u)'
    BY DEF AnswerShape, Task
  <2>2. v.op = "grant" /\ v.add = Permissions(r, accounts) /\ v.req = r /\ v.snapshot = {}
    BY DEF Task
  <2>3. AnswerShape(v)'
    BY <2>2 DEF AnswerShape, Permissions
  <2>4. tasks' \subseteq tasks \cup {u, v}
    BY <1>14 DEF Respond
  <2> QED
    BY <2>1, <2>3, <2>4, AnswersKept
<1>15. ASSUME NEW r \in Requests, Deliver(r) PROVE AnswersInv'
  BY <1>1, <1>15 DEF Deliver
<1>16. CASE UNCHANGED vars
  BY <1>1, <1>16 DEF vars
<1> QED
  BY <1>7, <1>9, <1>10, <1>11, <1>12, <1>13, <1>14, <1>15, <1>16 DEF Next

\* Nothing that was sent is unsent.
LEMMA SentGrows == [Next]_vars => sent \subseteq sent'
<1> SUFFICES ASSUME [Next]_vars PROVE sent \subseteq sent'
  OBVIOUS
<1>1. CASE UNCHANGED sent
  BY <1>1
<1>2. ASSUME NEW t, Send(t) PROVE sent \subseteq sent'
  BY <1>2 DEF Send
<1> QED
  BY <1>1, <1>2
  DEF Next, Continue, Read, Write, Clear, Replace, Listen, Unsubscribe, Prompt,
      LookupMetadata, FindPeer, CollectPermissions, Start, AddPeer, RemovePeer,
      RemoveAllPeers, RemoveAll, RemoveEntry, Deliver, HandleRequest, Respond, vars, ghosts

\* A step keeps every suspended call but the one it resumes.
LEMMA OthersWait ==
    ASSUME [Next]_vars, NEW t \in tasks, t \notin tasks'
    PROVE  Continue(t)
<1>1. ASSUME NEW s \in tasks, Continue(s), s # t PROVE t \in tasks'
  BY <1>1 DEF Continue, Read, Write, Clear, Replace, AfterWrite, Listen, Unsubscribe,
     Prompt, LookupMetadata, FindPeer, Send, CollectPermissions, Resume, Finish
<1>2. ASSUME NEW new, Start(new) PROVE t \in tasks'
  BY <1>2 DEF Start
<1>3. ASSUME NEW r, NEW accounts, Deliver(r) \/ HandleRequest(r) \/ Respond(r, accounts)
      PROVE  t \in tasks'
  BY <1>3 DEF Deliver, HandleRequest, Respond
<1>4. CASE UNCHANGED vars
  BY <1>4 DEF vars
<1> QED
  BY <1>1, <1>2, <1>3, <1>4
  DEF Next, AddPeer, RemovePeer, RemoveAllPeers, RemoveAll, RemoveEntry

\* An answer to a dApp that has not left moves on, or has gone to it.
LEMMA AnswerMovesOn ==
    ASSUME TypeOK, TasksInv, [Next]_vars, NEW t \in tasks,
           t.op \in {"ack", "reply", "grant"}, t.pc \in {"findPeer", "send"},
           Owner[t.req] \notin departed
    PROVE  \/ \E u \in tasks' : /\ u.op = t.op /\ u.req = t.req /\ u.add = t.add
                                /\ u.pc \in {"findPeer", "send"}
           \/ \E m \in sent' : /\ m.what = t.op /\ m.req = t.req
                               /\ m.to = Owner[t.req] /\ m.pairs = Contents(t)
<1>1. t \in Tasks /\ TaskShape(t) /\ TaskInv(t)
  BY DEF TypeOK, TasksInv
<1>2. CASE t \in tasks'
  BY <1>2
<1>3. CASE FindPeer(t)
  <2> PICK peer : peer = IF Owner[t.req] \in store.peers THEN Owner[t.req] ELSE NoPeer
    OBVIOUS
  <2> PICK u : u = [t EXCEPT !.pc = "send", !.target = peer]
    OBVIOUS
  <2>1. u.op = t.op /\ u.req = t.req /\ u.add = t.add /\ u.pc = "send"
    BY <1>1 DEF Tasks
  <2>2. u \in tasks'
    BY <1>3 DEF FindPeer
  <2> QED
    BY <2>1, <2>2
<1>4. CASE Send(t)
  <2>1. t.target = Owner[t.req] /\ t.req \in Requests
    BY <1>1, <1>4 DEF TaskInv, TaskShape, Send, At
  <2>2. Owner[t.req] \in Recipients(t)
    BY <2>1, OwnerAssumption, NullAssumption DEF Recipients
  <2> PICK m : m = [to |-> Owner[t.req], req |-> t.req, what |-> t.op, pairs |-> Contents(t)]
    OBVIOUS
  <2>3. m \in sent'
    BY <1>4, <2>2 DEF Send
  <2> QED
    BY <2>3
<1>5. CASE t \notin tasks'
  <2>1. Continue(t)
    BY <1>5, OthersWait
  <2>2. FindPeer(t) \/ Send(t)
    BY <2>1 DEF Continue, Read, Write, Clear, Listen, Unsubscribe, Prompt, LookupMetadata,
       CollectPermissions, At
  <2> QED
    BY <1>3, <1>4, <2>2
<1> QED
  BY <1>2, <1>5

-----------------------------------------------------------------------------
(* The answers.                                                            *)

\* An answer to a dApp that never left the peer list is not lost: it is on its
\* way to that dApp, or went there (respond).  A permission that was ever written
\* is told to its dApp, whatever edits the lists undergo meanwhile.
AnswersReachTheirDApp ==
    /\ \A p \in stored \ Persisted.permissions :
          p[1] \notin departed =>
             \/ \E t \in At("findPeer") \cup At("send") : t.op = "grant" /\ p \in t.add
             \/ \E m \in sent : m.what = "grant" /\ m.to = p[1] /\ p \in m.pairs
    /\ \A r \in Requests :
          answers[r] > 0 /\ Kind[r] # "permission" /\ Owner[r] \notin departed =>
             \/ \E t \in tasks : t.op = "reply" /\ t.req = r
             \/ \E m \in sent : m.what = "reply" /\ m.to = Owner[r] /\ m.req = r

\* A permission not on record before is written by the call that will tell of it.
LEMMA NewlyStored ==
    ASSUME TypeOK, TasksInv, AnswersInv, Recorded, [Next]_vars, NEW p \in stored' \ stored
    PROVE  \E u \in tasks' : u.op = "grant" /\ u.pc = "findPeer" /\ p \in u.add
<1>1. ASSUME NEW t \in tasks, NEW entries, Replace(t, entries)
      PROVE  t.list = "permissions" /\ p \in entries
  <2>1. store \in Stores /\ t.list \in {"peers", "metadata", "permissions"}
    BY DEF TypeOK, Tasks
  <2> QED
    BY <1>1, <2>1 DEF Replace, Recorded, Stores
<1>2. ASSUME NEW t \in tasks, Write(t)
      PROVE  \E u \in tasks' : u.op = "grant" /\ u.pc = "findPeer" /\ p \in u.add
  <2>1. t \in Tasks /\ AnswerShape(t) /\ t.list = "permissions" /\ p \in Edited(t)
    BY <1>1, <1>2 DEF Write, TypeOK, AnswersInv
  <2>2. p \in t.add /\ t.op = "grant"
    BY <2>1 DEF AnswerShape, Edited
  <2>3. [t EXCEPT !.pc = "findPeer"] \in tasks'
    BY <1>2, <2>2 DEF Write, Replace, AfterWrite, Resume
  <2> QED
    BY <2>1, <2>2, <2>3 DEF Tasks
<1>3. ASSUME NEW t \in tasks, Clear(t) PROVE FALSE
  BY <1>1, <1>3 DEF Clear
<1>4. CASE UNCHANGED stored
  BY <1>4
<1> QED
  BY <1>2, <1>3, <1>4
  DEF Next, Continue, Read, Listen, Unsubscribe, Prompt, LookupMetadata, FindPeer, Send,
      CollectPermissions, Start, AddPeer, RemovePeer, RemoveAllPeers, RemoveAll,
      RemoveEntry, Deliver, HandleRequest, Respond, vars, ghosts

\* A permission stays told, or about to be told.
LEMMA PermissionToldStep ==
    ASSUME TypeOK, TasksInv, AnswersInv, Recorded, AnswersReachTheirDApp, [Next]_vars,
           NEW p \in stored' \ Persisted.permissions, p[1] \notin departed'
    PROVE  \/ \E t \in tasks' : /\ t.pc \in {"findPeer", "send"} /\ t.op = "grant"
                                /\ p \in t.add
           \/ \E m \in sent' : m.what = "grant" /\ m.to = p[1] /\ p \in m.pairs
<1>1. departed \subseteq departed' /\ sent \subseteq sent'
  BY Growth, SentGrows
<1>2. CASE p \notin stored
  BY <1>2, NewlyStored
<1>3. CASE \E m \in sent : m.what = "grant" /\ m.to = p[1] /\ p \in m.pairs
  BY <1>1, <1>3
<1>4. ASSUME NEW t \in tasks, t.pc \in {"findPeer", "send"}, t.op = "grant", p \in t.add
      PROVE  \/ \E u \in tasks' : /\ u.pc \in {"findPeer", "send"} /\ u.op = "grant"
                                  /\ p \in u.add
             \/ \E m \in sent' : m.what = "grant" /\ m.to = p[1] /\ p \in m.pairs
  <2>1. p[1] = Owner[t.req]
    BY <1>4 DEF AnswersInv, AnswerShape
  <2>2. Owner[t.req] \notin departed /\ Contents(t) = t.add
    BY <1>1, <1>4, <2>1 DEF Contents
  <2> QED
    BY <1>4, <2>1, <2>2, AnswerMovesOn
<1> QED
  BY <1>1, <1>2, <1>3, <1>4 DEF AnswersReachTheirDApp, At

\* So does the answer to a request of another kind.
LEMMA ReplyStep ==
    ASSUME TypeOK, TasksInv, AnswersInv, AnswersReachTheirDApp, [Next]_vars,
           NEW r \in Requests, answers'[r] > 0, Kind[r] # "permission",
           Owner[r] \notin departed'
    PROVE  \/ \E t \in tasks' : t.op = "reply" /\ t.req = r
           \/ \E m \in sent' : m.what = "reply" /\ m.to = Owner[r] /\ m.req = r
<1>1. departed \subseteq departed' /\ sent \subseteq sent'
  BY Growth, SentGrows
<1>2. CASE answers[r] > 0
  <2>1. CASE \E m \in sent : m.what = "reply" /\ m.to = Owner[r] /\ m.req = r
    BY <1>1, <2>1
  <2>2. ASSUME NEW t \in tasks, t.op = "reply", t.req = r
        PROVE  \/ \E u \in tasks' : u.op = "reply" /\ u.req = r
               \/ \E m \in sent' : m.what = "reply" /\ m.to = Owner[r] /\ m.req = r
    <3>1. t.pc \in {"findPeer", "send"}
      BY <2>2 DEF AnswersInv, AnswerShape
    <3> QED
      BY <1>1, <2>2, <3>1, AnswerMovesOn
  <2> QED
    BY <1>1, <1>2, <2>1, <2>2 DEF AnswersReachTheirDApp
<1>3. ASSUME NEW accounts, Respond(r, accounts)
      PROVE  \E t \in tasks' : t.op = "reply" /\ t.req = r
  <2>1. Task("reply", "findPeer", "peers", r, answers[r]) \in tasks'
    BY <1>3 DEF Respond
  <2> QED
    BY <2>1 DEF Task
<1>4. CASE answers'[r] = answers[r]
  BY <1>2, <1>4
<1>5. ASSUME NEW s \in Requests, NEW accounts, Respond(s, accounts), s # r
      PROVE  answers'[r] = answers[r]
  BY <1>5 DEF Respond, TypeOK
<1> QED
  BY <1>3, <1>4, <1>5
  DEF Next, Continue, Read, Write, Clear, Replace, Listen, Unsubscribe, Prompt,
      LookupMetadata, FindPeer, Send, CollectPermissions, Start, AddPeer, RemovePeer,
      RemoveAllPeers, RemoveAll, RemoveEntry, Deliver, HandleRequest, vars, ghosts

LEMMA AnswersInvariance == Spec => []AnswersInv
<1>1. Init => AnswersInv
  BY DEF Init, AnswersInv
<1>2. IInv /\ AnswersInv /\ [Next]_vars => AnswersInv'
  BY AnswersStep DEF IInv
<1> QED
  BY <1>1, <1>2, Invariance, PTL DEF Spec

\* The answer to a dApp that stays a peer is never lost: it is on its way, or
\* went to that dApp; in particular a permission on the list is one its dApp
\* hears of (respond).
THEOREM NoAnswerIsLost == Spec => []AnswersReachTheirDApp
<1>1. Init => AnswersReachTheirDApp
  BY DEF Init, AnswersReachTheirDApp
<1>2. IInv /\ AnswersInv /\ AnswersReachTheirDApp /\ [Next]_vars => AnswersReachTheirDApp'
  <2> SUFFICES ASSUME IInv, AnswersInv, AnswersReachTheirDApp, [Next]_vars
               PROVE  AnswersReachTheirDApp'
    OBVIOUS
  <2>1. TypeOK /\ TasksInv /\ Recorded
    BY DEF IInv
  <2>2. \A p \in stored' \ Persisted.permissions : p[1] \notin departed' =>
           \/ \E t \in tasks' : /\ t.pc \in {"findPeer", "send"} /\ t.op = "grant"
                                /\ p \in t.add
           \/ \E m \in sent' : m.what = "grant" /\ m.to = p[1] /\ p \in m.pairs
    BY <2>1, PermissionToldStep
  <2>3. \A r \in Requests :
           answers'[r] > 0 /\ Kind[r] # "permission" /\ Owner[r] \notin departed' =>
              \/ \E t \in tasks' : t.op = "reply" /\ t.req = r
              \/ \E m \in sent' : m.what = "reply" /\ m.to = Owner[r] /\ m.req = r
    BY <2>1, ReplyStep
  <2> QED
    BY <2>2, <2>3 DEF AnswersReachTheirDApp, At
<1> QED
  BY <1>1, <1>2, Invariance, AnswersInvariance, PTL DEF Spec

-----------------------------------------------------------------------------
(* The acknowledgements.  A pending request has been taken up, and so has  *)
(* one whose copies are all handled.                                       *)

Acknowledged(r) ==
    \/ \E t \in tasks : t.op = "ack" /\ t.req = r
    \/ \E m \in sent : m.what = "ack" /\ m.to = Owner[r] /\ m.req = r

\* Dropping copies loses no request: while its dApp stays a peer, a delivered
\* request has a copy yet to be handled, or its acknowledgement is on the way to
\* that dApp or went there (handleResponse).
CopiesDropNoRequest ==
    \A r \in Requests :
        delivered[r] > 0 /\ Kind[r] # "unsupported" /\ Owner[r] \notin departed =>
           incoming[r] > 0 \/ Acknowledged(r)

CopiesInv ==
    \A r \in Requests :
        /\ Kind[r] # "unsupported" /\ Owner[r] \notin departed
        /\ r \in pending \/ (delivered[r] > 0 /\ incoming[r] = 0)
        => Acknowledged(r)

\* An acknowledgement to a dApp that has not left is kept, or went there.
LEMMA AckStep ==
    ASSUME TypeOK, TasksInv, AnswersInv, [Next]_vars,
           NEW r \in Requests, Acknowledged(r), Owner[r] \notin departed
    PROVE  Acknowledged(r)'
<1>1. CASE \E m \in sent : m.what = "ack" /\ m.to = Owner[r] /\ m.req = r
  BY <1>1, SentGrows DEF Acknowledged
<1>2. ASSUME NEW t \in tasks, t.op = "ack", t.req = r PROVE Acknowledged(r)'
  <2>1. t.pc \in {"findPeer", "send"}
    BY <1>2 DEF AnswersInv, AnswerShape
  <2> QED
    BY <1>2, <2>1, AnswerMovesOn DEF Acknowledged
<1> QED
  BY <1>1, <1>2 DEF Acknowledged

\* A request is taken up by handling it, and by nothing else.
LEMMA CopiesStep ==
    ASSUME TypeOK, TasksInv, AnswersInv, CopiesInv, [Next]_vars
    PROVE  CopiesInv'
<1> DEFINE TakenUp(r) == r \in pending \/ (delivered[r] > 0 /\ incoming[r] = 0)
<1> SUFFICES ASSUME NEW r \in Requests, Kind[r] # "unsupported",
                    Owner[r] \notin departed', TakenUp(r)'
             PROVE  Acknowledged(r)'
  BY DEF CopiesInv
<1>1. Owner[r] \notin departed
  BY Growth
<1>2. CASE TakenUp(r)
  BY <1>1, <1>2, AckStep DEF CopiesInv
<1>3. CASE HandleRequest(r)
  <2>1. CASE r \in pending
    BY <1>2, <2>1
  <2>2. CASE r \notin pending
    <3>1. Task("ack", "findPeer", "peers", r, answers[r]) \in tasks'
      BY <1>3, <2>2 DEF HandleRequest
    <3> QED
      BY <3>1 DEF Task, Acknowledged
  <2> QED
    BY <2>1, <2>2
<1>4. CASE Deliver(r)
  <2>1. incoming'[r] > 0 /\ incoming'[r] # 0 /\ pending' = pending
    BY <1>4 DEF Deliver, TypeOK
  <2> QED
    BY <1>2, <2>1
<1>5. ASSUME NEW s \in Requests, s # r, Deliver(s) \/ HandleRequest(s)
      PROVE  TakenUp(r)
  BY <1>5 DEF Deliver, HandleRequest, TypeOK
<1>6. ASSUME NEW s \in Requests, NEW accounts, Respond(s, accounts) PROVE TakenUp(r)
  BY <1>6 DEF Respond
<1>7. CASE UNCHANGED <<pending, delivered, incoming>>
  BY <1>2, <1>7
<1> QED
  BY <1>2, <1>3, <1>4, <1>5, <1>6, <1>7
  DEF Next, Continue, Read, Write, Clear, Replace, Listen, Unsubscribe, Prompt,
      LookupMetadata, FindPeer, Send, CollectPermissions, Start, AddPeer, RemovePeer,
      RemoveAllPeers, RemoveAll, RemoveEntry, vars, ghosts

\* Copies are dropped without losing the request: while its dApp stays a peer,
\* a delivered request is still to be handled, being acknowledged, or
\* acknowledged to that dApp (handleResponse's look into pendingRequests).
THEOREM NoRequestIsLost == Spec => []CopiesDropNoRequest
<1>1. Init => CopiesInv
  BY DEF Init, CopiesInv
<1>2. IInv /\ AnswersInv /\ CopiesInv /\ [Next]_vars => CopiesInv'
  BY CopiesStep DEF IInv
<1>3. IInv /\ CopiesInv => CopiesDropNoRequest
  <2> SUFFICES ASSUME IInv, CopiesInv, NEW r \in Requests, delivered[r] > 0,
                      Kind[r] # "unsupported", Owner[r] \notin departed,
                      ~(incoming[r] > 0)
               PROVE  Acknowledged(r)
    BY DEF CopiesDropNoRequest
  <2>1. incoming[r] = 0
    BY DEF IInv, TypeOK
  <2> QED
    BY <2>1 DEF CopiesInv
<1> QED
  BY <1>1, <1>2, <1>3, Invariance, AnswersInvariance, PTL DEF Spec

=============================================================================
