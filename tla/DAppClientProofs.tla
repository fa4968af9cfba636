-------------------------- MODULE DAppClientProofs --------------------------
(***************************************************************************)
(* Proofs about the two halves of the dApp's client.                       *)
(*                                                                         *)
(* Of DAppRequests: its types, that one tab at most talks to the wallet,   *)
(* and that no request whose caller waits is lost.                         *)
(*                                                                         *)
(* The argument: a forwarded request is followed by its one place at a     *)
(* time (Located).  It is with the leader, or its answer is on the way     *)
(* back; a leader changes only when it closes, and then what it held is    *)
(* given up.  HeldOK, MailOK and CallsOK keep a tab from taking its own    *)
(* request for another tab's, which would answer all but the caller.       *)
(*                                                                         *)
(* Of DAppConnection: its types, that no transport is left behind, that    *)
(* requests leave over a transport that is held, and that the active       *)
(* account is stored.                                                      *)
(*                                                                         *)
(* The argument: a step connects only transports that are held, or drops   *)
(* them all, or gives one up (RunningKept, Dropped).  Where a step takes   *)
(* a transport or an account away, a task goes on that resets what names   *)
(* it (TransportSafe, AccountSafe); the types make each of the three       *)
(* inductive.                                                              *)
(***************************************************************************)
EXTENDS DAppRequests, DAppConnection, TLAPS

Items(s) == {s[i] : i \in 1..Len(s)}
Msgs == [type : {"request", "acknowledge", "answer", "error", "DISCONNECT", "LEADER_DEAD"},
         id : 0..MaxRequests]

\* Another tab than t made r.
Stranger(t, r) == from[r] \notin {t, NoTab}

\* Who leads is there, and only the leader is connected.
Leading ==
    /\ leader \in alive \cup {NoTab}
    /\ \A t \in alive : link[t] = "connected" => leader = t

\* Calls run in tabs that are there; forwarded ones have come by prepareRequest.
CallOK(c) ==
    /\ c.tab \in alive /\ from[c.id] # NoTab
    /\ c.pc \in {"channel", "leadership", "route"} => Own(c)
    /\ c.pc = "route" => c.tab \in listening
    /\ c.pc = "transport" => ~Own(c)
CallsOK == \A c \in calls : CallOK(c)

\* No tab holds or hears a request of its own as another's.
FreshOK == \A r \in Requests : outcome[r] = "none" => from[r] = NoTab
HeldOK == \A t \in Tabs : \A r \in openRequestsOtherTabs[t] : Stranger(t, r)
MailOK ==
    \A t \in Tabs : \A m \in Items(inbox[t]) :
        m.type = "request" => m.id \in Requests /\ Stranger(t, m.id)

Submitted(r, t) == [id |-> r, tab |-> t] \in wallet

WithLeader(r) ==
    /\ leader \in alive
    /\ \/ Message("request", r) \in Items(inbox[leader])
       \/ \E c \in calls : c.id = r /\ c.tab = leader /\ c.pc = "transport"
       \/ /\ r \in openRequestsOtherTabs[leader]
          /\ \/ \E c \in calls : c.id = r /\ c.tab = leader /\ c.pc = "init"
             \/ Submitted(r, leader)

AnswerPosted(r) == \E k \in {"answer", "error"} : Message(k, r) \in Items(inbox[from[r]])

OwnCall(r) == \E c \in calls : c.id = r /\ Own(c)

\* The places a request has on its way to the wallet and back.
Located(r) ==
    \/ OwnCall(r)
    \/ /\ r \in openRequests[from[r]]
       /\ \/ Submitted(r, from[r])
          \/ from[r] \in listening /\ (WithLeader(r) \/ AnswerPosted(r))

AllLocated == \A r \in Requests : Pending(r) => r \in given \/ Located(r)

IInv == TypeOK /\ Leading /\ CallsOK /\ FreshOK /\ HeldOK /\ MailOK /\ AllLocated

-----------------------------------------------------------------------------
(* Queues as the sets of what they hold.                                   *)

\* Append adds one item.
LEMMA ItemsAppend ==
    ASSUME NEW S, NEW s \in Seq(S), NEW m \in S
    PROVE  Append(s, m) \in Seq(S) /\ Items(Append(s, m)) = Items(s) \cup {m}
<1>1. Append(s, m) \in Seq(S) /\ Len(Append(s, m)) = Len(s) + 1 /\ Len(s) \in Nat
  OBVIOUS
<1>2. \A i \in 1..Len(s) : Append(s, m)[i] = s[i]
  OBVIOUS
<1>3. Append(s, m)[Len(s) + 1] = m
  OBVIOUS
<1>4. 1..(Len(s) + 1) = (1..Len(s)) \cup {Len(s) + 1}
  BY <1>1, SMT
<1>5. {Append(s, m)[i] : i \in 1..(Len(s) + 1)} = {s[i] : i \in 1..Len(s)} \cup {m}
  BY <1>2, <1>3, <1>4, Zenon
<1> QED BY <1>1, <1>5 DEF Items

\* The head and the items of the tail are all the items.
LEMMA ItemsHead ==
    ASSUME NEW S, NEW s \in Seq(S), s # <<>>
    PROVE  Head(s) \in S /\ Tail(s) \in Seq(S) /\ Items(s) = {Head(s)} \cup Items(Tail(s))
<1>1. Len(s) \in Nat \ {0} /\ Tail(s) \in Seq(S) /\ Len(Tail(s)) = Len(s) - 1
  OBVIOUS
<1>2. Head(s) = s[1] /\ s[1] \in S
  BY <1>1
<1>3. \A i \in 1..Len(Tail(s)) : Tail(s)[i] = s[i + 1] /\ i + 1 \in 1..Len(s)
  BY <1>1
<1>4. \A i \in 1..Len(s) : i = 1 \/ (i - 1 \in 1..Len(Tail(s)) /\ Tail(s)[i - 1] = s[i])
  <2> SUFFICES ASSUME NEW i \in 1..Len(s), i # 1
               PROVE  i - 1 \in 1..Len(Tail(s)) /\ Tail(s)[i - 1] = s[i]
    OBVIOUS
  <2>1. i - 1 \in 1..Len(Tail(s)) /\ (i - 1) + 1 = i
    BY <1>1, SMT
  <2> QED BY <2>1, <1>3
<1>5. 1 \in 1..Len(s)
  BY <1>1
<1>6. Items(Tail(s)) \subseteq Items(s) /\ Head(s) \in Items(s)
  <2>1. \A x \in Items(Tail(s)) : x \in Items(s)
    <3> TAKE x \in Items(Tail(s))
    <3>1. PICK i \in 1..Len(Tail(s)) : x = Tail(s)[i]
      BY DEF Items
    <3> QED BY <1>3, <3>1, Zenon DEF Items
  <2>2. Head(s) \in Items(s)
    BY <1>2, <1>5, Zenon DEF Items
  <2> QED BY <2>1, <2>2
<1>7. ASSUME NEW x \in Items(s), x # Head(s) PROVE x \in Items(Tail(s))
  <2>1. PICK i \in 1..Len(s) : x = s[i]
    BY <1>7 DEF Items
  <2>2. i # 1
    BY <1>2, <1>7, <2>1
  <2> QED BY <1>4, <2>1, <2>2, Zenon DEF Items
<1> QED BY <1>1, <1>2, <1>6, <1>7, Zenon

\* What an inbox holds is a message.
LEMMA ItemsIn ==
    ASSUME NEW S, NEW s \in Seq(S)
    PROVE  Items(s) \subseteq S
BY DEF Items

\* Post adds the message to the other tabs that listen, and to no one else.
LEMMA PostedItems ==
    ASSUME NEW t \in Tabs, NEW m \in Msgs, inbox \in [Tabs -> Seq(Msgs)]
    PROVE  /\ Posted(t, m) \in [Tabs -> Seq(Msgs)]
           /\ \A u \in Tabs : Items(Posted(t, m)[u]) =
                 IF u \in (alive \cap listening) \ {t} THEN Items(inbox[u]) \cup {m} ELSE Items(inbox[u])
<1>1. \A u \in Tabs : /\ Append(inbox[u], m) \in Seq(Msgs)
                      /\ Items(Append(inbox[u], m)) = Items(inbox[u]) \cup {m}
  BY ItemsAppend
<1>2. \A u \in Tabs : Posted(t, m)[u] = IF u \in (alive \cap listening) \ {t}
                                         THEN Append(inbox[u], m) ELSE inbox[u]
  BY DEF Posted
<1>3. Posted(t, m) \in [Tabs -> Seq(Msgs)]
  BY <1>1 DEF Posted
<1> QED BY <1>1, <1>2, <1>3

\* The inboxes after a post.
LEMMA PostedNext ==
    ASSUME NEW t \in Tabs, NEW m \in Msgs, inbox \in [Tabs -> Seq(Msgs)], inbox' = Posted(t, m)
    PROVE  \A u \in Tabs : Items(inbox[u])' =
              IF u \in (alive \cap listening) \ {t} THEN Items(inbox[u]) \cup {m} ELSE Items(inbox[u])
<1>1. \A u \in Tabs : Items(Posted(t, m)[u]) =
         IF u \in (alive \cap listening) \ {t} THEN Items(inbox[u]) \cup {m} ELSE Items(inbox[u])
  BY PostedItems
<1>2. \A u \in Tabs : Items(inbox[u])' = Items(inbox'[u])
  BY DEF Items
<1>3. \A u \in Tabs : inbox'[u] = Posted(t, m)[u]
  OBVIOUS
<1> QED BY <1>1, <1>2, <1>3, Zenon

-----------------------------------------------------------------------------
(* Types.                                                                  *)

\* What TypeOK says of the tabs, of the connections and of the requests.
TabsTyped ==
    /\ alive \subseteq Tabs /\ leader \in Tabs \cup {NoTab}
    /\ listening \subseteq Tabs /\ wasLeader \subseteq Tabs /\ standby \subseteq Tabs
LinksTyped ==
    /\ transport \in [Tabs -> {"none", "other", "wc"}]
    /\ link \in [Tabs -> {"off", "secondary", "connected"}]
    /\ account \in [Tabs -> {"none", "granted"}]
    /\ resetting \subseteq Tabs /\ stored \in {"none", "wc", "other"}
RequestsTyped ==
    /\ from \in [Requests -> Tabs \cup {NoTab}] /\ needs \in [Requests -> Needs]
    /\ outcome \in [Requests -> {"none", "pending", "resolved", "rejected", "failed"}]
    /\ calls \subseteq Calls
    /\ openRequests \in [Tabs -> SUBSET Requests]
    /\ openRequestsOtherTabs \in [Tabs -> SUBSET Requests]
RestTyped ==
    /\ inbox \in [Tabs -> Seq(Msgs)]
    /\ wallet \subseteq [id : Requests, tab : Tabs]
    /\ events \in 0..MaxEvents
    /\ given \subseteq Requests

LEMMA TypeParts == TypeOK <=> TabsTyped /\ LinksTyped /\ RequestsTyped /\ RestTyped
BY DEF TypeOK, TabsTyped, LinksTyped, RequestsTyped, RestTyped, Msgs

LEMMA TypeInit == Init => TypeOK
BY BoundAssumption DEF Init, TypeOK, Needs, Calls

\* The events are counted up to their bound.
LEMMA HappenTyped == events \in 0..MaxEvents /\ Happen => events' \in 0..MaxEvents
BY BoundAssumption DEF Happen

\* The forms a message has.
LEMMA MessageTyped ==
    /\ \A r \in Requests, k \in {"request", "acknowledge", "answer", "error"} : Message(k, r) \in Msgs
    /\ \A k \in {"DISCONNECT", "LEADER_DEAD"} : Signal(k) \in Msgs
BY BoundAssumption DEF Message, Signal, Msgs, Requests

LEMMA MakeTyped ==
    ASSUME TypeOK, NEW t \in Tabs, NEW r \in Requests, NEW need \in Needs, Make(t, r, need)
    PROVE  TypeOK'
<1>0. PICK d : d = [id |-> r, tab |-> t, pc |-> "channel", wc |-> FALSE]
  OBVIOUS
<1>1. calls' \subseteq Calls
  <2>1. d \in Calls /\ calls' = calls \cup {d}
    BY <1>0 DEF Make, Calls
  <2> QED BY <2>1 DEF TypeOK
<1>2. RequestsTyped'
  BY <1>1, TypeParts DEF Make, RequestsTyped
<1>3. TabsTyped' /\ LinksTyped' /\ RestTyped'
  BY TypeParts DEF Make, tabs, connections, TabsTyped, LinksTyped, RestTyped
<1> QED BY <1>2, <1>3, TypeParts DEF TypeOK, TabsTyped, LinksTyped, RequestsTyped, RestTyped, Msgs

\* Failing a call, or moving it on, keeps the types of what they change.
LEMMA FailTyped ==
    ASSUME TypeOK, NEW c \in calls, Fail(c)
    PROVE  /\ calls' \subseteq Calls /\ given' \subseteq Requests
           /\ outcome' \in [Requests -> {"none", "pending", "resolved", "rejected", "failed"}]
<1>1. c.id \in Requests
  BY DEF TypeOK, Calls
<1> QED BY <1>1 DEF Fail, TypeOK

LEMMA MoveTyped ==
    ASSUME TypeOK, NEW c \in calls,
           NEW pc \in {"channel", "leadership", "route", "transport", "init"}, Move(c, pc)
    PROVE  calls' \subseteq Calls
BY DEF Move, Step, TypeOK, Calls

\* The channel comes, and it is known whether the transport was WalletConnect's.
LEMMA ChannelMoves ==
    ASSUME NEW c \in calls, c \in Calls, InitChannel(c) \/ AwaitLeadership(c)
    PROVE  \E d \in Calls : /\ calls' = (calls \ {c}) \cup {d} /\ d.id = c.id /\ d.tab = c.tab
                            /\ d.pc \in {"route", "leadership"}
                            /\ d.pc = "route" => c.tab \in listening'
<1>1. ASSUME NEW e \in Calls, e.id = c.id, e.tab = c.tab, NEW pc \in {"route", "leadership"}
      PROVE  Step(e, pc) \in Calls /\ Step(e, pc).id = c.id /\ Step(e, pc).tab = c.tab /\ Step(e, pc).pc = pc
  BY <1>1 DEF Step, Calls
<1>2. Looked(c) \in Calls /\ Looked(c).id = c.id /\ Looked(c).tab = c.tab
  BY DEF Looked, Calls
<1>3. CASE InitChannel(c)
  <2>1. \/ calls' = (calls \ {c}) \cup {Step(Looked(c), "route")} /\ c.tab \in listening'
        \/ calls' = (calls \ {c}) \cup {Step(Looked(c), "leadership")}
    BY <1>3 DEF InitChannel
  <2> QED BY <1>1, <1>2, <2>1
<1>4. CASE AwaitLeadership(c)
  <2>1. calls' = (calls \ {c}) \cup {Step(c, "route")} /\ c.tab \in listening'
    BY <1>4 DEF AwaitLeadership, Move
  <2> QED BY <1>1, <2>1
<1> QED BY <1>3, <1>4

\* Each action keeps the types.
LEMMA TypeNext == TypeOK /\ MailOK /\ [Next]_vars => TypeOK'
<1> SUFFICES ASSUME TypeOK, MailOK, [Next]_vars PROVE TypeOK'
  OBVIOUS
<1> USE TypeParts DEF tabs, connections, requests
<1>0. TabsTyped /\ LinksTyped /\ RequestsTyped /\ RestTyped
  BY TypeParts
<1>q. TabsTyped' /\ LinksTyped' /\ RequestsTyped' /\ RestTyped' => TypeOK'
  BY DEF TypeOK, TabsTyped, LinksTyped, RequestsTyped, RestTyped, Msgs
<1>1. ASSUME NEW t \in Tabs, NEW r \in Requests,
             \/ RequestPermissions(t, r) \/ RequestOperation(t, r) \/ RequestSignPayload(t, r)
             \/ RequestProofOfEvent(t, r) \/ RequestBroadcast(t, r)
      PROVE  TypeOK'
  <2>1. \E need \in Needs : Make(t, r, need)
    BY <1>1 DEF RequestPermissions, RequestOperation, RequestSignPayload, RequestProofOfEvent,
                RequestBroadcast, Needs
  <2> QED BY <2>1, MakeTyped
<1>2. ASSUME NEW t \in Tabs, ClearAccount(t) PROVE TypeOK'
  <2>1. events' \in 0..MaxEvents
    BY <1>0, <1>2, HappenTyped DEF ClearAccount, RestTyped
  <2>2. inbox' \in [Tabs -> Seq(Msgs)]
    BY <1>0, <1>2, PostedItems, MessageTyped DEF ClearAccount, StartReset, RestTyped
  <2>3. LinksTyped' /\ RestTyped'
    BY <1>0, <1>2, <2>1, <2>2 DEF ClearAccount, StartReset, LinksTyped, RestTyped
  <2>4. TabsTyped' /\ RequestsTyped'
    BY <1>0, <1>2 DEF ClearAccount, TabsTyped, RequestsTyped
  <2> QED BY <1>q, <2>3, <2>4
<1>3. ASSUME NEW t \in Tabs, Close(t) PROVE TypeOK'
  <2>1. events' \in 0..MaxEvents
    BY <1>0, <1>3, HappenTyped DEF Close, RestTyped
  <2>2. inbox' \in [Tabs -> Seq(Msgs)]
    BY <1>0, <1>3, PostedItems, MessageTyped DEF Close, RestTyped
  <2>3. given' \subseteq Requests
    <3>1. \A i \in 1..Len(inbox[t]) : inbox[t][i].id \in 0..MaxRequests
      <4>1. inbox[t] \in Seq(Msgs)
        BY <1>0 DEF RestTyped
      <4>2. \A i \in 1..Len(inbox[t]) : inbox[t][i] \in Msgs
        BY <4>1
      <4> QED BY <4>2 DEF Msgs
    <3>2. {inbox[t][i].id : i \in 1..Len(inbox[t])} \ {0} \subseteq Requests
      BY <3>1, BoundAssumption DEF Requests
    <3>3. openRequestsOtherTabs[t] \subseteq Requests /\ \A d \in calls : d.id \in Requests
      BY <1>0 DEF RequestsTyped, Calls
    <3> QED BY <1>0, <1>3, <3>2, <3>3 DEF Close, RestTyped
  <2>4. TabsTyped' /\ RequestsTyped' /\ LinksTyped' /\ RestTyped'
    BY <1>0, <1>3, <2>1, <2>2, <2>3 DEF Close, TabsTyped, LinksTyped, RestTyped, RequestsTyped
  <2> QED BY <1>q, <2>4
<1>4. ASSUME NEW c \in calls, Stop(c) PROVE TypeOK'
  <2>1. events' \in 0..MaxEvents
    BY <1>0, <1>4, HappenTyped DEF Stop, RestTyped
  <2>2. TabsTyped' /\ RequestsTyped' /\ LinksTyped' /\ RestTyped'
    BY <1>0, <1>4, <2>1, FailTyped DEF Stop, TabsTyped, LinksTyped, RestTyped, RequestsTyped
  <2> QED BY <1>q, <2>2
<1>5. ASSUME NEW m \in wallet, NEW kind \in {"acknowledge", "answer", "error"}, Answer(m, kind)
      PROVE  TypeOK'
  <2>0. m.tab \in Tabs /\ m.id \in Requests
    BY <1>0 DEF RestTyped
  <2>1. events' \in 0..MaxEvents
    BY <1>0, <1>5, HappenTyped DEF Answer, RestTyped
  <2>2. inbox' \in [Tabs -> Seq(Msgs)]
    BY <1>0, <1>5, <2>0, PostedItems, MessageTyped DEF Answer, HandleResponse, Relay, RestTyped
  <2>3. RestTyped'
    BY <1>0, <1>5, <2>1, <2>2 DEF Answer, RestTyped
  <2>4. RequestsTyped' /\ LinksTyped'
    <3>1. CASE m.id \in openRequestsOtherTabs[m.tab]
      BY <1>0, <1>5, <2>0, <3>1 DEF Answer, HandleResponse, Relay, RequestsTyped, LinksTyped
    <3>2. CASE m.id \notin openRequestsOtherTabs[m.tab]
      BY <1>0, <1>5, <2>0, <3>2 DEF Answer, HandleResponse, Settle, RequestsTyped, LinksTyped
    <3> QED BY <3>1, <3>2
  <2>5. TabsTyped'
    BY <1>0, <1>5 DEF Answer, TabsTyped
  <2> QED BY <1>q, <2>3, <2>4, <2>5
<1>6. ASSUME NEW c \in calls, InitChannel(c) \/ AwaitLeadership(c) PROVE TypeOK'
  <2>1. calls' \subseteq Calls /\ c.tab \in Tabs
    BY <1>6, ChannelMoves DEF TypeOK, Calls
  <2>2. TabsTyped' /\ RequestsTyped' /\ LinksTyped' /\ RestTyped'
    BY <1>0, <1>6, <2>1 DEF InitChannel, AwaitLeadership, TabsTyped, LinksTyped, RestTyped, RequestsTyped
  <2> QED BY <1>q, <2>2
<1>7. ASSUME NEW c \in calls, Route(c) PROVE TypeOK'
  <2>0. c.id \in Requests /\ c.tab \in Tabs
    BY <1>0 DEF RequestsTyped, Calls
  <2>1. calls' \subseteq Calls
    BY <1>0, <1>7, MoveTyped DEF Route, RequestsTyped
  <2>2. inbox' \in [Tabs -> Seq(Msgs)]
    BY <1>0, <1>7, <2>0, PostedItems, MessageTyped DEF Route, RequestMessage, RestTyped
  <2>3. RestTyped' /\ openRequests' \in [Tabs -> SUBSET Requests]
    <3>1. CASE MakesItself(c)
      BY <1>0, <1>7, <3>1 DEF Route, RestTyped, RequestsTyped
    <3>2. CASE ~MakesItself(c)
      <4>1. openRequests' = [openRequests EXCEPT ![c.tab] = @ \cup {c.id}]
        BY <1>7, <3>2 DEF Route
      <4>2. given' \in {given, given \cup {c.id}} /\ wallet' = wallet /\ events' = events
        BY <1>7, <3>2 DEF Route
      <4>3. given' \subseteq Requests
        BY <1>0, <2>0, <4>2 DEF RestTyped
      <4>4. openRequests' \in [Tabs -> SUBSET Requests]
        BY <1>0, <2>0, <4>1 DEF RequestsTyped
      <4> QED BY <1>0, <2>2, <4>2, <4>3, <4>4 DEF RestTyped
    <3> QED BY <3>1, <3>2
  <2>4. TabsTyped' /\ RequestsTyped' /\ LinksTyped'
    BY <1>0, <1>7, <2>1, <2>3 DEF Route, TabsTyped, LinksTyped, RequestsTyped
  <2> QED BY <1>q, <2>3, <2>4
<1>8. ASSUME NEW c \in calls, MakeRequest(c) PROVE TypeOK'
  <2>0. c.id \in Requests /\ c.tab \in Tabs
    BY <1>0 DEF RequestsTyped, Calls
  <2>1. TabsTyped' /\ LinksTyped'
    BY <1>0, <1>8, <2>0 DEF MakeRequest, TabsTyped, LinksTyped
  <2>2. RequestsTyped' /\ RestTyped'
    <3>1. CASE Permitted(c)
      <4>1. /\ openRequests' = [openRequests EXCEPT ![c.tab] = @ \cup {c.id}]
            /\ calls' = calls \ {c} /\ UNCHANGED <<from, needs, outcome, openRequestsOtherTabs, inbox>>
            /\ wallet' \in {wallet, wallet \cup {[id |-> c.id, tab |-> c.tab]}}
            /\ given' \in {given, given \cup {c.id}}
            /\ UNCHANGED events \/ Happen
        BY <1>8, <3>1 DEF MakeRequest, Send
      <4>2. events' \in 0..MaxEvents
        BY <1>0, <4>1, HappenTyped DEF RestTyped
      <4>3. wallet' \subseteq [id : Requests, tab : Tabs] /\ given' \subseteq Requests
        BY <1>0, <2>0, <4>1 DEF RestTyped
      <4> QED BY <1>0, <2>0, <4>1, <4>2, <4>3 DEF RequestsTyped, RestTyped
    <3>2. CASE ~Permitted(c)
      BY <1>0, <1>8, <2>0, <3>2, FailTyped DEF MakeRequest, Send, RequestsTyped, RestTyped
    <3> QED BY <3>1, <3>2
  <2> QED BY <1>q, <2>1, <2>2
<1>9. ASSUME NEW c \in calls, Forward(c) PROVE TypeOK'
  <2>0. c.id \in Requests /\ c.tab \in Tabs
    BY <1>0 DEF RequestsTyped, Calls
  <2>1. calls' \subseteq Calls
    BY <1>9, MoveTyped DEF Forward
  <2>2. TabsTyped' /\ RequestsTyped' /\ LinksTyped' /\ RestTyped'
    BY <1>0, <1>9, <2>0, <2>1 DEF Forward, TabsTyped, LinksTyped, RestTyped, RequestsTyped
  <2> QED BY <1>q, <2>2
<1>10. ASSUME NEW t \in Tabs, Connect(t) PROVE TypeOK'
  <2>1. TabsTyped' /\ RequestsTyped' /\ LinksTyped' /\ RestTyped'
    BY <1>0, <1>10 DEF Connect, LinkOf, TabsTyped, LinksTyped, RestTyped, RequestsTyped
  <2> QED BY <1>q, <2>1
<1>11. ASSUME NEW t \in Tabs, Reset(t) PROVE TypeOK'
  <2>1. RequestsTyped'
    <3>1. outcome' \in [Requests -> {"none", "pending", "resolved", "rejected", "failed"}]
      BY <1>0, <1>11 DEF Reset, RejectOpen, RequestsTyped
    <3> QED BY <1>0, <1>11, <3>1 DEF Reset, RejectOpen, RequestsTyped
  <2>2. TabsTyped' /\ LinksTyped' /\ RestTyped'
    BY <1>0, <1>11 DEF Reset, TabsTyped, LinksTyped, RestTyped, RequestsTyped
  <2> QED BY <1>q, <2>1, <2>2
<1>12. ASSUME NEW t \in Tabs, StorageChanged(t) PROVE TypeOK'
  <2>2. inbox' \in [Tabs -> Seq(Msgs)]
    BY <1>0, <1>12, PostedItems, MessageTyped DEF StorageChanged, StartReset, RestTyped
  <2>3. LinksTyped'
    BY <1>0, <1>12 DEF StorageChanged, StartReset, LinksTyped
  <2>4. RestTyped' /\ TabsTyped' /\ RequestsTyped'
    BY <1>0, <1>12, <2>2 DEF StorageChanged, TabsTyped, RequestsTyped, RestTyped
  <2> QED BY <1>q, <2>3, <2>4
<1>13. ASSUME NEW t \in Tabs, Elected(t) PROVE TypeOK'
  <2>1. TabsTyped' /\ RequestsTyped' /\ LinksTyped' /\ RestTyped'
    BY <1>0, <1>13 DEF Elected, TabsTyped, LinksTyped, RestTyped, RequestsTyped
  <2> QED BY <1>q, <2>1
<1>14. ASSUME NEW t \in Tabs, Receive(t) PROVE TypeOK'
  <2> DEFINE msg == Head(inbox[t])
             rest == [inbox EXCEPT ![t] = Tail(@)]
  <2>1. inbox[t] \in Seq(Msgs) /\ inbox[t] # <<>>
    BY <1>0, <1>14 DEF Receive, RestTyped
  <2>2. Tail(inbox[t]) \in Seq(Msgs) /\ msg \in Msgs /\ msg \in Items(inbox[t])
    BY <2>1, ItemsHead
  <2>3. rest \in [Tabs -> Seq(Msgs)]
    BY <1>0, <2>2 DEF RestTyped
  <2>4. TabsTyped' /\ events' = events /\ wallet' = wallet /\ UNCHANGED <<from, needs, openRequestsOtherTabs>>
    BY <1>0, <1>14 DEF Receive, TabsTyped
  <2>5. CASE /\ msg.type = "request" /\ PrepareRequest(t, msg.id) /\ inbox' = rest
             /\ UNCHANGED <<standby, connections, outcome, openRequests>>
    <3>1. msg.id \in Requests
      BY <2>2, <2>5 DEF MailOK
    <3>2. PICK d : d = [id |-> msg.id, tab |-> t, pc |-> "transport", wc |-> FALSE]
      OBVIOUS
    <3>5. calls' \subseteq Calls /\ given' = given
      <4>1. d \in Calls
        BY <3>1, <3>2 DEF Calls
      <4>2. calls' \subseteq calls \cup {d} /\ given' = given
        BY <2>5, <3>2 DEF PrepareRequest
      <4> QED BY <1>0, <4>1, <4>2 DEF RequestsTyped
    <3>3. RequestsTyped' /\ LinksTyped'
      BY <1>0, <2>4, <2>5, <3>5 DEF RequestsTyped, LinksTyped
    <3>4. RestTyped'
      BY <1>0, <2>3, <2>4, <2>5, <3>5 DEF RestTyped
    <3> QED BY <1>q, <2>4, <3>3, <3>4
  <2>6. CASE /\ msg.type \in {"acknowledge", "answer", "error"} /\ Settle(t, msg.id, msg.type)
             /\ inbox' = rest /\ UNCHANGED <<standby, transport, link, resetting, calls, given>>
    <3>1. openRequests' \in [Tabs -> SUBSET Requests]
      BY <1>0, <2>6 DEF Settle, RequestsTyped
    <3>2. outcome' \in [Requests -> {"none", "pending", "resolved", "rejected", "failed"}]
      BY <1>0, <2>6 DEF Settle, RequestsTyped
    <3>3. account' \in [Tabs -> {"none", "granted"}] /\ stored' \in {"none", "wc", "other"}
      BY <1>0, <2>6 DEF Settle, LinksTyped
    <3>4. RequestsTyped' /\ LinksTyped'
      BY <1>0, <2>4, <2>6, <3>1, <3>2, <3>3 DEF RequestsTyped, LinksTyped
    <3>5. RestTyped'
      BY <1>0, <2>3, <2>4, <2>6 DEF RestTyped
    <3> QED BY <1>q, <2>4, <3>4, <3>5
  <2>7. CASE /\ inbox' = rest /\ UNCHANGED <<connections, outcome, calls, openRequests, given>>
    <3>1. RequestsTyped' /\ LinksTyped' /\ RestTyped'
      BY <1>0, <2>3, <2>4, <2>7 DEF RequestsTyped, LinksTyped, RestTyped
    <3> QED BY <1>q, <2>4, <3>1
  <2>8. CASE /\ IF HasAccount(t) /\ transport[t] = "wc" /\ t \notin resetting
                THEN /\ resetting' = resetting \cup {t}
                     /\ inbox' = IF leader = t THEN rest
                                 ELSE [u \in Tabs |-> IF u = t THEN rest[t] ELSE Posted(t, Signal("DISCONNECT"))[u]]
                     /\ UNCHANGED <<transport, link>>
                ELSE /\ inbox' = rest
                     /\ IF t \in resetting THEN UNCHANGED <<transport, link>>
                        ELSE /\ transport' = [transport EXCEPT ![t] = "none"]
                             /\ link' = [link EXCEPT ![t] = "off"]
                     /\ UNCHANGED resetting
             /\ UNCHANGED <<standby, account, stored, outcome, calls, openRequests, given>>
    <3>1. Posted(t, Signal("DISCONNECT")) \in [Tabs -> Seq(Msgs)]
      BY <1>0, PostedItems, MessageTyped DEF RestTyped
    <3>2. inbox' \in [Tabs -> Seq(Msgs)]
      <4>1. CASE inbox' = rest
        BY <4>1, <2>3
      <4>2. CASE inbox' # rest
        BY <2>8, <3>1, <2>3, <4>2
      <4> QED BY <4>1, <4>2
    <3>3. LinksTyped'
      BY <1>0, <2>8 DEF LinksTyped
    <3>4. RequestsTyped' /\ RestTyped'
      BY <1>0, <2>4, <2>8, <3>2 DEF RequestsTyped, RestTyped
    <3> QED BY <1>q, <2>4, <3>3, <3>4
  <2> QED BY <1>14, <2>5, <2>6, <2>7, <2>8, Zenon DEF Receive
<1>15. CASE UNCHANGED vars
  BY <1>0, <1>15 DEF vars, TypeOK
<1> QED
  BY <1>1, <1>2, <1>3, <1>4, <1>5, <1>6, <1>7, <1>8, <1>9, <1>10, <1>11, <1>12, <1>13, <1>14, <1>15
  DEF Next, Users, Code

-----------------------------------------------------------------------------
(* One tab is connected.                                                   *)

\* The leader changes only where there is none, or when it closes; a tab that
\* connects is the leader.
LEMMA LeadingNext == TypeOK /\ CallsOK /\ Leading /\ [Next]_vars => Leading'
<1> SUFFICES ASSUME TypeOK, CallsOK, Leading, [Next]_vars PROVE Leading'
  OBVIOUS
<1> USE DEF tabs, connections, requests
<1>t. /\ link \in [Tabs -> {"off", "secondary", "connected"}] /\ alive \subseteq Tabs
      /\ NoTab \notin alive
  BY TabsAssumption DEF TypeOK
<1>u. ASSUME UNCHANGED <<alive, leader, link>> PROVE Leading'
  BY <1>u DEF Leading
<1>1. ASSUME NEW t \in Tabs, NEW r \in Requests,
             \/ RequestPermissions(t, r) \/ RequestOperation(t, r) \/ RequestSignPayload(t, r)
             \/ RequestProofOfEvent(t, r) \/ RequestBroadcast(t, r)
      PROVE  Leading'
  BY <1>1, <1>u DEF RequestPermissions, RequestOperation, RequestSignPayload, RequestProofOfEvent,
                    RequestBroadcast, Make
<1>2. ASSUME NEW t \in Tabs, ClearAccount(t) PROVE Leading'
  BY <1>2, <1>u DEF ClearAccount
<1>3. ASSUME NEW t \in Tabs, Close(t) PROVE Leading'
  BY <1>3, <1>t DEF Close, Leading
<1>4. ASSUME NEW c \in calls, Stop(c) PROVE Leading'
  BY <1>4, <1>u DEF Stop
<1>5. ASSUME NEW m \in wallet, NEW kind \in {"acknowledge", "answer", "error"}, Answer(m, kind)
      PROVE  Leading'
  BY <1>5, <1>u DEF Answer
<1>6. ASSUME NEW c \in calls, InitChannel(c) PROVE Leading'
  BY <1>6, <1>u DEF InitChannel
<1>7. ASSUME NEW c \in calls, AwaitLeadership(c) PROVE Leading'
  BY <1>7, <1>t DEF AwaitLeadership, Leading, CallsOK, CallOK
<1>8. ASSUME NEW c \in calls, Route(c) PROVE Leading'
  BY <1>8, <1>u DEF Route
<1>9. ASSUME NEW c \in calls, MakeRequest(c) PROVE Leading'
  <2>1. CASE UNCHANGED <<link, leader>>
    BY <1>9, <2>1, <1>u DEF MakeRequest
  <2>2. CASE leader \in {NoTab, c.tab} /\ leader' = c.tab /\ link' = [link EXCEPT ![c.tab] = "connected"]
    BY <1>9, <2>2, <1>t DEF MakeRequest, Leading, CallsOK, CallOK
  <2> QED BY <1>9, <2>1, <2>2 DEF MakeRequest
<1>10. ASSUME NEW c \in calls, Forward(c) PROVE Leading'
  BY <1>10, <1>u DEF Forward
<1>11. ASSUME NEW t \in Tabs, Connect(t) PROVE Leading'
  BY <1>11, <1>t DEF Connect, LinkOf, Leading
<1>12. ASSUME NEW t \in Tabs, Reset(t) PROVE Leading'
  BY <1>12, <1>t DEF Reset, Leading
<1>13. ASSUME NEW t \in Tabs, StorageChanged(t) PROVE Leading'
  <2>1. UNCHANGED <<alive, leader, link>>
    BY <1>13 DEF StorageChanged
  <2> QED BY <2>1, <1>u
<1>14. ASSUME NEW t \in Tabs, Receive(t) PROVE Leading'
  <2>1. alive' = alive /\ leader' = leader
    BY <1>14 DEF Receive
  <2>2. link' \in {link, [link EXCEPT ![t] = "off"]}
    BY <1>14 DEF Receive
  <2> QED BY <2>1, <2>2, <1>t DEF Leading
<1>15. ASSUME NEW t \in Tabs, Elected(t) PROVE Leading'
  BY <1>15, <1>t DEF Elected, Leading
<1>16. CASE UNCHANGED vars
  BY <1>16, <1>u DEF vars
<1> QED
  BY <1>1, <1>2, <1>3, <1>4, <1>5, <1>6, <1>7, <1>8, <1>9, <1>10, <1>11, <1>12, <1>13, <1>14, <1>15,
     <1>16
  DEF Next, Users, Code

-----------------------------------------------------------------------------
(* Calls and messages.                                                     *)

\* The call of Receive: a forwarded request the leader has heard.
Heard(t) == [id |-> Head(inbox[t]).id, tab |-> t, pc |-> "transport", wc |-> FALSE]

\* What Receive does to what the other invariants are about.
LEMMA ReceiveEffect ==
    ASSUME TypeOK, NEW t \in Tabs, Receive(t)
    PROVE  /\ t \in alive
           /\ UNCHANGED <<alive, leader, listening, from, needs, openRequestsOtherTabs, wallet, given>>
           /\ calls' = IF Head(inbox[t]).type = "request" /\ leader = t THEN calls \cup {Heard(t)} ELSE calls
           /\ IF Head(inbox[t]).type \in {"acknowledge", "answer", "error"}
              THEN Settle(t, Head(inbox[t]).id, Head(inbox[t]).type)
              ELSE UNCHANGED <<openRequests, outcome>>
<1> DEFINE msg == Head(inbox[t])
<1>1. t \in alive /\ UNCHANGED <<alive, leader, listening, from, needs, openRequestsOtherTabs, wallet>>
  BY DEF Receive
<1>2. CASE msg.type = "request" /\ PrepareRequest(t, msg.id) /\ UNCHANGED <<outcome, openRequests>>
  BY <1>1, <1>2 DEF PrepareRequest, Heard
<1>3. CASE /\ msg.type \in {"acknowledge", "answer", "error"} /\ Settle(t, msg.id, msg.type)
           /\ UNCHANGED <<calls, given>>
  BY <1>1, <1>3
<1>4. CASE msg.type \in {"LEADER_DEAD", "DISCONNECT"} /\ UNCHANGED <<outcome, calls, openRequests, given>>
  BY <1>1, <1>4
<1>5. \/ msg.type = "request" /\ PrepareRequest(t, msg.id) /\ UNCHANGED <<outcome, openRequests>>
      \/ /\ msg.type \in {"acknowledge", "answer", "error"} /\ Settle(t, msg.id, msg.type)
         /\ UNCHANGED <<calls, given>>
      \/ msg.type \in {"LEADER_DEAD", "DISCONNECT"} /\ UNCHANGED <<outcome, calls, openRequests, given>>
  BY DEF Receive
<1> QED BY <1>2, <1>3, <1>4, <1>5

\* What a tab has left in its inbox, and what the others hear of it.
LEMMA ReceiveItems ==
    ASSUME TypeOK, NEW t \in Tabs, Receive(t)
    PROVE  /\ Items(inbox[t]) = {Head(inbox[t])} \cup Items(inbox[t])'
           /\ Head(inbox[t]) \in Msgs
           /\ \A u \in Tabs : /\ u # t => Items(inbox[u]) \subseteq Items(inbox[u])'
                              /\ Items(inbox[u])' \subseteq Items(inbox[u]) \cup {Signal("DISCONNECT")}
<1>0. inbox \in [Tabs -> Seq(Msgs)]
  BY DEF TypeOK, Msgs
<1> DEFINE rest == [inbox EXCEPT ![t] = Tail(@)]
           both == [u \in Tabs |-> IF u = t THEN rest[t] ELSE Posted(t, Signal("DISCONNECT"))[u]]
<1>1. inbox[t] \in Seq(Msgs) /\ inbox[t] # <<>>
  BY <1>0 DEF Receive
<1>2. Items(inbox[t]) = {Head(inbox[t])} \cup Items(rest[t]) /\ Head(inbox[t]) \in Msgs
  BY <1>0, <1>1, ItemsHead
<1>3. \A u \in Tabs : u # t => rest[u] = inbox[u]
  BY <1>0
<1>4. \A u \in Tabs : u # t => /\ Items(both[u]) \subseteq Items(inbox[u]) \cup {Signal("DISCONNECT")}
                               /\ Items(inbox[u]) \subseteq Items(both[u])
  <2>1. \A u \in Tabs : Items(Posted(t, Signal("DISCONNECT"))[u]) =
           IF u \in (alive \cap listening) \ {t} THEN Items(inbox[u]) \cup {Signal("DISCONNECT")}
           ELSE Items(inbox[u])
    BY <1>0, PostedItems, MessageTyped
  <2> QED BY <2>1
<1>5. both[t] = rest[t]
  OBVIOUS
<1>6. inbox' \in {rest, both}
  BY DEF Receive
<1> HIDE DEF rest, both
<1>7. \A u \in Tabs : Items(inbox[u])' = Items(inbox'[u])
  BY DEF Items
<1>8. CASE inbox' = rest
  BY <1>2, <1>3, <1>7, <1>8
<1>9. CASE inbox' = both
  BY <1>2, <1>4, <1>5, <1>7, <1>9
<1> QED BY <1>6, <1>8, <1>9

\* Who has made a request is never forgotten, and tabs go on listening.
LEMMA FromNext ==
    ASSUME TypeOK, FreshOK, [Next]_vars
    PROVE  /\ \A q \in Requests : from[q] # NoTab => from'[q] = from[q]
           /\ FreshOK' /\ listening \subseteq listening'
<1> USE DEF tabs, connections, requests
<1>t. /\ outcome \in [Requests -> {"none", "pending", "resolved", "rejected", "failed"}]
      /\ from \in [Requests -> Tabs \cup {NoTab}]
  BY DEF TypeOK
<1>u. ASSUME from' = from, listening \subseteq listening',
             \A q \in Requests : outcome'[q] = "none" => outcome[q] = "none"
      PROVE  /\ \A q \in Requests : from[q] # NoTab => from'[q] = from[q]
             /\ FreshOK' /\ listening \subseteq listening'
  BY <1>u DEF FreshOK
<1>s. ASSUME NEW t, NEW q, NEW kind, Settle(t, q, kind)
      PROVE  \A r \in Requests : outcome'[r] = "none" => outcome[r] = "none"
  BY <1>s, <1>t DEF Settle
<1>f. ASSUME NEW c \in calls, Fail(c)
      PROVE  \A r \in Requests : outcome'[r] = "none" => outcome[r] = "none"
  BY <1>f, <1>t DEF Fail
<1>1. ASSUME NEW t \in Tabs, NEW r \in Requests, NEW need, Make(t, r, need)
      PROVE  /\ \A q \in Requests : from[q] # NoTab => from'[q] = from[q]
             /\ FreshOK' /\ listening \subseteq listening'
  <2>1. outcome[r] = "none" /\ from[r] = NoTab
    <3>1. r \in 1..r
      BY DEF Requests
    <3> QED BY <1>1, <3>1 DEF Make, FreshOK
  <2>2. \A q \in Requests : q # r => from'[q] = from[q] /\ outcome'[q] = outcome[q]
    BY <1>1, <1>t DEF Make
  <2>3. outcome'[r] = "pending" /\ listening' = listening
    BY <1>1, <1>t DEF Make
  <2> QED BY <2>1, <2>2, <2>3 DEF FreshOK
<1>2. CASE \E t \in Tabs : ClearAccount(t) \/ Close(t)
  BY <1>2, <1>u DEF ClearAccount, Close
<1>3. CASE \E c \in calls : Stop(c)
  BY <1>3, <1>f, <1>u DEF Stop
<1>4. ASSUME NEW m \in wallet, NEW kind \in {"acknowledge", "answer", "error"}, Answer(m, kind)
      PROVE  /\ \A q \in Requests : from[q] # NoTab => from'[q] = from[q]
             /\ FreshOK' /\ listening \subseteq listening'
  <2>1. from' = from /\ listening' = listening
    BY <1>4 DEF Answer
  <2>2. \A r \in Requests : outcome'[r] = "none" => outcome[r] = "none"
    BY <1>4, <1>s DEF Answer, HandleResponse
  <2> QED BY <2>1, <2>2, <1>u
<1>5. CASE \E c \in calls : InitChannel(c) \/ AwaitLeadership(c) \/ Route(c) \/ Forward(c)
  BY <1>5, <1>u DEF InitChannel, AwaitLeadership, Route, Forward
<1>6. ASSUME NEW c \in calls, MakeRequest(c)
      PROVE  /\ \A q \in Requests : from[q] # NoTab => from'[q] = from[q]
             /\ FreshOK' /\ listening \subseteq listening'
  <2>1. from' = from /\ listening' = listening
    BY <1>6 DEF MakeRequest
  <2>2. \A r \in Requests : outcome'[r] = "none" => outcome[r] = "none"
    BY <1>6, <1>f DEF MakeRequest, Send
  <2> QED BY <2>1, <2>2, <1>u
<1>7. CASE \E t \in Tabs : Connect(t) \/ StorageChanged(t) \/ Elected(t)
  BY <1>7, <1>u DEF Connect, StorageChanged, Elected
<1>8. ASSUME NEW t \in Tabs, Reset(t)
      PROVE  /\ \A q \in Requests : from[q] # NoTab => from'[q] = from[q]
             /\ FreshOK' /\ listening \subseteq listening'
  BY <1>8, <1>u DEF Reset, RejectOpen
<1>9. ASSUME NEW t \in Tabs, Receive(t)
      PROVE  /\ \A q \in Requests : from[q] # NoTab => from'[q] = from[q]
             /\ FreshOK' /\ listening \subseteq listening'
  <2>1. from' = from /\ listening' = listening
    BY <1>9, ReceiveEffect
  <2>2. \A r \in Requests : outcome'[r] = "none" => outcome[r] = "none"
    BY <1>9, <1>s, ReceiveEffect
  <2> QED BY <2>1, <2>2, <1>u
<1>10. CASE UNCHANGED vars
  BY <1>10, <1>u DEF vars
<1>11. ASSUME NEW t \in Tabs, NEW r \in Requests,
              \/ RequestPermissions(t, r) \/ RequestOperation(t, r) \/ RequestSignPayload(t, r)
              \/ RequestProofOfEvent(t, r) \/ RequestBroadcast(t, r)
       PROVE  /\ \A q \in Requests : from[q] # NoTab => from'[q] = from[q]
              /\ FreshOK' /\ listening \subseteq listening'
  BY <1>1, <1>11 DEF RequestPermissions, RequestOperation, RequestSignPayload, RequestProofOfEvent,
                     RequestBroadcast
<1> QED
  BY <1>2, <1>3, <1>4, <1>5, <1>6, <1>7, <1>8, <1>9, <1>10, <1>11 DEF Next, Users, Code

\* A call whose tab stays keeps what CallOK says of it; so do the requests of
\* others that a tab holds.
LEMMA Frame ==
    ASSUME TypeOK, CallsOK, FreshOK, [Next]_vars
    PROVE  /\ \A c \in calls : c.tab \in alive' => CallOK(c)'
           /\ \A t \in Tabs, r \in Requests : Stranger(t, r) => Stranger(t, r)'
           /\ \A c \in calls : Own(c)' = Own(c) /\ from'[c.id] = from[c.id]
<1>1. \A c \in calls : c.id \in Requests /\ from[c.id] # NoTab
  BY DEF TypeOK, Calls, CallsOK, CallOK
<1>2. \A q \in Requests : from[q] # NoTab => from'[q] = from[q]
  BY FromNext
<1>3. listening \subseteq listening'
  BY FromNext
<1>4. \A c \in calls : Own(c)' = Own(c) /\ from'[c.id] = from[c.id]
  BY <1>1, <1>2 DEF Own
<1> QED BY <1>1, <1>2, <1>3, <1>4, Zenon DEF CallsOK, CallOK, Stranger, Own

\* A new call is well placed, and nobody's call outlives its tab.
LEMMA CallsNext == TypeOK /\ CallsOK /\ FreshOK /\ MailOK /\ [Next]_vars => CallsOK'
<1> SUFFICES ASSUME TypeOK, CallsOK, FreshOK, MailOK, [Next]_vars PROVE CallsOK'
  OBVIOUS
<1> USE DEF tabs, connections, requests
<1>a. \A c \in calls : c.tab \in alive /\ c.id \in Requests /\ c.tab \in Tabs /\ CallOK(c)
  BY DEF CallsOK, CallOK, TypeOK, Calls
<1>f. \A c \in calls : c.tab \in alive' => CallOK(c)'
  BY Frame
<1>o. \A c \in calls : Own(c)' = Own(c) /\ from'[c.id] = from[c.id]
  BY Frame
<1>u. ASSUME calls' \subseteq calls, alive' = alive PROVE CallsOK'
  BY <1>a, <1>f, <1>u DEF CallsOK
<1>n. ASSUME NEW d, calls' \subseteq calls \cup {d}, alive' = alive, CallOK(d)' PROVE CallsOK'
  BY <1>a, <1>f, <1>n DEF CallsOK
<1>m. ASSUME NEW c \in calls, NEW pc \in {"route", "leadership", "init"}, Move(c, pc), alive' = alive,
             pc \in {"route", "leadership"} => Own(c), pc = "route" => c.tab \in listening'
      PROVE  CallsOK'
  <2>1. Step(c, pc).id = c.id /\ Step(c, pc).tab = c.tab /\ Step(c, pc).pc = pc
    BY <1>a DEF Step, TypeOK, Calls
  <2>2. Own(Step(c, pc))' = Own(c)
    BY <2>1, <1>o DEF Own
  <2>3. CallOK(Step(c, pc))'
    BY <1>m, <1>a, <1>o, <2>1, <2>2 DEF CallOK
  <2> QED BY <1>n, <1>m, <2>3 DEF Move
<1>1. ASSUME NEW t \in Tabs, NEW r \in Requests, NEW need, Make(t, r, need) PROVE CallsOK'
  <2> DEFINE d == [id |-> r, tab |-> t, pc |-> "channel", wc |-> FALSE]
  <2>1. calls' = calls \cup {d} /\ alive' = alive /\ t \in alive /\ from'[r] = t
    BY <1>1 DEF Make, TypeOK
  <2>2. d.id = r /\ d.tab = t /\ d.pc = "channel"
    OBVIOUS
  <2> HIDE DEF d
  <2>3. CallOK(d)'
    BY <2>1, <2>2, TabsAssumption DEF CallOK, Own
  <2> QED BY <2>1, <2>3, <1>n
<1>2. ASSUME NEW t \in Tabs, Close(t) PROVE CallsOK'
  BY <1>2, <1>a, <1>f DEF Close, CallsOK
<1>3. CASE \/ \E t \in Tabs : ClearAccount(t) \/ Connect(t) \/ Reset(t) \/ StorageChanged(t) \/ Elected(t)
           \/ UNCHANGED vars
  BY <1>3, <1>u DEF ClearAccount, Connect, Reset, StorageChanged, Elected, vars
<1>4. ASSUME NEW c \in calls, Stop(c) \/ MakeRequest(c) PROVE CallsOK'
  BY <1>4, <1>u DEF Stop, MakeRequest, Send, Fail
<1>5. ASSUME NEW m \in wallet, NEW kind \in {"acknowledge", "answer", "error"}, Answer(m, kind)
      PROVE  CallsOK'
  BY <1>5, <1>u DEF Answer
<1>6. ASSUME NEW c \in calls, InitChannel(c) \/ AwaitLeadership(c) PROVE CallsOK'
  <2>1. Own(c) /\ alive' = alive
    BY <1>6, <1>a DEF InitChannel, AwaitLeadership, CallOK
  <2>2. PICK d \in Calls : /\ calls' = (calls \ {c}) \cup {d} /\ d.id = c.id /\ d.tab = c.tab
                           /\ d.pc \in {"route", "leadership"}
                           /\ d.pc = "route" => c.tab \in listening'
    BY <1>6, ChannelMoves DEF TypeOK
  <2>3. from'[d.id] = d.tab /\ d.tab \in alive'
    BY <1>a, <1>o, <2>1, <2>2 DEF Own
  <2>4. CallOK(d)'
    BY <1>a, <2>2, <2>3, TabsAssumption DEF CallOK, Own, Stranger
  <2>5. calls' \subseteq calls \cup {d}
    BY <2>2
  <2> QED BY <2>1, <2>4, <2>5, <1>n
<1>8. ASSUME NEW c \in calls, Route(c) PROVE CallsOK'
  BY <1>8, <1>u, <1>m DEF Route
<1>9. ASSUME NEW c \in calls, Forward(c) PROVE CallsOK'
  BY <1>9, <1>m DEF Forward
<1>10. ASSUME NEW t \in Tabs, Receive(t) PROVE CallsOK'
  <2>1. /\ t \in alive /\ UNCHANGED <<alive, from>>
        /\ calls' = IF Head(inbox[t]).type = "request" /\ leader = t THEN calls \cup {Heard(t)} ELSE calls
    BY <1>10, ReceiveEffect
  <2>2. Head(inbox[t]) \in Items(inbox[t])
    BY <1>10, ReceiveItems
  <2>3. PICK d : d = Heard(t)
    OBVIOUS
  <2>4. d.id = Head(inbox[t]).id /\ d.tab = t /\ d.pc = "transport"
    BY <2>3 DEF Heard
  <2>5. ASSUME Head(inbox[t]).type = "request" PROVE CallOK(d)'
    <3>1. Stranger(t, d.id)
      BY <2>2, <2>4, <2>5 DEF MailOK
    <3>2. from'[d.id] \notin {t, NoTab} /\ t \in alive'
      BY <2>1, <3>1 DEF Stranger
    <3> QED BY <2>4, <3>2 DEF CallOK, Own
  <2>6. CASE calls' = calls
    BY <2>1, <2>6, <1>u
  <2>7. CASE Head(inbox[t]).type = "request" /\ calls' = calls \cup {d}
    BY <2>1, <2>5, <2>7, <1>n
  <2> QED BY <2>1, <2>3, <2>6, <2>7
<1>11. ASSUME NEW t \in Tabs, NEW r \in Requests,
              \/ RequestPermissions(t, r) \/ RequestOperation(t, r) \/ RequestSignPayload(t, r)
              \/ RequestProofOfEvent(t, r) \/ RequestBroadcast(t, r)
       PROVE  CallsOK'
  BY <1>1, <1>11 DEF RequestPermissions, RequestOperation, RequestSignPayload, RequestProofOfEvent,
                     RequestBroadcast
<1> QED
  BY <1>2, <1>3, <1>4, <1>5, <1>6, <1>8, <1>9, <1>10, <1>11 DEF Next, Users, Code

\* A tab hears the request of another as a message, and holds it since its own
\* prepareRequest.
LEMMA StrangersNext ==
    TypeOK /\ CallsOK /\ FreshOK /\ HeldOK /\ MailOK /\ [Next]_vars => HeldOK' /\ MailOK'
<1> SUFFICES ASSUME TypeOK, CallsOK, FreshOK, HeldOK, MailOK, [Next]_vars PROVE HeldOK' /\ MailOK'
  OBVIOUS
<1> USE DEF tabs, connections, requests
<1>t. /\ inbox \in [Tabs -> Seq(Msgs)] /\ openRequestsOtherTabs \in [Tabs -> SUBSET Requests]
      /\ \A c \in calls : c.id \in Requests /\ c.tab \in Tabs /\ CallOK(c)
      /\ \A m \in wallet : m.id \in Requests /\ m.tab \in Tabs
  BY DEF TypeOK, Msgs, CallsOK, Calls
<1>f. \A t \in Tabs, r \in Requests : Stranger(t, r) => Stranger(t, r)'
  BY Frame
<1>h. ASSUME \A t \in Tabs : openRequestsOtherTabs'[t] \subseteq openRequestsOtherTabs[t] PROVE HeldOK'
  BY <1>f, <1>h, <1>t DEF HeldOK
<1>m. ASSUME \A t \in Tabs : \A m \in Items(inbox[t])' : m \in Items(inbox[t]) \/ m.type # "request"
      PROVE  MailOK'
  BY <1>f, <1>m DEF MailOK
<1>i. \A u \in Tabs : Items(inbox[u])' = Items(inbox'[u])
  BY DEF Items
<1>p. ASSUME NEW t \in Tabs, NEW m \in Msgs, inbox' = Posted(t, m), m.type # "request" PROVE MailOK'
  <2>1. \A u \in Tabs : Items(inbox[u])' =
           IF u \in (alive \cap listening) \ {t} THEN Items(inbox[u]) \cup {m} ELSE Items(inbox[u])
    BY <1>t, <1>p, PostedNext
  <2> QED BY <1>p, <1>m, <2>1
<1>v. ASSUME inbox' = inbox PROVE MailOK'
  BY <1>v, <1>m, <1>i
<1>s. ASSUME NEW t \in Tabs, StartReset(t) PROVE MailOK'
  <2>1. Signal("DISCONNECT") \in Msgs /\ Signal("DISCONNECT").type # "request"
    BY MessageTyped DEF Signal, Message
  <2> QED BY <1>s, <2>1, <1>p, <1>v DEF StartReset
<1>1. ASSUME NEW t \in Tabs, NEW r \in Requests, NEW need, Make(t, r, need) PROVE HeldOK' /\ MailOK'
  BY <1>1, <1>h, <1>v DEF Make
<1>2. ASSUME NEW t \in Tabs, ClearAccount(t) PROVE HeldOK' /\ MailOK'
  BY <1>2, <1>h, <1>s DEF ClearAccount
<1>3. ASSUME NEW t \in Tabs, Close(t) PROVE HeldOK' /\ MailOK'
  <2>1. Signal("LEADER_DEAD") \in Msgs /\ Signal("LEADER_DEAD").type # "request"
    BY MessageTyped DEF Signal, Message
  <2> QED BY <1>3, <2>1, <1>h, <1>p, <1>v DEF Close
<1>4. ASSUME NEW c \in calls, Stop(c) \/ MakeRequest(c) \/ InitChannel(c) \/ AwaitLeadership(c)
      PROVE  HeldOK' /\ MailOK'
  <2>1. UNCHANGED <<openRequestsOtherTabs, inbox>>
    BY <1>4 DEF Stop, MakeRequest, InitChannel, AwaitLeadership
  <2> QED BY <2>1, <1>h, <1>v
<1>5. ASSUME NEW m \in wallet, NEW kind \in {"acknowledge", "answer", "error"}, Answer(m, kind)
      PROVE  HeldOK' /\ MailOK'
  <2>1. Message(kind, m.id) \in Msgs /\ Message(kind, m.id).type # "request"
    BY <1>t, MessageTyped DEF Message
  <2>2. CASE m.id \in openRequestsOtherTabs[m.tab]
    BY <1>5, <1>t, <2>1, <2>2, <1>h, <1>p DEF Answer, HandleResponse, Relay
  <2>3. CASE m.id \notin openRequestsOtherTabs[m.tab]
    BY <1>5, <2>3, <1>h, <1>v DEF Answer, HandleResponse
  <2> QED BY <2>2, <2>3
<1>6. ASSUME NEW c \in calls, Route(c) PROVE HeldOK' /\ MailOK'
  <2>1. HeldOK'
    BY <1>6, <1>h DEF Route
  <2>2. CASE MakesItself(c)
    BY <1>6, <2>1, <2>2, <1>v DEF Route
  <2>3. CASE ~MakesItself(c)
    <3> DEFINE d == Message("request", c.id)
    <3>1. d \in Msgs /\ d.id = c.id
      BY <1>t, MessageTyped DEF Message
    <3>2. inbox' = Posted(c.tab, d)
      BY <1>6, <2>3 DEF Route, RequestMessage
    <3> HIDE DEF d
    <3>3. \A u \in Tabs : Items(inbox[u])' =
             IF u \in (alive \cap listening) \ {c.tab} THEN Items(inbox[u]) \cup {d} ELSE Items(inbox[u])
      BY <1>t, <3>1, <3>2, PostedNext
    <3>4. from[c.id] = c.tab /\ c.tab # NoTab
      BY <1>6, <1>t, TabsAssumption DEF Route, CallOK, Own
    <3>5. \A u \in Tabs : u # c.tab => Stranger(u, c.id)
      BY <3>4 DEF Stranger
    <3>6. \A u \in Tabs : \A m \in Items(inbox[u])' : m \in Items(inbox[u]) \/ (m = d /\ u # c.tab)
      BY <3>3
    <3>7. MailOK'
      BY <1>t, <1>f, <3>1, <3>5, <3>6 DEF MailOK
    <3> QED BY <2>1, <3>7
  <2> QED BY <2>2, <2>3
<1>7. ASSUME NEW c \in calls, Forward(c) PROVE HeldOK' /\ MailOK'
  <2>1. Stranger(c.tab, c.id)
    BY <1>7, <1>t DEF Forward, CallOK, Own, Stranger
  <2>2. openRequestsOtherTabs' = [openRequestsOtherTabs EXCEPT ![c.tab] = @ \cup {c.id}] /\ inbox' = inbox
    BY <1>7 DEF Forward
  <2>3. \A t \in Tabs : \A r \in openRequestsOtherTabs'[t] :
           r \in openRequestsOtherTabs[t] \/ (t = c.tab /\ r = c.id)
    BY <1>t, <2>2
  <2>4. HeldOK'
    BY <1>f, <1>t, <2>1, <2>3 DEF HeldOK
  <2> QED BY <2>2, <2>4, <1>v
<1>8. CASE (\E t \in Tabs : Connect(t) \/ Elected(t)) \/ UNCHANGED vars
  BY <1>8, <1>h, <1>v DEF Connect, Elected, vars
<1>9. ASSUME NEW t \in Tabs, Reset(t) PROVE HeldOK' /\ MailOK'
  BY <1>9, <1>t, <1>h, <1>v DEF Reset
<1>10. ASSUME NEW t \in Tabs, StorageChanged(t) PROVE HeldOK' /\ MailOK'
  BY <1>10, <1>h, <1>v, <1>s DEF StorageChanged
<1>11. ASSUME NEW t \in Tabs, Receive(t) PROVE HeldOK' /\ MailOK'
  <2>1. openRequestsOtherTabs' = openRequestsOtherTabs
    BY <1>11, ReceiveEffect
  <2>2. \A u \in Tabs : Items(inbox[u])' \subseteq Items(inbox[u]) \cup {Signal("DISCONNECT")}
    BY <1>11, ReceiveItems
  <2>3. Signal("DISCONNECT").type # "request"
    BY DEF Signal, Message
  <2> QED BY <2>1, <2>2, <2>3, <1>h, <1>m
<1>12. ASSUME NEW t \in Tabs, NEW r \in Requests,
              \/ RequestPermissions(t, r) \/ RequestOperation(t, r) \/ RequestSignPayload(t, r)
              \/ RequestProofOfEvent(t, r) \/ RequestBroadcast(t, r)
       PROVE  HeldOK' /\ MailOK'
  BY <1>1, <1>12 DEF RequestPermissions, RequestOperation, RequestSignPayload, RequestProofOfEvent,
                     RequestBroadcast
<1> QED
  BY <1>2, <1>3, <1>4, <1>5, <1>6, <1>7, <1>8, <1>9, <1>10, <1>11, <1>12 DEF Next, Users, Code

-----------------------------------------------------------------------------
(* No request is lost.                                                     *)

\* Calls in progress stay until they move on.
LEMMA OwnCallFrame ==
    ASSUME NEW r \in Requests, OwnCall(r), from'[r] = from[r],
           \A c \in calls : c.id = r /\ Own(c) => c \in calls'
    PROVE  OwnCall(r)'
BY DEF OwnCall, Own

\* What the leader has stays with it.
LEMMA WithLeaderFrame ==
    ASSUME NEW r \in Requests, WithLeader(r), leader' = leader, leader \in alive',
           Message("request", r) \in Items(inbox[leader]) => Message("request", r) \in Items(inbox'[leader]),
           \A c \in calls : c.id = r /\ c.tab = leader => c \in calls',
           r \in openRequestsOtherTabs[leader] => r \in openRequestsOtherTabs'[leader],
           Submitted(r, leader) => Submitted(r, leader)'
    PROVE  WithLeader(r)'
<1>1. Items(inbox[leader])' = Items(inbox'[leader])
  BY DEF Items
<1>2. Message("request", r)' = Message("request", r)
  BY DEF Message
<1>3. Submitted(r, leader)' = ([id |-> r, tab |-> leader] \in wallet')
  BY DEF Submitted
<1> QED BY <1>1, <1>2, <1>3, Zenon DEF WithLeader

\* A step that takes nothing of r away leaves r where it is.
LEMMA LocatedFrame ==
    ASSUME TypeOK, NEW r \in Requests, Located(r), from'[r] = from[r], from[r] \in Tabs,
           \A c \in calls : c.id = r => c \in calls',
           r \in openRequests[from[r]] => r \in openRequests'[from[r]],
           listening \subseteq listening', wallet \subseteq wallet',
           leader \in alive => /\ leader' = leader /\ leader \in alive'
                               /\ r \in openRequestsOtherTabs[leader] => r \in openRequestsOtherTabs'[leader],
           \A t \in Tabs : Items(inbox[t]) \subseteq Items(inbox[t])'
    PROVE  Located(r)'
<1>0. alive \subseteq Tabs
  BY DEF TypeOK
<1>1. CASE OwnCall(r)
  BY <1>1, OwnCallFrame DEF Located
<1>2. CASE Submitted(r, from[r]) /\ r \in openRequests[from[r]]
  BY <1>2 DEF Submitted, Located
<1>3. CASE WithLeader(r) /\ r \in openRequests[from[r]] /\ from[r] \in listening
  <2>1. leader \in alive
    BY <1>3 DEF WithLeader
  <2>2. Items(inbox[leader]) \subseteq Items(inbox'[leader])
    <3>1. Items(inbox[leader]) \subseteq Items(inbox[leader])'
      BY <1>0, <2>1
    <3> QED BY <3>1, <2>1 DEF Items
  <2>3. Submitted(r, leader) => Submitted(r, leader)'
    BY <2>1 DEF Submitted
  <2>4. WithLeader(r)'
    BY <1>3, <2>1, <2>2, <2>3, WithLeaderFrame
  <2> QED BY <1>3, <2>4 DEF Located
<1>4. CASE AnswerPosted(r) /\ r \in openRequests[from[r]] /\ from[r] \in listening
  <2>1. PICK k \in {"answer", "error"} : Message(k, r) \in Items(inbox[from[r]])
    BY <1>4 DEF AnswerPosted
  <2>2. Items(inbox[from[r]]) \subseteq Items(inbox'[from[r]])
    <3>1. \A t \in Tabs : Items(inbox[t]) \subseteq Items(inbox'[t])
      BY DEF Items
    <3> QED BY <3>1
  <2>3. Items(inbox[from[r]])' = Items(inbox'[from[r]])
    BY DEF Items
  <2>4. Message(k, r)' = Message(k, r)
    BY DEF Message
  <2>5. AnswerPosted(r)'
    BY <2>1, <2>2, <2>3, <2>4, Zenon DEF AnswerPosted
  <2> QED BY <1>4, <2>5 DEF Located
<1> QED BY <1>1, <1>2, <1>3, <1>4 DEF Located

\* What is known of r when it is looked for: it is somewhere, and its caller is there.
Sought(r) ==
    /\ TypeOK /\ Leading /\ CallsOK /\ FreshOK /\ HeldOK /\ MailOK
    /\ Located(r) /\ from[r] \in alive

LEMMA SoughtTyped ==
    ASSUME NEW r \in Requests, Sought(r)
    PROVE  /\ from[r] \in Tabs /\ from[r] # NoTab /\ alive \subseteq Tabs /\ NoTab \notin alive
           /\ inbox \in [Tabs -> Seq(Msgs)] /\ openRequestsOtherTabs \in [Tabs -> SUBSET Requests]
           /\ openRequests \in [Tabs -> SUBSET Requests]
           /\ outcome \in [Requests -> {"none", "pending", "resolved", "rejected", "failed"}]
           /\ \A c \in calls : c.id \in Requests /\ c.tab \in alive /\ c.tab \in Tabs /\ CallOK(c)
           /\ \A m \in wallet : m.id \in Requests /\ m.tab \in Tabs /\ m = [id |-> m.id, tab |-> m.tab]
           /\ \A t \in Tabs : r \in openRequestsOtherTabs[t] => from[r] # t
<1>1. /\ from[r] \in alive /\ alive \subseteq Tabs /\ NoTab \notin Tabs
      /\ inbox \in [Tabs -> Seq(Msgs)] /\ openRequestsOtherTabs \in [Tabs -> SUBSET Requests]
      /\ openRequests \in [Tabs -> SUBSET Requests]
      /\ outcome \in [Requests -> {"none", "pending", "resolved", "rejected", "failed"}]
  BY TabsAssumption DEF Sought, TypeOK, Msgs
<1>2. \A c \in calls : c.id \in Requests /\ c.tab \in Tabs
  BY DEF Sought, TypeOK, Calls
<1>3. \A c \in calls : CallOK(c) /\ c.tab \in alive
  BY DEF Sought, CallsOK, CallOK
<1>4. \A m \in wallet : m.id \in Requests /\ m.tab \in Tabs /\ m = [id |-> m.id, tab |-> m.tab]
  BY DEF Sought, TypeOK
<1>5. \A t \in Tabs : r \in openRequestsOtherTabs[t] => from[r] # t
  BY DEF Sought, HeldOK, Stranger
<1> QED BY <1>1, <1>2, <1>3, <1>4, <1>5

\* A closing leader gives up all it has of others.
LEMMA CloseKeeps ==
    ASSUME NEW r \in Requests, Sought(r), NEW t \in Tabs, Close(t), from[r] \in alive', r \notin given'
    PROVE  Located(r)'
<1> USE DEF tabs, connections, requests
<1>1. /\ UNCHANGED <<from, listening, openRequests, openRequestsOtherTabs, wallet>>
      /\ alive' = alive \ {t} /\ calls' = {c \in calls : c.tab # t}
      /\ leader' = IF leader = t THEN NoTab ELSE leader
  BY DEF Close
<1>2. from[r] # t /\ from[r] \in Tabs
  BY <1>1, SoughtTyped
<1>3. \A u \in Tabs : Items(inbox[u]) \subseteq Items(inbox[u])'
  <2>1. CASE inbox' = inbox
    BY <2>1 DEF Items
  <2>2. CASE inbox' = Posted(t, Signal("LEADER_DEAD"))
    <3>1. \A u \in Tabs : Items(inbox[u])' =
             IF u \in (alive \cap listening) \ {t} THEN Items(inbox[u]) \cup {Signal("LEADER_DEAD")}
             ELSE Items(inbox[u])
      BY <2>2, SoughtTyped, MessageTyped, PostedNext
    <3> QED BY <3>1
  <2> QED BY <2>1, <2>2 DEF Close
<1>4. CASE OwnCall(r)
  <2>1. \A c \in calls : c.id = r /\ Own(c) => c \in calls'
    BY <1>1, <1>2 DEF Own
  <2>2. OwnCall(r)'
    BY <1>1, <1>4, <2>1, OwnCallFrame
  <2> QED BY <2>2 DEF Located
<1>5. CASE WithLeader(r) /\ r \in openRequests[from[r]] /\ from[r] \in listening
  <2>1. leader \in alive /\ leader \in Tabs
    BY <1>5, SoughtTyped DEF WithLeader
  <2>2. leader # t
    <3> SUFFICES ASSUME leader = t PROVE FALSE
      OBVIOUS
    <3>1. r \notin openRequestsOtherTabs[t]
      BY DEF Close
    <3>2. \A c \in calls : c.id = r /\ c.tab = t => Own(c)
      BY DEF Close
    <3>3. \A c \in calls : ~(c.id = r /\ c.tab = t)
      BY <1>2, <3>2 DEF Own
    <3>4. Message("request", r) \notin Items(inbox[t])
      <4> SUFFICES ASSUME Message("request", r) \in Items(inbox[t]) PROVE FALSE
        OBVIOUS
      <4>1. PICK i \in 1..Len(inbox[t]) : inbox[t][i] = Message("request", r)
        BY DEF Items
      <4>2. inbox[t][i].id = r /\ r # 0
        BY <4>1, BoundAssumption DEF Message, Requests
      <4>3. r \in {inbox[t][j].id : j \in 1..Len(inbox[t])} \ {0}
        BY <4>2
      <4> QED BY <4>3 DEF Close
    <3> QED BY <1>5, <3>1, <3>3, <3>4, Zenon DEF WithLeader
  <2>3. leader' = leader /\ leader \in alive'
    BY <1>1, <2>1, <2>2
  <2>4. Items(inbox[leader]) \subseteq Items(inbox'[leader])
    BY <1>3, <2>1 DEF Items
  <2>5. \A c \in calls : c.id = r /\ c.tab = leader => c \in calls'
    BY <1>1, <2>2
  <2>6. Submitted(r, leader) => Submitted(r, leader)'
    BY <1>1, <2>3 DEF Submitted
  <2>7. WithLeader(r)'
    BY <1>1, <1>5, <2>3, <2>4, <2>5, <2>6, WithLeaderFrame
  <2> QED BY <1>1, <1>5, <2>7 DEF Located
<1>6. CASE AnswerPosted(r) /\ r \in openRequests[from[r]] /\ from[r] \in listening
  <2>1. Items(inbox[from[r]]) \subseteq Items(inbox[from[r]])'
    <3>1. \A u \in Tabs : Items(inbox[u]) \subseteq Items(inbox'[u])
      BY <1>3 DEF Items
    <3> QED BY <1>1, <1>2, <3>1 DEF Items
  <2>2. AnswerPosted(r)'
    BY <1>6, <2>1 DEF AnswerPosted, Message
  <2> QED BY <1>1, <1>6, <2>2 DEF Located
<1>7. CASE Submitted(r, from[r]) /\ r \in openRequests[from[r]]
  BY <1>1, <1>7 DEF Submitted, Located
<1> QED BY <1>4, <1>5, <1>6, <1>7 DEF Sought, Located

\* The answer is settled by the tab it is for, or posted on to it.
LEMMA AnswerKeeps ==
    ASSUME NEW r \in Requests, Sought(r), NEW m \in wallet,
           NEW kind \in {"acknowledge", "answer", "error"}, Answer(m, kind), outcome'[r] = "pending"
    PROVE  Located(r)'
<1> USE DEF tabs, connections, requests
<1>1. /\ UNCHANGED <<from, listening, alive, leader, calls>> /\ m.tab \in alive
      /\ wallet' = IF kind = "acknowledge" THEN wallet ELSE wallet \ {m}
      /\ m.tab \in Tabs /\ m.id \in Requests /\ from[r] \in Tabs
  BY SoughtTyped DEF Answer
<1>2. \A u \in Tabs : Items(inbox[u]) \subseteq Items(inbox[u])'
  <2>1. CASE inbox' = inbox
    BY <2>1 DEF Items
  <2>2. CASE inbox' = Posted(m.tab, Message(kind, m.id))
    <3>0. Message(kind, m.id) \in Msgs
      BY <1>1, MessageTyped
    <3>1. \A u \in Tabs : Items(inbox[u])' =
             IF u \in (alive \cap listening) \ {m.tab} THEN Items(inbox[u]) \cup {Message(kind, m.id)}
             ELSE Items(inbox[u])
      BY <1>1, <2>2, <3>0, SoughtTyped, PostedNext
    <3> QED BY <3>1
  <2> QED BY <2>1, <2>2 DEF Answer, HandleResponse, Relay
<1>3. CASE m.id # r \/ kind = "acknowledge"
  <2>1. r \in openRequests[from[r]] => r \in openRequests'[from[r]]
    BY <1>1, <1>3, SoughtTyped DEF Answer, HandleResponse, Settle
  <2>2. \A t \in Tabs : r \in openRequestsOtherTabs[t] => r \in openRequestsOtherTabs'[t]
    <3>1. openRequestsOtherTabs \in [Tabs -> SUBSET Requests]
      BY SoughtTyped
    <3>2. \/ openRequestsOtherTabs' = openRequestsOtherTabs
          \/ openRequestsOtherTabs' = [openRequestsOtherTabs EXCEPT ![m.tab] = @ \ {m.id}] /\ m.id # r
      BY <1>3 DEF Answer, HandleResponse, Relay
    <3> QED BY <1>1, <3>1, <3>2
  <2>3. \A t \in Tabs : Submitted(r, t) => Submitted(r, t)'
    BY <1>1, <1>3 DEF Submitted
  <2>4. CASE OwnCall(r)
    BY <1>1, <2>4 DEF OwnCall, Own, Located
  <2>5. CASE Submitted(r, from[r]) /\ r \in openRequests[from[r]]
    <3>1. Submitted(r, from[r])'
      BY <1>1, <2>3, <2>5 DEF Submitted
    <3> QED BY <1>1, <2>1, <2>5, <3>1 DEF Located
  <2>6. CASE WithLeader(r) /\ r \in openRequests[from[r]] /\ from[r] \in listening
    <3>1. leader \in alive /\ leader \in Tabs
      BY <2>6, SoughtTyped DEF WithLeader
    <3>2. Items(inbox[leader]) \subseteq Items(inbox'[leader])
      BY <1>2, <3>1 DEF Items
    <3>3. Submitted(r, leader) => Submitted(r, leader)'
      BY <1>1, <2>3, <3>1 DEF Submitted
    <3>4. WithLeader(r)'
      BY <1>1, <2>2, <2>6, <3>1, <3>2, <3>3, WithLeaderFrame
    <3> QED BY <1>1, <2>1, <2>6, <3>4 DEF Located
  <2>7. CASE AnswerPosted(r) /\ r \in openRequests[from[r]] /\ from[r] \in listening
    <3>1. Items(inbox[from[r]]) \subseteq Items(inbox[from[r]])'
      BY <1>1, <1>2 DEF Items
    <3>2. AnswerPosted(r)'
      BY <2>7, <3>1 DEF AnswerPosted, Message
    <3> QED BY <1>1, <2>1, <2>7, <3>2 DEF Located
  <2> QED BY <2>4, <2>5, <2>6, <2>7 DEF Sought, Located
<1>4. CASE m.id = r /\ kind # "acknowledge" /\ r \in openRequestsOtherTabs[m.tab]
  <2>1. inbox' = Posted(m.tab, Message(kind, r)) /\ openRequests' = openRequests
    BY <1>4 DEF Answer, HandleResponse, Relay
  <2>2. from[r] # m.tab
    BY <1>1, <1>4, SoughtTyped
  <2>3. CASE OwnCall(r)
    BY <1>1, <2>3 DEF OwnCall, Own, Located
  <2>4. CASE Submitted(r, from[r]) /\ r \in openRequests[from[r]]
    <3>1. [id |-> r, tab |-> from[r]] # m
      BY <2>2
    <3>2. Submitted(r, from[r])'
      BY <1>1, <2>4, <3>1 DEF Submitted
    <3> QED BY <1>1, <2>1, <2>4, <3>2 DEF Located
  <2>5. CASE r \in openRequests[from[r]] /\ from[r] \in listening
    <3>0. Message(kind, r) \in Msgs
      BY MessageTyped
    <3>1. Message(kind, r) \in Items(inbox[from[r]])'
      <4>1. Items(inbox[from[r]])' = Items(inbox'[from[r]])
        BY <1>1 DEF Items
      <4>2. \A u \in Tabs : Items(inbox'[u]) =
               IF u \in (alive \cap listening) \ {m.tab} THEN Items(inbox[u]) \cup {Message(kind, r)}
               ELSE Items(inbox[u])
        <5>1. inbox \in [Tabs -> Seq(Msgs)]
          BY SoughtTyped
        <5>2. \A u \in Tabs : Items(inbox[u])' =
                 IF u \in (alive \cap listening) \ {m.tab} THEN Items(inbox[u]) \cup {Message(kind, r)}
                 ELSE Items(inbox[u])
          BY <1>1, <2>1, <3>0, <5>1, PostedNext
        <5> QED BY <5>2 DEF Items
      <4>3. from[r] \in (alive \cap listening) \ {m.tab}
        BY <2>2, <2>5 DEF Sought
      <4> QED BY <1>1, <4>1, <4>2, <4>3
    <3>2. AnswerPosted(r)'
      BY <1>4, <3>1 DEF AnswerPosted, Message
    <3> QED BY <1>1, <2>1, <2>5, <3>2 DEF Located
  <2> QED BY <2>3, <2>4, <2>5 DEF Sought, Located
<1>5. CASE m.id = r /\ kind # "acknowledge" /\ r \notin openRequestsOtherTabs[m.tab]
  <2>1. Settle(m.tab, r, kind) /\ UNCHANGED <<inbox, openRequestsOtherTabs>>
    BY <1>5 DEF Answer, HandleResponse
  <2>2. openRequests' = [openRequests EXCEPT ![m.tab] = @ \ {r}]
    BY <1>5, <2>1 DEF Settle
  <2>3. m.tab = from[r] => r \notin openRequests[from[r]]
    BY <1>5, <2>1, SoughtTyped DEF Settle
  <2>4. CASE OwnCall(r)
    BY <1>1, <2>4 DEF OwnCall, Own, Located
  <2>5. CASE r \in openRequests[from[r]]
    <3>1. m.tab # from[r] /\ r \in openRequests'[from'[r]] /\ listening' = listening
      BY <1>1, <2>2, <2>3, <2>5, SoughtTyped
    <3>2. [id |-> r, tab |-> from[r]] # m
      BY <3>1
    <3>3. CASE Submitted(r, from[r])
      BY <1>1, <3>1, <3>2, <3>3 DEF Submitted, Located
    <3>4. CASE WithLeader(r) /\ from[r] \in listening
      <4>1. leader \in alive /\ (r \in openRequestsOtherTabs[leader] => leader # m.tab)
        BY <1>5, <3>4 DEF WithLeader
      <4>2. r \in openRequestsOtherTabs[leader] => (Submitted(r, leader) => Submitted(r, leader)')
        BY <1>1, <4>1 DEF Submitted
      <4>3. WithLeader(r)'
        BY <1>1, <2>1, <3>4, <4>1, <4>2, Zenon DEF WithLeader, Items, Message
      <4> QED BY <1>1, <3>1, <3>4, <4>3 DEF Located
    <3>5. CASE AnswerPosted(r) /\ from[r] \in listening
      BY <1>1, <2>1, <3>1, <3>5 DEF AnswerPosted, Items, Message, Located
    <3> QED BY <2>5, <3>3, <3>4, <3>5, <2>4 DEF Sought, Located
  <2> QED BY <2>4, <2>5 DEF Sought, Located
<1> QED BY <1>3, <1>4, <1>5

\* The leader takes a request it hears; the caller settles an answer it hears.
LEMMA ReceiveKeeps ==
    ASSUME NEW r \in Requests, Sought(r), NEW t \in Tabs, Receive(t), outcome'[r] = "pending"
    PROVE  Located(r)'
<1> DEFINE msg == Head(inbox[t])
<1>1. /\ t \in alive
      /\ UNCHANGED <<alive, leader, listening, from, needs, openRequestsOtherTabs, wallet, given>>
      /\ calls' = IF msg.type = "request" /\ leader = t THEN calls \cup {Heard(t)} ELSE calls
      /\ IF msg.type \in {"acknowledge", "answer", "error"} THEN Settle(t, msg.id, msg.type)
         ELSE UNCHANGED <<openRequests, outcome>>
  BY ReceiveEffect DEF Sought
<1>2. /\ \A u \in Tabs : u # t => Items(inbox[u]) \subseteq Items(inbox'[u])
      /\ Items(inbox[t]) = {msg} \cup Items(inbox'[t])
  BY ReceiveItems DEF Sought, Items
<1>3. CASE OwnCall(r)
  <2>1. \A c \in calls : c.id = r /\ Own(c) => c \in calls'
    BY <1>1
  <2> QED BY <1>1, <1>3, <2>1, OwnCallFrame DEF Located
<1> HIDE DEF msg
<1>4. CASE r \in openRequests[from[r]] /\ ~OwnCall(r)
  <2>0. /\ openRequests \in [Tabs -> SUBSET Requests] /\ from[r] \in Tabs
        /\ outcome \in [Requests -> {"none", "pending", "resolved", "rejected", "failed"}]
    BY SoughtTyped
  <2>2. ~(t = from[r] /\ msg.id = r /\ msg.type \in {"answer", "error"})
    BY <1>1, <1>4, <2>0 DEF Settle
  <2>1. r \in openRequests'[from[r]]
    <3>1. CASE openRequests' = openRequests
      BY <1>4, <3>1
    <3>2. CASE msg.type \in {"answer", "error"} /\ openRequests' = [openRequests EXCEPT ![t] = @ \ {msg.id}]
      BY <1>4, <2>0, <2>2, <3>2
    <3> QED BY <1>1, <3>1, <3>2 DEF Settle
  <2>3. CASE Submitted(r, from[r])
    BY <1>1, <2>1, <2>3 DEF Submitted, Located
  <2>4. CASE WithLeader(r) /\ from[r] \in listening
    <3>1. leader \in alive /\ leader \in Tabs
      BY <2>4, SoughtTyped DEF WithLeader
    <3>2. CASE Message("request", r) \in Items(inbox[leader]) /\ leader = t /\ Message("request", r) = msg
      <4>1. calls' = calls \cup {Heard(t)}
        BY <1>1, <3>2 DEF Message
      <4>2. PICK d : d = Heard(t)
        OBVIOUS
      <4>3. d.id = r /\ d.tab = t /\ d.pc = "transport" /\ d \in calls'
        BY <4>1, <4>2, <3>2 DEF Heard, Message, msg
      <4>4. WithLeader(r)'
        BY <1>1, <3>1, <3>2, <4>3, Zenon DEF WithLeader
      <4> QED BY <1>1, <2>1, <2>4, <4>4 DEF Located
    <3>3. CASE ~(Message("request", r) \in Items(inbox[leader]) /\ leader = t /\ Message("request", r) = msg)
      <4>1. Message("request", r) \in Items(inbox[leader]) => Message("request", r) \in Items(inbox'[leader])
        BY <1>2, <3>1, <3>3
      <4>2. \A c \in calls : c.id = r /\ c.tab = leader => c \in calls'
        BY <1>1
      <4>3. Submitted(r, leader) => Submitted(r, leader)'
        BY <1>1 DEF Submitted
      <4>4. WithLeader(r)'
        BY <1>1, <2>4, <3>1, <4>1, <4>2, <4>3, WithLeaderFrame
      <4> QED BY <1>1, <2>1, <2>4, <4>4 DEF Located
    <3> QED BY <3>2, <3>3
  <2>5. CASE AnswerPosted(r) /\ from[r] \in listening
    <3>1. PICK k \in {"answer", "error"} : Message(k, r) \in Items(inbox[from[r]])
      BY <2>5 DEF AnswerPosted
    <3>2. Message(k, r) \in Items(inbox'[from[r]])
      <4>1. Message(k, r).id = r /\ Message(k, r).type = k
        BY DEF Message
      <4>2. t = from[r] => Message(k, r) # msg
        BY <2>2, <4>1
      <4> QED BY <1>2, <2>0, <3>1, <4>2
    <3>3. AnswerPosted(r)'
      BY <1>1, <3>1, <3>2 DEF AnswerPosted, Items, Message
    <3> QED BY <1>1, <2>1, <2>5, <3>3 DEF Located
  <2> QED BY <1>4, <2>3, <2>4, <2>5 DEF Sought, Located
<1> QED BY <1>3, <1>4 DEF Sought, Located

\* A reset rejects what this tab has open; of the rest only a leader loses any.
LEMMA ResetKeeps ==
    ASSUME NEW r \in Requests, Sought(r), NEW t \in Tabs, Reset(t), outcome'[r] = "pending", r \notin given'
    PROVE  Located(r)'
<1> USE DEF tabs, connections, requests
<1>1. /\ UNCHANGED <<alive, leader, listening, from, calls, inbox, wallet>>
      /\ openRequests' = [openRequests EXCEPT ![t] = {}]
      /\ leader # t => openRequestsOtherTabs' = openRequestsOtherTabs
      /\ leader = t => r \notin openRequestsOtherTabs[t]
      /\ leader = t => openRequestsOtherTabs' = [openRequestsOtherTabs EXCEPT ![t] = {}]
  BY DEF Reset, RejectOpen
<1>2. from[r] = t => r \notin openRequests[t]
  BY SoughtTyped DEF Reset, RejectOpen, Mine
<1>3. CASE OwnCall(r)
  BY <1>1, <1>3 DEF OwnCall, Own, Located
<1>4. CASE r \in openRequests[from[r]]
  <2>1. r \in openRequests'[from'[r]] /\ from[r] # t
    BY <1>1, <1>2, <1>4, SoughtTyped
  <2>2. CASE Submitted(r, from[r])
    BY <1>1, <2>1, <2>2 DEF Submitted, Located
  <2>3. CASE WithLeader(r) /\ from[r] \in listening
    <3>1. leader \in alive /\ leader \in Tabs
      BY <2>3, SoughtTyped DEF WithLeader
    <3>2. r \in openRequestsOtherTabs[leader] => r \in openRequestsOtherTabs'[leader]
      BY <1>1, <3>1, SoughtTyped
    <3>3. Submitted(r, leader) => Submitted(r, leader)'
      BY <1>1 DEF Submitted
    <3>4. WithLeader(r)'
      BY <1>1, <2>3, <3>1, <3>2, <3>3, WithLeaderFrame
    <3> QED BY <1>1, <2>1, <2>3, <3>4 DEF Located
  <2>4. CASE AnswerPosted(r) /\ from[r] \in listening
    BY <1>1, <2>1, <2>4 DEF AnswerPosted, Items, Message, Located
  <2> QED BY <1>4, <1>3, <2>2, <2>3, <2>4 DEF Sought, Located
<1> QED BY <1>3, <1>4 DEF Sought, Located

\* Its own call ends with the request at the wallet, or failed; a forwarded one
\* with the request at the wallet, or given up.
LEMMA SendKeeps ==
    ASSUME NEW r \in Requests, Sought(r), NEW c \in calls, MakeRequest(c),
           outcome'[r] = "pending", r \notin given'
    PROVE  Located(r)'
<1> USE DEF tabs, connections, requests
<1>0. /\ c.id \in Requests /\ c.tab \in Tabs /\ from[r] \in Tabs /\ CallOK(c)
      /\ openRequests \in [Tabs -> SUBSET Requests]
      /\ outcome \in [Requests -> {"none", "pending", "resolved", "rejected", "failed"}]
  BY SoughtTyped
<1>1. /\ UNCHANGED <<alive, listening, from, openRequestsOtherTabs, inbox>> /\ c.pc = "init"
      /\ leader \in alive => leader' = leader
      /\ calls' = calls \ {c} /\ wallet \subseteq wallet'
      /\ r \in openRequests[from[r]] => r \in openRequests'[from[r]]
  <2>1. UNCHANGED <<alive, listening, from, openRequestsOtherTabs, inbox>> /\ c.pc = "init"
    BY DEF MakeRequest
  <2>2. leader \in alive => leader' = leader
    BY SoughtTyped DEF MakeRequest
  <2>3. calls' = calls \ {c} /\ wallet \subseteq wallet' /\ Send(c)
    BY DEF MakeRequest, Send, Fail
  <2>4. openRequests' \in {openRequests, [openRequests EXCEPT ![c.tab] = @ \cup {c.id}]}
    BY <2>3 DEF Send
  <2>5. r \in openRequests[from[r]] => r \in openRequests'[from[r]]
    BY <1>0, <2>4
  <2> QED BY <2>1, <2>2, <2>3, <2>5
<1>2. CASE c.id # r
  <2>1. \A d \in calls : d.id = r => d \in calls'
    BY <1>1, <1>2
  <2>2. \A t \in Tabs : Items(inbox[t]) \subseteq Items(inbox[t])'
    BY <1>1 DEF Items
  <2>3. listening \subseteq listening' /\ alive' = alive /\ from'[r] = from[r]
    BY <1>1
  <2> QED BY <1>0, <1>1, <2>1, <2>2, <2>3, LocatedFrame DEF Sought
<1>3. CASE c.id = r
  <2>1. Permitted(c)
    <3>1. CASE ~Permitted(c) /\ Own(c)
      BY <1>0, <1>3, <3>1 DEF MakeRequest, Send, Fail
    <3>2. CASE ~Permitted(c) /\ ~Own(c)
      BY <1>3, <3>2 DEF MakeRequest, Send, Fail
    <3> QED BY <3>1, <3>2
  <2>2. /\ openRequests' = [openRequests EXCEPT ![c.tab] = @ \cup {r}]
        /\ wallet' = wallet \cup {[id |-> r, tab |-> c.tab]}
    BY <1>3, <2>1 DEF MakeRequest, Send
  <2>3. CASE Own(c)
    <3>1. from'[r] = c.tab /\ r \in openRequests'[c.tab]
      BY <1>0, <1>1, <1>3, <2>2, <2>3 DEF Own
    <3>2. [id |-> r, tab |-> c.tab] \in wallet'
      BY <2>2
    <3> QED BY <3>1, <3>2, Zenon DEF Submitted, Located
  <2>4. CASE ~Own(c)
    <3>1. CASE OwnCall(r)
      <4>1. \A d \in calls : d.id = r /\ Own(d) => d \in calls'
        BY <1>1, <2>4
      <4> QED BY <1>1, <3>1, <4>1, OwnCallFrame DEF Located
    <3>2. CASE Submitted(r, from[r]) /\ r \in openRequests[from[r]]
      BY <1>1, <3>2 DEF Submitted, Located
    <3>3. CASE WithLeader(r) /\ r \in openRequests[from[r]] /\ from[r] \in listening
      <4>1. leader \in alive /\ leader' = leader
        BY <1>1, <3>3 DEF WithLeader
      <4>2. CASE c.tab = leader /\ r \in openRequestsOtherTabs[leader]
        <5>1. Submitted(r, leader)'
          BY <2>2, <4>1, <4>2 DEF Submitted
        <5>2. r \in openRequestsOtherTabs'[leader'] /\ leader' \in alive'
          BY <1>1, <4>1, <4>2
        <5>3. WithLeader(r)'
          BY <5>1, <5>2, Zenon DEF WithLeader
        <5> QED BY <1>1, <3>3, <5>3 DEF Located
      <4>3. CASE c.tab # leader
        <5>1. \A d \in calls : d.id = r /\ d.tab = leader => d \in calls'
          BY <1>1, <4>3
        <5>2. Submitted(r, leader) => Submitted(r, leader)'
          BY <1>1, <4>1 DEF Submitted
        <5>3. WithLeader(r)'
          BY <1>1, <3>3, <4>1, <5>1, <5>2, WithLeaderFrame
        <5> QED BY <1>1, <3>3, <5>3 DEF Located
      <4>4. CASE r \notin openRequestsOtherTabs[leader]
        <5>1. \/ Message("request", r) \in Items(inbox'[leader'])
              \/ \E d \in calls' : d.id = r /\ d.tab = leader' /\ d.pc = "transport"
          BY <1>1, <3>3, <4>1, <4>4 DEF WithLeader
        <5>2. WithLeader(r)'
          BY <1>1, <4>1, <5>1 DEF WithLeader, Items, Message
        <5> QED BY <1>1, <3>3, <5>2 DEF Located
      <4> QED BY <4>2, <4>3, <4>4
    <3>4. CASE AnswerPosted(r) /\ r \in openRequests[from[r]] /\ from[r] \in listening
      BY <1>1, <3>4 DEF AnswerPosted, Items, Message, Located
    <3> QED BY <3>1, <3>2, <3>3, <3>4 DEF Sought, Located
  <2> QED BY <2>3, <2>4
<1> QED BY <1>2, <1>3

\* A forwarded request is held by the leader before it is made.
LEMMA ForwardKeeps ==
    ASSUME NEW r \in Requests, Sought(r), NEW c \in calls, Forward(c)
    PROVE  Located(r)'
<1> USE DEF tabs, connections, requests
<1>0. c.id \in Requests /\ c.tab \in Tabs /\ from[r] \in Tabs /\ CallOK(c)
  BY SoughtTyped
<1>1. /\ UNCHANGED <<alive, leader, listening, from, openRequests, inbox, wallet>>
      /\ c.pc = "transport" /\ calls' = (calls \ {c}) \cup {Step(c, "init")}
      /\ \A t \in Tabs : openRequestsOtherTabs[t] \subseteq openRequestsOtherTabs'[t]
      /\ c.id \in openRequestsOtherTabs'[c.tab]
  <2>1. openRequestsOtherTabs \in [Tabs -> SUBSET Requests]
    BY SoughtTyped
  <2> QED BY <1>0, <2>1 DEF Forward, Move
<1>2. ~Own(c)
  BY <1>0, <1>1 DEF CallOK
<1>3. CASE OwnCall(r)
  <2>1. \A d \in calls : d.id = r /\ Own(d) => d \in calls'
    BY <1>1, <1>2
  <2> QED BY <1>1, <1>3, <2>1, OwnCallFrame DEF Located
<1>4. CASE Submitted(r, from[r]) /\ r \in openRequests[from[r]]
  BY <1>1, <1>4 DEF Submitted, Located
<1>5. CASE WithLeader(r) /\ r \in openRequests[from[r]] /\ from[r] \in listening
  <2>1. leader \in alive /\ leader \in Tabs
    BY <1>5, SoughtTyped DEF WithLeader
  <2>2. CASE c.id = r /\ c.tab = leader
    <3>1. /\ Step(c, "init").id = r /\ Step(c, "init").tab = leader /\ Step(c, "init").pc = "init"
          /\ Step(c, "init") \in calls'
      <4>1. c \in Calls
        BY DEF Sought, TypeOK
      <4> QED BY <1>1, <2>2, <4>1 DEF Step, Calls
    <3>2. r \in openRequestsOtherTabs'[leader]
      BY <1>1, <2>2
    <3>3. WithLeader(r)'
      BY <1>1, <2>1, <3>1, <3>2, Zenon DEF WithLeader
    <3> QED BY <1>1, <1>5, <3>3 DEF Located
  <2>3. CASE ~(c.id = r /\ c.tab = leader)
    <3>1. \A d \in calls : d.id = r /\ d.tab = leader => d \in calls'
      BY <1>1, <2>3
    <3>2. Submitted(r, leader) => Submitted(r, leader)'
      BY <1>1 DEF Submitted
    <3>3. WithLeader(r)'
      BY <1>1, <1>5, <2>1, <3>1, <3>2, WithLeaderFrame
    <3> QED BY <1>1, <1>5, <3>3 DEF Located
  <2> QED BY <2>2, <2>3
<1>6. CASE AnswerPosted(r) /\ r \in openRequests[from[r]] /\ from[r] \in listening
  BY <1>1, <1>6 DEF AnswerPosted, Items, Message, Located
<1> QED BY <1>3, <1>4, <1>5, <1>6 DEF Sought, Located

\* A call of its own that moves on is still one of its own.
LEMMA MoveKeeps ==
    ASSUME NEW r \in Requests, Sought(r), NEW c \in calls, Own(c),
           NEW d, calls' = (calls \ {c}) \cup {d}, d.id = c.id, d.tab = c.tab,
           UNCHANGED <<alive, from, openRequests, openRequestsOtherTabs, inbox, wallet>>,
           listening \subseteq listening', leader \in alive => leader' = leader
    PROVE  Located(r)'
<1>0. c.id \in Requests /\ from[r] \in Tabs /\ c \in Calls
  BY SoughtTyped DEF Sought, TypeOK
<1>1. CASE c.id = r
  <2>1. d.id = r /\ d.tab = c.tab /\ d \in calls'
    BY <1>1
  <2>2. from'[r] = c.tab
    BY <1>1 DEF Own
  <2> QED BY <2>1, <2>2 DEF Located, OwnCall, Own
<1>2. CASE c.id # r
  <2>1. \A e \in calls : e.id = r => e \in calls'
    BY <1>2
  <2>2. \A t \in Tabs : Items(inbox[t]) \subseteq Items(inbox[t])'
    BY DEF Items
  <2> QED BY <1>0, <2>1, <2>2, LocatedFrame DEF Sought
<1> QED BY <1>1, <1>2

\* A request is posted only where the leader hears it, or it is given up.
LEMMA RouteKeeps ==
    ASSUME NEW r \in Requests, Sought(r), NEW c \in calls, Route(c), r \notin given'
    PROVE  Located(r)'
<1> USE DEF tabs, connections, requests
<1>0. /\ c.id \in Requests /\ c.tab \in Tabs /\ from[r] \in Tabs /\ CallOK(c)
      /\ openRequests \in [Tabs -> SUBSET Requests] /\ inbox \in [Tabs -> Seq(Msgs)]
  BY SoughtTyped
<1>1. Own(c) /\ c.tab \in listening /\ UNCHANGED <<alive, leader, listening, from, openRequestsOtherTabs, wallet>>
  BY <1>0 DEF Route, CallOK
<1>2. CASE MakesItself(c)
  <2>1. PICK d : d = Step(c, "init")
    OBVIOUS
  <2>2. d.id = c.id /\ d.tab = c.tab
    BY <2>1, SoughtTyped DEF Step, Calls, Sought, TypeOK
  <2>3. calls' = (calls \ {c}) \cup {d}
    BY <1>2, <2>1 DEF Route, Move
  <2> QED BY <1>1, <1>2, <2>2, <2>3, MoveKeeps DEF Route
<1>3. CASE ~MakesItself(c)
  <2> DEFINE d == Message("request", c.id)
  <2>1. /\ calls' = calls \ {c} /\ inbox' = Posted(c.tab, d)
        /\ openRequests' = [openRequests EXCEPT ![c.tab] = @ \cup {c.id}]
        /\ c.id = r => leader # NoTab /\ leader \in listening /\ leader # c.tab
    BY <1>3 DEF Route, RequestMessage, MakesItself
  <2>2. d \in Msgs
    BY <1>0, MessageTyped
  <2>3. \A u \in Tabs : Items(inbox[u])' =
           IF u \in (alive \cap listening) \ {c.tab} THEN Items(inbox[u]) \cup {d} ELSE Items(inbox[u])
    BY <1>0, <2>1, <2>2, PostedNext
  <2>4. CASE c.id = r
    <3>1. leader \in alive /\ leader \in (alive \cap listening) \ {c.tab} /\ leader \in Tabs
      BY <2>1, <2>4, SoughtTyped DEF Sought, Leading
    <3>2. d \in Items(inbox'[leader])
      <4>1. \A u \in Tabs : Items(inbox[u])' = Items(inbox'[u])
        BY DEF Items
      <4> QED BY <2>3, <3>1, <4>1
    <3>3. WithLeader(r)'
      BY <1>1, <2>4, <3>1, <3>2 DEF WithLeader, Items, Message
    <3>4. from'[r] = c.tab /\ r \in openRequests'[c.tab] /\ c.tab \in listening'
      BY <1>0, <1>1, <2>1, <2>4 DEF Own
    <3> QED BY <3>3, <3>4 DEF Located
  <2>5. CASE c.id # r
    <3>1. \A e \in calls : e.id = r => e \in calls'
      BY <2>1, <2>5
    <3>2. r \in openRequests[from[r]] => r \in openRequests'[from[r]]
      BY <1>0, <2>1
    <3>3. \A t \in Tabs : Items(inbox[t]) \subseteq Items(inbox[t])'
      BY <2>3
    <3> QED BY <1>0, <1>1, <3>1, <3>2, <3>3, LocatedFrame DEF Sought
  <2> QED BY <2>4, <2>5
<1> QED BY <1>2, <1>3

\* What a step takes from the place of a request, it puts into the next.
LEMMA LocatedNext ==
    /\ TypeOK /\ Leading /\ CallsOK /\ FreshOK /\ HeldOK /\ MailOK /\ AllLocated /\ [Next]_vars
    => AllLocated'
<1> SUFFICES ASSUME TypeOK, Leading, CallsOK, FreshOK, HeldOK, MailOK, AllLocated, [Next]_vars,
                    NEW r \in Requests, Pending(r)', r \notin given'
             PROVE  Located(r)'
  BY DEF AllLocated
<1> USE DEF tabs, connections, requests
<1>p. outcome'[r] = "pending" /\ from'[r] \in alive'
  BY DEF Pending
<1>s. ASSUME Pending(r), r \notin given PROVE Sought(r)
  BY <1>s DEF Sought, AllLocated, Pending
<1>f. ASSUME Sought(r), wallet \subseteq wallet', \A t \in Tabs : Items(inbox[t]) \subseteq Items(inbox[t])',
             \A c \in calls : c.id = r => c \in calls',
             r \in openRequests[from[r]] => r \in openRequests'[from[r]],
             leader \in alive => leader' = leader, alive' = alive, UNCHANGED openRequestsOtherTabs
      PROVE  Located(r)'
  <2>1. from'[r] = from[r] /\ listening \subseteq listening' /\ from[r] \in Tabs
    BY <1>f, FromNext, SoughtTyped
  <2> QED BY <1>f, <2>1, LocatedFrame DEF Sought
<1>i. ASSUME UNCHANGED inbox PROVE \A t \in Tabs : Items(inbox[t]) \subseteq Items(inbox[t])'
  BY <1>i DEF Items
<1>d. ASSUME NEW t \in Tabs, StartReset(t) PROVE \A u \in Tabs : Items(inbox[u]) \subseteq Items(inbox[u])'
  <2>1. CASE inbox' = inbox
    BY <2>1, <1>i
  <2>2. CASE inbox' = Posted(t, Signal("DISCONNECT"))
    <3>1. inbox \in [Tabs -> Seq(Msgs)]
      BY DEF TypeOK, Msgs
    <3>2. \A u \in Tabs : Items(inbox[u])' =
             IF u \in (alive \cap listening) \ {t} THEN Items(inbox[u]) \cup {Signal("DISCONNECT")}
             ELSE Items(inbox[u])
      BY <2>2, <3>1, MessageTyped, PostedNext
    <3> QED BY <3>2
  <2> QED BY <1>d, <2>1, <2>2 DEF StartReset
<1>1. ASSUME NEW t \in Tabs, NEW q \in Requests, NEW need, Make(t, q, need) PROVE Located(r)'
  <2> DEFINE d == [id |-> q, tab |-> t, pc |-> "channel", wc |-> FALSE]
  <2>1. /\ calls' = calls \cup {d} /\ from' = [from EXCEPT ![q] = t]
        /\ outcome' = [outcome EXCEPT ![q] = "pending"]
        /\ UNCHANGED <<alive, leader, listening, openRequests, openRequestsOtherTabs, inbox, wallet, given>>
    BY <1>1 DEF Make
  <2>2. CASE q = r
    <3>1. d \in calls' /\ d.id = r /\ d.tab = t /\ from'[r] = t
      BY <2>1, <2>2 DEF TypeOK
    <3> HIDE DEF d
    <3> QED BY <3>1 DEF Located, OwnCall, Own
  <2>3. CASE q # r
    <3>1. Pending(r)
      BY <1>p, <2>1, <2>3 DEF Pending, TypeOK
    <3>2. Sought(r)
      BY <1>s, <2>1, <3>1
    <3> QED BY <1>f, <1>i, <2>1, <3>2
  <2> QED BY <2>2, <2>3
<1>2. ASSUME NEW t \in Tabs, ClearAccount(t) PROVE Located(r)'
  <2>1. UNCHANGED <<from, outcome, alive, leader, given>> /\ UNCHANGED <<requests, wallet>> /\ StartReset(t)
    BY <1>2 DEF ClearAccount
  <2>2. Sought(r)
    BY <1>p, <1>s, <2>1 DEF Pending
  <2> QED BY <1>f, <1>d, <2>1, <2>2
<1>3. ASSUME NEW t \in Tabs, Close(t) PROVE Located(r)'
  <2>1. UNCHANGED <<from, outcome>> /\ given \subseteq given' /\ alive' \subseteq alive
    BY <1>3 DEF Close
  <2>2. Sought(r)
    BY <1>p, <1>s, <2>1 DEF Pending
  <2>3. from[r] \in alive'
    BY <1>p, <2>1
  <2> QED BY <1>3, <2>2, <2>3, CloseKeeps
<1>4. ASSUME NEW c \in calls, Stop(c) PROVE Located(r)'
  <2>1. /\ UNCHANGED <<alive, leader, listening, from, openRequests, openRequestsOtherTabs, inbox, wallet>>
        /\ calls' = calls \ {c} /\ given \subseteq given' /\ Fail(c)
    BY <1>4 DEF Stop, Fail
  <2>2. c.id # r
    <3>1. CASE Own(c)
      BY <1>p, <2>1, <3>1 DEF Fail, TypeOK
    <3>2. CASE ~Own(c)
      BY <2>1, <3>2 DEF Fail
    <3> QED BY <3>1, <3>2
  <2>3. outcome'[r] = outcome[r]
    BY <2>1, <2>2 DEF Fail, TypeOK
  <2>4. Sought(r)
    BY <1>p, <1>s, <2>1, <2>3 DEF Pending
  <2> QED BY <1>f, <1>i, <2>1, <2>2, <2>4
<1>5. ASSUME NEW m \in wallet, NEW kind \in {"acknowledge", "answer", "error"}, Answer(m, kind)
      PROVE  Located(r)'
  <2>1. UNCHANGED <<from, alive, given>>
    BY <1>5 DEF Answer
  <2>2. outcome[r] = "pending"
    BY <1>p, <1>5 DEF Answer, HandleResponse, Settle, TypeOK
  <2>3. Sought(r)
    BY <1>p, <1>s, <2>1, <2>2 DEF Pending
  <2> QED BY <1>p, <1>5, <2>3, AnswerKeeps
<1>6. ASSUME NEW c \in calls, InitChannel(c) \/ AwaitLeadership(c) PROVE Located(r)'
  <2>1. /\ UNCHANGED <<alive, from, outcome, openRequests, openRequestsOtherTabs, inbox, wallet, given>>
        /\ listening \subseteq listening' /\ c.pc \in {"channel", "leadership"}
    BY <1>6 DEF InitChannel, AwaitLeadership
  <2>2. PICK d \in Calls : calls' = (calls \ {c}) \cup {d} /\ d.id = c.id /\ d.tab = c.tab
    BY <1>6, ChannelMoves DEF TypeOK
  <2>3. Sought(r)
    BY <1>p, <1>s, <2>1 DEF Pending
  <2>4. Own(c) /\ NoTab \notin alive /\ c.tab \in alive
    BY <2>1, <2>3, SoughtTyped DEF CallOK
  <2>5. leader \in alive => leader' = leader
    BY <1>6, <2>4 DEF InitChannel, AwaitLeadership
  <2> QED BY <2>1, <2>2, <2>3, <2>4, <2>5, MoveKeeps
<1>7. ASSUME NEW c \in calls, Route(c) PROVE Located(r)'
  <2>1. UNCHANGED <<alive, from, outcome>> /\ given \subseteq given'
    BY <1>7 DEF Route
  <2>2. Sought(r)
    BY <1>p, <1>s, <2>1 DEF Pending
  <2> QED BY <1>7, <2>2, RouteKeeps
<1>8. ASSUME NEW c \in calls, MakeRequest(c) PROVE Located(r)'
  <2>1. UNCHANGED <<alive, from>> /\ given \subseteq given'
    BY <1>8 DEF MakeRequest, Send, Fail
  <2>2. outcome[r] = "pending"
    BY <1>p, <1>8 DEF MakeRequest, Send, Fail, TypeOK
  <2>3. Sought(r)
    BY <1>p, <1>s, <2>1, <2>2 DEF Pending
  <2> QED BY <1>p, <1>8, <2>3, SendKeeps
<1>9. ASSUME NEW c \in calls, Forward(c) PROVE Located(r)'
  <2>1. UNCHANGED <<alive, from, outcome, given>>
    BY <1>9 DEF Forward
  <2>2. Sought(r)
    BY <1>p, <1>s, <2>1 DEF Pending
  <2> QED BY <1>9, <2>2, ForwardKeeps
<1>10. ASSUME NEW t \in Tabs, Connect(t) \/ Elected(t) PROVE Located(r)'
  <2>1. UNCHANGED <<alive, from, outcome, calls, openRequests, openRequestsOtherTabs, inbox, wallet, given>>
    BY <1>10 DEF Connect, Elected
  <2>2. Sought(r)
    BY <1>p, <1>s, <2>1 DEF Pending
  <2>3. leader \in alive => leader' = leader
    BY <1>10, <2>2, SoughtTyped DEF Connect, Elected
  <2> QED BY <1>f, <1>i, <2>1, <2>2, <2>3
<1>11. ASSUME NEW t \in Tabs, Reset(t) PROVE Located(r)'
  <2>1. UNCHANGED <<alive, from>> /\ given \subseteq given'
    BY <1>11 DEF Reset
  <2>2. outcome[r] = "pending"
    BY <1>p, <1>11 DEF Reset, RejectOpen
  <2>3. Sought(r)
    BY <1>p, <1>s, <2>1, <2>2 DEF Pending
  <2> QED BY <1>p, <1>11, <2>1, <2>3, ResetKeeps
<1>12. ASSUME NEW t \in Tabs, StorageChanged(t) PROVE Located(r)'
  <2>1. UNCHANGED <<alive, leader, from, outcome, calls, openRequests, openRequestsOtherTabs, wallet, given>>
    BY <1>12 DEF StorageChanged
  <2>2. Sought(r)
    BY <1>p, <1>s, <2>1 DEF Pending
  <2>3. \A u \in Tabs : Items(inbox[u]) \subseteq Items(inbox[u])'
    BY <1>12, <1>i, <1>d DEF StorageChanged
  <2> QED BY <1>f, <2>1, <2>2, <2>3
<1>13. ASSUME NEW t \in Tabs, Receive(t) PROVE Located(r)'
  <2>1. /\ UNCHANGED <<alive, from, given>>
        /\ UNCHANGED outcome \/ \E q, kind : Settle(t, q, kind)
    BY <1>13, ReceiveEffect
  <2>2. outcome[r] = "pending"
    BY <1>p, <2>1 DEF Settle, TypeOK
  <2>3. Sought(r)
    BY <1>p, <1>s, <2>1, <2>2 DEF Pending
  <2> QED BY <1>p, <1>13, <2>3, ReceiveKeeps
<1>14. CASE UNCHANGED vars
  <2>1. UNCHANGED <<alive, leader, from, outcome, calls, openRequests, openRequestsOtherTabs, inbox, wallet, given>>
    BY <1>14 DEF vars
  <2>2. Sought(r)
    BY <1>p, <1>s, <2>1 DEF Pending
  <2> QED BY <1>f, <1>i, <2>1, <2>2
<1>15. ASSUME NEW t \in Tabs, NEW q \in Requests,
              \/ RequestPermissions(t, q) \/ RequestOperation(t, q) \/ RequestSignPayload(t, q)
              \/ RequestProofOfEvent(t, q) \/ RequestBroadcast(t, q)
       PROVE  Located(r)'
  BY <1>1, <1>15 DEF RequestPermissions, RequestOperation, RequestSignPayload, RequestProofOfEvent,
                     RequestBroadcast
<1> QED
  BY <1>2, <1>3, <1>4, <1>5, <1>6, <1>7, <1>8, <1>9, <1>10, <1>11, <1>12, <1>13, <1>14, <1>15
  DEF Next, Users, Code

-----------------------------------------------------------------------------
(* The theorems.                                                           *)

\* Before anything is asked every part holds.
LEMMA InvInit == Init => IInv
<1> SUFFICES ASSUME Init PROVE IInv
  OBVIOUS
<1>1. TypeOK
  BY TypeInit
<1>2. \A t \in Tabs : Items(inbox[t]) = {}
  <2>1. Items(<<>>) = {}
    BY DEF Items
  <2> QED BY <2>1 DEF Init
<1>3. Leading /\ CallsOK /\ FreshOK /\ HeldOK
  BY DEF Init, Leading, CallsOK, FreshOK, HeldOK
<1>4. MailOK
  BY <1>2 DEF MailOK
<1>5. AllLocated
  BY DEF Init, AllLocated, Pending
<1> QED BY <1>1, <1>3, <1>4, <1>5 DEF IInv

LEMMA InvNext == IInv /\ [Next]_vars => IInv'
BY TypeNext, LeadingNext, CallsNext, FromNext, StrangersNext, LocatedNext DEF IInv

\* In every reachable state requests, calls and messages are where IInv says.
THEOREM Invariance == Spec => []IInv
BY InvInit, InvNext, PTL DEF Spec

\* The client, its open requests and what wallets hold have their types,
\* whatever a tab hears from another (onBCMessageHandler).
THEOREM TypeCorrect == Spec => []TypeOK
<1>1. IInv => TypeOK
  BY DEF IInv
<1> QED BY <1>1, Invariance, PTL

\* Two tabs never talk to the wallet at once, however leaders close, are
\* elected or connect.
THEOREM OneConnection == Spec => []OneTabIsConnected
<1>1. IInv => OneTabIsConnected
  BY DEF IInv, Leading, OneTabIsConnected
<1> QED BY <1>1, Invariance, PTL

\* A request whose caller waits is never lost between tabs, wallet and leader,
\* unless this code gave it up.
THEOREM RequestsAreKept == Spec => []NoRequestIsLost
<1>1. IInv => NoRequestIsLost
  <2> SUFFICES ASSUME IInv, NEW r \in Requests, Pending(r), r \notin given
               PROVE  UnderWay(r) \/ InInbox(r) \/ AtWallet(r)
    BY DEF NoRequestIsLost
  <2>1. Located(r) /\ from[r] \in alive
    BY DEF IInv, AllLocated, Pending
  <2>2. ASSUME NEW k, NEW t \in alive, Message(k, r) \in Items(inbox[t]) PROVE InInbox(r)
    <3>1. Message(k, r).id = r
      BY DEF Message
    <3> QED BY <2>2, <3>1 DEF InInbox, Items
  <2>3. ASSUME NEW t, Submitted(r, t) PROVE AtWallet(r)
    <3>1. [id |-> r, tab |-> t].id = r
      OBVIOUS
    <3> QED BY <2>3, <3>1 DEF AtWallet, Submitted
  <2>4. OwnCall(r) => UnderWay(r)
    BY DEF OwnCall, UnderWay
  <2>5. WithLeader(r) => UnderWay(r) \/ InInbox(r) \/ AtWallet(r)
    BY <2>2, <2>3, Zenon DEF WithLeader, UnderWay
  <2>6. AnswerPosted(r) => InInbox(r)
    BY <2>1, <2>2 DEF AnswerPosted
  <2> QED BY <2>1, <2>3, <2>4, <2>5, <2>6 DEF Located
<1> QED BY <1>1, Invariance, PTL

-----------------------------------------------------------------------------
(* DAppConnection: types.                                                  *)

Places == Handles \cup {Unsettled}
Outcomes == {"pending", "resolved", "rejected"}

\* No kind is "none", and no transport the one that stands for none.
LEMMA KindFacts ==
    /\ "post" \in Kinds /\ "p2p" \in Kinds /\ "none" \notin Kinds
    /\ Unsettled \notin Handles
    /\ \A k \in Kinds : k \in {"post", "p2p", "wc"}
    /\ \A h \in Handles : h.k \in Kinds
BY KindsAssumption DEF Handles, Unsettled

\* What a field holds is a transport, or none.
LEMMA OwnTypes ==
    ASSUME own \in [Kinds -> 0..MaxTransports]
    PROVE  /\ Owned \subseteq Handles
           /\ \A k : OwnTransport(k) \in Places /\ OwnTransport(k) \in Owned \cup {Unsettled}
           /\ \A k : TransportOf(k) \in Places /\ TransportOf(k) \in Owned \cup {Unsettled}
           /\ \A h \in Owned : own[h.k] # 0 /\ h = Handle(h.k, own[h.k])
<1>1. ASSUME NEW k PROVE OwnTransport(k) \in Places
  BY DEF OwnTransport, Handle, Places, Handles
<1>2. ASSUME NEW k PROVE OwnTransport(k) \in Owned \cup {Unsettled}
  <2>1. CASE k \in Kinds
    BY <2>1 DEF Owned
  <2>2. CASE k \notin Kinds
    BY <2>2 DEF OwnTransport
  <2> QED BY <2>1, <2>2
<1>3. Owned \subseteq Handles
  BY <1>1 DEF Owned, Places
<1>4. ASSUME NEW k PROVE TransportOf(k) \in Places /\ TransportOf(k) \in Owned \cup {Unsettled}
  BY <1>1, <1>2 DEF TransportOf
<1>5. ASSUME NEW h \in Owned PROVE own[h.k] # 0 /\ h = Handle(h.k, own[h.k])
  <2>1. PICK k \in Kinds : h = OwnTransport(k) /\ h # Unsettled
    BY DEF Owned
  <2>2. own[k] # 0 /\ h = Handle(k, own[k])
    BY <2>1 DEF OwnTransport
  <2> QED BY <2>2 DEF Handle
<1> QED BY <1>1, <1>2, <1>3, <1>4, <1>5

\* A task that goes on is a task.
LEMMA TaskTypes ==
    /\ \A t \in Tasks : \A pc \in Steps :
          [t EXCEPT !.pc = pc] \in Tasks /\ To(t, pc) \subseteq Tasks
    /\ \A t \in Tasks : \A h \in Places : [t EXCEPT !.h = h] \in Tasks
    /\ \A t \in Tasks : \A n \in 0..MaxInits : [t EXCEPT !.n = n] \in Tasks
    /\ \A t \in Tasks : \A k \in Kinds \cup {"none"} : [t EXCEPT !.k = k] \in Tasks
    /\ \A t \in Tasks : \A id \in Nat : [t EXCEPT !.id = id] \in Tasks
    /\ \A t \in Tasks : \A op \in Ops : [t EXCEPT !.op = op] \in Tasks
    /\ \A op \in Ops, pc \in Steps : Task(op, pc) \in Tasks
<1>1. 0 \in 0..MaxInits
  BY ConnectionBoundAssumption
<1>2. \A op \in Ops, pc \in Steps : Task(op, pc) \in Tasks
  BY <1>1 DEF Tasks, Task
<1>3. \A t \in Tasks : \A pc \in Steps : [t EXCEPT !.pc = pc] \in Tasks /\ To(t, pc) \subseteq Tasks
  BY DEF Tasks, To
<1>4. \A t \in Tasks : \A h \in Places : [t EXCEPT !.h = h] \in Tasks
  BY DEF Tasks, Places
<1>5. \A t \in Tasks : \A n \in 0..MaxInits : [t EXCEPT !.n = n] \in Tasks
  BY DEF Tasks
<1>6. \A t \in Tasks : \A k \in Kinds \cup {"none"} : [t EXCEPT !.k = k] \in Tasks
  BY DEF Tasks
<1>7. \A t \in Tasks : \A id \in Nat : [t EXCEPT !.id = id] \in Tasks
  BY DEF Tasks
<1>8. \A t \in Tasks : \A op \in Ops : [t EXCEPT !.op = op] \in Tasks
  BY DEF Tasks
<1> QED BY <1>2, <1>3, <1>4, <1>5, <1>6, <1>7, <1>8

\* Tasks of events.
LEMMA EventTaskTypes ==
    ASSUME ConnectionTypeOK, NEW op \in Ops, NEW pc \in Steps
    PROVE  EventTask(op, pc) \in Tasks
<1>1. counts["event"] \in Nat
  BY DEF ConnectionTypeOK
<1> QED BY <1>1, TaskTypes DEF EventTask

\* Promises are settled where they are.
LEMMA SettleTypes ==
    ASSUME inits \in Seq(Outcomes), NEW n, NEW as \in Outcomes, SettleInit(n, as)
    PROVE  inits' \in Seq(Outcomes) /\ Len(inits') = Len(inits)
<1>1. CASE inits' = inits
  BY <1>1
<1>2. CASE inits' = [inits EXCEPT ![n] = as]
  <2>1. PICK m \in Nat : inits \in [1..m -> Outcomes] /\ Len(inits) = m
    OBVIOUS
  <2>2. inits' \in [1..m -> Outcomes]
    BY <1>2, <2>1
  <2> QED BY <2>1, <2>2
<1> QED BY <1>1, <1>2 DEF SettleInit

-----------------------------------------------------------------------------
(* What the helpers leave behind is typed.                                 *)

FieldsOK ==
    /\ own \in [Kinds -> 0..MaxTransports] /\ made \in [Kinds -> 0..MaxTransports]
    /\ connecting \subseteq Handles /\ connected \subseteq Handles
    /\ newPeerListener \in [Handles -> 0..MaxInits]

InitsOK ==
    /\ initPromise \in 0..MaxInits /\ initReject \in 0..MaxInits
    /\ inits \in Seq(Outcomes) /\ Len(inits) <= MaxInits

ActiveOK ==
    /\ activeTransport \in Places
    /\ activeAccount \in Kinds \cup {"none"} /\ activePeer \in Kinds \cup {"none", "loading"}

FlagsOK ==
    /\ isInitPending \in BOOLEAN /\ debounce \in BOOLEAN
    /\ dialog \in [n : 0..MaxInits, h : Places]
    /\ counts \in [{"request", "event"} -> Nat]

StoresOK == accounts \subseteq Kinds /\ peers \subseteq Kinds
TasksOK == tasks \subseteq Tasks

LEMMA ConnectionTypeParts ==
    ConnectionTypeOK <=>
        FieldsOK /\ InitsOK /\ ActiveOK /\ FlagsOK /\ StoresOK /\ TasksOK /\ lost \subseteq Handles
BY DEF ConnectionTypeOK, FieldsOK, InitsOK, ActiveOK, FlagsOK, StoresOK, TasksOK, Places, Outcomes

\* The same of the next state.
LEMMA ConnectionTypePartsNext ==
    ASSUME FieldsOK', InitsOK', ActiveOK', FlagsOK', StoresOK', TasksOK', lost' \subseteq Handles
    PROVE  ConnectionTypeOK'
BY DEF ConnectionTypeOK, FieldsOK, InitsOK, ActiveOK, FlagsOK, StoresOK, TasksOK, Places, Outcomes

LEMMA FieldsKept == FieldsOK /\ UNCHANGED fields => FieldsOK'
BY DEF FieldsOK, fields

LEMMA InitsKept == InitsOK /\ UNCHANGED initState => InitsOK'
BY DEF InitsOK, initState

LEMMA ActiveKept == ActiveOK /\ UNCHANGED <<activeTransport, active>> => ActiveOK'
BY DEF ActiveOK, active

LEMMA FlagsKept == FlagsOK /\ UNCHANGED <<isInitPending, debounce, dialog, counts>> => FlagsOK'
BY DEF FlagsOK

LEMMA StoresKept == StoresOK /\ UNCHANGED stores => StoresOK'
BY DEF StoresOK, stores

\* Only transports connect.
LEMMA StartTypes ==
    ASSUME FieldsOK, NEW hs, hs \subseteq Handles, StartConnecting(hs)
    PROVE  connecting' \subseteq Handles /\ connected' \subseteq Handles
BY DEF FieldsOK, StartConnecting

LEMMA StartOneTypes ==
    ASSUME FieldsOK, NEW h \in Places, ConnectIfAny(h)
    PROVE  connecting' \subseteq Handles /\ connected' \subseteq Handles
<1>1. CASE h = Unsettled
  BY <1>1 DEF FieldsOK, ConnectIfAny
<1>2. CASE h # Unsettled
  <2>1. {h} \subseteq Handles /\ StartConnecting({h})
    BY <1>2 DEF ConnectIfAny, Places
  <2> QED BY <2>1, StartTypes
<1> QED BY <1>1, <1>2

LEMMA DropTypes ==
    ASSUME FieldsOK, NEW more, Drop(more)
    PROVE  FieldsOK'
BY ConnectionBoundAssumption DEF FieldsOK, Drop, Disconnect

\* What clearing an account, at once or later, disturbs.
ClearedOK ==
    FieldsOK /\ ActiveOK /\ initPromise \in 0..MaxInits /\ debounce \in BOOLEAN /\ TasksOK

LEMMA ClearTypes ==
    ASSUME ConnectionTypeOK, NEW t \in Tasks, NEW then, NEW others,
           then \subseteq Tasks, others \subseteq Tasks, Clear(t, then, others)
    PROVE  ClearedOK'
<1>t. FieldsOK /\ ActiveOK /\ InitsOK /\ FlagsOK
  BY ConnectionTypeParts
<1>z. 0 \in 0..MaxInits /\ Unsettled \in Places
  BY ConnectionBoundAssumption DEF Places
<1>1. CASE /\ tasks' = others \cup To(t, "clear")
           /\ UNCHANGED <<fields, activeTransport, initPromise, activeAccount, activePeer,
                          debounce>>
  <2>1. To(t, "clear") \subseteq Tasks
    BY TaskTypes DEF Steps
  <2>2. FieldsOK' /\ ActiveOK'
    BY <1>t, <1>1, FieldsKept, ActiveKept DEF active
  <2> QED BY <1>t, <1>1, <2>1, <2>2 DEF ClearedOK, InitsOK, FlagsOK, TasksOK
<1>2. CASE /\ debounce' = TRUE /\ initPromise' = 0 /\ Drop({})
           /\ tasks' = others \cup {[t EXCEPT !.pc = "closing", !.h = activeTransport]}
           /\ UNCHANGED <<activeTransport, activeAccount, activePeer>>
  <2>1. [t EXCEPT !.pc = "closing", !.h = activeTransport] \in Tasks
    BY <1>t DEF Tasks, Steps, ActiveOK, Places
  <2>2. ActiveOK'
    BY <1>t, <1>2, ActiveKept DEF active
  <2> QED BY <1>t, <1>z, <1>2, <2>1, <2>2, DropTypes DEF ClearedOK, TasksOK
<1>3. CASE SetNoAccount /\ tasks' = others \cup then /\ UNCHANGED <<fields, debounce>>
  <2>1. ActiveOK' /\ initPromise' = 0
    BY <1>z, <1>3 DEF SetNoAccount, SetTransport, ActiveOK
  <2> QED BY <1>t, <1>z, <1>3, <2>1, FieldsKept DEF ClearedOK, TasksOK, FlagsOK
<1> QED BY <1>1, <1>2, <1>3 DEF Clear, active

\* All but the ghost.
CoreOK == FieldsOK /\ InitsOK /\ ActiveOK /\ FlagsOK /\ StoresOK /\ TasksOK

LEMMA CoreFacts ==
    ASSUME ConnectionTypeOK
    PROVE  /\ CoreOK /\ lost \subseteq Handles
           /\ \A op, pc : \A t \in At(op, pc) : t \in tasks /\ t \in Tasks /\ t.pc = pc
           /\ Unsettled \in Places /\ 0 \in 0..MaxInits
           /\ Owned \subseteq Handles
<1>1. CoreOK /\ lost \subseteq Handles
  BY ConnectionTypeParts DEF CoreOK
<1>2. Owned \subseteq Handles
  BY <1>1, OwnTypes DEF CoreOK, FieldsOK
<1> QED BY <1>1, <1>2, ConnectionBoundAssumption DEF CoreOK, TasksOK, At, Places

LEMMA BecomeTypes ==
    ASSUME TasksOK, NEW t, NEW new, new \subseteq Tasks, Become(t, new)
    PROVE  TasksOK'
BY DEF TasksOK, Become

LEMMA FinishTypes ==
    ASSUME TasksOK, NEW t, Finish(t)
    PROVE  TasksOK'
BY DEF TasksOK, Finish, Become

LEMMA SetTransportTypes ==
    ASSUME ActiveOK, InitsOK, NEW h \in Places, SetTransport(h), UNCHANGED active
    PROVE  ActiveOK' /\ initPromise' \in 0..MaxInits
BY ConnectionBoundAssumption DEF ActiveOK, InitsOK, SetTransport, active

LEMMA SetNoAccountTypes ==
    ASSUME ActiveOK, SetNoAccount
    PROVE  ActiveOK' /\ initPromise' = 0
BY DEF ActiveOK, SetNoAccount, SetTransport, Places

LEMMA OccurTypes ==
    ASSUME FlagsOK, Occur
    PROVE  counts' \in [{"request", "event"} -> Nat]
BY DEF FlagsOK, Occur, Count

-----------------------------------------------------------------------------
(* Every step leaves typed what it found typed.                            *)

LEMMA ConnectedTypes ==
    ASSUME ConnectionTypeOK, NEW h, Connected(h)
    PROVE  CoreOK'
<1>1. FieldsOK'
  BY CoreFacts DEF CoreOK, FieldsOK, Connected
<1>2. UNCHANGED <<initState, activeTransport, active, isInitPending, debounce, dialog, counts,
                  stores, tasks>>
  BY DEF Connected
<1> QED BY <1>1, <1>2, CoreFacts, InitsKept, ActiveKept, FlagsKept, StoresKept DEF CoreOK, TasksOK

LEMMA MakeTransportTypes ==
    ASSUME ConnectionTypeOK, NEW t, NEW k \in Kinds, NEW then, then \subseteq Tasks,
           MakeTransport(t, k, then)
    PROVE  /\ own' \in [Kinds -> 0..MaxTransports] /\ made' \in [Kinds -> 0..MaxTransports]
           /\ TasksOK' /\ lost' \subseteq Handles
<1>1. made \in [Kinds -> 0..MaxTransports] /\ own \in [Kinds -> 0..MaxTransports] /\ TasksOK
  BY CoreFacts DEF CoreOK, FieldsOK
<1>2. made' \in [Kinds -> 0..MaxTransports]
  BY <1>1, ConnectionBoundAssumption DEF MakeTransport
<1>3. own' \in [Kinds -> 0..MaxTransports]
  BY <1>1, <1>2 DEF MakeTransport
<1>4. TasksOK'
  BY <1>1, BecomeTypes DEF MakeTransport
<1>5. lost' \subseteq Handles
  BY <1>1, CoreFacts, OwnTypes DEF MakeTransport, Places
<1> QED BY <1>2, <1>3, <1>4, <1>5

LEMMA MakeTransportsTypes ==
    ASSUME ConnectionTypeOK, NEW t, MakeTransports(t)
    PROVE  CoreOK' /\ lost' \subseteq Handles
<1>t. t \in tasks /\ t \in Tasks
  BY CoreFacts DEF MakeTransports
<1>s. {"post", "p2p", "wc", "made", "bind"} \subseteq Steps
  BY DEF Steps
<1>n. Next1(t) \subseteq Tasks /\ To(t, "p2p") \subseteq Tasks /\ To(t, "wc") \subseteq Tasks
  BY <1>t, <1>s, TaskTypes DEF Next1
<1>1. /\ own' \in [Kinds -> 0..MaxTransports] /\ made' \in [Kinds -> 0..MaxTransports]
      /\ TasksOK' /\ lost' \subseteq Handles
  <2>1. CASE MakePost(t)
    <3>1. CASE Become(t, Next1(t)) /\ UNCHANGED <<own, made, lost>>
      BY <1>n, <3>1, CoreFacts, BecomeTypes DEF CoreOK, FieldsOK
    <3>2. CASE MakeTransport(t, "post", To(t, "p2p"))
      BY <1>n, <3>2, KindFacts, MakeTransportTypes
    <3> QED BY <2>1, <3>1, <3>2 DEF MakePost
  <2>2. CASE MakeTransport(t, "p2p", IF "wc" \in Kinds THEN To(t, "wc") ELSE Next1(t))
    BY <1>n, <2>2, KindFacts, MakeTransportTypes
  <2>3. CASE MakeTransport(t, "wc", Next1(t)) /\ "wc" \in Kinds
    BY <1>n, <2>3, MakeTransportTypes
  <2>4. CASE MakeTransport(t, "wc", Next1(t)) /\ "wc" \notin Kinds
    <3>1. made' = made /\ own' = own /\ lost' = lost
      BY <2>4, CoreFacts DEF MakeTransport, CoreOK, FieldsOK, OwnTransport
    <3> QED BY <1>n, <2>4, <3>1, CoreFacts, BecomeTypes DEF MakeTransport, CoreOK, FieldsOK
  <2> QED BY <2>1, <2>2, <2>3, <2>4 DEF MakeTransports
<1>2. FieldsOK'
  BY <1>1, CoreFacts DEF MakeTransports, CoreOK, FieldsOK
<1>3. UNCHANGED <<initState, activeTransport, active, isInitPending, debounce, dialog, counts,
                  stores>>
  BY DEF MakeTransports
<1> QED BY <1>1, <1>2, <1>3, CoreFacts, InitsKept, ActiveKept, FlagsKept, StoresKept DEF CoreOK

LEMMA ClearResumedTypes ==
    ASSUME ConnectionTypeOK, NEW t, ClearResumed(t)
    PROVE  CoreOK'
<1>1. t \in Tasks /\ Cleared(t) \subseteq Tasks /\ tasks \ {t} \subseteq Tasks
  <2>1. t \in Tasks /\ tasks \ {t} \subseteq Tasks
    BY CoreFacts DEF ClearResumed, CoreOK, TasksOK
  <2>2. \A pc \in {"notify", "shut"} : To(t, pc) \subseteq Tasks
    BY <2>1, TaskTypes DEF Steps
  <2> QED BY <2>1, <2>2 DEF Cleared
<1>2. ClearedOK'
  <2>1. CASE activeAccount = "none"
    BY <1>1, <2>1, ConnectionTypeParts, FieldsKept, ActiveKept
    DEF ClearResumed, Become, ClearedOK, InitsOK, FlagsOK, TasksOK
  <2>2. CASE activeAccount # "none"
    BY <1>1, <2>2, ClearTypes DEF ClearResumed
  <2> QED BY <2>1, <2>2
<1> QED BY <1>2, CoreFacts, StoresKept DEF ClearResumed, CoreOK, ClearedOK, InitsOK, FlagsOK

LEMMA ClosingTypes ==
    ASSUME ConnectionTypeOK, NEW t, Closing(t)
    PROVE  CoreOK'
<1>1. Cleared(t) \subseteq Tasks
  <2>1. t \in Tasks
    BY CoreFacts DEF Closing
  <2>2. \A pc \in {"notify", "shut"} : To(t, pc) \subseteq Tasks
    BY <2>1, TaskTypes DEF Steps
  <2> QED BY <2>2 DEF Cleared
<1>2. TasksOK'
  BY <1>1, CoreFacts, BecomeTypes DEF Closing, CoreOK
<1>3. ActiveOK' /\ initPromise' = 0
  BY CoreFacts, SetNoAccountTypes DEF Closing, CoreOK
<1>4. FieldsOK'
  BY CoreFacts DEF Closing, Disconnect, CoreOK, FieldsOK
<1> QED BY <1>2, <1>3, <1>4, CoreFacts, StoresKept DEF Closing, CoreOK, InitsOK, FlagsOK

LEMMA BindTypes ==
    ASSUME ConnectionTypeOK, NEW t, Bind(t)
    PROVE  CoreOK'
<1>1. t \in Tasks /\ CoreOK
  BY CoreFacts DEF Bind
<1>2. TransportOf(t.k) \in Places
  BY <1>1, OwnTypes DEF CoreOK, FieldsOK
<1>3. ActiveOK' /\ initPromise' \in 0..MaxInits
  BY <1>1, <1>2, SetTransportTypes DEF Bind, CoreOK
<1>4. FieldsOK'
  BY <1>1, <1>2, StartOneTypes DEF Bind, CoreOK, FieldsOK
<1>5. {[t EXCEPT !.pc = "connecting", !.h = TransportOf(t.k)]} \subseteq Tasks
  BY <1>1, <1>2 DEF Tasks, Steps, Places
<1>6. TasksOK'
  BY <1>1, <1>5, BecomeTypes DEF Bind, CoreOK
<1> QED BY <1>1, <1>3, <1>4, <1>6, FlagsKept, StoresKept DEF Bind, CoreOK, InitsOK, FlagsOK

LEMMA FindPeerTypes ==
    ASSUME ConnectionTypeOK, NEW t, FindPeer(t)
    PROVE  CoreOK'
<1>1. t \in Tasks /\ CoreOK
  BY CoreFacts DEF FindPeer
<1>2. ActiveOK' /\ initPromise' \in 0..MaxInits
  <2>1. CASE Paired(t.k)
    <3>1. t.k \in Kinds /\ OwnTransport(t.k) \in Places
      BY <1>1, <2>1, OwnTypes DEF Paired, CoreOK, StoresOK, FieldsOK
    <3> QED
      BY <1>1, <2>1, <3>1, CoreFacts DEF FindPeer, SetTransport, CoreOK, ActiveOK, InitsOK
  <2>2. CASE ~Paired(t.k)
    BY <1>1, <2>2 DEF FindPeer, CoreOK, ActiveOK, InitsOK
  <2> QED BY <2>1, <2>2
<1>3. Loaded(t) \subseteq Tasks
  BY TaskTypes DEF Loaded, Ops, Steps
<1>4. TasksOK'
  BY <1>1, <1>3, BecomeTypes DEF FindPeer, CoreOK
<1>5. UNCHANGED <<fields, initReject, inits, isInitPending, stores, debounce, dialog, counts>>
  BY DEF FindPeer
<1> QED BY <1>1, <1>2, <1>4, <1>5, FieldsKept, FlagsKept, StoresKept DEF CoreOK, InitsOK

LEMMA RequestTypes ==
    ASSUME ConnectionTypeOK, NEW op \in {"permission", "call"}, Request(op)
    PROVE  CoreOK'
<1> DEFINE t == [Task(op, "init") EXCEPT !.id = counts'["request"]]
<1>1. CoreOK
  BY CoreFacts
<1>2. counts' \in [{"request", "event"} -> Nat]
  BY <1>1 DEF Request, Count, CoreOK, FlagsOK
<1>3. t \in Tasks /\ To(t, "interrupted") \subseteq Tasks
  <2>1. Task(op, "init") \in Tasks
    BY TaskTypes DEF Ops, Steps
  <2>2. counts'["request"] \in Nat
    BY <1>2
  <2>3. t \in Tasks
    BY <2>1, <2>2, TaskTypes
  <2>4. "interrupted" \in Steps
    BY DEF Steps
  <2> HIDE DEF t
  <2> QED BY <2>3, <2>4, TaskTypes
<1> HIDE DEF t
<1>4. InitsOK' /\ FieldsOK' /\ TasksOK' /\ isInitPending' \in BOOLEAN
  <2>1. CASE Interrupt(t) /\ UNCHANGED debounce
    <3>1. inits' \in Seq(Outcomes) /\ Len(inits') = Len(inits)
      BY <1>1, <2>1, SettleTypes DEF Interrupt, Outcomes, CoreOK, InitsOK
    <3>2. InitsOK'
      BY <1>1, <2>1, <3>1, ConnectionBoundAssumption DEF Interrupt, CoreOK, InitsOK
    <3>3. FieldsOK'
      BY <1>1, <2>1 DEF Interrupt, Disconnect, CoreOK, FieldsOK
    <3> QED BY <1>1, <1>3, <2>1, <3>2, <3>3 DEF Interrupt, CoreOK, TasksOK, FlagsOK
  <2>2. CASE isInitPending' = TRUE /\ tasks' = tasks \cup {t} /\ UNCHANGED <<initState, fields>>
    BY <1>1, <1>3, <2>2, InitsKept, FieldsKept DEF CoreOK, TasksOK
  <2> QED BY <2>1, <2>2 DEF Request, t
<1>5. UNCHANGED <<activeTransport, active, stores, debounce, dialog>>
  BY DEF Request
<1> QED BY <1>1, <1>2, <1>4, <1>5, ActiveKept, StoresKept DEF CoreOK, FlagsOK

LEMMA InterruptedTypes ==
    ASSUME ConnectionTypeOK, NEW t, Interrupted(t)
    PROVE  CoreOK'
<1>1. t \in Tasks /\ CoreOK /\ 0 \in 0..MaxInits
  BY CoreFacts DEF Interrupted
<1>2. TasksOK'
  BY <1>1, TaskTypes, BecomeTypes DEF Interrupted, CoreOK, Steps
<1>3. InitsOK' /\ FlagsOK'
  BY <1>1 DEF Interrupted, CoreOK, InitsOK, FlagsOK
<1>4. UNCHANGED <<fields, activeTransport, active, stores>>
  BY DEF Interrupted
<1> QED BY <1>1, <1>2, <1>3, <1>4, FieldsKept, ActiveKept, StoresKept DEF CoreOK

LEMMA CallInitTypes ==
    ASSUME ConnectionTypeOK, NEW t, CallInit(t)
    PROVE  CoreOK'
<1>1. t \in Tasks /\ CoreOK
  BY CoreFacts DEF CallInit
<1>2. TasksOK'
  <2>1. {[t EXCEPT !.pc = "wait", !.n = initPromise]} \subseteq Tasks
    BY <1>1 DEF Tasks, Steps, CoreOK, InitsOK
  <2>2. To(t, "begin") \subseteq Tasks
    BY <1>1, TaskTypes DEF Steps
  <2> QED BY <1>1, <2>1, <2>2, BecomeTypes DEF CallInit, CoreOK
<1>3. UNCHANGED <<fields, activeTransport, initState, isInitPending, active, stores, debounce,
                  dialog, counts>>
  BY DEF CallInit
<1> QED
  BY <1>1, <1>2, <1>3, FieldsKept, InitsKept, ActiveKept, FlagsKept, StoresKept DEF CoreOK

LEMMA BeginTypes ==
    ASSUME ConnectionTypeOK, NEW t, Begin(t)
    PROVE  CoreOK' /\ lost' \subseteq Handles
<1> DEFINE n == Len(inits) + 1
           body == [Task("init", "post") EXCEPT !.n = n, !.k = activeAccount]
           going == [body EXCEPT !.pc = "connect", !.h = activeTransport]
<1>1. t \in Tasks /\ CoreOK /\ lost \subseteq Handles /\ Owned \subseteq Handles
  BY CoreFacts DEF Begin
<1>2. n \in 0..MaxInits /\ n \in Nat
  BY <1>1, ConnectionBoundAssumption DEF Begin, CoreOK, InitsOK
<1>3. InitsOK'
  <2>1. inits' \in Seq(Outcomes) /\ Len(inits') = n
    BY <1>1, <1>2 DEF Begin, CoreOK, InitsOK, Outcomes
  <2>2. initPromise' = n /\ initReject' = n
    BY DEF Begin
  <2> QED BY <1>2, <2>1, <2>2 DEF InitsOK
<1>4. [t EXCEPT !.pc = "wait", !.n = n] \in Tasks /\ body \in Tasks
  <2>1. Task("init", "post") \in Tasks
    BY TaskTypes DEF Ops, Steps
  <2>2. [t EXCEPT !.pc = "wait", !.n = n] \in Tasks
    BY <1>1, <1>2 DEF Tasks, Steps
  <2>3. body \in Tasks
    BY <1>1, <1>2, <2>1 DEF Tasks, CoreOK, ActiveOK
  <2> QED BY <2>2, <2>3
<1>5. going \in Tasks
  <2> HIDE DEF body
  <2> QED BY <1>1, <1>4 DEF Tasks, Steps, CoreOK, ActiveOK, Places
<1>6. TasksOK'
  <2>1. Become(t, {[t EXCEPT !.pc = "wait", !.n = n],
                   IF activeTransport = Unsettled THEN body ELSE going})
    BY DEF Begin
  <2> HIDE DEF n, body, going
  <2>2. {[t EXCEPT !.pc = "wait", !.n = n],
         IF activeTransport = Unsettled THEN body ELSE going} \subseteq Tasks
    BY <1>4, <1>5
  <2> QED BY <1>1, <2>1, <2>2, BecomeTypes DEF CoreOK
<1>7. FieldsOK'
  BY <1>1, StartOneTypes DEF Begin, CoreOK, ActiveOK, FieldsOK
<1>8. lost' \subseteq Handles
  BY <1>1 DEF Begin, CoreOK, ActiveOK, Places
<1>9. UNCHANGED <<activeTransport, isInitPending, active, stores, debounce, dialog, counts>>
  BY DEF Begin
<1> QED
  BY <1>1, <1>3, <1>6, <1>7, <1>8, <1>9, ActiveKept, FlagsKept, StoresKept DEF CoreOK

LEMMA ReconnectedTypes ==
    ASSUME ConnectionTypeOK, NEW t, Reconnected(t)
    PROVE  CoreOK'
<1>1. CoreOK
  BY CoreFacts
<1>2. inits' \in Seq(Outcomes) /\ Len(inits') = Len(inits)
  BY <1>1, SettleTypes DEF Reconnected, CoreOK, InitsOK, Outcomes
<1>3. InitsOK' /\ TasksOK'
  BY <1>1, <1>2, FinishTypes DEF Reconnected, CoreOK, InitsOK
<1>4. UNCHANGED <<fields, activeTransport, isInitPending, active, stores, debounce, dialog, counts>>
  BY DEF Reconnected
<1> QED BY <1>1, <1>3, <1>4, FieldsKept, ActiveKept, FlagsKept, StoresKept DEF CoreOK

LEMMA MadeTypes ==
    ASSUME ConnectionTypeOK, NEW t, Made(t)
    PROVE  CoreOK'
<1>1. t \in Tasks /\ CoreOK
  BY CoreFacts DEF Made
<1>o. own \in [Kinds -> 0..MaxTransports] /\ FieldsOK
  BY <1>1 DEF CoreOK, FieldsOK
<1>2. UNCHANGED <<own, made, initPromise, initReject, isInitPending, active, stores, debounce,
                  counts>>
  BY DEF Made
<1>3. CASE /\ Finish(t)
           /\ UNCHANGED <<connecting, connected, newPeerListener, activeTransport, inits, dialog>>
  BY <1>1, <1>2, <1>3, FinishTypes, FieldsKept, InitsKept, ActiveKept, FlagsKept, StoresKept
     DEF CoreOK, fields, initState
<1>4. CASE /\ Complete /\ t.k # "none"
           /\ StartConnecting({OwnTransport("post")})
           /\ activeTransport' = IF activeTransport = Unsettled THEN TransportOf(t.k)
                                 ELSE activeTransport
           /\ SettleInit(t.n, "resolved")
           /\ Finish(t)
           /\ UNCHANGED <<newPeerListener, dialog>>
  <2>1. OwnTransport("post") \in Handles /\ TransportOf(t.k) \in Places
    BY <1>o, <1>4, KindFacts, OwnTypes DEF Complete, OwnTransport, Handle, Handles
  <2>2. FieldsOK'
    BY <1>o, <1>2, <1>4, <2>1, StartTypes DEF FieldsOK
  <2>3. ActiveOK'
    BY <1>1, <1>2, <1>4, <2>1 DEF CoreOK, ActiveOK, active
  <2>4. InitsOK'
    BY <1>1, <1>2, <1>4, SettleTypes DEF CoreOK, InitsOK, Outcomes
  <2> QED BY <1>1, <1>2, <1>4, <2>2, <2>3, <2>4, FinishTypes, FlagsKept, StoresKept DEF CoreOK
<1>5. CASE /\ Complete /\ t.k = "none"
           /\ StartConnecting({OwnTransport("post"), OwnTransport("p2p")})
           /\ newPeerListener' = [h \in Handles |-> IF h \in Owned THEN t.n ELSE newPeerListener[h]]
           /\ dialog' = [n |-> t.n, h |-> OwnTransport("wc")]
           /\ Become(t, IF Off(OwnTransport("p2p"))
                        THEN {[t EXCEPT !.op = "pair", !.pc = "connecting",
                                        !.h = OwnTransport("p2p")]}
                        ELSE {})
           /\ UNCHANGED <<activeTransport, inits>>
  <2>1. OwnTransport("post") \in Handles /\ OwnTransport("p2p") \in Handles
    BY <1>o, <1>5, KindFacts DEF Complete, OwnTransport, Handle, Handles
  <2>2. OwnTransport("wc") \in Places /\ t.n \in 0..MaxInits
    BY <1>1, <1>o, OwnTypes DEF Tasks
  <2>3. newPeerListener' \in [Handles -> 0..MaxInits]
    BY <1>o, <1>5, <2>2 DEF FieldsOK
  <2>4. FieldsOK'
    BY <1>o, <1>2, <1>5, <2>1, <2>3, StartTypes DEF FieldsOK
  <2>5. {[t EXCEPT !.op = "pair", !.pc = "connecting", !.h = OwnTransport("p2p")]} \subseteq Tasks
    BY <1>1, <2>1 DEF Tasks, Ops, Steps
  <2>6. TasksOK'
    BY <1>1, <1>5, <2>5, BecomeTypes DEF CoreOK
  <2>7. FlagsOK'
    BY <1>1, <1>2, <1>5, <2>2 DEF CoreOK, FlagsOK
  <2> QED
    BY <1>1, <1>2, <1>5, <2>4, <2>6, <2>7, InitsKept, ActiveKept, StoresKept DEF CoreOK, initState
<1> QED BY <1>3, <1>4, <1>5 DEF Made

LEMMA PairTypes ==
    ASSUME ConnectionTypeOK, NEW h \in Handles, Pair(h)
    PROVE  CoreOK'
<1>1. CoreOK /\ 0 \in 0..MaxInits /\ Unsettled \in Places
  BY CoreFacts
<1>2. h.k \in Kinds /\ OwnTransport(h.k) \in Places
  BY <1>1, KindFacts, OwnTypes DEF CoreOK, FieldsOK
<1>3. counts' \in [{"request", "event"} -> Nat]
  BY <1>1, OccurTypes DEF Pair, CoreOK
<1>4. StoresOK' /\ TasksOK'
  BY <1>1, <1>2 DEF Pair, CoreOK, StoresOK, TasksOK
<1>5. connecting' \subseteq Handles /\ connected' \subseteq Handles /\ own' = own /\ made' = made
  BY <1>1 DEF Pair, CoreOK, FieldsOK
<1>6. UNCHANGED <<initReject, isInitPending, activeAccount, debounce>>
  BY DEF Pair
<1>7. CASE UNCHANGED <<newPeerListener, activeTransport, initPromise, inits, activePeer, dialog>>
  BY <1>1, <1>3, <1>4, <1>5, <1>6, <1>7 DEF CoreOK, FieldsOK, InitsOK, ActiveOK, FlagsOK
<1>8. CASE /\ newPeerListener' = [x \in Handles |-> IF x \in Owned \cup {h} THEN 0
                                                    ELSE newPeerListener[x]]
           /\ activePeer' = h.k
           /\ SetTransport(OwnTransport(h.k))
           /\ SettleInit(newPeerListener[h], "resolved")
           /\ dialog' = [n |-> 0, h |-> Unsettled]
  <2>1. newPeerListener' \in [Handles -> 0..MaxInits]
    BY <1>1, <1>8 DEF CoreOK, FieldsOK
  <2>2. FieldsOK'
    BY <1>1, <1>5, <2>1 DEF CoreOK, FieldsOK
  <2>3. ActiveOK'
    BY <1>1, <1>2, <1>6, <1>8 DEF CoreOK, ActiveOK, SetTransport
  <2>4. initPromise' \in 0..MaxInits
    BY <1>1, <1>8 DEF CoreOK, InitsOK, SetTransport
  <2>5. inits' \in Seq(Outcomes) /\ Len(inits') = Len(inits)
    BY <1>1, <1>8, SettleTypes DEF CoreOK, InitsOK, Outcomes
  <2>6. InitsOK'
    BY <1>1, <1>6, <2>4, <2>5 DEF CoreOK, InitsOK
  <2>7. FlagsOK'
    BY <1>1, <1>3, <1>6, <1>8 DEF CoreOK, FlagsOK
  <2> QED BY <1>4, <2>2, <2>3, <2>6, <2>7 DEF CoreOK
<1> QED BY <1>7, <1>8 DEF Pair

LEMMA ProceedTypes ==
    ASSUME ConnectionTypeOK, NEW t, Proceed(t)
    PROVE  CoreOK'
<1>1. t \in Tasks /\ CoreOK
  BY CoreFacts DEF Proceed
<1>2. FlagsOK' /\ TasksOK'
  <2>1. CASE Finish(t) /\ UNCHANGED isInitPending
    BY <1>1, <2>1, FinishTypes DEF Proceed, CoreOK, FlagsOK
  <2>2. CASE /\ RequestPeer # "loading"
             /\ isInitPending' = FALSE
             /\ Become(t, IF t.op = "call" /\ activeAccount = "none" THEN {}
                          ELSE {[t EXCEPT !.pc = "send", !.k = RequestPeer]})
    <3>1. RequestPeer \in Kinds \cup {"none"}
      BY <1>1, <2>2 DEF RequestPeer, CoreOK, ActiveOK
    <3>2. {[t EXCEPT !.pc = "send", !.k = RequestPeer]} \subseteq Tasks
      BY <1>1, <3>1 DEF Tasks, Steps
    <3> QED BY <1>1, <2>2, <3>2, BecomeTypes DEF Proceed, CoreOK, FlagsOK
  <2> QED BY <2>1, <2>2 DEF Proceed
<1>3. UNCHANGED <<fields, activeTransport, initState, active, stores>>
  BY DEF Proceed
<1> QED BY <1>1, <1>2, <1>3, FieldsKept, InitsKept, ActiveKept, StoresKept DEF CoreOK

LEMMA SendRequestTypes ==
    ASSUME ConnectionTypeOK, NEW t, SendRequest(t)
    PROVE  CoreOK'
<1>1. t \in Tasks /\ CoreOK
  BY CoreFacts DEF SendRequest
<1>2. {[t EXCEPT !.pc = "sent", !.h = activeTransport]} \subseteq Tasks
  BY <1>1 DEF Tasks, Steps, CoreOK, ActiveOK, Places
<1>3. TasksOK'
  BY <1>1, <1>2, BecomeTypes DEF SendRequest, CoreOK
<1>4. UNCHANGED <<fields, activeTransport, initState, isInitPending, active, stores, debounce,
                  dialog, counts>>
  BY DEF SendRequest
<1> QED
  BY <1>1, <1>3, <1>4, FieldsKept, InitsKept, ActiveKept, FlagsKept, StoresKept DEF CoreOK

LEMMA PermissionGrantedTypes ==
    ASSUME ConnectionTypeOK, NEW t, PermissionGranted(t)
    PROVE  CoreOK'
<1>1. t \in Tasks /\ CoreOK
  BY CoreFacts DEF PermissionGranted
<1>2. t.h.k \in Kinds
  BY <1>1, KindFacts DEF PermissionGranted, HeardFrom, CoreOK, FieldsOK
<1>3. {[t EXCEPT !.pc = "post", !.k = t.h.k]} \subseteq Tasks
  BY <1>1, <1>2 DEF Tasks, Steps
<1>4. TasksOK'
  BY <1>1, <1>3, BecomeTypes DEF PermissionGranted, CoreOK
<1>5. ActiveOK' /\ StoresOK'
  BY <1>1, <1>2 DEF PermissionGranted, CoreOK, ActiveOK, StoresOK
<1>6. UNCHANGED <<fields, initState, isInitPending, debounce, dialog, counts>>
  BY DEF PermissionGranted
<1> QED BY <1>1, <1>4, <1>5, <1>6, FieldsKept, InitsKept, FlagsKept DEF CoreOK

LEMMA RefusedTypes ==
    ASSUME ConnectionTypeOK, NEW t, Refused(t)
    PROVE  CoreOK'
<1>1. t \in Tasks /\ CoreOK /\ 0 \in 0..MaxInits
  BY CoreFacts DEF Refused
<1>2. FieldsOK' /\ initPromise' \in 0..MaxInits /\ TasksOK'
  <2>1. CASE initPromise' = 0 /\ Drop({}) /\ Become(t, To(t, "dropped"))
    <3>1. To(t, "dropped") \subseteq Tasks
      BY <1>1, TaskTypes DEF Steps
    <3> QED BY <1>1, <2>1, <3>1, BecomeTypes, DropTypes DEF CoreOK
  <2>2. CASE Finish(t) /\ UNCHANGED <<initPromise, fields>>
    BY <1>1, <2>2, FinishTypes, FieldsKept DEF CoreOK, InitsOK
  <2> QED BY <2>1, <2>2 DEF Refused
<1>3. UNCHANGED <<activeTransport, initReject, inits, isInitPending, active, stores, debounce,
                  dialog, counts>>
  BY DEF Refused
<1> QED BY <1>1, <1>2, <1>3, ActiveKept, FlagsKept, StoresKept DEF CoreOK, InitsOK

LEMMA ForgottenTypes ==
    ASSUME ConnectionTypeOK, NEW t, Forgotten(t)
    PROVE  CoreOK'
<1>1. CoreOK /\ 0 \in 0..MaxInits /\ Unsettled \in Places
  BY CoreFacts
<1>2. TasksOK'
  BY <1>1, FinishTypes DEF Forgotten, CoreOK
<1>3. ActiveOK' /\ InitsOK'
  BY <1>1 DEF Forgotten, SetTransport, CoreOK, ActiveOK, InitsOK
<1>4. UNCHANGED <<fields, isInitPending, stores, debounce, dialog, counts>>
  BY DEF Forgotten
<1> QED BY <1>1, <1>2, <1>3, <1>4, FieldsKept, FlagsKept, StoresKept DEF CoreOK

LEMMA AbortTypes ==
    ASSUME ConnectionTypeOK, Abort
    PROVE  CoreOK'
<1>1. CoreOK /\ 0 \in 0..MaxInits /\ Unsettled \in Places
  BY CoreFacts
<1>2. TasksOK'
  BY <1>1, EventTaskTypes DEF Abort, CoreOK, TasksOK, Ops, Steps
<1>3. FieldsOK'
  BY <1>1, DropTypes DEF Abort, CoreOK
<1>4. FlagsOK'
  BY <1>1, OccurTypes DEF Abort, NoDialog, CoreOK, FlagsOK
<1>5. UNCHANGED <<activeTransport, initState, active, stores>>
  BY DEF Abort
<1> QED BY <1>1, <1>2, <1>3, <1>4, <1>5, InitsKept, ActiveKept, StoresKept DEF CoreOK

LEMMA AbortedTypes ==
    ASSUME ConnectionTypeOK, NEW t, Aborted(t)
    PROVE  CoreOK'
<1>1. t \in Tasks /\ CoreOK /\ 0 \in 0..MaxInits
  BY CoreFacts DEF Aborted
<1>2. [t EXCEPT !.op = "clear"] \in Tasks /\ {} \subseteq Tasks /\ tasks \ {t} \subseteq Tasks
  BY <1>1, TaskTypes DEF Ops, CoreOK, TasksOK
<1>3. ClearedOK'
  BY <1>2, ClearTypes DEF Aborted
<1>4. inits' \in Seq(Outcomes) /\ Len(inits') = Len(inits)
  BY <1>1, SettleTypes DEF Aborted, CoreOK, InitsOK, Outcomes
<1> QED BY <1>1, <1>3, <1>4, StoresKept DEF Aborted, CoreOK, ClearedOK, InitsOK, FlagsOK

LEMMA PairReadyTypes ==
    ASSUME ConnectionTypeOK, NEW t, PairReady(t)
    PROVE  CoreOK'
<1>1. CoreOK
  BY CoreFacts
<1>2. TasksOK'
  BY <1>1, FinishTypes DEF PairReady, CoreOK
<1>3. UNCHANGED <<fields, activeTransport, initState, isInitPending, active, stores, debounce,
                  dialog, counts>>
  BY DEF PairReady
<1> QED
  BY <1>1, <1>2, <1>3, FieldsKept, InitsKept, ActiveKept, FlagsKept, StoresKept DEF CoreOK

LEMMA StartDisconnectTypes ==
    ASSUME ConnectionTypeOK, StartDisconnect
    PROVE  CoreOK'
<1>1. CoreOK
  BY CoreFacts
<1>2. TasksOK'
  BY <1>1, EventTaskTypes DEF StartDisconnect, Disconnecting, CoreOK, TasksOK, Ops, Steps
<1>3. FlagsOK'
  BY <1>1, OccurTypes DEF StartDisconnect, CoreOK, FlagsOK
<1>4. UNCHANGED <<fields, activeTransport, initState, active, stores>>
  BY DEF StartDisconnect
<1> QED BY <1>1, <1>2, <1>3, <1>4, FieldsKept, InitsKept, ActiveKept, StoresKept DEF CoreOK

LEMMA RemovePeersTypes ==
    ASSUME ConnectionTypeOK, NEW t, RemovePeers(t)
    PROVE  CoreOK'
<1> DEFINE new == [t EXCEPT !.h = activeTransport]
<1>1. t \in Tasks /\ CoreOK
  BY CoreFacts DEF RemovePeers
<1>2. UNCHANGED <<initReject, inits, isInitPending, dialog, counts>>
  BY DEF RemovePeers
<1>3. /\ new \in Tasks /\ To(new, "notify") \subseteq Tasks /\ To(new, "shut") \subseteq Tasks
      /\ [new EXCEPT !.n = 1] \in Tasks
      /\ tasks \ {t} \subseteq Tasks
  <2>1. new \in Tasks
    BY <1>1, TaskTypes DEF CoreOK, ActiveOK
  <2> HIDE DEF new
  <2>2. 1 \in 0..MaxInits
    BY ConnectionBoundAssumption
  <2> QED BY <1>1, <2>1, <2>2, TaskTypes DEF Steps, CoreOK, TasksOK
<1>4. ClearedOK' /\ StoresOK'
  <2> HIDE DEF new
  <2>1. CASE Finish(t) /\ UNCHANGED <<fields, activeTransport, initPromise, active, stores,
                                      debounce>>
    BY <1>1, <2>1, FinishTypes, FieldsKept, ActiveKept, StoresKept DEF CoreOK, ClearedOK,
                                                                       InitsOK, FlagsOK
  <2>2. CASE /\ peers' = peers \ {activeTransport.k} /\ accounts' = accounts \ {activeTransport.k}
             /\ Clear(new, To(new, "notify"), tasks \ {t})
    BY <1>1, <1>3, <2>2, ClearTypes DEF CoreOK, StoresOK
  <2>3. CASE /\ peers' = peers \ {activeTransport.k} /\ accounts' = accounts \ {activeTransport.k}
             /\ Become(t, To(new, "notify"))
             /\ UNCHANGED <<fields, activeTransport, initPromise, active, debounce>>
    BY <1>1, <1>3, <2>3, BecomeTypes, FieldsKept, ActiveKept
       DEF CoreOK, ClearedOK, StoresOK, InitsOK, FlagsOK
  <2>4. CASE UNCHANGED stores /\ Clear([new EXCEPT !.n = 1], To(new, "shut"), tasks \ {t})
    BY <1>1, <1>3, <2>4, ClearTypes, StoresKept DEF CoreOK
  <2> QED BY <2>1, <2>2, <2>3, <2>4 DEF RemovePeers, new
<1> QED BY <1>1, <1>2, <1>4 DEF CoreOK, ClearedOK, InitsOK, FlagsOK

LEMMA NotifiedTypes ==
    ASSUME ConnectionTypeOK, NEW t, Notified(t)
    PROVE  CoreOK'
<1>1. t \in Tasks /\ CoreOK
  BY CoreFacts DEF Notified
<1>2. [t EXCEPT !.n = 1] \in Tasks /\ To(t, "shut") \subseteq Tasks /\ tasks \ {t} \subseteq Tasks
  <2>1. 1 \in 0..MaxInits
    BY ConnectionBoundAssumption
  <2> QED BY <1>1, <2>1, TaskTypes DEF Steps, CoreOK, TasksOK
<1>3. ClearedOK'
  <2>1. CASE Clear([t EXCEPT !.n = 1], To(t, "shut"), tasks \ {t})
    BY <1>2, <2>1, ClearTypes
  <2>2. CASE Finish(t) /\ UNCHANGED <<fields, activeTransport, initPromise, active, debounce>>
    BY <1>1, <2>2, FinishTypes, FieldsKept, ActiveKept DEF CoreOK, ClearedOK, InitsOK, FlagsOK
  <2> QED BY <2>1, <2>2 DEF Notified
<1> QED BY <1>1, <1>3, StoresKept DEF Notified, CoreOK, ClearedOK, InitsOK, FlagsOK

LEMMA ShutTypes ==
    ASSUME ConnectionTypeOK, NEW t, Shut(t)
    PROVE  CoreOK'
<1>1. t \in Tasks /\ CoreOK
  BY CoreFacts DEF Shut
<1>2. TasksOK'
  BY <1>1, TaskTypes, BecomeTypes DEF Shut, CoreOK, Steps
<1>3. FieldsOK'
  BY <1>1, DropTypes DEF Shut, CoreOK
<1>4. UNCHANGED <<activeTransport, initState, isInitPending, active, stores, debounce, dialog,
                  counts>>
  BY DEF Shut
<1> QED BY <1>1, <1>2, <1>3, <1>4, InitsKept, ActiveKept, FlagsKept, StoresKept DEF CoreOK

LEMMA DisconnectedTypes ==
    ASSUME ConnectionTypeOK, NEW t, Disconnected(t)
    PROVE  CoreOK'
<1>1. CoreOK /\ 0 \in 0..MaxInits /\ Unsettled \in Places
  BY CoreFacts
<1>2. TasksOK'
  BY <1>1, FinishTypes DEF Disconnected, CoreOK
<1>3. ActiveOK' /\ InitsOK' /\ FlagsOK'
  BY <1>1, SetTransportTypes DEF Disconnected, CoreOK, InitsOK, FlagsOK
<1> QED BY <1>1, <1>2, <1>3, FieldsKept, StoresKept DEF Disconnected, CoreOK

LEMMA DepartureTypes ==
    ASSUME ConnectionTypeOK, NEW k \in Kinds, Departure(k)
    PROVE  CoreOK'
<1> DEFINE t == EventTask("departure", "clear")
<1>1. CoreOK
  BY CoreFacts
<1>2. t \in Tasks /\ To(t, "shut") \subseteq Tasks /\ tasks \subseteq Tasks
  <2>1. t \in Tasks
    BY EventTaskTypes DEF Ops, Steps
  <2> HIDE DEF t
  <2> QED BY <1>1, <2>1, TaskTypes DEF Steps, CoreOK, TasksOK
<1>3. ClearedOK'
  <2> HIDE DEF t
  <2>1. CASE Clear(t, To(t, "shut"), tasks)
    BY <1>2, <2>1, ClearTypes
  <2>2. CASE /\ tasks' = tasks \cup To(t, "shut")
             /\ UNCHANGED <<fields, activeTransport, initPromise, active, debounce>>
    BY <1>1, <1>2, <2>2, FieldsKept, ActiveKept DEF CoreOK, ClearedOK, InitsOK, FlagsOK, TasksOK
  <2> QED BY <2>1, <2>2 DEF Departure, t
<1>4. StoresOK'
  BY <1>1 DEF Departure, CoreOK, StoresOK
<1>5. counts' \in [{"request", "event"} -> Nat]
  BY <1>1, OccurTypes DEF Departure, CoreOK
<1> QED BY <1>1, <1>3, <1>4, <1>5 DEF Departure, CoreOK, ClearedOK, InitsOK, FlagsOK

LEMMA RelayErrorTypes ==
    ASSUME ConnectionTypeOK, RelayError
    PROVE  CoreOK'
<1>1. CoreOK /\ 0 \in 0..MaxInits /\ Unsettled \in Places
  BY CoreFacts
<1>2. TasksOK'
  BY <1>1, EventTaskTypes DEF RelayError, CoreOK, TasksOK, Ops, Steps
<1>3. FieldsOK'
  BY <1>1, DropTypes DEF RelayError, CoreOK
<1>4. FlagsOK'
  BY <1>1, OccurTypes DEF RelayError, NoDialog, CoreOK, FlagsOK
<1>5. ActiveOK' /\ StoresOK'
  BY <1>1 DEF RelayError, CoreOK, ActiveOK, StoresOK
<1> QED BY <1>1, <1>2, <1>3, <1>4, <1>5, InitsKept DEF RelayError, CoreOK

LEMMA ChannelClosedTypes ==
    ASSUME ConnectionTypeOK, ChannelClosed
    PROVE  CoreOK'
<1>1. CoreOK
  BY CoreFacts
<1>2. EventTask("clear", "clear") \in Tasks /\ tasks \cup {Disconnecting} \subseteq Tasks
  BY <1>1, EventTaskTypes DEF Disconnecting, CoreOK, TasksOK, Ops, Steps
<1>3. ClearedOK'
  BY <1>2, ClearTypes DEF ChannelClosed
<1>4. counts' \in [{"request", "event"} -> Nat]
  BY <1>1, OccurTypes DEF ChannelClosed, CoreOK
<1> QED BY <1>1, <1>3, <1>4, StoresKept DEF ChannelClosed, CoreOK, ClearedOK, InitsOK, FlagsOK

LEMMA RemoveAccountsTypes ==
    ASSUME ConnectionTypeOK, RemoveAccounts
    PROVE  CoreOK'
<1>1. CoreOK
  BY CoreFacts
<1>2. EventTask("clear", "clear") \in Tasks /\ tasks \subseteq Tasks
  BY <1>1, EventTaskTypes DEF CoreOK, TasksOK, Ops, Steps
<1>3. ClearedOK'
  BY <1>2, ClearTypes DEF RemoveAccounts
<1>4. counts' \in [{"request", "event"} -> Nat]
  BY <1>1, OccurTypes DEF RemoveAccounts, CoreOK
<1>5. StoresOK'
  BY <1>1 DEF RemoveAccounts, CoreOK, StoresOK
<1> QED BY <1>1, <1>3, <1>4, <1>5 DEF RemoveAccounts, CoreOK, ClearedOK, InitsOK, FlagsOK

LEMMA SwitchTypes ==
    ASSUME ConnectionTypeOK, NEW k \in Kinds, Switch(k)
    PROVE  CoreOK'
<1>1. CoreOK
  BY CoreFacts
<1>2. [EventTask("switch", "post") EXCEPT !.k = k] \in Tasks
  <2>1. EventTask("switch", "post") \in Tasks
    BY EventTaskTypes DEF Ops, Steps
  <2> QED BY <2>1 DEF Tasks
<1>3. TasksOK' /\ ActiveOK'
  BY <1>1, <1>2 DEF Switch, CoreOK, TasksOK, ActiveOK
<1>4. FlagsOK'
  BY <1>1, OccurTypes DEF Switch, CoreOK, FlagsOK
<1> QED BY <1>1, <1>3, <1>4, FieldsKept, InitsKept, StoresKept DEF Switch, CoreOK

LEMMA ConnectionInitTypes ==
    ASSUME ConnectionInit
    PROVE  ConnectionTypeOK
<1>1. 0 \in 0..MaxTransports /\ 0 \in 0..MaxInits
  BY ConnectionBoundAssumption
<1>2. PICK k \in accounts \cup {"none"} :
         /\ activeAccount = k
         /\ activePeer = IF k = "none" THEN "none" ELSE "loading"
         /\ tasks = IF k = "none" THEN {} ELSE {[Task("load", "post") EXCEPT !.k = k]}
  BY DEF ConnectionInit
<1>3. accounts \subseteq Kinds /\ peers \subseteq Kinds
  BY DEF ConnectionInit
<1>4. tasks \subseteq Tasks
  <2>1. Task("load", "post") \in Tasks
    BY TaskTypes DEF Ops, Steps
  <2>2. [Task("load", "post") EXCEPT !.k = k] \in Tasks
    BY <1>2, <1>3, <2>1 DEF Tasks
  <2> QED BY <1>2, <2>2
<1>5. FieldsOK /\ InitsOK /\ FlagsOK
  <2>1. FieldsOK
    BY <1>1 DEF ConnectionInit, FieldsOK
  <2>2. InitsOK
    <3>1. inits \in Seq(Outcomes) /\ Len(inits) = 0
      BY DEF ConnectionInit
    <3> QED BY <1>1, <3>1, ConnectionBoundAssumption DEF ConnectionInit, InitsOK
  <2>3. dialog \in [n : 0..MaxInits, h : Places]
    BY <1>1 DEF ConnectionInit, NoDialog, Places
  <2>4. counts \in [{"request", "event"} -> Nat]
    BY DEF ConnectionInit
  <2> QED BY <2>1, <2>2, <2>3, <2>4 DEF ConnectionInit, FlagsOK
<1>6. ActiveOK
  BY <1>2, <1>3 DEF ConnectionInit, ActiveOK, Places
<1> QED BY <1>3, <1>4, <1>5, <1>6, ConnectionTypeParts DEF ConnectionInit, StoresOK, TasksOK

LEMMA ConnectionNextTypes ==
    ASSUME ConnectionTypeOK, [ConnectionNext]_connectionVars
    PROVE  ConnectionTypeOK'
<1>1. CASE UNCHANGED connectionVars
  BY <1>1 DEF connectionVars, fields, initState, active, stores, ConnectionTypeOK
<1>2. ASSUME Event PROVE CoreOK'
  BY <1>2, PairTypes, AbortTypes, StartDisconnectTypes, RelayErrorTypes, ChannelClosedTypes,
     RemoveAccountsTypes, DepartureTypes, SwitchTypes, ConnectedTypes, PermissionGrantedTypes,
     RefusedTypes DEF Event
<1>3. ASSUME NEW t \in tasks, Continue(t) PROVE CoreOK'
  BY <1>3, BindTypes, FindPeerTypes, InterruptedTypes, CallInitTypes, ReconnectedTypes, MadeTypes,
     ProceedTypes, SendRequestTypes, ForgottenTypes, AbortedTypes, PairReadyTypes,
     ClearResumedTypes, ClosingTypes, RemovePeersTypes, NotifiedTypes, ShutTypes,
     DisconnectedTypes DEF Continue
<1>4. CoreOK' /\ lost' = lost => ConnectionTypeOK'
  BY CoreFacts, ConnectionTypePartsNext DEF CoreOK
<1>5. CoreOK' /\ lost' \subseteq Handles => ConnectionTypeOK'
  BY ConnectionTypePartsNext DEF CoreOK
<1>6. ASSUME NEW t \in tasks, MakeTransports(t) \/ Begin(t) PROVE ConnectionTypeOK'
  BY <1>5, <1>6, MakeTransportsTypes, BeginTypes
<1>7. ASSUME NEW op \in {"permission", "call"}, Request(op), UNCHANGED lost PROVE ConnectionTypeOK'
  BY <1>4, <1>7, RequestTypes
<1> QED BY <1>1, <1>2, <1>3, <1>4, <1>6, <1>7 DEF ConnectionNext

\* The dApp's connection is well-typed in every state (DAppClient's fields).
THEOREM ConnectionTypes == ConnectionSpec => []ConnectionTypeOK
<1>1. ConnectionInit => ConnectionTypeOK
  BY ConnectionInitTypes
<1>2. ConnectionTypeOK /\ [ConnectionNext]_connectionVars => ConnectionTypeOK'
  BY ConnectionNextTypes
<1> QED BY <1>1, <1>2, PTL DEF ConnectionSpec

-----------------------------------------------------------------------------
(* No transport is left behind.  A step leaves the transports where they   *)
(* are and connects held ones only, or it drops them all, or makes one.    *)

\* Which transports are held depends on the fields alone.
LEMMA OwnedKept ==
    ASSUME own' = own
    PROVE  Owned' = Owned /\ \A k : OwnTransport(k)' = OwnTransport(k)
BY DEF Owned, OwnTransport

RunningKept ==
    /\ own' = own /\ lost' = lost
    /\ \A h \in connecting' \cup connected' :
          h.k = "wc" \/ h \in connecting \cup connected \cup Owned

Dropped == UNCHANGED lost /\ \E more : Drop(more)

LEMMA RunningKeptHeld ==
    ASSUME NoTransportLeftBehind, RunningKept
    PROVE  NoTransportLeftBehind'
BY OwnedKept DEF NoTransportLeftBehind, RunningKept

LEMMA DroppedHeld ==
    ASSUME NoTransportLeftBehind, Dropped
    PROVE  NoTransportLeftBehind'
<1>1. PICK more : Drop(more)
  BY DEF Dropped
<1>2. ASSUME NEW h \in connecting' \cup connected' PROVE h.k = "wc" \/ h \in lost
  BY <1>1, <1>2 DEF Drop, Disconnect, NoTransportLeftBehind
<1> QED BY <1>2 DEF Dropped, NoTransportLeftBehind

\* What another takes the place of is lost.
LEMMA MakeTransportHolds ==
    ASSUME ConnectionTypeOK, NEW t, NEW k, NEW then, MakeTransport(t, k, then)
    PROVE  Owned \subseteq Owned' \cup lost' /\ lost \subseteq lost'
<1>1. own \in [Kinds -> 0..MaxTransports]
  BY DEF ConnectionTypeOK
<1>2. ASSUME NEW j \in Kinds, OwnTransport(j) # Unsettled
      PROVE  OwnTransport(j) \in Owned' \cup lost'
  <2>1. CASE j = k
    BY <1>2, <2>1 DEF MakeTransport
  <2>2. CASE j # k
    <3>1. own'[j] = own[j]
      BY <1>1, <2>2 DEF MakeTransport
    <3>2. OwnTransport(j)' = OwnTransport(j)
      BY <3>1 DEF OwnTransport
    <3> QED BY <1>2, <3>2 DEF Owned
  <2> QED BY <2>1, <2>2
<1> QED BY <1>2 DEF Owned, MakeTransport

LEMMA ClearRunning ==
    ASSUME NEW t, NEW then, NEW others, Clear(t, then, others), UNCHANGED lost
    PROVE  RunningKept \/ Dropped
BY DEF Clear, RunningKept, Dropped, fields

\* Connecting transports that are held, or none.
LEMMA StartRunning ==
    ASSUME NEW hs, hs \subseteq Owned, StartConnecting(hs), own' = own, lost' = lost
    PROVE  RunningKept
BY DEF StartConnecting, RunningKept

LEMMA ContinueRunning ==
    ASSUME ConnectionTypeOK, NEW t, Continue(t), UNCHANGED lost
    PROVE  RunningKept \/ Dropped
<1>o. own \in [Kinds -> 0..MaxTransports]
  BY DEF ConnectionTypeOK
<1>1. CASE UNCHANGED fields
  BY <1>1 DEF fields, RunningKept
<1>2. CASE Bind(t)
  <2>1. TransportOf(t.k) \in Owned \cup {Unsettled} /\ own' = own
    BY <1>o, <1>2, OwnTypes DEF Bind
  <2>2. CASE TransportOf(t.k) = Unsettled
    BY <1>2, <2>2 DEF Bind, ConnectIfAny, RunningKept
  <2>3. CASE TransportOf(t.k) # Unsettled
    BY <1>2, <2>1, <2>3, StartRunning DEF Bind, ConnectIfAny
  <2> QED BY <2>2, <2>3
<1>3. CASE Made(t)
  <2>1. CASE UNCHANGED <<connecting, connected>>
    BY <1>3, <2>1 DEF Made, RunningKept
  <2>2. CASE Complete
    <3>1. OwnTransport("post") \in Owned /\ OwnTransport("p2p") \in Owned
      <4>1. OwnTransport("post") # Unsettled /\ OwnTransport("p2p") # Unsettled
        BY <2>2, KindFacts DEF Complete, OwnTransport, Handle, Unsettled
      <4> QED BY <4>1, KindFacts DEF Owned
    <3> QED BY <1>3, <2>1, <3>1, StartRunning DEF Made
  <2> QED BY <1>3, <2>1, <2>2 DEF Made
<1>4. CASE Aborted(t)
  BY <1>4, ClearRunning DEF Aborted
<1>5. CASE ClearResumed(t)
  BY <1>1, <1>5, ClearRunning DEF ClearResumed
<1>6. CASE Closing(t)
  BY <1>6 DEF Closing, Disconnect, RunningKept
<1>7. CASE RemovePeers(t)
  BY <1>1, <1>7, ClearRunning DEF RemovePeers
<1>8. CASE Notified(t)
  BY <1>1, <1>8, ClearRunning DEF Notified
<1>9. CASE Shut(t)
  BY <1>9 DEF Shut, Dropped
<1>10. CASE \/ FindPeer(t) \/ Interrupted(t) \/ CallInit(t) \/ Reconnected(t) \/ Proceed(t)
            \/ SendRequest(t) \/ Forgotten(t) \/ PairReady(t) \/ Disconnected(t)
  <2>1. UNCHANGED fields
    BY <1>10 DEF FindPeer, Interrupted, CallInit, Reconnected, Proceed, SendRequest, Forgotten,
                 PairReady, Disconnected
  <2> QED BY <1>1, <2>1
<1> QED
  BY <1>2, <1>3, <1>4, <1>5, <1>6, <1>7, <1>8, <1>9, <1>10 DEF Continue

LEMMA EventRunning ==
    ASSUME Event, UNCHANGED lost
    PROVE  RunningKept \/ Dropped
<1>0. CASE UNCHANGED fields
  BY <1>0 DEF fields, RunningKept
<1>1. ASSUME NEW h \in Handles, Pair(h) PROVE RunningKept
  BY <1>1 DEF Pair, RunningKept
<1>2. CASE Abort
  BY <1>2 DEF Abort, Dropped
<1>3. CASE StartDisconnect
  BY <1>0, <1>3 DEF StartDisconnect
<1>4. CASE RelayError
  BY <1>4 DEF RelayError, Dropped
<1>5. CASE ChannelClosed
  BY <1>5, ClearRunning DEF ChannelClosed
<1>6. CASE RemoveAccounts
  BY <1>6, ClearRunning DEF RemoveAccounts
<1>7. ASSUME NEW k \in Kinds, Departure(k) PROVE RunningKept \/ Dropped
  BY <1>0, <1>7, ClearRunning DEF Departure
<1>8. ASSUME NEW k \in Kinds, Switch(k) PROVE RunningKept \/ Dropped
  BY <1>0, <1>8 DEF Switch
<1>9. ASSUME NEW h, Connected(h) PROVE RunningKept
  BY <1>9 DEF Connected, RunningKept
<1>10. ASSUME NEW t, PermissionGranted(t) PROVE RunningKept \/ Dropped
  BY <1>0, <1>10 DEF PermissionGranted
<1>11. ASSUME NEW t, Refused(t) PROVE RunningKept \/ Dropped
  BY <1>0, <1>11 DEF Refused, Dropped
<1> QED
  BY <1>1, <1>2, <1>3, <1>4, <1>5, <1>6, <1>7, <1>8, <1>9, <1>10, <1>11 DEF Event

LEMMA NoTransportLeftBehindNext ==
    ASSUME ConnectionTypeOK, NoTransportLeftBehind, [ConnectionNext]_connectionVars
    PROVE  NoTransportLeftBehind'
<1>0. CASE UNCHANGED <<fields, lost>>
  BY <1>0, RunningKeptHeld DEF fields, RunningKept
<1>1. CASE Event /\ UNCHANGED lost
  BY <1>1, EventRunning, RunningKeptHeld, DroppedHeld
<1>2. ASSUME NEW op, Request(op), UNCHANGED lost PROVE NoTransportLeftBehind'
  <2>1. CASE UNCHANGED fields
    BY <1>0, <1>2, <2>1
  <2>2. ASSUME NEW t, Interrupt(t) PROVE RunningKept
    BY <1>2, <2>2 DEF Interrupt, Disconnect, RunningKept
  <2> QED BY <1>2, <2>1, <2>2, RunningKeptHeld DEF Request
<1>3. ASSUME NEW t, Continue(t), UNCHANGED lost PROVE NoTransportLeftBehind'
  BY <1>3, ContinueRunning, RunningKeptHeld, DroppedHeld
<1>4. ASSUME NEW t, MakeTransports(t) PROVE NoTransportLeftBehind'
  <2>1. UNCHANGED <<connecting, connected>>
    BY <1>4 DEF MakeTransports
  <2>2. UNCHANGED <<own, lost>> \/ \E k, then : MakeTransport(t, k, then)
    BY <1>4 DEF MakeTransports, MakePost
  <2>3. CASE UNCHANGED <<own, lost>>
    BY <2>1, <2>3, OwnedKept DEF NoTransportLeftBehind
  <2>4. CASE \E k, then : MakeTransport(t, k, then)
    BY <2>1, <2>4, MakeTransportHolds DEF NoTransportLeftBehind
  <2> QED BY <2>2, <2>3, <2>4
<1>5. ASSUME NEW t, Begin(t) PROVE NoTransportLeftBehind'
  <2>1. own' = own /\ lost \subseteq lost'
    BY <1>5 DEF Begin
  <2>2. \A h \in connecting' \cup connected' : h \in connecting \cup connected \cup Owned \cup lost'
    BY <1>5 DEF Begin, ConnectIfAny, StartConnecting
  <2> QED BY <2>1, <2>2, OwnedKept DEF NoTransportLeftBehind
<1>6. CASE UNCHANGED connectionVars
  BY <1>0, <1>6 DEF connectionVars
<1> QED BY <1>1, <1>2, <1>3, <1>4, <1>5, <1>6 DEF ConnectionNext

-----------------------------------------------------------------------------
(* The transport to send over is held, and the active account is stored.   *)
(* Where one of them is taken away, a task goes on that resets the other.  *)

Dropping == \E t \in tasks : t.pc \in {"dropped", "closing"}
Clearing == \E t \in tasks : t.pc \in {"clear", "closing"}

\* Tasks that drop or clear go on.
TasksKept == (Dropping => Dropping') /\ (Clearing => Clearing')

LEMMA OthersKept ==
    ASSUME NEW t, NEW new, t.pc \notin {"dropped", "closing", "clear"}, Become(t, new)
    PROVE  TasksKept
BY DEF Become, TasksKept, Dropping, Clearing

LEMMA MoreKept ==
    ASSUME NEW new, tasks' = tasks \cup new
    PROVE  TasksKept
BY DEF TasksKept, Dropping, Clearing

LEMMA SameKept ==
    ASSUME UNCHANGED tasks
    PROVE  TasksKept
BY DEF TasksKept, Dropping, Clearing

\* The client sends over what it did, over a transport it holds, or over none.
SendsOver(h) == h = activeTransport \/ h \in Owned' \cup lost' \cup {Unsettled}

TransportKept ==
    /\ Owned \subseteq Owned' \cup lost' /\ lost \subseteq lost'
    /\ SendsOver(activeTransport')
    /\ Dropping => Dropping'

TransportSafe == TransportKept \/ activeTransport' = Unsettled \/ Dropping'

AccountKept ==
    /\ activeAccount' = activeAccount
    /\ activeAccount \in accounts => activeAccount \in accounts'
    /\ Clearing => Clearing'

AccountSafe ==
    AccountKept \/ activeAccount' \notin Kinds \/ activeAccount' \in accounts' \/ Clearing'

LEMMA TransportSafeHeld ==
    ASSUME TransportIsHeld, TransportSafe
    PROVE  TransportIsHeld'
BY DEF TransportIsHeld, TransportSafe, TransportKept, SendsOver, Dropping

LEMMA AccountSafeStored ==
    ASSUME ActiveAccountIsStored, AccountSafe
    PROVE  ActiveAccountIsStored'
BY DEF ActiveAccountIsStored, AccountSafe, AccountKept, Clearing

\* Clearing waits for the transport, leaves a task that will clear, or clears.
LEMMA ClearSafe ==
    ASSUME NEW t \in Tasks, NEW then, NEW others, Clear(t, then, others)
    PROVE  (activeTransport' = Unsettled \/ Dropping') /\ (activeAccount' \notin Kinds \/ Clearing')
<1>1. CASE activeTransport = Unsettled /\ tasks' = others \cup To(t, "clear")
           /\ UNCHANGED activeTransport
  <2>1. [t EXCEPT !.pc = "clear"] \in tasks' /\ [t EXCEPT !.pc = "clear"].pc = "clear"
    BY <1>1 DEF To, Tasks
  <2> QED BY <1>1, <2>1 DEF Clearing
<1>2. CASE tasks' = others \cup {[t EXCEPT !.pc = "closing", !.h = activeTransport]}
  <2>1. [t EXCEPT !.pc = "closing", !.h = activeTransport].pc = "closing"
    BY DEF Tasks
  <2>2. [t EXCEPT !.pc = "closing", !.h = activeTransport] \in tasks'
    BY <1>2
  <2> QED BY <2>1, <2>2 DEF Clearing, Dropping
<1>3. CASE SetNoAccount
  BY <1>3, KindFacts DEF SetNoAccount, SetTransport
<1> QED BY <1>1, <1>2, <1>3 DEF Clear

\* A task that goes on to drop.
LEMMA DroppedNext ==
    ASSUME NEW t \in Tasks, To(t, "dropped") \subseteq tasks'
    PROVE  Dropping'
<1>1. [t EXCEPT !.pc = "dropped"] \in tasks' /\ [t EXCEPT !.pc = "dropped"].pc = "dropped"
  BY DEF To, Tasks
<1> QED BY <1>1 DEF Dropping

\* Steps that leave the fields, the account and what is lost.
LEMMA QuietSafe ==
    ASSUME own' = own, lost' = lost, TasksKept,
           UNCHANGED activeTransport, UNCHANGED <<activeAccount, accounts>>
    PROVE  TransportSafe /\ AccountSafe
BY OwnedKept DEF TransportSafe, TransportKept, SendsOver, AccountSafe, AccountKept, TasksKept

LEMMA ContinueSafe ==
    ASSUME ConnectionTypeOK, NEW t, Continue(t), UNCHANGED lost
    PROVE  TransportSafe /\ AccountSafe
<1>o. own \in [Kinds -> 0..MaxTransports]
      /\ \A op, pc : t \in At(op, pc) => t \in Tasks /\ t.pc = pc
  BY CoreFacts DEF ConnectionTypeOK
<1>h. \A k : OwnTransport(k) \in Owned \cup {Unsettled} /\ TransportOf(k) \in Owned \cup {Unsettled}
  BY <1>o, OwnTypes
<1>a. ASSUME own' = own, TasksKept, UNCHANGED <<activeAccount, accounts>>,
             activeTransport' \in Owned \cup {Unsettled, activeTransport}
      PROVE  TransportSafe /\ AccountSafe
  BY <1>a, OwnedKept DEF TransportSafe, TransportKept, SendsOver, AccountSafe, AccountKept,
                         TasksKept
<1>b. ASSUME NEW s \in Tasks, NEW then, NEW others, Clear(s, then, others)
      PROVE  TransportSafe /\ AccountSafe
  BY <1>b, ClearSafe DEF TransportSafe, AccountSafe
<1>1. CASE Bind(t)
  <2>1. TasksKept
    BY <1>o, <1>1, OthersKept DEF Bind
  <2> QED BY <1>1, <1>h, <1>a, <2>1 DEF Bind, SetTransport, active, stores
<1>2. CASE FindPeer(t)
  <2>1. TasksKept
    BY <1>o, <1>2, OthersKept DEF FindPeer
  <2> QED BY <1>2, <1>h, <1>a, <2>1 DEF FindPeer, SetTransport, fields, stores
<1>3. CASE Made(t)
  <2>1. TasksKept
    BY <1>o, <1>3, OthersKept DEF Made, Finish
  <2> QED BY <1>3, <1>h, <1>a, <2>1 DEF Made, active, stores
<1>4. CASE \/ Interrupted(t) \/ CallInit(t) \/ Reconnected(t) \/ Proceed(t) \/ SendRequest(t)
           \/ PairReady(t)
  <2>1. TasksKept
    BY <1>o, <1>4, OthersKept DEF Interrupted, CallInit, Reconnected, Proceed, SendRequest,
                                  PairReady, Finish
  <2>2. UNCHANGED <<fields, active, stores, activeTransport>>
    BY <1>4 DEF Interrupted, CallInit, Reconnected, Proceed, SendRequest, PairReady
  <2> QED BY <1>a, <2>1, <2>2 DEF fields, active, stores
<1>5. CASE Forgotten(t)
  <2>1. activeTransport' = Unsettled /\ UNCHANGED <<activeAccount,
                                                    stores>> /\ Finish(t) /\ t.pc = "dropped"
    BY <1>o, <1>5 DEF Forgotten, SetTransport
  <2>2. Clearing => Clearing'
    BY <2>1 DEF Clearing, Finish, Become
  <2> QED BY <2>1, <2>2 DEF TransportSafe, AccountSafe, AccountKept, stores
<1>6. CASE Disconnected(t)
  <2>1. activeTransport' = Unsettled /\ UNCHANGED <<active,
                                                    stores>> /\ Finish(t) /\ t.pc = "dropped"
    BY <1>o, <1>6 DEF Disconnected, SetTransport
  <2>2. Clearing => Clearing'
    BY <2>1 DEF Clearing, Finish, Become
  <2> QED BY <2>1, <2>2 DEF TransportSafe, AccountSafe, AccountKept, stores, active
<1>7. CASE Closing(t)
  BY <1>7, KindFacts DEF Closing, SetNoAccount, SetTransport, TransportSafe, AccountSafe
<1>8. CASE ClearResumed(t)
  <2>1. CASE activeAccount = "none"
    <3>1. activeAccount' = "none" /\ own' = own /\ UNCHANGED activeTransport
      BY <1>8, <2>1 DEF ClearResumed, active, fields
    <3>2. Dropping => Dropping'
      BY <1>o, <1>8, <2>1 DEF ClearResumed, Become, Dropping
    <3> QED BY <3>1, <3>2, OwnedKept, KindFacts
            DEF TransportSafe, TransportKept, SendsOver, AccountSafe
  <2>2. CASE activeAccount # "none"
    BY <1>o, <1>8, <1>b, <2>2 DEF ClearResumed
  <2> QED BY <2>1, <2>2
<1>9. CASE Aborted(t)
  <2>1. [t EXCEPT !.op = "clear"] \in Tasks
    BY <1>o, <1>9, TaskTypes DEF Aborted, Ops
  <2> QED BY <1>9, <1>b, <2>1 DEF Aborted
<1>10. CASE Shut(t)
  <2>1. t \in Tasks /\ To(t, "dropped") \subseteq tasks' /\ t.pc = "shut"
    BY <1>o, <1>10 DEF Shut, Become
  <2>2. Dropping' /\ TasksKept
    BY <1>10, <2>1, DroppedNext, OthersKept DEF Shut
  <2> QED BY <1>10, <2>2 DEF Shut, TransportSafe, AccountSafe, AccountKept, TasksKept, active,
                             stores
<1>11. CASE RemovePeers(t)
  <2> DEFINE new == [t EXCEPT !.h = activeTransport]
  <2>1. t \in Tasks /\ t.pc = "start"
    BY <1>o, <1>11 DEF RemovePeers
  <2>2. new \in Tasks /\ [new EXCEPT !.n = 1] \in Tasks
    <3>1. new \in Tasks /\ 1 \in 0..MaxInits
      <4>1. activeTransport \in Places /\ 1 \in 0..MaxInits
        BY ConnectionBoundAssumption DEF ConnectionTypeOK, Places
      <4> QED BY <2>1, <4>1, TaskTypes
    <3> HIDE DEF new
    <3> QED BY <3>1, TaskTypes
  <2> HIDE DEF new
  <2>3. CASE Finish(t) /\ UNCHANGED <<fields, activeTransport, active, stores>>
    BY <1>a, <2>1, <2>3, OthersKept DEF Finish, fields, active, stores
  <2>4. CASE /\ activeAccount # activeTransport.k /\ accounts' = accounts \ {activeTransport.k}
             /\ Become(t, To(new, "notify")) /\ UNCHANGED <<fields, activeTransport, active>>
    <3>1. TasksKept
      BY <2>1, <2>4, OthersKept
    <3> QED
      BY <2>4, <3>1, OwnedKept DEF TransportSafe, TransportKept, SendsOver, AccountSafe,
                                   AccountKept,
                                  TasksKept, fields, active
  <2>5. CASE \E s \in Tasks : \E then, others : Clear(s, then, others)
    BY <1>b, <2>5
  <2> QED BY <1>11, <2>2, <2>3, <2>4, <2>5 DEF RemovePeers, new
<1>12. CASE Notified(t)
  <2>1. t \in Tasks /\ t.pc = "notify" /\ [t EXCEPT !.n = 1] \in Tasks
    BY <1>o, <1>12, TaskTypes, ConnectionBoundAssumption DEF Notified
  <2>2. CASE Clear([t EXCEPT !.n = 1], To(t, "shut"), tasks \ {t})
    BY <1>b, <2>1, <2>2
  <2>3. CASE Finish(t) /\ UNCHANGED <<fields, activeTransport, active, stores>>
    BY <1>a, <2>1, <2>3, OthersKept DEF Finish, fields, active, stores
  <2> QED BY <1>12, <2>2, <2>3 DEF Notified
<1> QED
  BY <1>1, <1>2, <1>3, <1>4, <1>5, <1>6, <1>7, <1>8, <1>9, <1>10, <1>11, <1>12 DEF Continue

LEMMA EventSafe ==
    ASSUME ConnectionTypeOK, Event, UNCHANGED lost
    PROVE  TransportSafe /\ AccountSafe
<1>o. own \in [Kinds -> 0..MaxTransports]
      /\ \A op, pc : \A t \in At(op, pc) : t \in Tasks /\ t.pc = pc
  BY CoreFacts DEF ConnectionTypeOK
<1>c. /\ EventTask("clear", "clear") \in Tasks /\ EventTask("departure", "clear") \in Tasks
      /\ \A op \in {"abort", "relay"} : EventTask(op, "dropped").pc = "dropped"
  BY EventTaskTypes DEF Ops, Steps, EventTask, Task
<1>b. ASSUME NEW s \in Tasks, NEW then, NEW others, Clear(s, then, others)
      PROVE  TransportSafe /\ AccountSafe
  BY <1>b, ClearSafe DEF TransportSafe, AccountSafe
<1>1. ASSUME NEW h \in Handles, Pair(h) PROVE TransportSafe /\ AccountSafe
  <2>1. OwnTransport(h.k) \in Owned \cup {Unsettled} /\ Owned' = Owned /\ TasksKept
    BY <1>o, <1>1, OwnTypes, OwnedKept, SameKept DEF Pair
  <2> QED
    BY <1>1, <2>1 DEF Pair, SetTransport, TransportSafe, TransportKept, SendsOver, AccountSafe,
                      AccountKept, TasksKept
<1>2. CASE Abort
  <2>1. Dropping' /\ TasksKept
    BY <1>2, <1>c, MoreKept DEF Abort, Dropping
  <2> QED BY <1>2, <2>1 DEF Abort, TransportSafe, AccountSafe, AccountKept, TasksKept, active,
                            stores
<1>3. CASE StartDisconnect
  BY <1>3, MoreKept, QuietSafe DEF StartDisconnect, fields, active, stores
<1>4. CASE RelayError
  <2>1. Dropping'
    BY <1>4, <1>c DEF RelayError, Dropping
  <2> QED BY <1>4, <2>1, KindFacts DEF RelayError, TransportSafe, AccountSafe
<1>5. CASE ChannelClosed
  BY <1>b, <1>c, <1>5 DEF ChannelClosed
<1>6. CASE RemoveAccounts
  BY <1>b, <1>c, <1>6 DEF RemoveAccounts
<1>7. ASSUME NEW k \in Kinds, Departure(k) PROVE TransportSafe /\ AccountSafe
  <2> DEFINE t == EventTask("departure", "clear")
  <2>1. t \in Tasks
    BY <1>c
  <2> HIDE DEF t
  <2>2. CASE Clear(t, To(t, "shut"), tasks)
    BY <1>b, <2>1, <2>2
  <2>3. CASE /\ activeAccount # k /\ accounts' = accounts \ {k} /\ tasks' = tasks \cup To(t, "shut")
             /\ UNCHANGED <<fields, activeTransport, active>>
    BY <2>3, MoreKept, OwnedKept
       DEF TransportSafe, TransportKept, SendsOver, AccountSafe, AccountKept, TasksKept,
           fields, active
  <2> QED BY <1>7, <2>2, <2>3 DEF Departure, t
<1>8. ASSUME NEW k \in Kinds, Switch(k) PROVE TransportSafe /\ AccountSafe
  <2>1. TasksKept /\ activeAccount' \in accounts' /\ own' = own /\ UNCHANGED activeTransport
    BY <1>8, MoreKept DEF Switch, fields, stores
  <2> QED BY <2>1, OwnedKept DEF TransportSafe, TransportKept, SendsOver, AccountSafe, TasksKept
<1>9. ASSUME NEW h, Connected(h) PROVE TransportSafe /\ AccountSafe
  BY <1>9, SameKept, QuietSafe DEF Connected, active, stores
<1>10. ASSUME NEW t, PermissionGranted(t) PROVE TransportSafe /\ AccountSafe
  <2>1. TasksKept
    BY <1>o, <1>10, OthersKept DEF PermissionGranted
  <2>2. activeAccount' \in accounts' /\ own' = own /\ UNCHANGED activeTransport
    BY <1>10 DEF PermissionGranted, fields
  <2> QED BY <2>1, <2>2, OwnedKept DEF TransportSafe, TransportKept, SendsOver, AccountSafe,
                                       TasksKept
<1>11. ASSUME NEW t, Refused(t) PROVE TransportSafe /\ AccountSafe
  <2>1. t \in Tasks /\ t.pc = "sent" /\ UNCHANGED <<activeTransport, active, stores>>
    BY <1>o, <1>11 DEF Refused
  <2>2. CASE Become(t, To(t, "dropped"))
    <3>1. Dropping' /\ TasksKept
      BY <2>1, <2>2, DroppedNext, OthersKept DEF Become
    <3> QED BY <2>1, <3>1 DEF TransportSafe, AccountSafe, AccountKept, TasksKept, active, stores
  <2>3. CASE Finish(t) /\ UNCHANGED fields
    BY <2>1, <2>3, OthersKept, QuietSafe DEF Finish, fields, active, stores
  <2> QED BY <1>11, <2>2, <2>3 DEF Refused
<1> QED
  BY <1>1, <1>2, <1>3, <1>4, <1>5, <1>6, <1>7, <1>8, <1>9, <1>10, <1>11 DEF Event

LEMMA ConnectionNextSafe ==
    ASSUME ConnectionTypeOK, [ConnectionNext]_connectionVars
    PROVE  TransportSafe /\ AccountSafe
<1>1. CASE UNCHANGED connectionVars
  BY <1>1, SameKept, QuietSafe DEF connectionVars, fields, active, stores
<1>2. ASSUME NEW op, Request(op), UNCHANGED lost PROVE TransportSafe /\ AccountSafe
  <2>1. own' = own /\ UNCHANGED <<activeTransport, active, stores>>
    BY <1>2 DEF Request, Interrupt, fields
  <2>2. \E new : tasks' = tasks \cup new
    BY <1>2 DEF Request, Interrupt
  <2> QED BY <1>2, <2>1, <2>2, MoreKept, QuietSafe DEF active, stores
<1>3. ASSUME NEW t \in tasks, MakeTransports(t) PROVE TransportSafe /\ AccountSafe
  <2>1. t.pc \in {"post", "p2p", "wc"} /\ UNCHANGED <<activeTransport, active, stores>>
    BY <1>3 DEF MakeTransports, At
  <2>2. \E new : Become(t, new)
    BY <1>3 DEF MakeTransports, MakePost, MakeTransport
  <2>3. TasksKept
    BY <2>1, <2>2, OthersKept
  <2>4. Owned \subseteq Owned' \cup lost' /\ lost \subseteq lost'
    BY <1>3, MakeTransportHolds, OwnedKept DEF MakeTransports, MakePost
  <2> QED
    BY <2>1, <2>3, <2>4 DEF TransportSafe, TransportKept, SendsOver, AccountSafe, AccountKept,
                            TasksKept, active, stores
<1>4. ASSUME NEW t \in tasks, Begin(t) PROVE TransportSafe /\ AccountSafe
  <2>1. /\ t.pc = "begin" /\ own' = own /\ lost \subseteq lost'
        /\ UNCHANGED <<activeTransport, active, stores>>
    BY <1>4 DEF Begin, At
  <2>2. \E new : Become(t, new)
    BY <1>4 DEF Begin
  <2>3. TasksKept
    BY <2>1, <2>2, OthersKept
  <2> QED
    BY <2>1, <2>3, OwnedKept DEF TransportSafe, TransportKept, SendsOver, AccountSafe, AccountKept,
                                 TasksKept, active, stores
<1> QED BY <1>1, <1>2, <1>3, <1>4, ContinueSafe, EventSafe DEF ConnectionNext

LEMMA ConnectionInitSafe ==
    ASSUME ConnectionInit
    PROVE  NoTransportLeftBehind /\ TransportIsHeld /\ ActiveAccountIsStored
<1>1. activeTransport = Unsettled /\ connecting = {} /\ connected = {}
  BY DEF ConnectionInit
<1>2. activeAccount \in accounts \cup {"none"}
  BY DEF ConnectionInit
<1> QED
  BY <1>1, <1>2, KindFacts DEF NoTransportLeftBehind, TransportIsHeld, ActiveAccountIsStored

\* dropTransports reaches every transport over postMessage or P2P: the ones that
\* run are held by the client, but for those that init connected again, or whose
\* place another one took, while they were dropped.
THEOREM NoTransportIsLeftBehind == ConnectionSpec => []NoTransportLeftBehind
<1>1. ConnectionInit => NoTransportLeftBehind
  BY ConnectionInitSafe
<1>2. ConnectionTypeOK /\ NoTransportLeftBehind /\ [ConnectionNext]_connectionVars
          => NoTransportLeftBehind'
  BY NoTransportLeftBehindNext
<1> QED BY <1>1, <1>2, ConnectionTypes, PTL DEF ConnectionSpec

\* What a request leaves over (_transport) is one of the client's transports,
\* with the same exceptions, or the code that dropped it is about to reset it.
THEOREM RequestsLeaveOverHeldTransport == ConnectionSpec => []TransportIsHeld
<1>1. ConnectionInit => TransportIsHeld
  BY ConnectionInitSafe
<1>2. ConnectionTypeOK /\ TransportIsHeld /\ [ConnectionNext]_connectionVars => TransportIsHeld'
  BY ConnectionNextSafe, TransportSafeHeld
<1> QED BY <1>1, <1>2, ConnectionTypes, PTL DEF ConnectionSpec

\* However accounts are removed, by whichever tab, wallet or error, the active
\* one is stored, or is being cleared.
THEOREM TheActiveAccountIsStored == ConnectionSpec => []ActiveAccountIsStored
<1>1. ConnectionInit => ActiveAccountIsStored
  BY ConnectionInitSafe
<1>2. ConnectionTypeOK /\ ActiveAccountIsStored /\ [ConnectionNext]_connectionVars
          => ActiveAccountIsStored'
  BY ConnectionNextSafe, AccountSafeStored
<1> QED BY <1>1, <1>2, ConnectionTypes, PTL DEF ConnectionSpec
=============================================================================
