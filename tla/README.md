# octez.connect in TLA+

octez.connect is the SDK that connects Tezos dApps with wallets: a dApp asks for permissions,
operations and signatures, a wallet answers, and the messages travel over Matrix rooms, browser
messages or WalletConnect. It is asynchronous TypeScript on one thread per page. What goes wrong in
such code happens at its awaits: a list is read, another call edits it, the first call writes it back.
This directory models the parts with that risk, checks them with TLC, and proves the most important
properties for every size with TLAPS.

`PROJECT.json` lists the components, the runs, the source lines of every definition, the hazards of
the code and the theorems.

## How to run

    tlc -config MCWalletLiveness.cfg MCWalletClient.tla     # likewise the other cfg files
    tlapm WalletClientProofs.tla                            # likewise the other *Proofs

## Inventory

| component | state | operations | talks to | modelled in |
|---|---|---|---|---|
| Wallet client (`octez.connect-wallet`) | pendingRequests; peers, metadata and permissions in storage | connect, respond, addPeer, removePeer, removeAllPeers, the metadata and permission calls | transport, stored lists, the wallet app | `WalletClient` |
| Stored lists (`core/src/managers`) | one stored array per list | addOne, addMany, remove, removeAll | storage backend | `WalletClient`, `DAppConnection`, `Dialects` |
| dApp client (`octez.connect-dapp`) | three transports, init promise, active account and peer, openRequests | init, makeRequest, handleResponse, disconnect, setActiveAccount, the request methods | transports, tabs, UI | `DAppConnection`, `DAppRequests`, `Dialects` |
| Multi-tab channel (`core/src/utils`) | leader, listeners | init, leadership, relay of requests | the dApp's other tabs | `DAppRequests` |
| Versions, chain ids, permission rules (`core/src/utils`, `managers`) | versions of peers; accounts | negotiation, wrapping, HasPermission | both clients | `Dialects`, `Access` |
| Matrix connection (`P2PTransport`, `P2PCommunicationClient`) | status, client promise, login counter | connect, disconnect, start, stop, reset | relay selection, Matrix client | `MatrixConnection` |
| Relay selection (`P2PCommunicationClient`) | relay promise, stored node, region | getRelayServer, findBestRegionAndGetServer, reset | relay servers, storage | `RelayServer` |
| Peer rooms (`P2PCommunicationClient`) | stored room per peer, ignored rooms, activeListeners, initialEvent | listen, unsubscribe, sendMessage, sendPairingResponse, updatePeerRoom | Matrix client, storage | `PeerRooms` |
| Matrix client (`matrix-client`) | sync token, rooms, polling | start, stop, poll, create, join, send | relay server | `MatrixClient` |
| PostMessage transport | status, handlers on the window, peer | connect, disconnect, pair | the window | `PostMessage` |
| Extension wallet (example) | worker memory, session slot, popup | pair, take, approve, reject, reset | pages, wallet client | `Extension` |
| WalletConnect transport | sign client, session, account, messageIds | connect, init, requestPermissions, call, close, session events | the WalletConnect library | `WalletConnect` |
| User interface (`octez.connect-ui`, `dapp/src/events.ts`) | toast, dialog, useConnect's state, their timers | openToast, openAlert, the clicks, the event callbacks | dApp client | `Toast`, `PairingDialog`, `UserInterface` |
| Serializer, crypto, storage backends, types, bundle | none that lasts | pure functions, single-step stores | - | not modelled |

Calls go down (client, transport, communication client, Matrix client), messages come up through
listeners, and the layers share storage keys. Hard behaviours, and what makes each part correct:

- **Wallet client.** Calls of the app, requests and removals interleave at every await, requests are
  delivered twice. A message about a request goes to its sender only; permissions are those the user
  granted; a dApp hears of a permission after it is stored; every request is acknowledged, every answer leaves.
- **dApp client.** A request aborts the initialisation another one waits for; transports are dropped
  in the middle of it. No transport runs on unheld, the account is a stored one, no request is lost
  between tabs, and what either side says is in a dialect the other reads.
- **Relay selection.** Overlapping calls share one promise while servers fail and the cached answer
  ages. One discovery at a time; a failure is not remembered; nobody awaits an abandoned promise.
- **Matrix connection.** connect, disconnect, login retries and restarts overlap; `reset()` replaces
  the promise others await. No client syncs out of reach; the status is true; calls return.
- **Peer rooms.** A text goes into a room of its peer, is taken once and handled once; sends and joins end.
- **Extension.** The worker restarts, the popup comes and goes. What a page hears follows its status;
  paired pages stay known; a request is answered once.
- **WalletConnect.** Sessions end, are updated and replaced while requests wait. Answers reach their
  requests, one sign client is heard, the account is the session's.
- **User interface.** Notices replace each other under timers and animations; promises resolve after
  the user has gone elsewhere. The last notice is seen and is true, and leaves when it should.

## Modules

The modules share one way of modelling. A call that awaits is a *task* (in `RelayServer`, a program
counter per call) and everything between two awaits is one action. The environment (peers, the app,
the user, the network, libraries) chooses which call, message or answer comes next. Definitions that
begin with "Slip:" in their comment are plausible mistakes, each of which breaks a property.
`MC*` modules hold instances for TLC, `*Proofs` the theorems. `TypeOK` of a module gives the types
of its variables; it is proved where the module has proofs.

**WalletClient.** `store` holds the three lists, `listening` the peers the transport decrypts,
`pending` is pendingRequests, `tasks` the suspended calls. `Read` and `Write` are StorageManager's
halves of an edit: read the list, await, write the edited copy over whatever is there. `Deliver` and
`HandleRequest` are the transport listener and handleResponse; `Respond`, `LookupMetadata`,
`FindPeer`, `Send` are respond() down to Transport.send, which without a peer sends to everybody.
Removals start two tasks, as the code does not await the transport's part. `prompts`, `answers`,
`sent`, `granted`, `stored` and `departed` record what the outside saw. Answers are taken to be
accepted by the chain handler; the acknowledgement runs beside the handling, as in the code, and
counts only when it went to the dApp that asked.

**RelayServer.** A promise is named by the call that made it; `status` and `value` are its outcome.
`fresh` stands for the one-minute age check, `clearing` for a reset between its deletes and its
assignments. `Drop` deletes the stored node before `Check` looks whether the promise is still current.

**MatrixConnection.** Client promises are numbered; `era` is the number of the present one, which
`start()` notes in its task. `resolved` maps promises to Matrix clients, `polling` has the clients
whose sync loop runs. At the end of start() the pending invitations are joined one after the other
(`Join`, `Joined`), each with the client of the promise that is current by then. `opensChannel` tells the dApp's transport, which awaits the client in its
channel listener, from the wallet's, whose client may restart. `Stop` stops the client it can reach,
then `Delete` and `Fields` are the two parts of reset(). `Started` is what follows when start()
returns: the check of the status. `StartFails` is a login or first sync that fails; the retry is a
task nobody awaits. `counts["cut"]` tells whether a stop() ever stopped a client that a start() was
joining rooms with (`Cut`). Relay selection is one step (`FindRelay` or `NoRelay`), as `RelayServer` has its
details; what it keeps matters here, since a reset leaves the selected region. `Prompt` tells how
fast storage is: with LocalStorage every operation is done when it is called, so its awaits go on
before any network event or call of the app comes in (`Busy`). IndexedDB and chrome.storage are not
like that.

**MatrixClient, PeerRooms.** `MatrixClient` is one account at a relay: the relay's rooms and numbered
timeline (external), the sync loop with its token, the stored state, failed polls. `PeerRooms` EXTENDS
it with P2PCommunicationClient's rooms, listeners and sends, as dApp or wallet. `Routed` keeps the
races of one sync's handlers, which read and write the stored rooms side by side. `adding` counts the
calls of addPeer under way: `Listen` is what n of them do that looked for an active listener before
the first one had set it, since listenForEncryptedMessage awaits the cryptobox in between;
`callbacks` counts the listeners they leave and `overlapped` marks their peer. A stop, a reload
from preserved state and a pairing restart are actions; joins that wait for a timer, or for the next
client, outlive a stop, and a restart may find no server and throw. A join is given up after
`JoinTries` refusals or at once on another error. `heard`, `repeated`, `delivered` record what was
handled and taken. The listen calls of connect() itself are one step: an addPeer beside them sets its
listener before it awaits the client they wait for.

**PostMessage, Extension.** `PostMessage` is the dApp's end in each page; `Extension` EXTENDS it with
the worker of the example wallet, which composes the two ends: a pairing starts in a page, passes the
worker and comes back. `Restart` of the worker loses its memory and keeps storage. `cut`,
`overlapped` and `forgotten` mark what the code does not promise: a disconnect while the extension is
being stored, a second click while the first is handled, a peer erased by a reset or by an
overlapping pairing.

**WalletConnect.** One tab. Sign clients and sessions are numbered; WalletConnect's library, its
relay, elections and wallets are external. `live` has the clients that are connected to the relay,
`subscribed` those whose events the code hears: closing a client ends both, a reset by another tab
(`StorageReset`) only clears the events and forgets it, so that it stays on the relay. connect()
comes from the dApp or from the handler of an election (`Elected`). Every id that sendMessage pushes is in `messageIds`, and
`Answer` takes the oldest, as the code does. `orderly` marks behaviours in which the wallet answered
in order and no request was abandoned. `counts["spare"]` counts overlaps that the code does not
serialise: calls of getSignClient or init, and sessions that come up (restored, adopted or updated)
while another is proposed; the approved one then replaces it and leaves the account. Acknowledgements by ping are abstracted to whether the wallet pongs; the
extension of a session is an await only.

**DAppConnection.** Three kinds of transports with one wallet each, their connects, drops and
pairings; the init promises; the account and peer lists; the dialog. What only reads localStorage is
one step. `lost` marks the transports that the client's bookkeeping misses: init connected them after
they were dropped, or other ones were made in their place while they were there. An account of
WalletConnect without its transport takes the P2P one (`TransportOf`); a clearing that finds the
account gone after its await does nothing. Names differ from
`DAppRequests` where both have the same idea, so that one proof module can extend both.

**DAppRequests.** Two tabs, the request methods down to the transport, handleResponse and the
channel. The broadcast-channel library's election is external: at most one leader, which a closing
page stops being. The browser is a desktop's. A request looks at the transport before it awaits the
channel (`Looked`). send() is not awaited: it may fail unseen, and the request stays open (`Relay`).
`given` marks what this code lets go without a word: another tab's request, or one whose send failed.

**Dialects, Access.** `Access` is the abstract specification: a dApp knows an account only because
the wallet granted it, and forgets it when it hears that the grant is withdrawn. `Dialects` has the
detail (versions, envelopes, networks, fanouts, the two lists, messages in flight) and implements it:
`A == INSTANCE Access WITH` maps the wallet's permission list to `granted`, the dApp's account list
to `known`, and disconnect messages in flight to `leaving`. A message counts as wrapped when it has a
wrapped payload, so that a flat disconnect that declares version 4 ends the peer (`Routed`). `minimum` is the version a dApp requires.
Wallets of other SDKs and the fanout they choose are external.

**Toast, PairingDialog, UserInterface.** The first two have the state of the page's toast and dialog
with their timers, which follow the constants of the code (50 ms to render, 0.5 to 5 s for a delayed
update, 5 s for a timed notice); `UserInterface` EXTENDS both with the events of requests and of
pairing. The hook of the dialog is made anew when the dialog mounts; a click that waits for a code
goes on afterwards and changes nothing. `unseen` is the last notice until it was displayed. What is
told of a request is a task (`notices`) until the wallet's name was read, so an acknowledgement may
be told of a request that is over. Some requests end without a notice (`silent`): requestPermissions
throws on a wallet that is too old or grants too little, an aborted init or an error without a type is
only passed on; "Request sent" or "Awaiting confirmation" then stays up. The notices of one request
are told in the order in which they came: each awaits the same entries of the storage, the answer's
after more awaits than the acknowledgement's.

## Runs

| run | bounds | what it shows |
|---|---|---|
| Connection | dApp's or wallet's transport; 3 connects, 3 disconnects, 1 restart, 2 pairings, 2 invitations at a start, 1 failure, prompt storage | no ghosts; a true status; a lone connect is not stranded; no overtaken connect; calls return or hang as named |
| RelayServer | 3 calls, 2 servers, 1 reset | the invariants of the shared promise; every call returns |
| WalletRepairing | 2 dApps, 1 permission request, 2 pairings or removals | permissions were granted; a message is misdirected only after its requester has left; a grant is stored before the reply |
| WalletLiveness | 2 dApps, an operation and a permission request, 1 pairing, removal or repeated request | the app is not asked twice; requests are acknowledged; answers leave |
| WalletRevocation | 2 dApps, 1 request, 1 removal | a violation, below |
| PeerRooms | 2 peers, 2 rooms, 1 peer and 1 room perhaps from an earlier session, 1 send, 2 events of peers or relay, a pairing response doubled at once, 2 tries of a join, 1 failure | texts go into their peer's room; handled once; taken once; sends and joins end |
| Extension | 2 pages, 1 request, 4 events | handlers follow the status; paired pages stay known; answered twice only by overlapping clicks |
| WalletConnect | leading or not, desktop or mobile; 2 wallets, 2 requests, 2 clients, sessions, proposals and events | answers keep the order; one sign client is heard; the account is the session's |
| DAppConnection | 3 kinds, 2 requests, 2 transports of each kind, 2 inits, 1 event | no transport left behind; requests leave over a held one; the account is stored |
| DAppRequests | 2 tabs, 2 requests, 1 event (a tab closed, a reset, a failed send, ...) | no request is lost; one tab is connected; requests come back |
| Dialects | wallets of 5 generations, 2 chains, 2 addresses, 3 requests, 1 event | nothing is dropped; accounts are permitted; all networks or none; Access is implemented |
| UserInterface | 3 wallets (WalletConnect, the relay, a web page), wide window or phone, 2 requests, 1 pairing, 1 error | notices are seen, true and go away; the wrong code is replaced |

Why the bounds are enough: every race named in the hazards is between two calls, sometimes with a
third that changes what they share, and each instance has room for that: two removals and an answer,
three connects against three disconnects, three callers of one promise, two requests and one thing a
user, wallet or other tab does. A third copy of a request meets the same states of `pending` as a
second. Two dApps, peers, wallets or tabs are needed to tell the right recipient from the wrong one.
The wallets of Dialects are one for each path of the negotiation: this SDK's, one that echoes the
dApp's version, one without version (WalletConnect), one of version 3, one whose version is
unreadable. The code tries a join eleven times; two tries already tell the first, the next and the
last one apart. A second invitation at a start is the one whose join may find the promise replaced. The
user interface has a wallet of each way of pairing; one of the kind whose phone app is never opened by
a click (`Acurast`) is in the model and in the theorems and in no run, as it doubles the states. A
peer from an earlier session is one, since one that comes anew goes through invitation and pairing.
Deadlock is not checked in these runs: a system in which all calls have returned and no
more come is finished, not stuck. Symmetry is used where a run has invariants only and its names
are interchangeable.

**Fairness.** Somebody who can go on does: the event loop runs what is ready, storage answers, and
requests of the network are answered or fail. (Nodes and relays are probed with a timeout;
`MatrixHttpClient` sets none and leaves it to the browser to give up.) `MatrixConnection` and
`WalletClient` ask this of some suspended call, and of each message that has arrived at the wallet.
`RelayServer` asks it of the calls. `PeerRooms` and `DAppRequests` ask it of `Code`, the steps of the
code under the model, and not of peers, users or wallets: a send may wait for an invited peer until
its own retries are used up. `UserInterface` asks it of the clicks whose code is there or has failed;
a code need never come, since after a failed login the relay's is awaited for ever. Nothing obliges a user, a peer, a wallet or the app to act, so
the liveness properties name what may be waited for (`Waits`, a stop, an empty list of peers).

**Where the code does otherwise.** One run ends in a violation: removing a peer deletes the
permissions that other dApps have for the same account (WalletRevocation; the comment says "Remove
all permissions with origin of the specified peer"). The models contain more behaviours of that kind,
which were found by stating the opposite and which the properties except by name:

- *Wallet.* The answer to a dApp that is removed meanwhile goes to every other peer (`Recipients`).
  Two answers given together may lose one grant, a batched write notwithstanding, and an edit that
  read the list before a removal writes the removed entry back.
- *Matrix connection.* With slow storage a start() that completes inside reset() leaves a client that
  nobody can stop, and a disconnect() that ends while connect() reads the peers is overruled. A stop
  and start on one instance finds no server, as the region stays selected. After a failed login the
  dApp's connect() may await a promise that nobody resolves. A stop() that comes upon the joins at the
  end of start() cancels the present one only: start() goes on to the next invitation and awaits the
  new promise, which needs another start, or the stopped client, which is never ready again
  (`Hangs` names both; `CallsReturn` says that no other call hangs). If it was the last invitation,
  start() returns while the reset is under way, and whether connect() then passes its look at the
  status is decided by a few microtasks either way. The model allows both, and StatusTellsTheTruth,
  OneConnectIsNotStranded and NoOvertakenConnect except behaviours with such a cut; NoGhosts does not.
- *Relay selection.* A call whose cached relay is dead deletes the stored node even if another call
  stored a new one (`Drop` comes before `Check`).
- *WalletConnect.* An answer is delivered under the oldest id: answers out of order, or an id left by
  a request that threw, resolve the wrong requests (`orderly`). Two overlapping getSignClient calls
  leave a client on the relay; onSessionClosed may clear a newer session.
- *dApp client.* Of two requests made at once the second replaces the first one's init promise, finds
  the transports half made and returns without settling its own: whoever awaits init() then waits
  until a later request rejects it. So does an init that is interrupted while transports are made. A
  request parked at `await this.transport` may leave over another transport than the one its peer was
  read for. A refused permission drops the transports and awaits their disconnects; a request
  meanwhile has init() connect the dropped one again, which then listens with nobody to stop it. With
  three transports of a kind, a drop while transports are being made lets another call make a second
  set over what is left of the first (both are `lost`).
- *Tabs.* A leader that cannot make another tab's request tells nobody, and a send() that fails is
  seen by nobody, so its request stays open (`given`); a tab that waits for leadership waits until the
  leader closes.
- *Peer rooms.* The handlers of one sync may undo each other's room (`Routed`). updatePeerRoom puts a
  character of the old room id, not the room, into ignoredRooms; a pairing restart drops the
  listeners with the client. Two pairing responses of a new peer in one sync add it side by side: both
  look into activeListeners before the first sets its listener, both subscribe, and every message of
  that peer is handled twice from then on (`overlapped`).
- *Matrix client.* The store merges with `||`, so isRunning never becomes false again and the retry
  counter never starts over: a client that failed four times waits five seconds after each later
  failure. (The two fields are not in the model, where polling goes on in any case.)
- *Extension.* There is one stored slot for many pending requests; a restart loses the map and keeps
  the slot; Approve, then Approve or Reject, answers twice.
- *Dialects.* Over a session of version 2 or 3 the chain ids of the session are given to wallets that
  expect a network object.
- *Interface.* A click on another wallet while a code is loading shows the other wallet's QR code for
  a while, and for good if the relay's own code never comes; a dialog opened within 300 ms of closing
  is unmounted; the close of a notice within its first rendering is lost; a request that ends without
  a notice leaves its toast (`silent`); an alert that replaces the pairing dialog leaves the pairing waiting;
  the buttons and timers that showErrorToast and the alerts are given are never shown.

## Proofs

All theorems are about the specification of their module, for any finite or infinite constants that satisfy the named
assumptions of the modules: bounds are natural numbers, null values are not members, requests have
owners and kinds.

- `WalletClientProofs`: TypeCorrect, NoMisdeliveryBeforeDeparture, OnlyGrantedPermissions,
  StoredBeforeTold, NoAnswerIsLost, NoRequestIsLost, PromptsBounded. The invariant `IInv` is about the suspended calls: what a task
  carries was true when it was read and stays true of the history (`granted`, `stored`, `departed`), so
  a late write brings back only what was granted. A requester was once stored (`RequestsInv`), which is
  why a failed lookup implies that it left. `PromptInv` counts: prompts given and on their way are at
  most answers plus one if the request is pending; it needs facts on finite cardinalities.
  Nothing is lost for a dApp that stays a peer: an answer that has its task goes on to that dApp
  (AnswerMovesOn), a permission not seen before is written by the call that tells of it (NewlyStored,
  from what permission tasks carry, `AnswersInv`), and a pending request has been acknowledged, or
  is being so (`CopiesInv`). The two properties (`AnswersReachTheirDApp`, `CopiesDropNoRequest`) stand
  beside their proofs and belong to no run; that the tasks do go on is WalletLiveness' part.
- `P2PClientProofs`, about both halves of P2PCommunicationClient. Of `PeerRooms`: TypeCorrect,
  RightRooms, HandledOnce, OnceTaken. A peer that is in a room or invited stays so (`Stays`), and every
  event shows members of its room (`ServerInv`); so the stored rooms, which only add up what events
  showed (`Faithful`), the rooms noted (`RoutesInv`), those that a suspended send remembers (`CallOK`)
  and the invitations (`JoinsInv`) lead to who is there, however old they are. What was heard is behind
  the token from which syncing goes on, and while an event is kept for the first listener no peer has
  one (`Resumable`). A peer has at most one listener unless calls of addPeer for it overlapped
  (`ListenersInv`). A send that is under way is not yet taken (`CallsInv`).
  Of `RelayServer`: SelectionTyped, NobodyHangs, FailuresForgotten, SharedDiscovery.
  `MadeInv` ties a promise to its maker: it is pending exactly while that call discovers, and it is the
  shared one unless a reset took it. `AwaitInv` says that what a call awaits was made and not abandoned.
- `MatrixConnectionProofs`: TypeCorrect, NoGhostSyncs, NoConnectIsOvertaken, StatusIsTrue,
  ConnectGoesOn. With prompt storage a
  reset runs alone, unless a start() that joined rooms was cut off (`AloneInv`, `JoinInv`); while no request fails at most one start() contends for the present
  promise and it is open (`ContenderInv`), and a reset has stopped the client it takes away
  (`ResetInv`). So FirstSync hands its client over or shuts it down. A connect past its status check
  is not overtaken, or waits for a replaced promise that nobody resolves (`WaitingInv`); this one
  needs no assumption on failures. Rooms are joined with the client of the present promise and beside no
  reset (`RoomsInv`), so a start() that joins them returns to a status that still holds. The status needs more: a client is one start()'s until it is adopted
  (`ClientInv`), a transport that is not off has a client, a contending start() or a reset (`LiveInv`),
  and one that is still connecting when its promise is resolved has a connect() that will turn it on
  (`ConnectingInv`, which rests on `RestartInv`: only a connect starts before the transport is on).
- `DialectsProofs`: TypeCorrect, NothingSaidIsDropped, KnownAccountsWork, NetworksAreGrantedTogether,
  AccessIsImplemented. The dialect chosen for a
  wallet is read off its declared version (`DialectOfWallets`), so all that is said is understood
  (`Spoken`), and both sides read a permission's accounts alike (`PermissionIsReadAlike`). The step
  simulation of `Access` rests on the order of messages (`OrderInv`): a wallet hears a goodbye before
  what the dApp requests afterwards, so an answer to the open request is never older than the goodbye
  that took its grants away (`GoodbyesAreOlder`, `AnswersAreGranted`). That a known account works is
  claimed of wallets whose goodbye is not on the way, as nothing stops a dApp from asking before it
  hears it. The proof needs two facts on
  wallets: one of another SDK that declares a protocolVersion declares less than version 4, as the
  code came with version 4, and a WalletConnect session declares none (the pairing response that
  WalletConnectCommunicationClient makes for it leaves the version undefined).
- `ExtensionProofs`: TypeCorrect, StatusIsTrue, PairedPagesStayKnown, SecondAnswersNeedOverlap. One
  invariant each: which connect the handlers on the window stand for (`PagesInv`); what a page counts
  on, or has a reply on its way for, is stored and active (`PairInv`); and a request has one task that
  handles it, until a second click comes in (`AnswerInv`, `overlapped`).
- `DAppClientProofs`, about both halves of the dApp's client. Of `DAppRequests`: TypeCorrect,
  OneConnection, RequestsAreKept. Only the leader is connected
  (`Leading`). A forwarded request is in one place at a time (`Located`): with the leader, or on its
  way back to the tab that waits. That holds only because no tab takes its own request for another
  tab's (`HeldOK`, `MailOK`, `CallsOK`), which would answer everybody but the caller.
  Of `DAppConnection`: ConnectionTypes, NoTransportIsLeftBehind, RequestsLeaveOverHeldTransport,
  TheActiveAccountIsStored. A step connects held transports only, drops them all, or gives one up
  (`RunningKept`, `Dropped`, MakeTransportHolds). Where it takes away a transport or an account that
  `_transport` or `_activeAccount` names, it also resets the name, or a task goes on that will
  (`TransportSafe`, `AccountSafe`, ClearSafe). With the types each of the three is inductive. An earlier form
  of the first two, without `lost`, held at the run's bounds and fails with three transports of a
  kind and two events: the attempt to prove it found that, and TLC the behaviour.
- `WalletConnectProofs`: TypeCorrect, AnswersGoToTheirRequests, OneClientListens, AccountBelongs.
  `OrderInv`: while behaviour is orderly, the queue has the ids of the open requests, newest first,
  and nothing went astray, so that the oldest id is the answered request's. `AloneInv`: while nothing
  overlapped, the events of one client at most are heard, that of the present one, a proposal is out only while there is no session, and none beside
  it; so what is approved replaces nothing, and the account follows the session.
- `UserInterfaceProofs`: EveryNoticeIsSeen, TimedNoticesGoAway, ToastIsTrue. All are about the last
  notice, shown or waiting (`Last`): every step replaces it by the one asked for, keeps it or empties it.
  For ToastIsTrue the last notice tells of a request that is open, or that has a closing notice
  under way, or that ended without one.

Each `IInv` was checked by TLC on the instances before it was proved.

Only model-checked: the liveness properties (fairness and ENABLED are out of the prover's reach), the
dialog.

## Not modelled

- Message encoding, encryption, storage backends, type declarations, layout: no state, or
  single-step key-value stores. The push-token list of the wallet, which nothing else reads.
- The Matrix server, broadcast-channel, WalletConnect's library and wallets of other SDKs are
  environments, modelled by what the code here expects of them.
- Matrix: the transaction ids of sends, the move of a peer to another relay, the five-minute age
  check of a kept event.
- WalletConnect: several tabs that share one storage (`DAppRequests` has the tabs, with the transport
  as a status), deep links.
- dApp client: the stored ACTIVE_ACCOUNT key, whose write is not awaited (the account in memory and
  the stored list are modelled), metrics, rate limits as such, notifications, the wallet lists, the dApp's own event
  handlers; deep links and app switches.
- Blockchain handlers but for the accounts they take from an answer: validation of requests and
  answers, deep links. Of the errors, only that one ends a request.
- Interface: the wallet registry and its hot swap, arrangeTopWallets, the automatic click when there
  is one wallet, LAST_SELECTED_WALLET, bug reports, a burst of more than 46 notices.

## Plan

1. `Link`: a dApp and a wallet over a lossy channel, from `DAppRequests` and `WalletClient`.
