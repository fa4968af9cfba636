----------------------------- MODULE RelayServer -----------------------------
(***************************************************************************)
(* How a P2P client picks its relay server: getRelayServer,                *)
(* findBestRegionAndGetServer and reset of P2PCommunicationClient          *)
(* (packages/octez.connect-transport-matrix/src/communication-client).     *)
(*                                                                         *)
(* Calls of getRelayServer overlap.  They share one ExposedPromise, in     *)
(* `relay`: the first call installs it and discovers a server, the others  *)
(* await it.  A call makes one promise at most, so a promise is named by   *)
(* the call that made it.                                                  *)
(***************************************************************************)
EXTENDS Naturals, FiniteSets

CONSTANTS
    RelayCalls, \* calls of getRelayServer
    Servers,    \* beacon nodes of ENABLED_RELAY_SERVERS
    NoCall,     \* relayServer is undefined
    NoServer,   \* no MATRIX_SELECTED_NODE is stored
    MaxResets   \* bound: calls of reset()

ASSUME NullAssumption == NoCall \notin RelayCalls /\ NoServer \notin Servers
ASSUME ResetAssumption == MaxResets \in Nat

VARIABLES
    relay,      \* relayServer: the promise callers share
    region,     \* whether selectedRegion is set
    node,       \* MATRIX_SELECTED_NODE in storage
    pc,         \* the statement each call resumes at
    awaits,     \* the promise a call found in relayServer
    candidate,  \* the stored node a call is probing
    status,     \* of the promise a call made
    value,      \* what that promise resolved to
    fresh,      \* promises resolved within the last minute
    clearing,   \* reset()s that have cleared the storage, and nothing else yet
    resets,     \* reset()s so far
    orphaned    \* promises that a reset took out of relayServer

relayVars == <<relay, region, node, pc, awaits, candidate, status, value, fresh,
               clearing, resets, orphaned>>

Discovery == {"readNode", "probeNode", "dropStored", "find", "probe"}
RelaySteps == {"idle", "cached", "refresh", "drop", "check", "latest", "done", "failed"}
                \cup Discovery

RelayInit ==
    /\ relay = NoCall /\ region = FALSE
    /\ node \in Servers \cup {NoServer}
    /\ pc = [c \in RelayCalls |-> "idle"]
    /\ awaits = [c \in RelayCalls |-> NoCall]
    /\ candidate = [c \in RelayCalls |-> NoServer]
    /\ status = [c \in RelayCalls |-> "none"]
    /\ value = [c \in RelayCalls |-> NoServer]
    /\ fresh = {} /\ clearing = 0 /\ resets = 0 /\ orphaned = {}

resetVars == <<clearing, resets, orphaned>>

-----------------------------------------------------------------------------
\* Promises.

ResumeAt(c, step) == pc' = [pc EXCEPT ![c] = step]

\* Install a promise of one's own and set out to find a server for it.
Discover(c) ==
    /\ relay' = c
    /\ status' = [status EXCEPT ![c] = "pending"]
    /\ ResumeAt(c, "readNode")

Resolve(c, server) ==
    /\ status' = [status EXCEPT ![c] = "resolved"]
    /\ value' = [value EXCEPT ![c] = server]
    /\ fresh' = fresh \cup {c}
    /\ ResumeAt(c, "done")

\* Slip: the promise stays in relayServer when it is rejected.
RejectInPlace(c) ==
    /\ status' = [status EXCEPT ![c] = "rejected"]
    /\ UNCHANGED relay
    /\ ResumeAt(c, "failed")

\* Slip: the error is thrown, and the promise left as it is.
RejectNobody(c) ==
    /\ UNCHANGED status
    /\ relay' = IF relay = c THEN NoCall ELSE relay
    /\ ResumeAt(c, "failed")

\* Reject it, so that nobody hangs, and take it out for the next caller.
Reject(c) ==
    /\ status' = [status EXCEPT ![c] = "rejected"]
    /\ relay' = IF relay = c THEN NoCall ELSE relay
    /\ ResumeAt(c, "failed")

-----------------------------------------------------------------------------
(* The cached promise.                                                     *)

Call(c) ==
    /\ pc[c] = "idle"
    /\ \/ relay = NoCall /\ Discover(c) /\ UNCHANGED awaits
       \/ /\ relay # NoCall
          /\ awaits' = [awaits EXCEPT ![c] = relay]
          /\ ResumeAt(c, "cached")
          /\ UNCHANGED <<relay, status>>
    /\ UNCHANGED <<region, node, candidate, value, fresh, resetVars>>

Settled(p) == status[p] \in {"resolved", "rejected"}

\* A fresh answer is used as it is, a stale one is asked for again.
Cached(c) ==
    /\ pc[c] = "cached"
    /\ Settled(awaits[c])
    /\ ResumeAt(c, CASE status[awaits[c]] = "rejected" -> "failed"
                     [] status[awaits[c]] = "resolved" /\ awaits[c] \in fresh -> "done"
                     [] OTHER -> "refresh")
    /\ UNCHANGED <<relay, region, node, awaits, candidate, status, value, fresh, resetVars>>

\* The server answers: note the time, unless the promise was replaced.
RefreshOK(c) ==
    /\ pc[c] = "refresh"
    /\ Resolve(c, value[awaits[c]])
    /\ relay' = IF relay = awaits[c] THEN c ELSE relay
    /\ UNCHANGED <<region, node, awaits, candidate, resetVars>>

RefreshFails(c) ==
    /\ pc[c] = "refresh"
    /\ ResumeAt(c, "drop")
    /\ UNCHANGED <<relay, region, node, awaits, candidate, status, value, fresh, resetVars>>

Drop(c) ==
    /\ pc[c] = "drop"
    /\ node' = NoServer
    /\ ResumeAt(c, "check")
    /\ UNCHANGED <<relay, region, awaits, candidate, status, value, fresh, resetVars>>

\* Slip: the call does not look whether another one replaced the promise.
CheckNothing(c) ==
    /\ pc[c] = "check"
    /\ Discover(c)
    /\ region' = FALSE
    /\ UNCHANGED <<node, awaits, candidate, value, fresh, resetVars>>

\* A promise that is still current is discarded; one that replaced it is
\* awaited instead of racing into a second discovery.
Check(c) ==
    /\ pc[c] = "check"
    /\ \/ /\ relay \in {awaits[c], NoCall}
          /\ Discover(c)
          /\ region' = (region /\ relay # awaits[c])
          /\ UNCHANGED awaits
       \/ /\ relay \notin {awaits[c], NoCall}
          /\ awaits' = [awaits EXCEPT ![c] = relay]
          /\ ResumeAt(c, "latest")
          /\ UNCHANGED <<relay, region, status>>
    /\ UNCHANGED <<node, candidate, value, fresh, resetVars>>

Latest(c) ==
    /\ pc[c] = "latest"
    /\ Settled(awaits[c])
    /\ ResumeAt(c, IF status[awaits[c]] = "resolved" THEN "done" ELSE "failed")
    /\ UNCHANGED <<relay, region, node, awaits, candidate, status, value, fresh, resetVars>>

-----------------------------------------------------------------------------
(* Discovery: the stored node first, then all the servers.                 *)

ReadNode(c) ==
    /\ pc[c] = "readNode"
    /\ candidate' = [candidate EXCEPT ![c] = node]
    /\ ResumeAt(c, IF node = NoServer THEN "find" ELSE "probeNode")
    /\ UNCHANGED <<relay, region, node, awaits, status, value, fresh, resetVars>>

NodeAnswers(c) ==
    /\ pc[c] = "probeNode"
    /\ Resolve(c, candidate[c])
    /\ UNCHANGED <<relay, region, node, awaits, candidate, resetVars>>

\* Offline, the node is kept and the call gives up; online, it is dropped.
NodeFailsOffline(c) ==
    /\ pc[c] = "probeNode"
    /\ Reject(c)
    /\ UNCHANGED <<region, node, awaits, candidate, value, fresh, resetVars>>

NodeFailsOnline(c) ==
    /\ pc[c] = "probeNode"
    /\ ResumeAt(c, "dropStored")
    /\ UNCHANGED <<relay, region, node, awaits, candidate, status, value, fresh, resetVars>>

DropStored(c) ==
    /\ pc[c] = "dropStored"
    /\ node' = NoServer
    /\ ResumeAt(c, "find")
    /\ UNCHANGED <<relay, region, awaits, candidate, status, value, fresh, resetVars>>

\* With a region selected, findBestRegionAndGetServer probes nothing and
\* returns what the current promise, usually the caller's own, resolved to.
FindServer(c) ==
    /\ pc[c] = "find"
    /\ \/ ~region /\ ResumeAt(c, "probe") /\ UNCHANGED <<relay, node, status, value, fresh>>
       \/ /\ region /\ relay # NoCall /\ status[relay] = "resolved"
          /\ Resolve(c, value[relay])
          /\ node' = value[relay]
          /\ UNCHANGED relay
       \/ /\ region /\ ~(relay # NoCall /\ status[relay] = "resolved")
          /\ Reject(c)
          /\ UNCHANGED <<node, value, fresh>>
    /\ UNCHANGED <<region, awaits, candidate, resetVars>>

\* Some server answers first, or none does in time.
ServerAnswers(c) ==
    /\ pc[c] = "probe"
    /\ \E s \in Servers : Resolve(c, s) /\ node' = s
    /\ region' = TRUE
    /\ UNCHANGED <<relay, awaits, candidate, resetVars>>

NoServerAnswers(c) ==
    /\ pc[c] = "probe"
    /\ Reject(c)
    /\ UNCHANGED <<region, node, awaits, candidate, value, fresh, resetVars>>

-----------------------------------------------------------------------------
(* reset(), which stop() and a failed login run, clears the storage, then  *)
(* the fields - all but selectedRegion.                                    *)

ClearStorage ==
    /\ resets < MaxResets
    /\ resets' = resets + 1
    /\ clearing' = clearing + 1
    /\ node' = NoServer
    /\ UNCHANGED <<relay, region, pc, awaits, candidate, status, value, fresh, orphaned>>

ClearFields ==
    /\ clearing > 0
    /\ clearing' = clearing - 1
    /\ relay' = NoCall
    /\ orphaned' = orphaned \cup ({relay} \ {NoCall})
    /\ UNCHANGED <<region, node, pc, awaits, candidate, status, value, fresh, resets>>

\* A minute passes.
Age(p) ==
    /\ p \in fresh
    /\ fresh' = fresh \ {p}
    /\ UNCHANGED <<relay, region, node, pc, awaits, candidate, status, value, resetVars>>

-----------------------------------------------------------------------------
Proceed(c) ==
    \/ Cached(c) \/ RefreshOK(c) \/ RefreshFails(c) \/ Drop(c) \/ Check(c) \/ Latest(c)
    \/ ReadNode(c) \/ NodeAnswers(c) \/ NodeFailsOffline(c) \/ NodeFailsOnline(c)
    \/ DropStored(c) \/ FindServer(c) \/ ServerAnswers(c) \/ NoServerAnswers(c)

RelayNext ==
    \/ \E c \in RelayCalls : Call(c) \/ Proceed(c) \/ Age(c)
    \/ ClearStorage \/ ClearFields

RelaySpec == RelayInit /\ [][RelayNext]_relayVars

\* Requests to servers time out after ten seconds and storage calls settle,
\* so a call that can proceed does; nobody has to make a call.
FairRelaySpec ==
    RelaySpec /\ (\A c \in RelayCalls : WF_relayVars(Proceed(c))) /\ WF_relayVars(ClearFields)

-----------------------------------------------------------------------------
(* Properties                                                              *)

\* Every variable has its type, and a promise resolves to a server, never to
\* the null one of an empty storage or an unsettled promise.
RelayTypeOK ==
    /\ relay \in RelayCalls \cup {NoCall} /\ region \in BOOLEAN
    /\ node \in Servers \cup {NoServer}
    /\ pc \in [RelayCalls -> RelaySteps]
    /\ awaits \in [RelayCalls -> RelayCalls \cup {NoCall}]
    /\ candidate \in [RelayCalls -> Servers \cup {NoServer}]
    /\ status \in [RelayCalls -> {"none", "pending", "resolved", "rejected"}]
    /\ value \in [RelayCalls -> Servers \cup {NoServer}]
    /\ fresh \subseteq RelayCalls
    /\ clearing \in Nat /\ resets \in Nat
    /\ orphaned \subseteq RelayCalls
    /\ \A c \in RelayCalls : status[c] = "resolved" => value[c] \in Servers

Discovering(c) == pc[c] \in Discovery

\* Whoever awaits a promise awaits one that is settled, or that some call is
\* still at work on ("always settle the ExposedPromise so concurrent callers
\* don't hang forever"), through resets and replacements of the promise.
AwaitedPromisesAreSettled ==
    \A c \in RelayCalls :
        pc[c] \in {"cached", "latest"} => Settled(awaits[c]) \/ Discovering(awaits[c])

\* A failed discovery never stays in relayServer, where it would fail every
\* later call (the catch of getRelayServer).
FailuresAreForgotten == relay # NoCall => status[relay] # "rejected"

\* Concurrent calls share one discovery: there is a second one at work only
\* where a reset took the first one's promise away.
DiscoveriesAreShared ==
    \A c1, c2 \in RelayCalls :
        Discovering(c1) /\ Discovering(c2) /\ c1 # c2 => c1 \in orphaned \/ c2 \in orphaned

\* Every call of getRelayServer returns or throws.
CallsReturn == \A c \in RelayCalls : pc[c] # "idle" ~> pc[c] \in {"done", "failed"}

=============================================================================
