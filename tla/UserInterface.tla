--------------------------- MODULE UserInterface ---------------------------
(***************************************************************************)
(* What a DAppClient tells its user (octez.connect-dapp, events.ts): the   *)
(* events of its requests, of pairing and of its errors, each handled by   *)
(* the toast (Toast) or the dialog (PairingDialog), and what a click on    *)
(* one does to the client and to the other.                                *)
(***************************************************************************)
EXTENDS Toast, PairingDialog

CONSTANTS Requests,
          Connecting,   \* the subject of a notice about pairing
          MaxEvents     \* bound: events that are not a request's

ASSUME UIAssumption == Subjects = Requests \cup {Connecting} /\ Connecting \notin Requests

VARIABLES
    request,    \* [Requests -> "none", "sent", "settled", "silent"]: over, with or without a notice
    notices,    \* those under way: what they tell of the wallet is still being read
    events      \* how many of those have happened

vars == <<toast, dialog, pairing, clicks, request, notices, events>>

Init ==
    /\ ToastInit /\ DialogInit
    /\ request = [r \in Requests |-> "none"] /\ notices = {} /\ events = 0

Happen == events < MaxEvents /\ events' = events + 1

-----------------------------------------------------------------------------
(* messageEvents: the events of a request, each emitted to its handler.    *)

\* SUCCESS_TIMER hides what asks nothing more of the user.
HasTimer(kind) == kind \in {"success", "aborted"} \/ (kind = "sent" /\ OnPhone)

\* showSentToast, showAcknowledgedToast, the success toasts and showErrorToast.
Emit(r, kind) == OpenToast([of |-> r, timer |-> HasTimer(kind), kind |-> kind])

Sent(r) ==
    /\ init = "paired" /\ request[r] = "none"
    /\ request' = [request EXCEPT ![r] = "sent"]
    /\ Emit(r, "sent")
    /\ UNCHANGED <<dialog, pairing, clicks, notices, events>>

OpenRequest(r) == request[r] = "sent"
Closing(r) == {n \in notices : n.of = r /\ n.kind # "acknowledge"}

\* handleResponse: only a request that is open is acknowledged, but by the time
\* getWalletInfo has told of whom it may be over.
Acknowledged(r) ==
    /\ OpenRequest(r)
    /\ notices' = notices \cup {[of |-> r, kind |-> "acknowledge"]}
    /\ UNCHANGED <<toast, dialog, pairing, clicks, request, events>>

\* The answer closes the request: notifySuccess, or handleRequestError with an error
\* or ABORTED_ERROR, will tell of it; or nothing does, when requestPermissions refuses
\* the answer (the wallet is too old, networks or all accounts are missing), when init()
\* was aborted, or when an error has no type.
Answered(r) ==
    /\ OpenRequest(r)
    /\ \/ /\ request' = [request EXCEPT ![r] = "settled"]
          /\ \E kind \in {"success", "error", "aborted"} : notices' = notices \cup {[of |-> r, kind |-> kind]}
       \/ /\ request' = [request EXCEPT ![r] = "silent"]
          /\ UNCHANGED notices
    /\ UNCHANGED <<toast, dialog, pairing, clicks, events>>

\* What is told of a request is told in the order it came: all read the same few
\* entries of the storage first, the answer's notice after more awaits than the
\* acknowledgement's.
Tell(n) ==
    /\ n.kind # "acknowledge" => [of |-> n.of, kind |-> "acknowledge"] \notin notices
    /\ notices' = notices \ {n}
    /\ Emit(n.of, n.kind)
    /\ UNCHANGED <<dialog, pairing, clicks, request, events>>

-----------------------------------------------------------------------------
(* Pairing.                                                                *)

\* init: nothing is paired, or the pairing that waits is interrupted.
Pair == PairInit /\ UNCHANGED <<toast, request, notices, events>>

\* A wallet answers the code it was given: showExtensionConnectedAlert.
PairSuccess ==
    /\ init = "waiting" /\ rendered = "mounted" /\ \E k \in Kinds : codes[k] = "code"
    /\ init' = "paired"
    /\ CloseAlert
    /\ UNCHANGED <<toast, inits, codes, request, notices, events>>

\* hideUI: by default the toast only.
HideUI(elements) ==
    /\ IF "alert" \in elements THEN CloseAlert ELSE UNCHANGED dialog /\ UNCHANGED clicks
    /\ IF "toast" \in elements THEN CloseToast ELSE UNCHANGED toast

\* CLOSE_ALERT: the WalletConnect session is settled, or has failed.
HideAll ==
    /\ init = "waiting" /\ codes["wc"] # "pending"
    /\ HideUI({"alert", "toast"})
    /\ UNCHANGED <<lastTimer, pairing, request, notices, events>>

\* wcToastHandler: the wallet has got the session proposal, or refuses it.
WcToast(kind) ==
    /\ init = "waiting" /\ codes["wc"] = "code"
    /\ Happen
    /\ CloseAlert
    /\ Emit(Connecting, kind)
    /\ UNCHANGED <<pairing, request, notices>>

\* The relay cannot be reached: the dialog is hidden and the pairing aborted ...
P2PFails ==
    /\ init = "waiting"
    /\ codes["p2p"] = "pending"
    /\ codes' = [codes EXCEPT !["p2p"] = "empty"]
    /\ Abort
    /\ CloseAlert
    /\ UNCHANGED <<toast, inits, request, notices, events>>

\* ... and an alert tells of it, as of a rate limit, a missing permission, an
\* internal error or a relay error.
ShowAlert ==
    /\ Happen
    /\ OpenAlert("info")
    /\ UNCHANGED <<toast, pairing, request, notices>>

-----------------------------------------------------------------------------
(* The buttons of a toast.                                                 *)

\* 'Reset Connection': the toast is closed, the client disconnects.
ResetConnection ==
    /\ Displayed /\ config.kind = "sent"
    /\ CloseToast
    /\ init' = "none"
    /\ UNCHANGED <<lastTimer, dialog, clicks, inits, codes, request, notices, events>>

\* 'Open' the bug report, 'Show Details' of an error: the toast gives way to the dialog.
ShowDetails ==
    /\ Displayed /\ config.kind \in {"sent", "error", "aborted"} /\ Happen
    /\ CloseToast
    /\ OpenAlert(IF config.kind = "sent" THEN "report" ELSE "info")
    /\ UNCHANGED <<lastTimer, pairing, request, notices>>

ToastStep ==
    /\ \/ RenderToast
       \/ UpdateConfig
       \/ HideToast
       \/ ClickCloseToast
    /\ UNCHANGED <<dialog, pairing, clicks, request, notices, events>>

DialogStep ==
    /\ \/ RenderAlert
       \/ Unmount
       \/ ClickClose
       \/ \E k \in Kinds : GetCode(k)
       \/ NoCode
       \/ \E w \in Wallets : \/ ClickWallet(w)
                             \/ ShowQRCode(w)
       \/ UseBrowser
       \/ ClickOther
       \/ Browse
       \/ \E c \in waiting : GoOn(c)
    /\ UNCHANGED <<toast, request, notices, events>>

RequestStep ==
    \/ \E r \in Requests : Sent(r) \/ Acknowledged(r) \/ Answered(r)
    \/ \E n \in notices : Tell(n)

Next ==
    \/ ToastStep
    \/ DialogStep
    \/ RequestStep
    \/ Pair
    \/ PairSuccess
    \/ HideAll
    \/ \E kind \in {"acknowledge", "aborted"} : WcToast(kind)
    \/ P2PFails
    \/ ShowAlert
    \/ ResetConnection
    \/ ShowDetails

Spec == Init /\ [][Next]_vars

\* Promises that are there go on.  None need come: after a failed login the relay's
\* code is awaited for ever.
FairSpec ==
    /\ Spec
    /\ WF_vars(\E c \in waiting : GoOn(c) /\ UNCHANGED <<toast, request, notices, events>>)

-----------------------------------------------------------------------------
TypeOK ==
    /\ config \in Notices \cup {NoNotice} /\ configDelayTimer \in Notices \cup {NoNotice}
    /\ alert \in {"none", "pairing", "info", "report"} /\ init \in {"none", "waiting", "paired", "aborted"}
    /\ request \in [Requests -> {"none", "sent", "settled", "silent"}]
    /\ notices \subseteq [of : Requests, kind : {"acknowledge", "success", "error", "aborted"}]

\* The toast does not speak of what is over: "Request sent" and "Awaiting confirmation"
\* (events.ts 284, 301) are displayed of a request that is open, unless the notice
\* that replaces them is only waiting for its delay or for what it tells of the wallet,
\* or the request ended with no notice at all; however the notices of several requests
\* follow each other.
ToastTellsTheTruth ==
    \A r \in Requests :
        /\ Displayed /\ configDelayTimer = NoNotice
        /\ config.of = r /\ config.kind \in {"sent", "acknowledge"}
        => OpenRequest(r) \/ Closing(r) # {} \/ request[r] = "silent"
=============================================================================
