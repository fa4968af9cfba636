--------------------------- MODULE PairingDialog ---------------------------
(***************************************************************************)
(* The one dialog of the page (octez.connect-ui, ui/alert) and, while it   *)
(* is a pairing dialog, what its hook useConnect does with the wallets the *)
(* user picks.  The codes it shows are promises: a click waits for one and *)
(* goes on from there, whatever was clicked since.  Every time the dialog  *)
(* opens, closes, mounts or gets another config its component is made anew *)
(* (AlertRoot defines it while rendering) and the state of the hook with   *)
(* it; what still waits goes on, but changes no state any more.            *)
(***************************************************************************)
EXTENDS Naturals, FiniteSets

CONSTANTS Wallets,     \* the wallets of the registry
          Types,       \* [Wallets -> the types each comes in]
          SpeakWC,     \* those that pair over WalletConnect
          Kukai,       \* the one whose failures are told in the dialog
          Acurast,     \* the one whose phone app is never opened by a click
          NoWallet,
          Views,       \* where the page is open: "wide" or "narrow" windows, a "phone"
          MaxInits     \* bound: pairings

ASSUME DialogAssumption ==
    /\ NoWallet \notin Wallets /\ MaxInits \in Nat
    /\ Types \in [Wallets -> SUBSET {"web", "ios", "desktop", "extension"}]

VARIABLES
    view,       \* the one it is open in
    alert,      \* the config of the dialog
    rendered,   \* the host element: "none", "rendering", "mounted"
    open, mount,
    unmounting, \* how many timers will unmount the dialog
    inits,      \* how many pairings have begun
    init,       \* the last: "none", "waiting", "paired", "aborted"
    codes,      \* its pairing payload: each promise "pending", "code" or "empty"
    hook,       \* the state of useConnect
    waiting     \* its clicks that wait for a code

dialog == <<view, alert, rendered, open, mount, unmounting>>
pairing == <<inits, init, codes>>
clicks == <<hook, waiting>>

Kinds == {"wc", "p2p"}
OnPhone == view = "phone"
isMobile == view # "wide"

\* useState's initial values.
Fresh == [wallet |-> NoWallet, isLoading |-> FALSE, qrCode |-> "none", state |-> "top-wallets",
          isWCWorking |-> TRUE, displayQRExtra |-> FALSE]

DialogInit ==
    /\ view \in Views
    /\ alert = "none" /\ rendered = "none" /\ open = TRUE /\ mount = FALSE /\ unmounting = 0
    /\ inits = 0 /\ init = "none" /\ codes = [k \in Kinds |-> "pending"]
    /\ hook = Fresh /\ waiting = {}

-----------------------------------------------------------------------------
(* The frame: AlertRoot, openAlert, closeAlert.                            *)

\* The component is made anew: what waits has nothing left to change but, asked
\* for a QR code, the dialog.
Remount(clicked) ==
    /\ hook' = Fresh
    /\ waiting' = {[c EXCEPT !.alive = FALSE] : c \in {d \in clicked : d.pc = "qr"}}

\* openAlert: the first is made with the config, later ones get it, if there is
\* anyone to hear it; an open dialog is not mounted again.
OpenAlert(kind) ==
    /\ rendered' = IF rendered = "none" THEN "rendering" ELSE rendered
    /\ alert' = IF rendered = "rendering" THEN alert ELSE kind
    /\ open' = TRUE
    /\ mount' = IF rendered = "mounted" /\ ~open THEN TRUE ELSE mount
    /\ UNCHANGED <<view, unmounting>>
    /\ Remount(waiting)

RenderAlert ==
    /\ rendered = "rendering"
    /\ rendered' = "mounted" /\ mount' = TRUE
    /\ UNCHANGED <<view, alert, open, unmounting>> /\ UNCHANGED pairing /\ UNCHANGED clicks

\* closeAlert: lost before the dialog is rendered; the fade-out ends in 300 ms.
CloseAfter(clicked) ==
    IF rendered = "mounted" /\ open
    THEN /\ open' = FALSE
         /\ unmounting' = unmounting + 1
         /\ Remount(clicked)
         /\ UNCHANGED <<view, alert, rendered, mount>>
    ELSE waiting' = clicked /\ UNCHANGED <<dialog, hook>>

CloseAlert == CloseAfter(waiting)

\* The fade-out is over, whether or not the dialog was opened again.
Unmount ==
    /\ unmounting > 0
    /\ unmounting' = unmounting - 1
    /\ mount' = FALSE
    /\ (IF mount THEN Remount(waiting) ELSE UNCHANGED <<hook, waiting>>)
    /\ UNCHANGED <<view, alert, rendered, open>> /\ UNCHANGED pairing

\* PairingAlert is displayed, with these choices.
Offered(state) ==
    rendered = "mounted" /\ mount /\ open /\ alert = "pairing" /\ hook.state = state

\* abortHandler, the closeButtonCallback of the pairing dialog.
Abort == init' = IF init = "waiting" THEN "aborted" ELSE init

\* onClose: the cross and the backdrop.
ClickClose ==
    /\ rendered = "mounted" /\ mount /\ open
    /\ CloseAlert
    /\ IF alert = "pairing" THEN Abort ELSE UNCHANGED init
    /\ UNCHANGED <<inits, codes>>

-----------------------------------------------------------------------------
(* The pairing payload of init(): promises, the relay's may never settle.  *)

\* A new init replaces the one that waits; PAIR_INIT opens the dialog.
PairInit ==
    /\ inits < MaxInits
    /\ inits' = inits + 1 /\ init' = "waiting"
    /\ codes' = [k \in Kinds |-> "pending"]
    /\ OpenAlert("pairing")

\* The clicks that wait for the code go on.
Settle(k, v) ==
    /\ codes[k] = "pending" /\ init # "none"
    /\ codes' = [codes EXCEPT ![k] = v]
    /\ UNCHANGED <<inits, init>>

GetCode(k) == Settle(k, "code") /\ UNCHANGED dialog /\ UNCHANGED clicks

\* WalletConnect is disabled, or its relay gives no URI.
NoCode == Settle("wc", "empty") /\ UNCHANGED dialog /\ UNCHANGED clicks

-----------------------------------------------------------------------------
(* useConnect                                                              *)

CodeOf(w) == IF w \in SpeakWC THEN "wc" ELSE "p2p"
Only(w, type) == Types[w] = {type}

\* MobileInfoCard is displayed on a phone, and ends the loading.
Card(w, h) ==
    OnPhone /\ "ios" \in Types[w] /\ (w \in Acurast \/ (w \in SpeakWC /\ h.isWCWorking))

\* setInstallState.
Installed(w, h) ==
    IF Only(w, "web") \/ (OnPhone /\ Only(w, "desktop")) THEN h
    ELSE [h EXCEPT !.state = "install", !.isLoading = @ /\ ~Card(w, h)]

\* A click that waits: for which wallet, what for, where it goes on.
Wait(w, k, pc) ==
    waiting' = waiting \cup {[wallet |-> w, code |-> k, pc |-> pc, init |-> inits, alive |-> TRUE]}

\* The lists: the top and the small ones are disabled while loading, the list of
\* other wallets in a narrow window is not.
CanClick(w) ==
    \/ Offered("top-wallets") /\ ~hook.isLoading
    \/ isMobile /\ Offered("wallets")

\* handleNewTab: it stays loading.
NewTab(w, h) ==
    /\ hook' = [h EXCEPT !.isLoading = TRUE]
    /\ Wait(w, IF w \in SpeakWC \ Kukai THEN "wc" ELSE "p2p", "tab")

\* On a phone the app is opened without more ado.
OpenApp(w) == OnPhone /\ isMobile /\ "ios" \in Types[w] /\ w \notin Acurast

\* Slip: a code is only waited for when none is shown yet.
WaitOnce(w, h) ==
    /\ hook' = Installed(w, [h EXCEPT !.isLoading = (h.qrCode = "none")])
    /\ IF h.qrCode = "none" THEN Wait(w, "p2p", "install") ELSE UNCHANGED waiting

\* The wallet is shown at once, its code when it is there.
WaitForCode(w, h) ==
    /\ hook' = Installed(w, h)
    /\ Wait(w, "p2p", "install")

\* handleClickWallet, up to its first await.
ClickWallet(w) ==
    /\ CanClick(w)
    /\ LET h == [hook EXCEPT !.isLoading = TRUE, !.wallet = w]
       IN  \/ Only(w, "web") /\ NewTab(w, h)
           \/ ~Only(w, "web") /\ w \in SpeakWC /\ hook' = h /\ Wait(w, "wc", "wc")
           \/ ~Only(w, "web") /\ w \notin SpeakWC /\ OpenApp(w)
              /\ hook' = [h EXCEPT !.qrCode = "none"] /\ Wait(w, "p2p", "app")
           \/ ~Only(w, "web") /\ w \notin SpeakWC /\ ~OpenApp(w) /\ WaitForCode(w, h)
    /\ UNCHANGED dialog /\ UNCHANGED pairing

\* The buttons of the wallet that is shown: handleNewTab, and on a phone the QR code
\* (the others open the wallet and leave the dialog as it is).
UseBrowser ==
    /\ Offered("install") /\ "web" \in Types[hook.wallet]
    /\ NewTab(hook.wallet, hook)
    /\ UNCHANGED dialog /\ UNCHANGED pairing

ShowQRCode(w) ==
    /\ Offered("install") /\ w = hook.wallet /\ Card(w, hook)
    /\ Wait(w, CodeOf(w), "qr")
    /\ UNCHANGED hook /\ UNCHANGED dialog /\ UNCHANGED pairing

\* handleClickOther: any wallet may scan what it shows.
ClickOther ==
    /\ Offered("wallets") \/ (~isMobile /\ Offered("top-wallets"))
    /\ hook' = [hook EXCEPT !.state = "qr"]
    /\ UNCHANGED waiting /\ UNCHANGED dialog /\ UNCHANGED pairing

\* The arrow back, the links to the other lists.
Turn(from, to) ==
    /\ Offered(from)
    /\ hook' = [hook EXCEPT !.state = to]
    /\ UNCHANGED waiting /\ UNCHANGED dialog /\ UNCHANGED pairing

Browse ==
    \/ \E from \in {"install", "qr", "bug-report"} : Turn(from, "top-wallets")
    \/ Turn("top-wallets", "bug-report")
    \/ hook.wallet \in SpeakWC /\ ~hook.isWCWorking /\ Turn("install", "bug-report")
    \/ isMobile /\ (Turn("top-wallets", "wallets") \/ Turn("wallets", "top-wallets"))

\* What a click does to the state of the hook when its code is there.
Shown(c, v) ==
    LET w == c.wallet
        done == [hook EXCEPT !.isLoading = FALSE]
    IN CASE c.pc = "wc" /\ v = "code" /\ ~(isMobile /\ Only(w, "ios")) ->
                Installed(w, [done EXCEPT !.isWCWorking = TRUE, !.qrCode = "wc"])
         [] c.pc = "wc" /\ v = "code" -> [done EXCEPT !.isWCWorking = TRUE]
         [] c.pc = "wc" /\ v = "empty" /\ w \in Kukai ->
                Installed(w, [done EXCEPT !.isWCWorking = FALSE, !.qrCode = "error"])
         [] c.pc = "wc" /\ v = "empty" /\ w \notin Kukai -> [done EXCEPT !.isWCWorking = FALSE]
         [] c.pc = "install" -> [done EXCEPT !.qrCode = IF v = "code" THEN "p2p" ELSE "none"]
         [] c.pc = "app" -> done
         [] c.pc = "tab" /\ c.code = "wc" -> [hook EXCEPT !.isWCWorking = (v = "code")]
         [] c.pc = "qr" /\ v = "code" ->
                [hook EXCEPT !.qrCode = c.code, !.state = "qr", !.displayQRExtra = TRUE]
         [] OTHER -> hook

\* The code is there and the click goes on; asked for a QR code that is not there
\* it closes the dialog.
GoOn(c) ==
    /\ c.init = inits /\ codes[c.code] # "pending"
    /\ IF c.pc = "qr" /\ codes[c.code] = "empty"
       THEN CloseAfter(waiting \ {c}) /\ Abort
       ELSE /\ hook' = IF c.alive THEN Shown(c, codes[c.code]) ELSE hook
            /\ waiting' = waiting \ {c}
            /\ UNCHANGED <<dialog, init>>
    /\ UNCHANGED <<inits, codes>>

-----------------------------------------------------------------------------
\* The QR code a desktop window shows for a wallet, unless its relay has failed.
QRShown ==
    /\ Offered("install") /\ ~OnPhone
    /\ hook.qrCode # "none" /\ "ios" \in Types[hook.wallet]
    /\ hook.wallet \in SpeakWC => hook.isWCWorking

WrongCode == QRShown /\ hook.qrCode # CodeOf(hook.wallet)

\* At least the code of another wallet does not stay: in a wide window, whose lists
\* wait while a wallet is being loaded, it is replaced once the wallet's own is there
\* or has failed.
WrongCodeGoesAway ==
    (view = "wide" /\ WrongCode /\ codes[CodeOf(hook.wallet)] # "pending") ~> ~WrongCode
=============================================================================
