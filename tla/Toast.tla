------------------------------- MODULE Toast -------------------------------
(***************************************************************************)
(* The one toast of the page (octez.connect-ui, ui/toast): notices replace *)
(* each other in it, those that come thick and fast only after a delay,    *)
(* and a notice with a timer is hidden when that runs out.  The delays     *)
(* follow the code's constants: rendering takes 50 ms, an update between   *)
(* 500 ms and 5 s, the timer of a notice 5 s; 47 notices in a burst, which *)
(* would be delayed past their own timer, are left out.                    *)
(***************************************************************************)
CONSTANT Subjects     \* what notices are about

VARIABLES
    element,    \* the host element: "none", "rendering", "mounted"
    config,     \* the notice the component holds
    isOpen,
    configDelayTimer,   \* the notice that is to replace it, once its delay is over
    lastTimer,  \* whether the timer that hides the toast is running
    unseen      \* ghost: the last notice asked for, until it has been displayed

toast == <<element, config, isOpen, configDelayTimer, lastTimer, unseen>>

Notices ==
    [of : Subjects, timer : BOOLEAN, kind : {"sent", "acknowledge", "success", "error", "aborted"}]
NoNotice == [of |-> "nothing", timer |-> FALSE, kind |-> "none"]

ToastInit ==
    /\ element = "none" /\ config = NoNotice /\ isOpen = TRUE
    /\ configDelayTimer = NoNotice /\ lastTimer = FALSE /\ unseen = NoNotice

\* Slip: a notice that is shown at once leaves an earlier one waiting.
ScheduleOnly(n, delayed) ==
    IF delayed THEN configDelayTimer' = n /\ UNCHANGED config
               ELSE config' = n /\ UNCHANGED configDelayTimer

\* scheduleConfigUpdate: an update that was waiting is given up.
ScheduleConfigUpdate(n, delayed) ==
    /\ configDelayTimer' = IF delayed THEN n ELSE NoNotice
    /\ config' = IF delayed THEN config ELSE n

\* Slip: a notice that replaces another keeps no timer of its own.
FirstTimer(n) == n.timer /\ element = "none"
TimerFor(n) == n.timer

\* openToast: the first creates the toast; one within COOLDOWN of the one
\* before is delayed.  What is shown to nobody yet (show$) is lost.
OpenToast(n) ==
    /\ IF element = "none"
       THEN /\ element' = "rendering"
            /\ config' = n
            /\ unseen' = n
            /\ UNCHANGED configDelayTimer
       ELSE \E delayed \in BOOLEAN :
            /\ element = "rendering" => delayed
            /\ ScheduleConfigUpdate(n, delayed)
            /\ unseen' = IF delayed THEN n ELSE NoNotice
            /\ UNCHANGED element
    /\ lastTimer' = TimerFor(n)
    /\ isOpen' = TRUE

\* createRoot(...).render, 50 ms after createToast.
RenderToast ==
    /\ element = "rendering"
    /\ element' = "mounted"
    /\ unseen' = IF unseen = config THEN NoNotice ELSE unseen
    /\ UNCHANGED <<config, isOpen, configDelayTimer, lastTimer>>

\* Slip: the update that is waiting goes too.
ForgetUpdate == configDelayTimer' = NoNotice /\ config' = NoNotice

\* The config stays while an update waits, which must still come.
KeepUpdate ==
    /\ config' = IF configDelayTimer = NoNotice THEN NoNotice ELSE config
    /\ UNCHANGED configDelayTimer

\* closeToast: of no effect on a toast that is not rendered yet.
CloseToast ==
    /\ IF element = "mounted" THEN KeepUpdate /\ isOpen' = FALSE
                              ELSE UNCHANGED <<config, isOpen, configDelayTimer>>
    /\ UNCHANGED <<element, unseen>>

\* The delay of an update is over.
UpdateConfig ==
    /\ configDelayTimer # NoNotice /\ element = "mounted"
    /\ config' = configDelayTimer
    /\ configDelayTimer' = NoNotice
    /\ isOpen' = TRUE
    /\ unseen' = NoNotice
    /\ UNCHANGED <<element, lastTimer>>

\* The timer of the last notice runs out, after the notice was shown.
HideToast ==
    /\ lastTimer /\ configDelayTimer = NoNotice /\ element = "mounted"
    /\ lastTimer' = FALSE
    /\ CloseToast

\* ToastRoot: mount && config.
Displayed == element = "mounted" /\ isOpen /\ config # NoNotice

\* The user closes the toast.
ClickCloseToast == Displayed /\ CloseToast /\ UNCHANGED lastTimer

-----------------------------------------------------------------------------
\* The last notice that was asked for is seen: it is displayed, or waits for its
\* delay, or for the toast to be rendered, whatever timer, click or reset closes
\* the toast meanwhile (the comment in closeToast, index.tsx 97-99).
NoticeIsSeen ==
    unseen # NoNotice => configDelayTimer = unseen \/ (element = "rendering" /\ config = unseen)

\* A notice that has a timer goes away: while it is displayed and nothing is to
\* replace it, a timer is running, also when the toast was closed and opened again.
TimedNoticeGoesAway ==
    (Displayed /\ config.timer /\ configDelayTimer = NoNotice) => lastTimer
=============================================================================
