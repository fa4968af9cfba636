------------------------- MODULE UserInterfaceProofs -------------------------
(***************************************************************************)
(* The notices of the user interface, proved for any number of requests    *)
(* and wallets: no notice is lost, none that should go away stays, and     *)
(* none speaks of a request that is over.  All rest on what holds of the   *)
(* last notice that was asked for, shown or waiting, whatever the dialog   *)
(* does meanwhile.                                                         *)
(***************************************************************************)
EXTENDS UserInterface, TLAPS

\* The notice that is displayed once no update waits any more.
Last == IF configDelayTimer # NoNotice THEN configDelayTimer ELSE config

\* Nothing waits to replace the notice of a toast that there is not; the timer of
\* the last notice runs; the last notice of a request is true of it, or
\* another is under way that will be, and so are the acknowledgements under way.
NothingWaits == element = "none" => configDelayTimer = NoNotice
LastTimerRuns == Last.timer => lastTimer
Excused(r) == OpenRequest(r) \/ Closing(r) # {} \/ request[r] = "silent"
LastIsTrue == \A r \in Requests : Last.of = r /\ Last.kind \in {"sent", "acknowledge"} => Excused(r)
NoticesAreTrue == \A r \in Requests : [of |-> r, kind |-> "acknowledge"] \in notices => Excused(r)

RequestsAreTyped ==
    /\ request \in [Requests -> {"none", "sent", "settled", "silent"}]
    /\ notices \subseteq [of : Requests, kind : {"acknowledge", "success", "error", "aborted"}]

IInv == NothingWaits /\ LastTimerRuns /\ LastIsTrue /\ NoticesAreTrue /\ NoticeIsSeen /\ RequestsAreTyped

ToastInvariant == NothingWaits /\ LastTimerRuns /\ NoticeIsSeen

-----------------------------------------------------------------------------
(* The actions of the toast.                                               *)

\* A notice that is asked for becomes the last.
LEMMA OpenIsLast ==
    ASSUME ToastInvariant, NEW n, n.kind # "none", OpenToast(n)
    PROVE  ToastInvariant' /\ Last' = n
<1>0. n # NoNotice
    BY DEF NoNotice
<1>1. CASE element = "none"
    BY <1>0, <1>1 DEF ToastInvariant, NothingWaits, LastTimerRuns, NoticeIsSeen, Last, OpenToast, TimerFor
<1>2. CASE element # "none"
    BY <1>0, <1>2 DEF ToastInvariant, NothingWaits, LastTimerRuns, NoticeIsSeen, Last, OpenToast, TimerFor,
                      ScheduleConfigUpdate
<1> QED BY <1>1, <1>2

\* Closing the toast leaves the last notice, or none.
LEMMA CloseIsQuiet ==
    ASSUME ToastInvariant, CloseToast,
           lastTimer' = lastTimer \/ (configDelayTimer = NoNotice /\ element = "mounted")
    PROVE  ToastInvariant' /\ Last' \in {Last, NoNotice}
BY DEF ToastInvariant, NothingWaits, LastTimerRuns, NoticeIsSeen, Last, CloseToast, KeepUpdate, NoNotice

LEMMA ToastStepIsQuiet ==
    ASSUME ToastInvariant, ToastStep
    PROVE  ToastInvariant' /\ Last' \in {Last, NoNotice}
<1>1. CASE RenderToast
    BY <1>1 DEF ToastInvariant, NothingWaits, LastTimerRuns, NoticeIsSeen, Last, RenderToast
<1>2. CASE UpdateConfig
    BY <1>2 DEF ToastInvariant, NothingWaits, LastTimerRuns, NoticeIsSeen, Last, UpdateConfig
<1>3. CASE HideToast
    BY <1>3, CloseIsQuiet DEF HideToast
<1>4. CASE ClickCloseToast
    BY <1>4, CloseIsQuiet DEF ClickCloseToast
<1> QED BY <1>1, <1>2, <1>3, <1>4 DEF ToastStep

\* What is quiet and leaves the requests alone preserves the invariant.
LEMMA QuietPreserves ==
    ASSUME IInv, ToastInvariant', Last' \in {Last, NoNotice}, UNCHANGED <<request, notices>>
    PROVE  IInv'
BY DEF IInv, ToastInvariant, LastIsTrue, NoticesAreTrue, Excused, Closing, RequestsAreTyped, OpenRequest, NoNotice

LEMMA IdlePreserves ==
    ASSUME IInv, UNCHANGED <<toast, request, notices>>
    PROVE  IInv'
BY DEF IInv, NothingWaits, LastTimerRuns, LastIsTrue, NoticesAreTrue, Excused, Closing, NoticeIsSeen, RequestsAreTyped,
       Last, OpenRequest, toast

\* Nor does what changes the requests alone, if it excuses no fewer of them.
LEMMA ExcusesPreserve ==
    ASSUME IInv, UNCHANGED toast, RequestsAreTyped', NoticesAreTrue',
           \A r \in Requests : Excused(r) => Excused(r)'
    PROVE  IInv'
BY DEF IInv, NothingWaits, LastTimerRuns, LastIsTrue, NoticeIsSeen, Last, toast

-----------------------------------------------------------------------------
LEMMA InitEstablishes == Init => IInv
BY DEF Init, ToastInit, IInv, NothingWaits, LastTimerRuns, LastIsTrue, NoticesAreTrue, NoticeIsSeen,
       RequestsAreTyped, Last, NoNotice

LEMMA NextPreserves == IInv /\ [Next]_vars => IInv'
<1> SUFFICES ASSUME IInv, [Next]_vars PROVE IInv'
    OBVIOUS
<1> USE UIAssumption
<1>0. ToastInvariant
    BY DEF IInv, ToastInvariant
<1>1. CASE ToastStep
    BY <1>0, <1>1, ToastStepIsQuiet, QuietPreserves DEF ToastStep
<1>2. CASE DialogStep
    BY <1>2, IdlePreserves DEF DialogStep
<1>3. ASSUME NEW r \in Requests, Sent(r) PROVE IInv'
    <2>1. ToastInvariant' /\ Last' = [of |-> r, timer |-> HasTimer("sent"), kind |-> "sent"]
        BY <1>0, <1>3, OpenIsLast DEF Sent, Emit
    <2>2. RequestsAreTyped' /\ OpenRequest(r)'
        BY <1>3 DEF IInv, RequestsAreTyped, Sent, OpenRequest
    <2>3. \A q \in Requests : Excused(q) => Excused(q)'
        BY <1>3, <2>2 DEF IInv, RequestsAreTyped, Sent, OpenRequest, Excused, Closing
    <2>4. LastIsTrue'
        BY <2>1, <2>2 DEF LastIsTrue, Excused
    <2>5. NoticesAreTrue'
        BY <1>3, <2>3 DEF IInv, NoticesAreTrue, Sent
    <2> QED BY <2>1, <2>2, <2>4, <2>5 DEF IInv, ToastInvariant
<1>4. ASSUME NEW r \in Requests, Acknowledged(r) PROVE IInv'
    <2>1. RequestsAreTyped'
        BY <1>4 DEF IInv, RequestsAreTyped, Acknowledged
    <2>2. \A q \in Requests : Excused(q) => Excused(q)'
        BY <1>4 DEF Acknowledged, Excused, OpenRequest, Closing
    <2>3. Excused(r)
        BY <1>4 DEF Acknowledged, Excused
    <2>4. NoticesAreTrue'
        BY <1>4, <2>2, <2>3 DEF IInv, NoticesAreTrue, Acknowledged
    <2> QED BY <1>4, <2>1, <2>2, <2>4, ExcusesPreserve DEF Acknowledged
<1>5. ASSUME NEW r \in Requests, Answered(r) PROVE IInv'
    <2>1. RequestsAreTyped'
        BY <1>5 DEF IInv, RequestsAreTyped, Answered
    <2>2. Excused(r)'
        <3>1. CASE request' = [request EXCEPT ![r] = "silent"]
            BY <3>1 DEF IInv, RequestsAreTyped, Excused
        <3>2. ASSUME NEW kind \in {"success", "error", "aborted"},
                     notices' = notices \cup {[of |-> r, kind |-> kind]}
              PROVE  Excused(r)'
            <4>1. PICK n : n = [of |-> r, kind |-> kind]
                OBVIOUS
            <4>2. n \in notices' /\ n.of = r /\ n.kind # "acknowledge"
                BY <3>2, <4>1
            <4> QED BY <4>2 DEF Excused, Closing
        <3> QED BY <1>5, <3>1, <3>2 DEF Answered
    <2>3. \A q \in Requests : Excused(q) => Excused(q)'
        <3> SUFFICES ASSUME NEW q \in Requests, Excused(q), q # r PROVE Excused(q)'
            BY <2>2
        <3>1. request'[q] = request[q] /\ notices \subseteq notices'
            BY <1>5 DEF IInv, RequestsAreTyped, Answered
        <3> QED BY <3>1 DEF Excused, OpenRequest, Closing
    <2>4. \A q \in Requests : [of |-> q, kind |-> "acknowledge"] \in notices'
                              => [of |-> q, kind |-> "acknowledge"] \in notices
        BY <1>5 DEF Answered
    <2>5. NoticesAreTrue'
        BY <2>3, <2>4 DEF IInv, NoticesAreTrue
    <2> QED BY <1>5, <2>1, <2>3, <2>5, ExcusesPreserve DEF Answered
<1>15. ASSUME NEW n \in notices, Tell(n) PROVE IInv'
    <2>0. n.of \in Requests /\ n.kind # "none" /\ n = [of |-> n.of, kind |-> n.kind]
        BY DEF IInv, RequestsAreTyped
    <2>1. ToastInvariant' /\ Last' = [of |-> n.of, timer |-> HasTimer(n.kind), kind |-> n.kind]
        BY <1>0, <1>15, <2>0, OpenIsLast DEF Tell, Emit
    <2>2. RequestsAreTyped' /\ UNCHANGED request /\ notices' = notices \ {n}
        BY <1>15 DEF IInv, RequestsAreTyped, Tell
    <2>3. ASSUME NEW q \in Requests, Excused(q), q # n.of \/ n.kind = "acknowledge" PROVE Excused(q)'
        <3>1. Closing(q) \subseteq notices'
            BY <2>2, <2>3 DEF Closing
        <3> QED BY <2>2, <2>3, <3>1 DEF Excused, OpenRequest, Closing
    <2>4. NoticesAreTrue'
        <3> SUFFICES ASSUME NEW q \in Requests, [of |-> q, kind |-> "acknowledge"] \in notices' PROVE Excused(q)'
            BY DEF NoticesAreTrue
        <3>1. [of |-> q, kind |-> "acknowledge"] \in notices
            BY <2>2
        <3>2. Excused(q)
            BY <3>1 DEF IInv, NoticesAreTrue
        <3>3. q # n.of \/ n.kind = "acknowledge"
            BY <1>15, <3>1 DEF Tell
        <3> QED BY <2>3, <3>2, <3>3
    <2>5. LastIsTrue'
        <3> SUFFICES ASSUME n.kind = "acknowledge" PROVE Excused(n.of)'
            BY <2>1, <2>0 DEF LastIsTrue, IInv, RequestsAreTyped
        <3>1. Excused(n.of)
            BY <2>0 DEF IInv, NoticesAreTrue
        <3> QED BY <2>0, <2>3, <3>1
    <2> QED BY <2>1, <2>2, <2>4, <2>5 DEF IInv, ToastInvariant
<1>6. CASE Pair
    BY <1>6, IdlePreserves DEF Pair
<1>7. CASE PairSuccess
    BY <1>7, IdlePreserves DEF PairSuccess
<1>8. CASE HideAll
    BY <1>0, <1>8, CloseIsQuiet, QuietPreserves DEF HideAll, HideUI
<1>9. ASSUME NEW kind \in {"acknowledge", "aborted"}, WcToast(kind) PROVE IInv'
    <2>1. ToastInvariant' /\ Last' = [of |-> Connecting, timer |-> HasTimer(kind), kind |-> kind]
        BY <1>0, <1>9, OpenIsLast DEF WcToast, Emit
    <2>2. RequestsAreTyped' /\ NoticesAreTrue'
        BY <1>9 DEF IInv, RequestsAreTyped, NoticesAreTrue, Excused, OpenRequest, Closing, WcToast
    <2> QED BY <2>1, <2>2 DEF IInv, ToastInvariant, LastIsTrue
<1>10. CASE P2PFails
    BY <1>10, IdlePreserves DEF P2PFails
<1>11. CASE ShowAlert
    BY <1>11, IdlePreserves DEF ShowAlert
<1>12. CASE ResetConnection
    BY <1>0, <1>12, CloseIsQuiet, QuietPreserves DEF ResetConnection
<1>13. CASE ShowDetails
    BY <1>0, <1>13, CloseIsQuiet, QuietPreserves DEF ShowDetails
<1>14. CASE UNCHANGED vars
    BY <1>14, IdlePreserves DEF vars
<1> QED
    BY <1>1, <1>2, <1>3, <1>4, <1>5, <1>6, <1>7, <1>8, <1>9, <1>10, <1>11, <1>12, <1>13, <1>14, <1>15
    DEF Next, RequestStep

LEMMA Invariance == Spec => []IInv
BY InitEstablishes, NextPreserves, PTL DEF Spec

-----------------------------------------------------------------------------
\* No notice is lost before it was displayed (openToast, closeToast).
THEOREM EveryNoticeIsSeen == Spec => []NoticeIsSeen
<1>1. IInv => NoticeIsSeen
    BY DEF IInv
<1> QED BY <1>1, Invariance, PTL

\* A notice with a timer has one that runs (openToast, hideToast).
THEOREM TimedNoticesGoAway == Spec => []TimedNoticeGoesAway
<1>1. IInv => TimedNoticeGoesAway
    BY DEF IInv, LastTimerRuns, Last, TimedNoticeGoesAway
<1> QED BY <1>1, Invariance, PTL

\* The toast speaks of open requests, of those whose last notice is under way and of
\* those that ended without one (messageEvents in events.ts).
THEOREM ToastIsTrue == Spec => []ToastTellsTheTruth
<1>1. IInv => ToastTellsTheTruth
    BY DEF IInv, LastIsTrue, Excused, Last, ToastTellsTheTruth
<1> QED BY <1>1, Invariance, PTL
=============================================================================
