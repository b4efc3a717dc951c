----------------------------- MODULE Reminders -----------------------------
(***************************************************************************)
(* useReminderService of the exam player: notices that wait in a queue and *)
(* are shown one after the other, each with a countdown in seconds, and    *)
(* the colourful alert that puts the notice that is shown back in front of *)
(* the queue until it is hidden. Notices are numbered as they are asked    *)
(* for.                                                                    *)
(***************************************************************************)
EXTENDS Naturals, Sequences

CONSTANTS MaxNotices,   \* bound: notices that are asked for
          MaxAlerts,    \* bound: colourful alerts
          NoticeSeconds \* remainingSec of a notice

ASSUME ReminderAssumption ==
    /\ MaxNotices \in Nat /\ MaxAlerts \in Nat /\ NoticeSeconds \in Nat \ {0}

VARIABLES
    queue,      \* the notices that wait: their number and remainingSec
    current,    \* currentNoticeRef: a set of one, or empty
    noticeTimer,\* the countdown's interval exists
    colorful,   \* colorfulRef: none, or an alert that has a duration or lasts
    endingTimer,\* the alert's timer exists
    noticesAsked,      \* notices asked for
    alerts      \* alerts asked for

reminderVars == <<queue, current, noticeTimer, colorful, endingTimer, noticesAsked, alerts>>

\* processNext: the first notice of q is shown, unless something else is.
processNext(q, now, alert) ==
    IF alert = "none" /\ now = {} /\ q # <<>>
    THEN queue' = Tail(q) /\ current' = {Head(q)} /\ noticeTimer' = TRUE
    ELSE queue' = q /\ current' = now /\ noticeTimer' = (now # {})

-----------------------------------------------------------------------------
notify ==
    /\ noticesAsked < MaxNotices
    /\ noticesAsked' = noticesAsked + 1
    /\ processNext(Append(queue, [id |-> noticesAsked + 1, left |-> NoticeSeconds]), current, colorful)
    /\ UNCHANGED <<colorful, endingTimer, alerts>>

closeCurrentNotice ==
    /\ current # {}
    /\ processNext(queue, {}, colorful)
    /\ UNCHANGED <<colorful, endingTimer, noticesAsked, alerts>>

\* The interval of the countdown: the last second closes the notice.
NoticeTick ==
    /\ noticeTimer
    /\ \E notice \in current :
          IF notice.left <= 1 THEN processNext(queue, {}, colorful)
          ELSE /\ current' = {[notice EXCEPT !.left = @ - 1]}
               /\ UNCHANGED <<queue, noticeTimer>>
    /\ UNCHANGED <<colorful, endingTimer, noticesAsked, alerts>>

clearAllNotices ==
    /\ queue # <<>> \/ current # {}
    /\ queue' = <<>> /\ current' = {} /\ noticeTimer' = FALSE
    /\ UNCHANGED <<colorful, endingTimer, noticesAsked, alerts>>

BugShow(lasts) ==
    /\ alerts < MaxAlerts
    /\ alerts' = alerts + 1
    /\ \E notice \in current : queue' = Append(queue, notice)
    /\ current' = {} /\ noticeTimer' = FALSE
    /\ colorful' = IF lasts THEN "lasts" ELSE "timed"
    /\ endingTimer' = ~lasts
    /\ UNCHANGED noticesAsked

\* The notice that is shown goes back, with the seconds it has left; an alert
\* with no duration stays until it is hidden.
showColorfulAlert(lasts) ==
    /\ alerts < MaxAlerts
    /\ alerts' = alerts + 1
    /\ IF current = {} THEN UNCHANGED queue
       ELSE \E notice \in current : queue' = <<notice>> \o queue
    /\ current' = {} /\ noticeTimer' = FALSE
    /\ colorful' = IF lasts THEN "lasts" ELSE "timed"
    /\ endingTimer' = ~lasts
    /\ UNCHANGED noticesAsked

hideColorfulAlert ==
    /\ colorful # "none"
    /\ colorful' = "none" /\ endingTimer' = FALSE
    /\ processNext(queue, current, "none")
    /\ UNCHANGED <<noticesAsked, alerts>>

AlertTimeout == endingTimer /\ hideColorfulAlert

-----------------------------------------------------------------------------
ReminderInit ==
    /\ queue = <<>> /\ current = {} /\ noticeTimer = FALSE
    /\ colorful = "none" /\ endingTimer = FALSE /\ noticesAsked = 0 /\ alerts = 0

ReminderNext ==
    \/ notify
    \/ closeCurrentNotice
    \/ NoticeTick
    \/ clearAllNotices
    \/ \E lasts \in BOOLEAN : showColorfulAlert(lasts)
    \/ hideColorfulAlert
    \/ AlertTimeout

ReminderSpec == ReminderInit /\ [][ReminderNext]_reminderVars

-----------------------------------------------------------------------------
Notices == [id : 1..MaxNotices, left : 1..NoticeSeconds]

\* No notice is shown or waits without a second left.
ReminderTypeOK ==
    /\ queue \in Seq(Notices) /\ current \subseteq Notices
    /\ noticeTimer \in BOOLEAN /\ endingTimer \in BOOLEAN
    /\ colorful \in {"none", "timed", "lasts"}
    /\ noticesAsked \in 0..MaxNotices /\ alerts \in 0..MaxAlerts

\* Notices are shown in the order they were asked for and each of them once,
\* however alerts and closings interrupt them: the one that is shown comes
\* before those that wait, which wait in their order.
NoticesInOrder ==
    /\ \A i, j \in DOMAIN queue : i < j => queue[i].id < queue[j].id
    /\ \A notice \in current, i \in DOMAIN queue : notice.id < queue[i].id

\* A notice and an alert never share the screen, notices never wait for
\* nothing, and whatever is shown for a time has the timer that ends it.
ScreenIsShared ==
    /\ current # {} => colorful = "none"
    /\ queue # <<>> => current # {} \/ colorful # "none"
    /\ noticeTimer <=> current # {}
    /\ endingTimer <=> colorful = "timed"

\* Notices come in order, and none is lost or stays when alerts interrupt them.
NoticesAreShown == NoticesInOrder /\ ScreenIsShared
=============================================================================
