----------------------------- MODULE PlayerProofs -----------------------------
(***************************************************************************)
(* Notices are shown in order and none is lost, for every number of        *)
(* notices, alerts and seconds. The argument is that of a sorted list: a   *)
(* new notice has the greatest number and goes to the end, the notice that *)
(* an alert interrupts has the least and goes back to the front.           *)
(*                                                                         *)
(* Their sounds are right, for every number of requests and however late   *)
(* play() settles: only the element in the cache that was begun last       *)
(* sounds, and it has no promise of an earlier request.                    *)
(*                                                                         *)
(* The exams are shown and their reminders come when they are due, for any *)
(* configurations, corrections of the clock and order of steps. The        *)
(* argument: the index was right at some time c, and every begin and end   *)
(* after c has a task that is pending; every pending task has a timer that *)
(* fires no later than it is due. A queue that reads NaN for the clock has *)
(* no tasks: what is left there is that no exam is skipped and nothing is  *)
(* presented twice.                                                        *)
(***************************************************************************)
EXTENDS Reminders, ReminderSound, ExamSchedule, FiniteSetTheorems, WellFoundedInduction,
        TLAPS

\* The notices that wait, and the one that is shown, numbered up to top.
Ordered(q, now, top) ==
    /\ q \in Seq(Notices) /\ now \subseteq Notices
    /\ \A i \in 1..Len(q) : q[i].id <= top
    /\ \A notice \in now : notice.id <= top
    /\ \A i, j \in 1..Len(q) : i < j => q[i].id < q[j].id
    /\ \A notice \in now, i \in 1..Len(q) : notice.id < q[i].id

\* One notice is shown at a time, so that the one that an alert interrupts is
\* the whole of what is shown.
OneIsShown == \A n, m \in current : n = m

ReminderInv ==
    /\ ReminderTypeOK /\ NoticesAreShown
    /\ Ordered(queue, current, noticesAsked) /\ OneIsShown

-----------------------------------------------------------------------------
(* Lists that are in order                                                   *)

LEMMA NewNoticeIsLast ==
    ASSUME NEW q, NEW now, NEW top \in Nat, Ordered(q, now, top),
           NEW notice \in Notices, notice.id = top + 1
    PROVE  Ordered(Append(q, notice), now, top + 1)
<1> DEFINE r == Append(q, notice)
<1>1. q \in Seq(Notices) /\ Len(q) \in Nat
    BY DEF Ordered
<1>2. /\ r \in Seq(Notices) /\ Len(r) = Len(q) + 1 /\ r[Len(q) + 1] = notice
      /\ \A i \in 1..Len(q) : r[i] = q[i]
    BY <1>1
<1>3. \A i \in 1..Len(r) : i \in 1..Len(q) \/ i = Len(q) + 1
    BY <1>1, <1>2
<1> HIDE DEF r
<1>4. \A i \in 1..Len(q) : q[i].id \in Nat /\ q[i].id <= top
    <2>1. \A i \in 1..Len(q) : q[i] \in Notices
        BY <1>1
    <2>2. QED
        BY <2>1, ReminderAssumption DEF Ordered, Notices
<1>5. \A m \in now : m.id \in Nat /\ m.id <= top
    BY DEF Ordered, Notices
<1>6. \A i \in 1..Len(r) : r[i].id <= top + 1
    BY <1>2, <1>3, <1>4
<1>7. \A i, j \in 1..Len(r) : i < j => r[i].id < r[j].id
    <2>1. TAKE i, j \in 1..Len(r)
    <2>2. HAVE i < j
    <2>3. i \in 1..Len(q)
        BY <1>1, <1>2, <2>2
    <2>4. CASE j \in 1..Len(q)
        BY <1>2, <2>2, <2>3, <2>4 DEF Ordered
    <2>5. CASE j = Len(q) + 1
        BY <1>2, <1>4, <2>3, <2>5
    <2>6. QED
        BY <1>3, <2>4, <2>5
<1>8. \A m \in now, i \in 1..Len(r) : m.id < r[i].id
    <2>1. TAKE m \in now, i \in 1..Len(r)
    <2>2. CASE i \in 1..Len(q)
        BY <1>2, <2>2 DEF Ordered
    <2>3. CASE i = Len(q) + 1
        BY <1>2, <1>5, <2>3
    <2>4. QED
        BY <1>3, <2>2, <2>3
<1>9. \A m \in now : m.id <= top + 1
    BY <1>5
<1>10. now \subseteq Notices
    BY DEF Ordered
<1>11. Ordered(r, now, top + 1)
    BY <1>2, <1>6, <1>7, <1>8, <1>9, <1>10 DEF Ordered
<1>12. QED
    BY <1>11 DEF r

LEMMA ShownNoticeGoesBack ==
    ASSUME NEW q, NEW notice, NEW top \in Nat, Ordered(q, {notice}, top)
    PROVE  Ordered(<<notice>> \o q, {}, top)
<1> DEFINE r == <<notice>> \o q
<1>1. q \in Seq(Notices) /\ Len(q) \in Nat /\ notice \in Notices /\ notice.id <= top
    BY DEF Ordered
<1>2. /\ r \in Seq(Notices) /\ Len(r) = Len(q) + 1 /\ r[1] = notice
      /\ \A i \in 1..Len(r) : i # 1 => r[i] = q[i - 1]
    BY <1>1
<1>3. \A i \in 1..Len(r) : i # 1 => i - 1 \in 1..Len(q)
    BY <1>1, <1>2
<1> HIDE DEF r
<1>4. \A i \in 1..Len(r) : r[i].id <= top
    BY <1>1, <1>2, <1>3 DEF Ordered
<1>5. \A i, j \in 1..Len(r) : i < j => r[i].id < r[j].id
    <2>1. TAKE i, j \in 1..Len(r)
    <2>2. HAVE i < j
    <2>3. j # 1 /\ r[j] = q[j - 1] /\ j - 1 \in 1..Len(q)
        BY <1>2, <1>3, <2>2
    <2>4. CASE i = 1
        BY <1>2, <2>3, <2>4 DEF Ordered
    <2>5. CASE i # 1
        <3>1. r[i] = q[i - 1] /\ i - 1 \in 1..Len(q) /\ i - 1 < j - 1
            BY <1>2, <1>3, <2>2, <2>5
        <3>2. QED
            BY <2>3, <3>1 DEF Ordered
    <2>6. QED
        BY <2>4, <2>5
<1>6. Ordered(r, {}, top)
    BY <1>2, <1>4, <1>5 DEF Ordered
<1>7. QED
    BY <1>6 DEF r

LEMMA FirstIsShown ==
    ASSUME NEW q, NEW top \in Nat, Ordered(q, {}, top), q # <<>>
    PROVE  Ordered(Tail(q), {Head(q)}, top)
<1> DEFINE r == Tail(q)
           h == Head(q)
<1>1. q \in Seq(Notices) /\ Len(q) \in Nat \ {0}
    BY DEF Ordered
<1>2. /\ r \in Seq(Notices) /\ Len(r) = Len(q) - 1 /\ h = q[1] /\ h \in Notices
      /\ \A i \in 1..Len(r) : r[i] = q[i + 1]
    BY <1>1
<1>3. \A i \in 1..Len(r) : i + 1 \in 1..Len(q)
    BY <1>1, <1>2
<1>4. 1 \in 1..Len(q)
    BY <1>1
<1> HIDE DEF r, h
<1>5. \A i \in 1..Len(r) : r[i].id <= top
    BY <1>2, <1>3 DEF Ordered
<1>6. \A i, j \in 1..Len(r) : i < j => r[i].id < r[j].id
    <2>1. TAKE i, j \in 1..Len(r)
    <2>2. HAVE i < j
    <2>3. i + 1 < j + 1 /\ i + 1 \in 1..Len(q) /\ j + 1 \in 1..Len(q)
        BY <1>3, <2>2
    <2>4. QED
        BY <1>2, <2>3 DEF Ordered
<1>7. \A i \in 1..Len(r) : h.id < r[i].id
    <2>1. TAKE i \in 1..Len(r)
    <2>2. 1 < i + 1 /\ i + 1 \in 1..Len(q)
        BY <1>3
    <2>3. QED
        BY <1>2, <1>4, <2>2 DEF Ordered
<1>8. h.id <= top
    BY <1>2, <1>4 DEF Ordered
<1>9. Ordered(r, {h}, top)
    BY <1>2, <1>5, <1>6, <1>7, <1>8 DEF Ordered
<1>10. QED
    BY <1>9 DEF r, h

-----------------------------------------------------------------------------
(* processNext keeps the order, and leaves the screen to one of the two.     *)

LEMMA NextIsShown ==
    ASSUME NEW q, NEW now, NEW alert, NEW top \in Nat, Ordered(q, now, top),
           \A n, m \in now : n = m, now # {} => alert = "none",
           processNext(q, now, alert)
    PROVE  /\ Ordered(queue', current', top) /\ OneIsShown'
           /\ current' # {} => alert = "none"
           /\ queue' # <<>> => current' # {} \/ alert # "none"
           /\ noticeTimer' = (current' # {})
<1>1. CASE alert = "none" /\ now = {} /\ q # <<>>
    <2>1. queue' = Tail(q) /\ current' = {Head(q)} /\ noticeTimer' = TRUE
        BY <1>1 DEF processNext
    <2>2. Ordered(Tail(q), {Head(q)}, top)
        BY <1>1, FirstIsShown
    <2>3. QED
        BY <1>1, <2>1, <2>2 DEF OneIsShown
<1>2. CASE ~(alert = "none" /\ now = {} /\ q # <<>>)
    BY <1>2 DEF processNext, OneIsShown
<1>3. QED
    BY <1>1, <1>2

\* An ordered list makes the order of the notices and their types.
LEMMA OrderedIsInOrder ==
    Ordered(queue, current, noticesAsked)
        => NoticesInOrder /\ queue \in Seq(Notices) /\ current \subseteq Notices
BY DEF Ordered, NoticesInOrder

\* What a step has to show: the order, one notice at most, and the screen.
LEMMA ScreenMakesInv ==
    ASSUME Ordered(queue', current', noticesAsked'), OneIsShown',
           colorful' \in {"none", "timed", "lasts"},
           endingTimer' \in BOOLEAN, endingTimer' <=> (colorful' = "timed"),
           noticesAsked' \in 0..MaxNotices, alerts' \in 0..MaxAlerts,
           current' # {} => colorful' = "none",
           queue' # <<>> => current' # {} \/ colorful' # "none",
           noticeTimer' = (current' # {})
    PROVE  ReminderInv'
<1>1. NoticesInOrder' /\ queue' \in Seq(Notices) /\ current' \subseteq Notices
    BY DEF Ordered, NoticesInOrder
<1>2. noticeTimer' \in BOOLEAN /\ (noticeTimer' <=> current' # {})
    OBVIOUS
<1>3. ScreenIsShared'
    BY <1>2 DEF ScreenIsShared
<1>4. ReminderTypeOK'
    BY <1>1, <1>2 DEF ReminderTypeOK, Notices
<1>5. QED
    BY <1>1, <1>3, <1>4 DEF ReminderInv, NoticesAreShown

-----------------------------------------------------------------------------
(* The invariant.                                                            *)

LEMMA ReminderInvInit == ReminderInit => ReminderInv
<1> SUFFICES ASSUME ReminderInit PROVE ReminderInv
    OBVIOUS
<1>1. Ordered(queue, current, noticesAsked)
    BY DEF ReminderInit, Ordered
<1>2. ReminderTypeOK
    <2>1. 0 \in 0..MaxNotices /\ 0 \in 0..MaxAlerts
        BY ReminderAssumption
    <2>2. QED
        BY <1>1, <2>1, OrderedIsInOrder DEF ReminderInit, ReminderTypeOK
<1>3. ScreenIsShared /\ OneIsShown
    BY DEF ReminderInit, ScreenIsShared, OneIsShown
<1>4. QED
    BY <1>1, <1>2, <1>3, OrderedIsInOrder DEF ReminderInv, NoticesAreShown

LEMMA NotifyKeepsInv == ReminderInv /\ notify => ReminderInv'
<1> SUFFICES ASSUME ReminderInv, notify PROVE ReminderInv'
    OBVIOUS
<1> DEFINE notice == [id |-> noticesAsked + 1, left |-> NoticeSeconds]
<1>1. /\ noticesAsked \in 0..MaxNotices /\ noticesAsked < MaxNotices
      /\ noticesAsked' = noticesAsked + 1
      /\ processNext(Append(queue, notice), current, colorful)
      /\ UNCHANGED <<colorful, endingTimer, alerts>>
    BY DEF notify, ReminderInv, ReminderTypeOK
<1>2. notice \in Notices /\ notice.id = noticesAsked + 1
    BY <1>1, ReminderAssumption DEF Notices
<1>3. noticesAsked \in Nat /\ noticesAsked' \in Nat /\ noticesAsked' \in 0..MaxNotices
    BY <1>1, ReminderAssumption
<1> HIDE DEF notice
<1>4. Ordered(Append(queue, notice), current, noticesAsked')
    BY <1>1, <1>2, <1>3, NewNoticeIsLast DEF ReminderInv
<1>5. (\A n, m \in current : n = m) /\ (current # {} => colorful = "none")
    BY DEF ReminderInv, OneIsShown, NoticesAreShown, ScreenIsShared
<1>6. /\ Ordered(queue', current', noticesAsked') /\ OneIsShown'
      /\ current' # {} => colorful = "none"
      /\ queue' # <<>> => current' # {} \/ colorful # "none"
      /\ noticeTimer' = (current' # {})
    BY <1>1, <1>3, <1>4, <1>5, NextIsShown
<1>7. /\ colorful \in {"none", "timed", "lasts"} /\ endingTimer \in BOOLEAN
      /\ endingTimer <=> (colorful = "timed")
      /\ alerts \in 0..MaxAlerts
    BY DEF ReminderInv, ReminderTypeOK, NoticesAreShown, ScreenIsShared
<1>8. QED
    BY <1>1, <1>3, <1>6, <1>7, ScreenMakesInv

\* The notice that is shown ends, or the alert does: the next notice comes.
LEMMA NextKeepsInv ==
    ASSUME ReminderInv, NEW now, NEW alert,
           Ordered(queue, now, noticesAsked), \A n, m \in now : n = m,
           now # {} => alert = "none", processNext(queue, now, alert),
           colorful' = alert, alert \in {"none", "timed", "lasts"},
           endingTimer' \in BOOLEAN, endingTimer' <=> (alert = "timed"),
           UNCHANGED <<noticesAsked, alerts>>
    PROVE  ReminderInv'
<1>1. noticesAsked \in 0..MaxNotices /\ noticesAsked \in Nat /\ alerts \in 0..MaxAlerts
    BY ReminderAssumption DEF ReminderInv, ReminderTypeOK
<1>2. /\ Ordered(queue', current', noticesAsked) /\ OneIsShown'
      /\ current' # {} => alert = "none"
      /\ queue' # <<>> => current' # {} \/ alert # "none"
      /\ noticeTimer' = (current' # {})
    BY <1>1, NextIsShown
<1>3. QED
    BY <1>1, <1>2, ScreenMakesInv

LEMMA NobodyIsShown ==
    ASSUME ReminderInv
    PROVE  Ordered(queue, {}, noticesAsked)
BY DEF ReminderInv, Ordered

LEMMA CloseKeepsInv ==
    ASSUME ReminderInv, processNext(queue, {}, colorful),
           UNCHANGED <<colorful, endingTimer, noticesAsked, alerts>>
    PROVE  ReminderInv'
<1>1. /\ colorful \in {"none", "timed", "lasts"} /\ endingTimer \in BOOLEAN
      /\ endingTimer <=> (colorful = "timed")
    BY DEF ReminderInv, ReminderTypeOK, NoticesAreShown, ScreenIsShared
<1>2. QED
    BY <1>1, NobodyIsShown, NextKeepsInv

LEMMA TickKeepsInv == ReminderInv /\ NoticeTick => ReminderInv'
<1> SUFFICES ASSUME ReminderInv, NoticeTick PROVE ReminderInv'
    OBVIOUS
<1>1. PICK notice \in current :
          IF notice.left <= 1 THEN processNext(queue, {}, colorful)
          ELSE /\ current' = {[notice EXCEPT !.left = @ - 1]}
               /\ UNCHANGED <<queue, noticeTimer>>
    BY DEF NoticeTick
<1>2. noticeTimer /\ UNCHANGED <<colorful, endingTimer, noticesAsked, alerts>>
    BY DEF NoticeTick
<1>3. CASE notice.left <= 1
    BY <1>1, <1>2, <1>3, CloseKeepsInv
<1>4. CASE ~(notice.left <= 1)
    <2> DEFINE rest == [notice EXCEPT !.left = @ - 1]
    <2>1. notice \in Notices
        BY <1>1 DEF ReminderInv, ReminderTypeOK
    <2>2. rest \in Notices /\ rest.id = notice.id
        BY <1>4, <2>1, ReminderAssumption DEF Notices
    <2>3. current' = {rest} /\ UNCHANGED <<queue, noticeTimer>>
        BY <1>1, <1>4
    <2> HIDE DEF rest
    <2>4. Ordered(queue, {rest}, noticesAsked)
        BY <1>1, <2>2 DEF ReminderInv, Ordered
    <2>5. /\ colorful \in {"none", "timed", "lasts"} /\ endingTimer \in BOOLEAN
          /\ endingTimer <=> (colorful = "timed")
          /\ noticesAsked \in 0..MaxNotices /\ alerts \in 0..MaxAlerts
        BY DEF ReminderInv, ReminderTypeOK, NoticesAreShown, ScreenIsShared
    <2>6. current # {} /\ colorful = "none" /\ noticeTimer = TRUE
        BY <1>1, <1>2 DEF ReminderInv, NoticesAreShown, ScreenIsShared, ReminderTypeOK
    <2>7. QED
        BY <1>2, <2>3, <2>4, <2>5, <2>6, ScreenMakesInv DEF OneIsShown
<1>5. QED
    BY <1>3, <1>4

LEMMA ClearKeepsInv == ReminderInv /\ clearAllNotices => ReminderInv'
<1> SUFFICES ASSUME ReminderInv, clearAllNotices PROVE ReminderInv'
    OBVIOUS
<1>1. /\ queue' = <<>> /\ current' = {} /\ noticeTimer' = FALSE
      /\ UNCHANGED <<colorful, endingTimer, noticesAsked, alerts>>
    BY DEF clearAllNotices
<1>2. /\ colorful \in {"none", "timed", "lasts"} /\ endingTimer \in BOOLEAN
      /\ endingTimer <=> (colorful = "timed")
      /\ noticesAsked \in 0..MaxNotices /\ alerts \in 0..MaxAlerts
    BY DEF ReminderInv, ReminderTypeOK, NoticesAreShown, ScreenIsShared
<1>3. Ordered(<<>>, {}, noticesAsked)
    BY DEF Ordered
<1>4. QED
    BY <1>1, <1>2, <1>3, ScreenMakesInv DEF OneIsShown

LEMMA ShowKeepsInv ==
    ASSUME ReminderInv, NEW lasts \in BOOLEAN, showColorfulAlert(lasts)
    PROVE  ReminderInv'
<1>1. /\ alerts' = alerts + 1 /\ alerts < MaxAlerts
      /\ current' = {} /\ noticeTimer' = FALSE
      /\ colorful' = (IF lasts THEN "lasts" ELSE "timed") /\ endingTimer' = ~lasts
      /\ UNCHANGED noticesAsked
    BY DEF showColorfulAlert
<1>2. /\ noticesAsked \in 0..MaxNotices /\ noticesAsked \in Nat
      /\ alerts' \in 0..MaxAlerts
    BY <1>1, ReminderAssumption DEF ReminderInv, ReminderTypeOK
<1>3. Ordered(queue', {}, noticesAsked)
    <2>1. CASE current = {}
        BY <2>1, NobodyIsShown DEF showColorfulAlert
    <2>2. CASE current # {}
        <3>1. PICK notice \in current : queue' = <<notice>> \o queue
            BY <2>2 DEF showColorfulAlert
        <3>2. current = {notice}
            BY <3>1 DEF ReminderInv, OneIsShown
        <3>3. Ordered(queue, {notice}, noticesAsked)
            BY <3>2 DEF ReminderInv
        <3>4. QED
            BY <1>2, <3>1, <3>3, ShownNoticeGoesBack
    <2>3. QED
        BY <2>1, <2>2
<1>4. /\ colorful' \in {"none", "timed", "lasts"} /\ colorful' # "none"
      /\ endingTimer' \in BOOLEAN /\ (endingTimer' <=> (colorful' = "timed"))
    BY <1>1
<1>5. QED
    BY <1>1, <1>2, <1>3, <1>4, ScreenMakesInv DEF OneIsShown

LEMMA HideKeepsInv == ReminderInv /\ hideColorfulAlert => ReminderInv'
<1> SUFFICES ASSUME ReminderInv, hideColorfulAlert PROVE ReminderInv'
    OBVIOUS
<1>1. /\ colorful' = "none" /\ endingTimer' = FALSE
      /\ processNext(queue, current, "none")
      /\ UNCHANGED <<noticesAsked, alerts>>
    BY DEF hideColorfulAlert
<1>2. Ordered(queue, current, noticesAsked) /\ (\A n, m \in current : n = m)
    BY DEF ReminderInv, OneIsShown
<1>3. QED
    BY <1>1, <1>2, NextKeepsInv

LEMMA ReminderInvNext == ReminderInv /\ [ReminderNext]_reminderVars => ReminderInv'
<1> SUFFICES ASSUME ReminderInv, [ReminderNext]_reminderVars PROVE ReminderInv'
    OBVIOUS
<1>1. CASE notify
    BY <1>1, NotifyKeepsInv
<1>2. CASE closeCurrentNotice
    BY <1>2, CloseKeepsInv DEF closeCurrentNotice
<1>3. CASE NoticeTick
    BY <1>3, TickKeepsInv
<1>4. CASE clearAllNotices
    BY <1>4, ClearKeepsInv
<1>5. CASE \E lasts \in BOOLEAN : showColorfulAlert(lasts)
    BY <1>5, ShowKeepsInv
<1>6. CASE hideColorfulAlert \/ AlertTimeout
    BY <1>6, HideKeepsInv DEF AlertTimeout
<1>7. CASE UNCHANGED reminderVars
    BY <1>7 DEF reminderVars, ReminderInv, ReminderTypeOK, NoticesAreShown, NoticesInOrder,
                ScreenIsShared, Ordered, OneIsShown
<1>8. QED
    BY <1>1, <1>2, <1>3, <1>4, <1>5, <1>6, <1>7 DEF ReminderNext

\* Notices are shown in the order they were asked for, each of them once, and
\* share the screen with alerts (useReminderService), for every number of
\* notices, alerts and seconds.
THEOREM NoticesAreAlwaysShown == ReminderSpec => [](ReminderTypeOK /\ NoticesAreShown)
<1>1. ReminderInv => ReminderTypeOK /\ NoticesAreShown
    BY DEF ReminderInv
<1>2. QED
    BY ReminderInvInit, ReminderInvNext, <1>1, PTL DEF ReminderSpec

-----------------------------------------------------------------------------
(* The sounds of reminders                                                   *)

\* The elements in the cache are in use, each for its kind.
CacheOK ==
    /\ \A k \in SoundKinds : cache[k] # 0 =>
          /\ elements[cache[k]].kind = k
          /\ elements[cache[k]].managed /\ ~elements[cache[k]].retired
    /\ soundDisposed => \A k \in SoundKinds : cache[k] = 0

\* Only an element in the cache sounds, and one at a time.
HeardOK ==
    \A e \in Sounding : e \in Cached /\ \A f \in Sounding : e = f

\* An element that is kept is cached, or retired with a promise to come.
KeptOK ==
    \A e \in 1..Len(elements) : elements[e].managed =>
        e \in Cached \/ (elements[e].retired /\ elements[e].pending > 0)

\* The active request is the one that waits.
ActiveOK ==
    \A r \in 1..Len(plays) : plays[r].outcome = "waiting" <=> r = playing

\* A promise belongs to an element, and no element has two.
PromisesOK ==
    /\ \A e \in 1..Len(elements) : elements[e].pending \in {0, 1}
    /\ \A r \in 1..Len(plays) : plays[r].promised =>
          /\ plays[r].element # 0 /\ elements[plays[r].element].pending = 1
          /\ \A s \in 1..Len(plays) :
                plays[s].promised /\ plays[s].element = plays[r].element => s = r

\* The element of the newest request has no promise of another, so that nobody
\* else silences it; and once the request is answered it has none at all.
NewestOK ==
    \A r \in 1..Len(plays) :
        /\ plays[r].generation <= generation
        /\ plays[r].outcome = "ok" => plays[r].element # 0 /\ ~plays[r].promised
        /\ plays[r].generation = generation =>
              \A s \in 1..Len(plays) :
                 plays[s].promised /\ plays[s].element = plays[r].element => s = r
        /\ plays[r].generation = generation /\ plays[r].outcome = "ok" =>
              elements[plays[r].element].sound # "silent"

SoundInv ==
    SoundTypeOK /\ CacheOK /\ HeardOK /\ KeptOK /\ ActiveOK /\ PromisesOK /\ NewestOK

\* A function on 1..n is a sequence of length n.
LEMMA IsSequence ==
    ASSUME NEW S, NEW n \in Nat, NEW f \in [1..n -> S]
    PROVE  f \in Seq(S) /\ Len(f) = n /\ DOMAIN f = 1..n
<1>1. f \in Seq(S) /\ DOMAIN f = 1..n
    OBVIOUS
<1> QED BY <1>1

\* Append() puts its element last.
LEMMA AppendedLast ==
    ASSUME NEW S, NEW q \in Seq(S), NEW x \in S
    PROVE  /\ Append(q, x) \in Seq(S) /\ Len(Append(q, x)) = Len(q) + 1 /\ Len(q) \in Nat
           /\ Append(q, x)[Len(q) + 1] = x /\ \A i \in 1..Len(q) : Append(q, x)[i] = q[i]
OBVIOUS

\* What the types say of elements and requests, as functions.
LEMMA SoundShape ==
    ASSUME SoundTypeOK
    PROVE  /\ Len(elements) \in Nat /\ DOMAIN elements = 1..Len(elements)
           /\ \A e \in 1..Len(elements) : elements[e] \in ElementStates
           /\ Len(plays) \in Nat /\ DOMAIN plays = 1..Len(plays)
           /\ \A r \in 1..Len(plays) : plays[r] \in RequestStates
           /\ cache \in [SoundKinds -> 0..Len(elements)] /\ generation \in 0..MaxGeneration
           /\ playing \in 0..Len(plays)
BY DEF SoundTypeOK

\* Silencing an element touches its sound alone.
LEMMA SilentElement ==
    ASSUME NEW el \in ElementStates
    PROVE  /\ Silent(el) \in ElementStates /\ Silent(el).sound # "sounding"
           /\ el.sound # "sounding" => Silent(el).sound = el.sound
           /\ Silent(el).kind = el.kind /\ Silent(el).source = el.source
           /\ Silent(el).pending = el.pending /\ Silent(el).retired = el.retired
           /\ Silent(el).managed = el.managed /\ Silent(el).tracked = el.tracked
BY DEF Silent, ElementStates

\* A retired element is silent, and kept only for a promise.
LEMMA RetiredElement ==
    ASSUME NEW el \in ElementStates
    PROVE  /\ Retired(el) \in ElementStates /\ Retired(el).sound # "sounding"
           /\ Retired(el).kind = el.kind /\ Retired(el).pending = el.pending
           /\ Retired(el).retired /\ (Retired(el).managed <=> el.pending > 0)
<1>1. Silent(el) \in ElementStates /\ Silent(el).sound # "sounding" /\ Silent(el).kind = el.kind
      /\ Silent(el).pending = el.pending
    BY SilentElement
<1> DEFINE s == Silent(el)
<1> HIDE DEF s
<1>2. s \in ElementStates /\ s.sound # "sounding" /\ s.kind = el.kind /\ s.pending = el.pending
    BY <1>1 DEF s
<1>3. \A kept \in BOOLEAN :
        /\ [s EXCEPT !.retired = TRUE, !.managed = kept, !.tracked = kept] \in ElementStates
        /\ [s EXCEPT !.retired = TRUE, !.managed = kept, !.tracked = kept].sound = s.sound
        /\ [s EXCEPT !.retired = TRUE, !.managed = kept, !.tracked = kept].kind = s.kind
        /\ [s EXCEPT !.retired = TRUE, !.managed = kept, !.tracked = kept].pending = s.pending
        /\ [s EXCEPT !.retired = TRUE, !.managed = kept, !.tracked = kept].retired = TRUE
        /\ [s EXCEPT !.retired = TRUE, !.managed = kept, !.tracked = kept].managed = kept
    BY <1>2 DEF ElementStates
<1>4. CASE el.pending > 0
    <2>1. (el.pending > 0) = TRUE
        BY <1>4
    <2>2. Retired(el) = [s EXCEPT !.retired = TRUE, !.managed = TRUE, !.tracked = TRUE]
        BY <2>1 DEF Retired, s
    <2> QED BY <1>2, <1>3, <1>4, <2>2
<1>5. CASE ~(el.pending > 0)
    <2>1. (el.pending > 0) = FALSE
        BY <1>5
    <2>2. Retired(el) = [s EXCEPT !.retired = TRUE, !.managed = FALSE, !.tracked = FALSE]
        BY <2>1 DEF Retired, s
    <2> QED BY <1>2, <1>3, <1>5, <2>2
<1> QED BY <1>4, <1>5

\* The active request gets the reason for its outcome; nothing else changes.
LEMMA InvalidatedRequests ==
    ASSUME SoundTypeOK, NEW reason \in Outcomes
    PROVE  /\ Invalidated(reason) \in Seq(RequestStates)
           /\ Len(Invalidated(reason)) = Len(plays)
           /\ \A r \in 1..Len(plays) :
                 /\ Invalidated(reason)[r].outcome = IF r = playing THEN reason ELSE plays[r].outcome
                 /\ Invalidated(reason)[r].element = plays[r].element
                 /\ Invalidated(reason)[r].generation = plays[r].generation
                 /\ Invalidated(reason)[r].promised = plays[r].promised
<1> DEFINE f == Invalidated(reason)
<1>1. /\ Len(plays) \in Nat /\ DOMAIN plays = 1..Len(plays)
      /\ \A r \in 1..Len(plays) : plays[r] \in RequestStates
    BY SoundShape
<1>2. f = [r \in 1..Len(plays) |-> IF r = playing THEN [plays[r] EXCEPT !.outcome = reason]
                                                     ELSE plays[r]]
    BY <1>1 DEF Invalidated
<1>3. \A r \in 1..Len(plays) : [plays[r] EXCEPT !.outcome = reason] \in RequestStates
    BY <1>1 DEF RequestStates
<1>4. f \in [1..Len(plays) -> RequestStates]
    BY <1>1, <1>2, <1>3
<1> HIDE DEF f
<1>5. f \in Seq(RequestStates) /\ Len(f) = Len(plays)
    BY <1>1, <1>4, IsSequence
<1>6. ASSUME NEW r \in 1..Len(plays)
      PROVE  /\ f[r].outcome = IF r = playing THEN reason ELSE plays[r].outcome
             /\ f[r].element = plays[r].element
             /\ f[r].generation = plays[r].generation /\ f[r].promised = plays[r].promised
    BY <1>1, <1>2 DEF RequestStates
<1> QED BY <1>5, <1>6 DEF f

\* The next generation begins with a request: it is the newest, and the active
\* one if it waits.
LEMMA NextRequest ==
    ASSUME SoundTypeOK, NEW k \in SoundKinds, NEW e \in 0..Len(elements'), NEW outcome \in Outcomes,
           Len(elements') \in Nat, Len(elements') >= Len(elements), NextGeneration,
           plays' = Append(Invalidated("superseded"), Request(k, e, outcome))
    PROVE  /\ plays' \in Seq(RequestStates') /\ Len(plays') = Len(plays) + 1
           /\ \A r \in 1..Len(plays) :
                 /\ plays'[r].outcome = IF r = playing THEN "superseded" ELSE plays[r].outcome
                 /\ plays'[r].element = plays[r].element
                 /\ plays'[r].generation = plays[r].generation
                 /\ plays'[r].promised = plays[r].promised
           /\ plays'[Len(plays) + 1] = Request(k, e, outcome)
<1> DEFINE inv == Invalidated("superseded")
<1>1. /\ inv \in Seq(RequestStates) /\ Len(inv) = Len(plays) /\ Len(plays) \in Nat
    BY InvalidatedRequests, SoundShape DEF Outcomes
<1>2. RequestStates \subseteq RequestStates'
    BY SoundShape DEF RequestStates
<1>3. Request(k, e, outcome) \in RequestStates'
    BY SoundShape, SoundAssumption DEF Request, RequestStates, NextGeneration
<1>4. inv \in Seq(RequestStates')
    <2>1. \A i \in 1..Len(inv) : inv[i] \in RequestStates'
        BY <1>1, <1>2
    <2>2. inv \in [1..Len(inv) -> RequestStates']
        BY <1>1, <2>1
    <2> QED BY <1>1, <2>2, IsSequence
<1>5. \A r \in 1..Len(plays) :
        /\ inv[r].outcome = IF r = playing THEN "superseded" ELSE plays[r].outcome
        /\ inv[r].element = plays[r].element
        /\ inv[r].generation = plays[r].generation /\ inv[r].promised = plays[r].promised
    BY InvalidatedRequests DEF Outcomes
<1> HIDE DEF inv
<1>6. plays' = Append(inv, Request(k, e, outcome))
    BY DEF inv
<1>7. /\ plays' \in Seq(RequestStates') /\ Len(plays') = Len(plays) + 1
      /\ plays'[Len(plays) + 1] = Request(k, e, outcome)
      /\ \A r \in 1..Len(plays) : plays'[r] = inv[r]
    <2> DEFINE S == RequestStates'
               x == Request(k, e, outcome)
    <2>1. x \in S /\ inv \in Seq(S)
        BY <1>3, <1>4
    <2> HIDE DEF S, x
    <2>2. /\ Append(inv, x) \in Seq(S) /\ Len(Append(inv, x)) = Len(inv) + 1
          /\ Append(inv, x)[Len(inv) + 1] = x /\ \A i \in 1..Len(inv) : Append(inv, x)[i] = inv[i]
        BY <2>1, AppendedLast
    <2> QED BY <1>1, <1>6, <2>2 DEF S, x
<1> QED BY <1>5, <1>7

\* A request that plays nothing supersedes what there is; the elements keep
\* their promises.
LEMMA RefusalKeeps ==
    ASSUME SoundInv, NEW k \in SoundKinds, NEW outcome \in {"disabled", "playback-error"},
           NextGeneration, Refuse(k, outcome), Len(elements') = Len(elements),
           \A e \in 1..Len(elements) : elements'[e].pending = elements[e].pending
    PROVE  (ActiveOK /\ PromisesOK /\ NewestOK)' /\ plays' \in Seq(RequestStates') /\ playing' = 0
<1>1. /\ plays' \in Seq(RequestStates') /\ Len(plays') = Len(plays) + 1
      /\ \A r \in 1..Len(plays) :
            /\ plays'[r].outcome = IF r = playing THEN "superseded" ELSE plays[r].outcome
            /\ plays'[r].element = plays[r].element
            /\ plays'[r].generation = plays[r].generation
            /\ plays'[r].promised = plays[r].promised
      /\ plays'[Len(plays) + 1] = Request(k, 0, outcome)
      /\ Len(plays) \in Nat /\ generation \in Nat
    <2>1. SoundTypeOK /\ Len(elements') \in Nat /\ Len(elements') >= Len(elements)
          /\ 0 \in 0..Len(elements') /\ outcome \in Outcomes
        BY SoundShape DEF SoundInv, Outcomes
    <2>2. plays' = Append(Invalidated("superseded"), Request(k, 0, outcome))
        BY DEF Refuse
    <2>3. Len(plays) \in Nat /\ generation \in Nat
        BY SoundShape DEF SoundInv
    <2> QED BY <2>1, <2>2, <2>3, NextRequest
<1>2. LET new == plays'[Len(plays) + 1]
      IN  new.element = 0 /\ new.outcome = outcome /\ new.generation = generation' /\ ~new.promised
    <2>1. generation' = generation + 1 /\ (outcome = "waiting") = FALSE
        BY DEF NextGeneration
    <2>2. Request(k, 0, outcome) = [kind |-> k, element |-> 0, outcome |-> outcome,
                                    generation |-> generation + 1, promised |-> FALSE]
        BY <2>1 DEF Request
    <2> QED BY <1>1, <2>1, <2>2
<1>3. \A r \in 1..Len(plays') : r \in 1..Len(plays) \/ r = Len(plays) + 1
    BY <1>1
<1>4. ActiveOK'
    BY <1>1, <1>2, <1>3 DEF SoundInv, ActiveOK, Refuse
<1>5. PromisesOK'
    <2>1. \A r \in 1..Len(plays) : plays[r].promised =>
            plays[r].element \in 1..Len(elements)
        BY SoundShape DEF SoundInv, PromisesOK, RequestStates
    <2>2. \A r \in 1..Len(plays') : plays'[r].promised => r \in 1..Len(plays)
        BY <1>2, <1>3
    <2>3. \A r \in 1..Len(plays) : plays'[r].promised =>
            /\ plays'[r].element # 0 /\ elements'[plays'[r].element].pending = 1
            /\ \A s \in 1..Len(plays) :
                  plays'[s].promised /\ plays'[s].element = plays'[r].element => s = r
        <3>1. TAKE r \in 1..Len(plays)
        <3>2. HAVE plays'[r].promised
        <3>3. plays[r].promised /\ plays'[r].element = plays[r].element
            BY <1>1, <3>2
        <3>4. plays[r].element \in 1..Len(elements) /\ elements[plays[r].element].pending = 1
            BY <2>1, <3>3 DEF SoundInv, PromisesOK
        <3>5. \A s \in 1..Len(plays) :
                plays'[s].promised /\ plays'[s].element = plays'[r].element => s = r
            BY <1>1, <3>3 DEF SoundInv, PromisesOK
        <3> QED BY <3>3, <3>4, <3>5
    <2> QED BY <2>2, <2>3 DEF SoundInv, PromisesOK
<1>6. NewestOK'
    <2>1. \A r \in 1..Len(plays) : plays[r].generation < generation'
        <3>1. \A r \in 1..Len(plays) : plays[r].generation \in Nat /\ plays[r].generation <= generation
            <4>1. \A r \in 1..Len(plays) : plays[r].generation \in 1..MaxGeneration
                BY SoundShape DEF SoundInv, RequestStates
            <4>2. 1..MaxGeneration \subseteq Nat
                OBVIOUS
            <4> QED BY <4>1, <4>2 DEF SoundInv, NewestOK
        <3>2. generation' = generation + 1
            BY DEF NextGeneration
        <3> QED BY <1>1, <3>1, <3>2
    <2>2. \A r \in 1..Len(plays) : plays'[r].outcome = "ok" =>
            plays'[r].element # 0 /\ ~plays'[r].promised
        BY <1>1 DEF SoundInv, NewestOK
    <2>3. \A r \in 1..Len(plays) : plays[r].promised => plays[r].element # 0
        BY DEF SoundInv, PromisesOK
    <2>4. generation' \in Nat /\ \A r \in 1..Len(plays) : plays[r].generation \in Nat
        BY <1>1, SoundShape DEF SoundInv, RequestStates, NextGeneration
    <2> QED BY <1>1, <1>2, <1>3, <2>1, <2>2, <2>3, <2>4, SMTT(30) DEF NewestOK
<1> QED BY <1>1, <1>4, <1>5, <1>6 DEF Refuse

\* With the switches off a request only supersedes.
LEMMA DisabledKeeps ==
    ASSUME SoundInv, NEW k \in SoundKinds, Disabled(k)
    PROVE  SoundInv'
<1>1. UNCHANGED <<selected, elements, cache, soundDisposed>> /\ NextGeneration /\ Refuse(k, "disabled")
    BY DEF Disabled
<1>2. (ActiveOK /\ PromisesOK /\ NewestOK)' /\ plays' \in Seq(RequestStates') /\ playing' = 0
    BY <1>1, RefusalKeeps
<1>3. SoundTypeOK'
    BY <1>1, <1>2, SoundShape, SoundAssumption DEF SoundInv, SoundTypeOK, NextGeneration
<1>4. (CacheOK /\ HeardOK /\ KeptOK)'
    BY <1>1 DEF SoundInv, CacheOK, HeardOK, KeptOK, Cached, Sounding
<1> QED BY <1>2, <1>3, <1>4 DEF SoundInv

\* An element that cannot be loaded leaves at most the retired one behind.
LEMMA LoadFailsKeeps ==
    ASSUME SoundInv, NEW k \in SoundKinds, LoadFails(k)
    PROVE  SoundInv'
<1> DEFINE old == cache[k]
<1>1. /\ UNCHANGED <<selected, soundDisposed>> /\ NextGeneration /\ Refuse(k, "playback-error")
      /\ ~soundDisposed
    BY DEF LoadFails
<1>2. CASE UNCHANGED <<elements, cache>>
    <2>1. (ActiveOK /\ PromisesOK /\ NewestOK)' /\ plays' \in Seq(RequestStates') /\ playing' = 0
        BY <1>1, <1>2, RefusalKeeps
    <2>2. SoundTypeOK'
        BY <1>1, <1>2, <2>1, SoundShape, SoundAssumption DEF SoundInv, SoundTypeOK, NextGeneration
    <2>3. (CacheOK /\ HeardOK /\ KeptOK)'
        BY <1>1, <1>2 DEF SoundInv, CacheOK, HeardOK, KeptOK, Cached, Sounding
    <2> QED BY <2>1, <2>2, <2>3 DEF SoundInv
<1>3. CASE /\ Outdated(k) /\ elements' = [elements EXCEPT ![old] = Retired(@)]
           /\ cache' = [cache EXCEPT ![k] = 0]
    <2>1. /\ Len(elements) \in Nat /\ \A e \in 1..Len(elements) : elements[e] \in ElementStates
          /\ DOMAIN elements = 1..Len(elements) /\ cache \in [SoundKinds -> 0..Len(elements)]
        BY SoundShape DEF SoundInv
    <2>2. old \in 1..Len(elements)
        BY <1>3, <2>1 DEF Outdated
    <2>3. /\ elements' \in [1..Len(elements) -> ElementStates]
          /\ elements'[old] = Retired(elements[old])
          /\ \A e \in 1..Len(elements) : e # old => elements'[e] = elements[e]
        <3>1. Retired(elements[old]) \in ElementStates
            BY <2>1, <2>2, RetiredElement
        <3>2. elements \in [1..Len(elements) -> ElementStates]
            BY <2>1 DEF SoundInv, SoundTypeOK
        <3> QED BY <1>3, <2>2, <3>1, <3>2
    <2>4. elements' \in Seq(ElementStates) /\ Len(elements') = Len(elements)
        BY <2>1, <2>3, IsSequence
    <2>5. /\ elements'[old].sound # "sounding" /\ elements'[old].pending = elements[old].pending
          /\ elements'[old].retired /\ (elements'[old].managed <=> elements[old].pending > 0)
        BY <2>1, <2>2, <2>3, RetiredElement
    <2>6. (ActiveOK /\ PromisesOK /\ NewestOK)' /\ plays' \in Seq(RequestStates') /\ playing' = 0
        BY <1>1, <2>3, <2>4, <2>5, RefusalKeeps
    <2>7. cache' \in [SoundKinds -> 0..Len(elements)] /\ cache'[k] = 0
          /\ \A j \in SoundKinds : j # k => cache'[j] = cache[j]
        BY <1>3, <2>1
    <2>8. SoundTypeOK'
        BY <1>1, <2>4, <2>6, <2>7, SoundShape, SoundAssumption DEF SoundInv, SoundTypeOK, NextGeneration
    <2>9. \A j \in SoundKinds : j # k /\ cache[j] # 0 => cache[j] # old
        BY <2>2 DEF SoundInv, CacheOK
    <2>10. CacheOK'
        BY <1>1, <2>1, <2>3, <2>7, <2>9 DEF SoundInv, CacheOK
    <2>11. \A e \in Sounding' : e \in Sounding /\ e # old
        BY <2>1, <2>3, <2>4, <2>5 DEF Sounding
    <2>12. \A e \in Cached : e # old => e \in Cached'
        BY <2>7 DEF Cached
    <2>13. HeardOK'
        BY <2>11, <2>12 DEF SoundInv, HeardOK
    <2>14. KeptOK'
        BY <2>1, <2>3, <2>4, <2>5, <2>12 DEF SoundInv, KeptOK
    <2> QED BY <2>6, <2>8, <2>10, <2>13, <2>14 DEF SoundInv
<1> QED BY <1>2, <1>3 DEF LoadFails

\* What begin() does to the elements: the one it plays is idle or new, and
\* nothing in the cache sounds but that one.
LEMMA BegunElements ==
    ASSUME SoundInv, NEW k \in SoundKinds, begin(k)
    PROVE  \E e \in 1..Len(elements') :
             /\ elements' \in Seq(ElementStates) /\ Len(elements') \in {Len(elements), Len(elements) + 1}
             /\ e <= Len(elements) => e = cache[k] /\ elements[e].pending = 0
             /\ \A n \in 1..Len(elements') : n \in 1..Len(elements) \/ n = e
             /\ elements'[e].kind = k /\ elements'[e].managed /\ ~elements'[e].retired
             /\ elements'[e].pending = 1 /\ elements'[e].sound = "sounding"
             /\ \A n \in 1..Len(elements) : n # e =>
                  /\ elements'[n].pending = elements[n].pending
                  /\ n \notin Cached => elements'[n] = elements[n]
                  /\ n \in Cached => elements'[n].sound # "sounding"
                  /\ n \in Cached /\ n # cache[k] =>
                       /\ elements'[n].kind = elements[n].kind
                       /\ elements'[n].managed = elements[n].managed
                       /\ elements'[n].retired = elements[n].retired
                  /\ n = cache[k] =>
                       elements'[n].retired /\ (elements'[n].managed <=> elements[n].pending > 0)
             /\ cache' = [cache EXCEPT ![k] = e]
             /\ plays' = Append(Invalidated("superseded"), Request(k, e, "waiting"))
             /\ playing' = Len(plays) + 1
             /\ NextGeneration /\ ~soundDisposed /\ UNCHANGED <<selected, soundDisposed>>
<1> DEFINE old  == cache[k]
           keep == old # 0 /\ ~Outdated(k)
           made == IF keep THEN elements ELSE Append(elements, Element(k, selected))
           it    == IF keep THEN old ELSE Len(made)
           played == [made[it] EXCEPT !.sound = "sounding", !.pending = @ + 1]
<1>1. /\ Len(elements) \in Nat /\ \A n \in 1..Len(elements) : elements[n] \in ElementStates
      /\ elements \in Seq(ElementStates) /\ old \in 0..Len(elements) /\ selected \in Sources
      /\ cache \in [SoundKinds -> 0..Len(elements)]
    BY SoundShape DEF SoundInv, SoundTypeOK
<1>2. /\ elements' = [n \in DOMAIN made |->
                        CASE n = it -> played
                          [] n = old /\ n # it         -> Retired(made[n])
                          [] n \in Cached \ {it, old}  -> Silent(made[n])
                          [] OTHER                    -> made[n]]
      /\ cache' = [cache EXCEPT ![k] = it]
      /\ plays' = Append(Invalidated("superseded"), Request(k, it, "waiting"))
      /\ playing' = Len(plays) + 1
      /\ NextGeneration /\ ~soundDisposed /\ UNCHANGED <<selected, soundDisposed>>
    BY DEF begin
<1>3. /\ made \in Seq(ElementStates) /\ Len(made) \in {Len(elements), Len(elements) + 1}
      /\ \A n \in 1..Len(elements) : made[n] = elements[n]
      /\ it \in 1..Len(made) /\ \A n \in 1..Len(made) : n \in 1..Len(elements) \/ n = it
      /\ it <= Len(elements) => it = old
      /\ made[it].pending = 0 /\ made[it].kind = k /\ made[it].managed /\ ~made[it].retired
    <2>1. CASE keep
        <3>1. made = elements /\ it = old /\ old # 0 /\ ~Outdated(k)
            BY <2>1
        <3>2. elements[old].pending = 0
            BY <1>1, <3>1 DEF Outdated, Busy, ElementStates
        <3>3. elements[old].kind = k /\ elements[old].managed /\ ~elements[old].retired
            BY <3>1 DEF SoundInv, CacheOK
        <3> QED BY <1>1, <3>1, <3>2, <3>3
    <2>2. CASE ~keep
        <3> DEFINE x == Element(k, selected)
        <3>1. /\ x \in ElementStates /\ x.pending = 0 /\ x.kind = k /\ x.managed /\ ~x.retired
            BY <1>1 DEF Element, ElementStates
        <3>2. made = Append(elements, x) /\ it = Len(made)
            BY <2>2
        <3> HIDE DEF x, made, it
        <3>3. /\ made \in Seq(ElementStates) /\ Len(made) = Len(elements) + 1
              /\ made[Len(elements) + 1] = x /\ \A n \in 1..Len(elements) : made[n] = elements[n]
            BY <1>1, <3>1, <3>2, AppendedLast
        <3> QED BY <1>1, <3>1, <3>2, <3>3
    <2> QED BY <2>1, <2>2
<1> HIDE DEF made, it
<1>4. /\ DOMAIN made = 1..Len(made) /\ Len(made) \in Nat
      /\ \A n \in 1..Len(made) : made[n] \in ElementStates
    BY <1>1, <1>3
<1>5. /\ played \in ElementStates /\ played.sound = "sounding" /\ played.pending = 1
      /\ played.kind = k /\ played.managed /\ ~played.retired
    <2>1. made[it] \in ElementStates /\ made[it].pending = 0
        BY <1>3, <1>4
    <2> DEFINE m == made[it]
    <2>2. played = [m EXCEPT !.sound = "sounding", !.pending = 1]
        BY <2>1
    <2>3. m \in ElementStates /\ m.kind = k /\ m.managed /\ ~m.retired
        BY <1>3, <2>1
    <2> HIDE DEF m, played
    <2> QED BY <2>2, <2>3 DEF ElementStates
<1> HIDE DEF played
<1>6. \A n \in 1..Len(made) : Retired(made[n]) \in ElementStates /\ Silent(made[n]) \in ElementStates
    BY <1>4, RetiredElement, SilentElement
<1>7. elements' \in [1..Len(made) -> ElementStates]
    BY <1>2, <1>5, <1>4, <1>6
<1>8. elements' \in Seq(ElementStates) /\ Len(elements') = Len(made)
    BY <1>4, <1>7, IsSequence
<1>9. elements'[it] = played
    BY <1>2, <1>3, <1>4
<1>10. ASSUME NEW n \in 1..Len(elements), n # it
       PROVE  /\ elements'[n].pending = elements[n].pending
              /\ n \notin Cached => elements'[n] = elements[n]
              /\ n \in Cached => elements'[n].sound # "sounding"
              /\ n \in Cached /\ n # old =>
                   /\ elements'[n].kind = elements[n].kind
                   /\ elements'[n].managed = elements[n].managed
                   /\ elements'[n].retired = elements[n].retired
              /\ n = old =>
                   elements'[n].retired /\ (elements'[n].managed <=> elements[n].pending > 0)
    <2>1. n \in DOMAIN made /\ made[n] = elements[n] /\ elements[n] \in ElementStates
        <3>1. n \in 1..Len(made)
            BY <1>1, <1>3
        <3> QED BY <1>1, <1>3, <1>4, <3>1
    <2>2. CASE n = old
        <3>1. elements'[n] = Retired(elements[n]) /\ n \in Cached
            BY <1>2, <1>10, <2>1, <2>2 DEF Cached
        <3> QED BY <2>1, <2>2, <3>1, RetiredElement
    <2>3. CASE n # old /\ n \in Cached
        <3>1. elements'[n] = Silent(elements[n])
            BY <1>2, <1>10, <2>1, <2>3
        <3> QED BY <2>1, <2>3, <3>1, SilentElement
    <2>4. CASE n # old /\ n \notin Cached
        <3>1. elements'[n] = elements[n]
            BY <1>2, <1>10, <2>1, <2>4
        <3> QED BY <2>4, <3>1
    <2> QED BY <2>2, <2>3, <2>4
<1>11. it <= Len(elements) => it = old /\ elements[it].pending = 0
    BY <1>1, <1>3
<1> it \in 1..Len(elements')
    BY <1>3, <1>8
<1> WITNESS it \in 1..Len(elements')
<1> QED BY <1>2, <1>3, <1>5, <1>8, <1>9, <1>10, <1>11

\* begin() makes a newest request, whose element alone sounds.
LEMMA beginKeeps ==
    ASSUME SoundInv, NEW k \in SoundKinds, begin(k)
    PROVE  SoundInv'
<1>1. PICK e \in 1..Len(elements') :
             /\ elements' \in Seq(ElementStates) /\ Len(elements') \in {Len(elements), Len(elements) + 1}
             /\ e <= Len(elements) => e = cache[k] /\ elements[e].pending = 0
             /\ \A n \in 1..Len(elements') : n \in 1..Len(elements) \/ n = e
             /\ elements'[e].kind = k /\ elements'[e].managed /\ ~elements'[e].retired
             /\ elements'[e].pending = 1 /\ elements'[e].sound = "sounding"
             /\ \A n \in 1..Len(elements) : n # e =>
                  /\ elements'[n].pending = elements[n].pending
                  /\ n \notin Cached => elements'[n] = elements[n]
                  /\ n \in Cached => elements'[n].sound # "sounding"
                  /\ n \in Cached /\ n # cache[k] =>
                       /\ elements'[n].kind = elements[n].kind
                       /\ elements'[n].managed = elements[n].managed
                       /\ elements'[n].retired = elements[n].retired
                  /\ n = cache[k] =>
                       elements'[n].retired /\ (elements'[n].managed <=> elements[n].pending > 0)
             /\ cache' = [cache EXCEPT ![k] = e]
             /\ plays' = Append(Invalidated("superseded"), Request(k, e, "waiting"))
             /\ playing' = Len(plays) + 1
             /\ NextGeneration /\ ~soundDisposed /\ UNCHANGED <<selected, soundDisposed>>
    BY BegunElements
<1>2. /\ Len(elements) \in Nat /\ Len(elements') \in Nat /\ Len(elements') >= Len(elements)
      /\ cache \in [SoundKinds -> 0..Len(elements)]
      /\ Len(plays) \in Nat /\ generation \in Nat
      /\ \A n \in 1..Len(elements) : elements[n] \in ElementStates
    BY <1>1, SoundShape DEF SoundInv
<1>3. /\ plays' \in Seq(RequestStates') /\ Len(plays') = Len(plays) + 1
      /\ \A r \in 1..Len(plays) :
            /\ plays'[r].outcome = IF r = playing THEN "superseded" ELSE plays[r].outcome
            /\ plays'[r].element = plays[r].element
            /\ plays'[r].generation = plays[r].generation
            /\ plays'[r].promised = plays[r].promised
      /\ plays'[Len(plays) + 1] = Request(k, e, "waiting")
    <2>1. e \in 0..Len(elements') /\ "waiting" \in Outcomes /\ SoundTypeOK
        BY <1>1, <1>2 DEF Outcomes, SoundInv
    <2> QED BY <1>1, <1>2, <2>1, NextRequest, SMTT(30)
<1>4. LET new == plays'[Len(plays) + 1]
      IN  new.element = e /\ new.outcome = "waiting" /\ new.generation = generation' /\ new.promised
    <2>1. generation' = generation + 1
        BY <1>1 DEF NextGeneration
    <2>2. Request(k, e, "waiting") = [kind |-> k, element |-> e, outcome |-> "waiting",
                                      generation |-> generation + 1, promised |-> TRUE]
        BY DEF Request
    <2> QED BY <1>3, <2>1, <2>2
<1>5. \A r \in 1..Len(plays') : r \in 1..Len(plays) \/ r = Len(plays) + 1
    BY <1>2, <1>3
<1>6. SoundTypeOK'
    <2>1. cache' \in [SoundKinds -> 0..Len(elements')]
        BY <1>1, <1>2
    <2> QED BY <1>1, <1>2, <1>3, <2>1, SoundShape, SoundAssumption DEF SoundInv, SoundTypeOK, NextGeneration
<1>7. cache'[k] = e /\ \A j \in SoundKinds : j # k => cache'[j] = cache[j]
    BY <1>1, <1>2
<1>8. \A j \in SoundKinds : j # k /\ cache[j] # 0 =>
        cache[j] \in 1..Len(elements) /\ cache[j] \in Cached /\ cache[j] # cache[k] /\ cache[j] # e
    <2>1. TAKE j \in SoundKinds
    <2>2. HAVE j # k /\ cache[j] # 0
    <2>3. cache[j] \in 1..Len(elements) /\ cache[j] \in Cached
        BY <1>2, <2>2 DEF Cached
    <2>4. cache[j] # cache[k]
        BY <2>2 DEF SoundInv, CacheOK
    <2> QED BY <1>1, <2>3, <2>4
<1>9. CacheOK'
    <2>1. ASSUME NEW j \in SoundKinds, cache'[j] # 0
          PROVE  elements'[cache'[j]].kind = j /\ elements'[cache'[j]].managed
                 /\ ~elements'[cache'[j]].retired
        <3>1. CASE j = k
            BY <1>1, <1>7, <3>1
        <3>2. CASE j # k
            <4>1. cache'[j] = cache[j] /\ cache[j] # 0
                BY <1>7, <2>1, <3>2
            <4>2. /\ cache[j] \in 1..Len(elements) /\ cache[j] \in Cached
                  /\ cache[j] # cache[k] /\ cache[j] # e
                BY <1>8, <3>2, <4>1
            <4>3. /\ elements[cache[j]].kind = j /\ elements[cache[j]].managed
                  /\ ~elements[cache[j]].retired
                BY <4>1 DEF SoundInv, CacheOK
            <4>4. /\ elements'[cache[j]].kind = elements[cache[j]].kind
                  /\ elements'[cache[j]].managed = elements[cache[j]].managed
                  /\ elements'[cache[j]].retired = elements[cache[j]].retired
                BY <1>1, <4>2
            <4> QED BY <4>1, <4>3, <4>4
        <3> QED BY <3>1, <3>2
    <2> QED BY <1>1, <2>1 DEF CacheOK
<1>10. \A n \in Sounding' : n = e
    <2>1. \A n \in 1..Len(elements) : n \notin Cached => elements[n].sound # "sounding"
        BY DEF SoundInv, HeardOK, Sounding
    <2>2. \A n \in Sounding' : n \in 1..Len(elements') /\ elements'[n].sound = "sounding"
        BY <1>1 DEF Sounding
    <2> QED BY <1>1, <2>1, <2>2
<1>11. \A n \in Cached' : n # e => n \in Cached
    BY <1>7 DEF Cached
<1>12. e \in Cached' /\ \A n \in Cached : n # cache[k] => n \in Cached'
    BY <1>1, <1>7 DEF Cached
<1>13. HeardOK'
    BY <1>10, <1>12 DEF HeardOK
<1>14. KeptOK'
    <2>1. ASSUME NEW n \in 1..Len(elements'), elements'[n].managed, n # e
          PROVE  n \in Cached' \/ (elements'[n].retired /\ elements'[n].pending > 0)
        <3>1. n \in 1..Len(elements)
            BY <1>1, <2>1
        <3>2. CASE n = cache[k]
            BY <1>1, <2>1, <3>1, <3>2
        <3>3. CASE n # cache[k] /\ n \in Cached
            BY <1>12, <3>3
        <3>4. CASE n \notin Cached
            BY <1>1, <2>1, <3>1, <3>4 DEF SoundInv, KeptOK
        <3> QED BY <3>2, <3>3, <3>4
    <2> QED BY <1>12, <2>1 DEF KeptOK
<1>15. ActiveOK'
    BY <1>1, <1>3, <1>4, <1>5 DEF SoundInv, ActiveOK
<1>16. \A r \in 1..Len(plays) : plays[r].promised =>
         plays[r].element \in 1..Len(elements) /\ plays[r].element # e
    <2> SUFFICES ASSUME NEW r \in 1..Len(plays), plays[r].promised
                 PROVE  plays[r].element \in 1..Len(elements) /\ plays[r].element # e
        OBVIOUS
    <2>1. PICK n : n = plays[r].element
        OBVIOUS
    <2>2. n # 0 /\ elements[n].pending = 1
        BY <2>1 DEF SoundInv, PromisesOK
    <2>3. n \in 0..Len(elements)
        <3>1. plays[r] \in RequestStates
            BY SoundShape DEF SoundInv
        <3> QED BY <2>1, <3>1 DEF RequestStates
    <2>4. n \in 1..Len(elements)
        BY <1>2, <2>2, <2>3
    <2>5. n # e
        <3> SUFFICES ASSUME n = e PROVE FALSE
            OBVIOUS
        <3>1. elements[e].pending = 0
            BY <1>1, <1>2, <2>4
        <3> QED BY <2>2, <3>1
    <2> QED BY <2>1, <2>4, <2>5
<1>17. PromisesOK'
    <2>1. \A n \in 1..Len(elements') : elements'[n].pending \in {0, 1}
        BY <1>1, <1>2 DEF SoundInv, PromisesOK
    <2>2. ASSUME NEW r \in 1..Len(plays), plays'[r].promised
          PROVE  /\ plays'[r].element # 0 /\ elements'[plays'[r].element].pending = 1
                 /\ plays'[r].element # e
                 /\ \A s \in 1..Len(plays) :
                      plays'[s].promised /\ plays'[s].element = plays'[r].element => s = r
        <3>1. plays[r].promised /\ plays'[r].element = plays[r].element
            BY <1>3, <2>2
        <3>2. plays[r].element \in 1..Len(elements) /\ plays[r].element # e
              /\ elements[plays[r].element].pending = 1
            BY <1>16, <3>1 DEF SoundInv, PromisesOK
        <3>3. elements'[plays[r].element].pending = 1
            BY <1>1, <3>2
        <3>4. \A s \in 1..Len(plays) :
                plays'[s].promised /\ plays'[s].element = plays'[r].element => s = r
            BY <1>3, <3>1 DEF SoundInv, PromisesOK
        <3> QED BY <3>1, <3>2, <3>3, <3>4
    <2>3. e # 0
        BY <1>1, <1>2
    <2> QED BY <1>1, <1>4, <1>5, <2>1, <2>2, <2>3, SMTT(30) DEF PromisesOK
<1>18. NewestOK'
    <2>1. \A r \in 1..Len(plays) : plays[r].generation \in Nat /\ plays[r].generation < generation'
        <3>1. \A r \in 1..Len(plays) : plays[r].generation \in Nat /\ plays[r].generation <= generation
            <4>1. \A r \in 1..Len(plays) : plays[r].generation \in 1..MaxGeneration
                BY SoundShape DEF SoundInv, RequestStates
            <4>2. 1..MaxGeneration \subseteq Nat
                OBVIOUS
            <4> QED BY <4>1, <4>2 DEF SoundInv, NewestOK
        <3>2. generation' = generation + 1
            BY <1>1 DEF NextGeneration
        <3> QED BY <1>2, <3>1, <3>2
    <2>2. \A r \in 1..Len(plays) : plays'[r].outcome = "ok" =>
            plays'[r].element # 0 /\ ~plays'[r].promised
        BY <1>3 DEF SoundInv, NewestOK
    <2>3. \A s \in 1..Len(plays) : plays'[s].promised => plays'[s].element # e
        BY <1>3, <1>16
    <2>4. generation' \in Nat
        BY <1>1, <1>2 DEF NextGeneration
    <2> QED BY <1>3, <1>4, <1>5, <2>1, <2>2, <2>3, <2>4 DEF NewestOK
<1> QED BY <1>6, <1>9, <1>13, <1>14, <1>15, <1>17, <1>18 DEF SoundInv

\* The promise of one request settles; whoever is newest and answered loses
\* nothing by it.
LEMMA PlaySettlesKeeps ==
    ASSUME SoundInv, NEW r \in DOMAIN plays, NEW ok \in BOOLEAN, PlaySettles(r, ok)
    PROVE  SoundInv'
<1> DEFINE e == plays[r].element
           late == Stale(r) \/ ~ok
           x == IF late THEN Silent(elements[e]) ELSE elements[e]
           answer == IF Stale(r) THEN plays[r].outcome ELSE IF ok THEN "ok" ELSE "playback-error"
<1>1. /\ Len(elements) \in Nat /\ DOMAIN elements = 1..Len(elements)
      /\ \A n \in 1..Len(elements) : elements[n] \in ElementStates
      /\ Len(plays) \in Nat /\ DOMAIN plays = 1..Len(plays) /\ r \in 1..Len(plays)
      /\ \A q \in 1..Len(plays) : plays[q] \in RequestStates
      /\ elements \in Seq(ElementStates) /\ plays \in Seq(RequestStates)
    BY SoundShape DEF SoundInv, SoundTypeOK
<1>2. plays[r].promised /\ e \in 1..Len(elements) /\ elements[e].pending = 1
    BY <1>1 DEF PlaySettles, SoundInv, PromisesOK, RequestStates
<1>3. /\ x \in ElementStates /\ x.kind = elements[e].kind /\ x.retired = elements[e].retired
      /\ x.managed = elements[e].managed /\ x.tracked = elements[e].tracked
      /\ x.sound = "sounding" => elements[e].sound = "sounding"
      /\ ~late => x.sound = elements[e].sound
    <2>1. elements[e] \in ElementStates
        BY <1>1, <1>2
    <2>2. CASE late
        BY <2>1, <2>2, SilentElement
    <2>3. CASE ~late
        BY <2>1, <2>3
    <2> QED BY <2>2, <2>3
<1> DEFINE kept == ~elements[e].retired
           y == [x EXCEPT !.pending = 0, !.managed = x.managed /\ kept, !.tracked = x.tracked /\ kept]
<1>4. /\ elements' = [elements EXCEPT ![e] = y]
      /\ plays' = [plays EXCEPT ![r].promised = FALSE, ![r].outcome = answer]
      /\ playing' = IF Stale(r) THEN playing ELSE 0
      /\ ok => elements[e].sound # "silent"
      /\ UNCHANGED <<selected, generation, cache, soundDisposed>>
    <2>1. elements[e].pending - 1 = 0
        BY <1>2
    <2>2. (elements[e].retired /\ elements[e].pending - 1 = 0) <=> elements[e].retired
        BY <2>1
    <2>3. [x EXCEPT !.pending = elements[e].pending - 1,
                    !.managed = @ /\ ~(elements[e].retired /\ elements[e].pending - 1 = 0),
                    !.tracked = @ /\ ~(elements[e].retired /\ elements[e].pending - 1 = 0)] = y
        BY <2>1, <2>2
    <2>4. elements' = [elements EXCEPT ![e] =
            [x EXCEPT !.pending = elements[e].pending - 1,
                      !.managed = @ /\ ~(elements[e].retired /\ elements[e].pending - 1 = 0),
                      !.tracked = @ /\ ~(elements[e].retired /\ elements[e].pending - 1 = 0)]]
        BY DEF PlaySettles
    <2>5. plays' = [plays EXCEPT ![r].promised = FALSE, ![r].outcome = answer]
        BY <1>1, SMT DEF PlaySettles
    <2>6. /\ playing' = IF Stale(r) THEN playing ELSE 0
          /\ ok => elements[e].sound # "silent"
          /\ UNCHANGED <<selected, generation, cache, soundDisposed>>
        BY DEF PlaySettles
    <2> HIDE DEF x, y, answer
    <2> QED BY <2>3, <2>4, <2>5, <2>6
<1> HIDE DEF x
<1>5. /\ y \in ElementStates /\ y.pending = 0 /\ y.kind = x.kind /\ y.retired = x.retired
      /\ y.sound = x.sound /\ (y.managed <=> x.managed /\ ~x.retired)
    <2>1. x.managed \in BOOLEAN /\ x.tracked \in BOOLEAN /\ (kept <=> ~x.retired)
        BY <1>3 DEF ElementStates
    <2>2. CASE kept
        <3>1. y = [x EXCEPT !.pending = 0]
            <4>1. (x.managed /\ kept) = x.managed /\ (x.tracked /\ kept) = x.tracked
                BY <2>1, <2>2
            <4> QED BY <1>3, <4>1 DEF ElementStates
        <3> QED BY <1>3, <2>1, <2>2, <3>1 DEF ElementStates
    <2>3. CASE ~kept
        <3>1. y = [x EXCEPT !.pending = 0, !.managed = FALSE, !.tracked = FALSE]
            <4>1. (x.managed /\ kept) = FALSE /\ (x.tracked /\ kept) = FALSE
                BY <2>1, <2>3
            <4> QED BY <4>1
        <3> QED BY <1>3, <2>1, <2>3, <3>1 DEF ElementStates
    <2> QED BY <2>2, <2>3
<1> HIDE DEF y
<1>6. /\ elements' \in [1..Len(elements) -> ElementStates] /\ elements'[e] = y
      /\ \A n \in 1..Len(elements) : n # e => elements'[n] = elements[n]
    <2>1. elements \in [1..Len(elements) -> ElementStates]
        BY <1>1
    <2> QED BY <1>2, <1>4, <1>5, <2>1
<1>7. elements' \in Seq(ElementStates) /\ Len(elements') = Len(elements)
    BY <1>1, <1>6, IsSequence
<1>8. answer \in Outcomes
    BY <1>1 DEF RequestStates, Outcomes
<1>9. /\ plays' \in [1..Len(plays) -> RequestStates] /\ ~plays'[r].promised
      /\ plays'[r].outcome = answer
      /\ \A q \in 1..Len(plays) :
            /\ q # r => plays'[q] = plays[q]
            /\ plays'[q].element = plays[q].element
            /\ plays'[q].generation = plays[q].generation
    <2> HIDE DEF answer
    <2>1. plays \in [1..Len(plays) -> RequestStates]
        BY <1>1
    <2>2. [plays[r] EXCEPT !.promised = FALSE, !.outcome = answer] \in RequestStates
        BY <1>1, <1>8 DEF RequestStates
    <2>3. plays' = [plays EXCEPT ![r] = [plays[r] EXCEPT !.promised = FALSE, !.outcome = answer]]
        BY <1>1, <1>4 DEF RequestStates
    <2>4. /\ plays'[r] = [plays[r] EXCEPT !.promised = FALSE, !.outcome = answer]
          /\ \A q \in 1..Len(plays) : q # r => plays'[q] = plays[q]
          /\ plays' \in [1..Len(plays) -> RequestStates]
        BY <1>1, <2>1, <2>2, <2>3
    <2>5. plays[r] \in RequestStates
        BY <1>1
    <2>6. /\ ~plays'[r].promised /\ plays'[r].outcome = answer
          /\ plays'[r].element = plays[r].element
          /\ plays'[r].generation = plays[r].generation
        BY <2>4, <2>5 DEF RequestStates
    <2> QED BY <2>4, <2>6
<1>10. plays' \in Seq(RequestStates) /\ Len(plays') = Len(plays)
    BY <1>1, <1>9, IsSequence
<1>11. SoundTypeOK'
    <2>1. RequestStates' = RequestStates
        BY <1>7 DEF RequestStates
    <2> QED BY <1>1, <1>4, <1>7, <1>10, <2>1 DEF SoundInv, SoundTypeOK
<1>12. UNCHANGED Cached
    BY <1>4 DEF Cached
<1>13. CacheOK'
    <2>1. ASSUME NEW k \in SoundKinds, cache[k] # 0
          PROVE  elements'[cache[k]].kind = k /\ elements'[cache[k]].managed /\ ~elements'[cache[k]].retired
        <3>1. cache[k] \in 1..Len(elements) /\ elements[cache[k]].kind = k
              /\ elements[cache[k]].managed /\ ~elements[cache[k]].retired
            BY <2>1, SoundShape DEF SoundInv, CacheOK
        <3> QED BY <1>3, <1>5, <1>6, <3>1
    <2> QED BY <1>4, <2>1 DEF SoundInv, CacheOK
<1>14. HeardOK'
    <2>1. \A n \in Sounding' : n \in Sounding
        BY <1>1, <1>3, <1>5, <1>6, <1>7 DEF Sounding
    <2> QED BY <1>12, <2>1 DEF SoundInv, HeardOK
<1>15. KeptOK'
    BY <1>2, <1>3, <1>5, <1>6, <1>7, <1>12 DEF SoundInv, KeptOK
<1>16. plays[r].outcome = "waiting" <=> r = playing
    BY <1>1 DEF SoundInv, ActiveOK
<1>17. ActiveOK'
    <2>1. CASE Stale(r)
        BY <1>1, <1>4, <1>9, <1>10, <2>1 DEF SoundInv, ActiveOK
    <2>2. CASE ~Stale(r)
        <3>1. r = playing /\ playing' = 0 /\ answer # "waiting"
            BY <1>4, <1>16, <2>2 DEF Stale
        <3> QED BY <1>1, <1>9, <1>10, <3>1 DEF SoundInv, ActiveOK
    <2> QED BY <2>1, <2>2
<1>18. \A q \in 1..Len(plays) : plays'[q].promised => q # r /\ plays[q].promised
    BY <1>9
<1>19. \A q \in 1..Len(plays) : plays[q].promised /\ q # r => plays[q].element # e
    BY <1>1, <1>2 DEF SoundInv, PromisesOK
<1>20. PromisesOK'
    <2>1. \A n \in 1..Len(elements') : elements'[n].pending \in {0, 1}
        BY <1>5, <1>6, <1>7 DEF SoundInv, PromisesOK
    <2>2. ASSUME NEW q \in 1..Len(plays), plays'[q].promised
          PROVE  /\ plays'[q].element # 0 /\ elements'[plays'[q].element].pending = 1
                 /\ \A s \in 1..Len(plays) :
                      plays'[s].promised /\ plays'[s].element = plays'[q].element => s = q
        <3>1. q # r /\ plays[q].promised /\ plays[q].element # e
              /\ plays[q].element \in 1..Len(elements)
            BY <1>1, <1>18, <1>19, <2>2 DEF SoundInv, PromisesOK, RequestStates
        <3> QED BY <1>6, <1>9, <1>18, <3>1 DEF SoundInv, PromisesOK
    <2> QED BY <1>10, <2>1, <2>2 DEF PromisesOK
<1>21. NewestOK'
    <2>1. ASSUME NEW q \in 1..Len(plays)
          PROVE  /\ plays'[q].generation <= generation
                 /\ plays'[q].generation = generation =>
                      \A s \in 1..Len(plays) :
                        plays'[s].promised /\ plays'[s].element = plays'[q].element => s = q
        BY <1>9, <1>18 DEF SoundInv, NewestOK
    <2>2. ASSUME NEW q \in 1..Len(plays), plays'[q].outcome = "ok"
          PROVE  /\ plays'[q].element # 0 /\ ~plays'[q].promised
                 /\ plays'[q].generation = generation => elements'[plays'[q].element].sound # "silent"
        <3>1. CASE q = r
            <4>1. CASE Stale(r)
                <5>1. plays[r].outcome = "ok"
                    BY <1>9, <2>2, <3>1, <4>1
                <5> QED BY <1>1, <1>2, <5>1 DEF SoundInv, NewestOK
            <4>2. CASE ~Stale(r)
                <5>1. ok /\ ~late
                    BY <1>9, <2>2, <3>1, <4>2
                <5> QED BY <1>1, <1>2, <1>3, <1>4, <1>5, <1>6, <1>9, <3>1, <5>1
            <4> QED BY <4>1, <4>2
        <3>2. CASE q # r
            <4>1. plays'[q] = plays[q] /\ plays[q].outcome = "ok"
                BY <1>9, <2>2, <3>2
            <4>2. plays[q].element # 0 /\ ~plays[q].promised
                BY <4>1 DEF SoundInv, NewestOK
            <4>3. ASSUME plays[q].generation = generation
                  PROVE  elements'[plays[q].element].sound # "silent"
                <5>1. plays[q].element # e
                    BY <1>1, <1>2, <3>2, <4>3 DEF SoundInv, NewestOK
                <5>2. plays[q].element \in 1..Len(elements)
                    BY <1>1, <4>2 DEF RequestStates
                <5> QED BY <1>6, <4>1, <4>3, <5>1, <5>2 DEF SoundInv, NewestOK
            <4> QED BY <4>1, <4>2, <4>3
        <3> QED BY <3>1, <3>2
    <2> QED BY <1>4, <1>10, <2>1, <2>2 DEF NewestOK
<1> QED BY <1>11, <1>13, <1>14, <1>15, <1>17, <1>20, <1>21 DEF SoundInv

\* The active request is answered with a reason, and no promise settles: what is
\* asked of requests goes on, if the sounds of the newest are let be or there is
\* a next generation.
LEMMA InvalidatedKeeps ==
    ASSUME SoundInv, NEW reason \in {"superseded", "disposed", "playback-error"},
           plays' = Invalidated(reason), playing' = 0,
           Len(elements') = Len(elements),
           \A e \in 1..Len(elements) : elements'[e].pending = elements[e].pending,
           \/ NextGeneration
           \/ /\ UNCHANGED generation
              /\ \A e \in 1..Len(elements) :
                    elements[e].sound # "silent" => elements'[e].sound # "silent"
    PROVE  (ActiveOK /\ PromisesOK /\ NewestOK)' /\ plays' \in Seq(RequestStates')
<1>1. /\ Len(plays) \in Nat /\ generation \in Nat
      /\ \A r \in 1..Len(plays) : plays[r] \in RequestStates
    BY SoundShape DEF SoundInv
<1>2. /\ plays' \in Seq(RequestStates) /\ Len(plays') = Len(plays)
      /\ \A r \in 1..Len(plays) :
            /\ plays'[r].outcome = IF r = playing THEN reason ELSE plays[r].outcome
            /\ plays'[r].element = plays[r].element
            /\ plays'[r].generation = plays[r].generation
            /\ plays'[r].promised = plays[r].promised
    <2>1. reason \in Outcomes /\ SoundTypeOK
        BY DEF Outcomes, SoundInv
    <2> QED BY <2>1, InvalidatedRequests
<1>3. RequestStates' = RequestStates
    BY DEF RequestStates
<1>4. ActiveOK'
    BY <1>1, <1>2 DEF SoundInv, ActiveOK
<1>5. \A r \in 1..Len(plays) : plays[r].element # 0 => plays[r].element \in 1..Len(elements)
    BY <1>1 DEF RequestStates
<1>6. PromisesOK'
    <2>1. \A n \in 1..Len(elements') : elements'[n].pending \in {0, 1}
        BY DEF SoundInv, PromisesOK
    <2>2. ASSUME NEW r \in 1..Len(plays), plays[r].promised
          PROVE  /\ plays[r].element # 0 /\ elements'[plays[r].element].pending = 1
                 /\ \A s \in 1..Len(plays) :
                      plays[s].promised /\ plays[s].element = plays[r].element => s = r
        BY <1>5, <2>2 DEF SoundInv, PromisesOK
    <2>3. \A r \in 1..Len(plays) :
             /\ plays'[r].promised <=> plays[r].promised
             /\ plays'[r].element = plays[r].element
        BY <1>2, Zenon
    <2>4. ASSUME NEW r \in 1..Len(plays), plays'[r].promised
          PROVE  /\ plays'[r].element # 0 /\ elements'[plays'[r].element].pending = 1
                 /\ \A s \in 1..Len(plays) :
                      plays'[s].promised /\ plays'[s].element = plays'[r].element => s = r
        BY <2>2, <2>3, <2>4, Zenon
    <2>5. Len(plays') = Len(plays)
        BY <1>2, Zenon
    <2> QED BY <2>1, <2>4, <2>5, Zenon DEF PromisesOK
<1>7. NewestOK'
    <2>1. ASSUME NEW r \in 1..Len(plays)
          PROVE  /\ plays'[r].generation \in Nat /\ plays'[r].generation <= generation
                 /\ plays'[r].outcome = "ok" => plays[r].outcome = "ok"
                 /\ plays'[r].outcome = "ok" => plays'[r].element # 0 /\ ~plays'[r].promised
        <3>1. plays[r].generation \in Nat /\ plays'[r].generation = plays[r].generation
            <4>1. plays[r] \in RequestStates
                BY <1>1
            <4>2. 1..MaxGeneration \subseteq Nat
                OBVIOUS
            <4> QED BY <1>2, <4>1, <4>2 DEF RequestStates
        <3>2. plays'[r].outcome = "ok" => plays[r].outcome = "ok"
            BY <1>2
        <3> QED BY <1>2, <3>1, <3>2 DEF SoundInv, NewestOK
    <2>2. CASE NextGeneration
        <3>1. generation' = generation + 1 /\ generation' \in Nat
            BY <1>1, <2>2 DEF NextGeneration
        <3>2. \A r \in 1..Len(plays) : plays'[r].generation < generation'
            BY <1>1, <2>1, <3>1
        <3> QED BY <1>2, <2>1, <3>1, <3>2 DEF NewestOK
    <2>3. CASE /\ UNCHANGED generation
               /\ \A e \in 1..Len(elements) :
                     elements[e].sound # "silent" => elements'[e].sound # "silent"
        <3>1. ASSUME NEW r \in 1..Len(plays), plays'[r].generation = generation
              PROVE  /\ \A s \in 1..Len(plays) :
                          plays'[s].promised /\ plays'[s].element = plays'[r].element => s = r
                     /\ plays'[r].outcome = "ok" => elements'[plays'[r].element].sound # "silent"
            <4>1. plays[r].generation = generation /\ plays'[r].element = plays[r].element
                BY <1>2, <3>1
            <4>2. \A s \in 1..Len(plays) :
                    plays[s].promised /\ plays[s].element = plays[r].element => s = r
                BY <4>1 DEF SoundInv, NewestOK
            <4>3. ASSUME plays[r].outcome = "ok"
                  PROVE  elements'[plays[r].element].sound # "silent"
                <5>1. plays[r].element # 0 /\ elements[plays[r].element].sound # "silent"
                    BY <4>1, <4>3 DEF SoundInv, NewestOK
                <5> QED BY <1>5, <2>3, <5>1
            <4>4. \A s \in 1..Len(plays) :
                    plays'[s].promised /\ plays'[s].element = plays'[r].element => s = r
                BY <1>2, <4>1, <4>2
            <4>5. plays'[r].outcome = "ok" => plays[r].outcome = "ok"
                BY <1>2
            <4> QED BY <4>1, <4>3, <4>4, <4>5
        <3> QED BY <1>2, <2>1, <2>3, <3>1 DEF NewestOK
    <2> QED BY <2>2, <2>3
<1> QED BY <1>2, <1>3, <1>4, <1>6, <1>7

\* A sound is over or fails: the element stays what it was but for that.
LEMMA OverElement ==
    ASSUME SoundInv, NEW e \in DOMAIN elements, elements[e].sound = "sounding",
           elements' = [elements EXCEPT ![e].sound = "over"], UNCHANGED <<cache, soundDisposed>>
    PROVE  /\ elements' \in Seq(ElementStates) /\ Len(elements') = Len(elements)
           /\ \A n \in 1..Len(elements) :
                 /\ elements'[n].pending = elements[n].pending
                 /\ elements[n].sound # "silent" => elements'[n].sound # "silent"
           /\ (CacheOK /\ HeardOK /\ KeptOK)'
<1>1. /\ Len(elements) \in Nat /\ e \in 1..Len(elements) /\ DOMAIN elements = 1..Len(elements)
      /\ \A n \in 1..Len(elements) : elements[n] \in ElementStates
      /\ elements \in Seq(ElementStates) /\ cache \in [SoundKinds -> 0..Len(elements)]
    BY SoundShape DEF SoundInv, SoundTypeOK
<1>2. [elements[e] EXCEPT !.sound = "over"] \in ElementStates
    BY <1>1 DEF ElementStates
<1>3. elements' = [elements EXCEPT ![e] = [elements[e] EXCEPT !.sound = "over"]]
    BY <1>1
<1>4. /\ elements' \in [1..Len(elements) -> ElementStates]
      /\ elements'[e] = [elements[e] EXCEPT !.sound = "over"]
      /\ \A n \in 1..Len(elements) : n # e => elements'[n] = elements[n]
    BY <1>1, <1>2, <1>3
<1>5. elements' \in Seq(ElementStates) /\ Len(elements') = Len(elements) /\ DOMAIN elements' = 1..Len(elements)
    BY <1>1, <1>4, IsSequence
<1>6. /\ elements'[e].sound = "over" /\ elements'[e].kind = elements[e].kind
      /\ elements'[e].pending = elements[e].pending
      /\ elements'[e].managed = elements[e].managed /\ elements'[e].retired = elements[e].retired
    BY <1>1, <1>4 DEF ElementStates
<1>7. Cached' = Cached
    BY DEF Cached
<1>8. \A n \in Sounding' : n \in Sounding
    BY <1>1, <1>4, <1>5, <1>6 DEF Sounding
<1>9. HeardOK'
    BY <1>7, <1>8 DEF SoundInv, HeardOK
<1>10. KeptOK'
    BY <1>4, <1>5, <1>6, <1>7 DEF SoundInv, KeptOK
<1>11. CacheOK'
    BY <1>1, <1>4, <1>6 DEF SoundInv, CacheOK
<1> QED BY <1>4, <1>5, <1>6, <1>9, <1>10, <1>11

\* A sound that is over leaves its request as it is: answered.
LEMMA SoundEndsKeeps ==
    ASSUME SoundInv, NEW e \in DOMAIN elements, SoundEnds(e)
    PROVE  SoundInv'
<1>1. /\ elements[e].sound = "sounding" /\ elements' = [elements EXCEPT ![e].sound = "over"]
      /\ UNCHANGED <<selected, generation, cache, plays, playing, soundDisposed>>
    BY DEF SoundEnds
<1>2. /\ elements' \in Seq(ElementStates) /\ Len(elements') = Len(elements)
      /\ \A n \in 1..Len(elements) :
            /\ elements'[n].pending = elements[n].pending
            /\ elements[n].sound # "silent" => elements'[n].sound # "silent"
      /\ (CacheOK /\ HeardOK /\ KeptOK)'
    BY <1>1, OverElement
<1>3. RequestStates' = RequestStates
    BY <1>2 DEF RequestStates
<1>4. SoundTypeOK' /\ ActiveOK'
    BY <1>1, <1>2, <1>3 DEF SoundInv, SoundTypeOK, ActiveOK
<1>5. \A r \in 1..Len(plays) : plays[r].element # 0 => plays[r].element \in 1..Len(elements)
    BY SoundShape DEF SoundInv, RequestStates
<1>6. PromisesOK'
    <2>1. \A n \in 1..Len(elements') : elements'[n].pending \in {0, 1}
        BY <1>2 DEF SoundInv, PromisesOK
    <2>2. \A r \in 1..Len(plays) : plays[r].promised => elements'[plays[r].element].pending = 1
        BY <1>2, <1>5 DEF SoundInv, PromisesOK
    <2> QED BY <1>1, <2>1, <2>2 DEF SoundInv, PromisesOK
<1>7. NewestOK'
    <2>1. \A r \in 1..Len(plays) :
            plays[r].generation = generation /\ plays[r].outcome = "ok" =>
                elements'[plays[r].element].sound # "silent"
        BY <1>2, <1>5 DEF SoundInv, NewestOK
    <2> QED BY <1>1, <2>1 DEF SoundInv, NewestOK
<1> QED BY <1>2, <1>4, <1>6, <1>7 DEF SoundInv

\* An error of the element answers for the request that plays it.
LEMMA MediaErrorKeeps ==
    ASSUME SoundInv, NEW e \in DOMAIN elements, MediaError(e)
    PROVE  SoundInv'
<1>1. /\ elements[e].sound = "sounding" /\ elements' = [elements EXCEPT ![e].sound = "over"]
      /\ UNCHANGED <<selected, generation, cache, soundDisposed>>
    BY DEF MediaError
<1>2. /\ elements' \in Seq(ElementStates) /\ Len(elements') = Len(elements)
      /\ \A n \in 1..Len(elements) :
            /\ elements'[n].pending = elements[n].pending
            /\ elements[n].sound # "silent" => elements'[n].sound # "silent"
      /\ (CacheOK /\ HeardOK /\ KeptOK)'
    BY <1>1, OverElement
<1>3. RequestStates' = RequestStates
    BY <1>2 DEF RequestStates
<1>4. CASE UNCHANGED <<plays, playing>>
    <2>1. SoundEnds(e)
        BY <1>1, <1>4 DEF SoundEnds
    <2> QED BY <2>1, SoundEndsKeeps
<1>5. CASE playing # 0 /\ plays' = [plays EXCEPT ![playing].outcome = "playback-error"] /\ playing' = 0
    <2>1. plays' = Invalidated("playback-error")
        <3>1. playing \in DOMAIN plays /\ \A r \in DOMAIN plays : plays[r] \in RequestStates
              /\ DOMAIN plays = 1..Len(plays) /\ plays \in Seq(RequestStates)
            BY <1>5, SoundShape DEF SoundInv, SoundTypeOK
        <3> QED BY <1>5, <3>1 DEF Invalidated
    <2>2. (ActiveOK /\ PromisesOK /\ NewestOK)' /\ plays' \in Seq(RequestStates')
        BY <1>1, <1>2, <1>5, <2>1, InvalidatedKeeps
    <2>3. SoundTypeOK'
        BY <1>1, <1>2, <1>5, <2>2, SoundShape DEF SoundInv, SoundTypeOK
    <2> QED BY <1>2, <2>2, <2>3 DEF SoundInv
<1> QED BY <1>4, <1>5 DEF MediaError

\* stop() retires what is in the cache and silences the rest.
LEMMA stopKeeps ==
    ASSUME SoundInv, stop
    PROVE  SoundInv'
<1>1. /\ Len(elements) \in Nat /\ DOMAIN elements = 1..Len(elements)
      /\ \A n \in 1..Len(elements) : elements[n] \in ElementStates
    BY SoundShape DEF SoundInv
<1>2. /\ NextGeneration /\ plays' = Invalidated("superseded") /\ playing' = 0
      /\ elements' = [e \in DOMAIN elements |->
                        CASE e \in Cached                              -> Retired(elements[e])
                          [] e \notin Cached /\ elements[e].tracked    -> Silent(elements[e])
                          [] OTHER                                     -> elements[e]]
      /\ cache' = [k \in SoundKinds |-> 0] /\ UNCHANGED <<selected, soundDisposed>>
    BY DEF stop
<1>3. \A n \in 1..Len(elements) : n \notin Cached => elements[n].sound # "sounding"
    BY <1>1 DEF SoundInv, HeardOK, Sounding
<1>4. ASSUME NEW n \in 1..Len(elements)
      PROVE  /\ elements'[n] \in ElementStates /\ elements'[n].pending = elements[n].pending
             /\ elements'[n].sound # "sounding"
             /\ elements'[n].managed => elements'[n].retired /\ elements'[n].pending > 0
    <2>1. elements[n] \in ElementStates
        BY <1>1
    <2>2. CASE n \in Cached
        <3>1. elements'[n] = Retired(elements[n])
            BY <1>1, <1>2, <2>2
        <3> QED BY <2>1, <3>1, RetiredElement
    <2>3. CASE n \notin Cached
        <3>1. elements'[n] = Silent(elements[n]) \/ elements'[n] = elements[n]
            BY <1>1, <1>2, <2>3
        <3>2. elements[n].managed => elements[n].retired /\ elements[n].pending > 0
            BY <2>3 DEF SoundInv, KeptOK
        <3> QED BY <1>3, <2>1, <2>3, <3>1, <3>2, SilentElement
    <2> QED BY <2>2, <2>3
<1>5. elements' \in Seq(ElementStates) /\ Len(elements') = Len(elements) /\ DOMAIN elements' = 1..Len(elements)
    <2>1. elements' \in [1..Len(elements) -> ElementStates]
        BY <1>1, <1>2, <1>4
    <2> QED BY <1>1, <2>1, IsSequence
<1>6. (ActiveOK /\ PromisesOK /\ NewestOK)' /\ plays' \in Seq(RequestStates')
    BY <1>2, <1>4, <1>5, InvalidatedKeeps
<1>7. SoundTypeOK'
    BY <1>1, <1>2, <1>5, <1>6, SoundShape, SoundAssumption DEF SoundInv, SoundTypeOK, NextGeneration
<1>8. CacheOK'
    BY <1>2 DEF CacheOK
<1>9. HeardOK'
    BY <1>4, <1>5 DEF HeardOK, Sounding
<1>10. KeptOK'
    BY <1>4, <1>5 DEF KeptOK
<1> QED BY <1>6, <1>7, <1>8, <1>9, <1>10 DEF SoundInv

\* dispose() lets go of every element that is kept: all that sound are.
LEMMA disposeKeeps ==
    ASSUME SoundInv, dispose
    PROVE  SoundInv'
<1>1. /\ Len(elements) \in Nat /\ DOMAIN elements = 1..Len(elements)
      /\ \A n \in 1..Len(elements) : elements[n] \in ElementStates
    BY SoundShape DEF SoundInv
<1>2. /\ NextGeneration /\ plays' = Invalidated("disposed") /\ playing' = 0
      /\ elements' = [e \in DOMAIN elements |->
                        IF elements[e].managed
                        THEN [Silent(elements[e]) EXCEPT !.managed = FALSE, !.tracked = FALSE]
                        ELSE elements[e]]
      /\ cache' = [k \in SoundKinds |-> 0] /\ UNCHANGED selected /\ soundDisposed' = TRUE
    BY DEF dispose
<1>3. \A n \in 1..Len(elements) : elements[n].sound = "sounding" => elements[n].managed
    <2>1. \A n \in 1..Len(elements) : elements[n].sound = "sounding" => n \in Cached
        BY <1>1 DEF SoundInv, HeardOK, Sounding
    <2> QED BY <2>1 DEF SoundInv, CacheOK, Cached
<1>4. ASSUME NEW n \in 1..Len(elements)
      PROVE  /\ elements'[n] \in ElementStates /\ elements'[n].pending = elements[n].pending
             /\ elements'[n].sound # "sounding" /\ ~elements'[n].managed
    <2>1. elements[n] \in ElementStates
        BY <1>1
    <2>2. CASE elements[n].managed
        <3> DEFINE s == Silent(elements[n])
        <3>1. elements'[n] = [s EXCEPT !.managed = FALSE, !.tracked = FALSE]
            BY <1>1, <1>2, <2>2
        <3>2. s \in ElementStates /\ s.sound # "sounding" /\ s.pending = elements[n].pending
            BY <2>1, SilentElement
        <3> HIDE DEF s
        <3> QED BY <3>1, <3>2 DEF ElementStates
    <2>3. CASE ~elements[n].managed
        BY <1>1, <1>2, <1>3, <2>1, <2>3
    <2> QED BY <2>2, <2>3
<1>5. elements' \in Seq(ElementStates) /\ Len(elements') = Len(elements) /\ DOMAIN elements' = 1..Len(elements)
    <2>1. elements' \in [1..Len(elements) -> ElementStates]
        BY <1>1, <1>2, <1>4
    <2> QED BY <1>1, <2>1, IsSequence
<1>6. (ActiveOK /\ PromisesOK /\ NewestOK)' /\ plays' \in Seq(RequestStates')
    BY <1>2, <1>4, <1>5, InvalidatedKeeps
<1>7. SoundTypeOK'
    <2>1. /\ generation < MaxGeneration /\ generation' = generation + 1 /\ UNCHANGED selected
          /\ playing' = 0 /\ cache' = [k \in SoundKinds |-> 0] /\ soundDisposed' = TRUE
        BY DEF dispose, NextGeneration
    <2>2. generation' \in 0..MaxGeneration /\ playing' \in 0..Len(plays') /\ selected' \in Sources
        <3>1. Len(plays') \in Nat
            BY <1>6
        <3>2. generation \in 0..MaxGeneration /\ selected \in Sources
            BY DEF SoundInv, SoundTypeOK
        <3> QED BY <2>1, <3>1, <3>2, SoundAssumption
    <2>3. cache' \in [SoundKinds -> 0..Len(elements')]
        BY <1>1, <1>5, <2>1
    <2>4. soundDisposed' \in BOOLEAN
        BY <2>1
    <2> QED BY <1>5, <1>6, <2>2, <2>3, <2>4 DEF SoundTypeOK
<1>8. CacheOK'
    BY <1>2 DEF CacheOK
<1>9. HeardOK' /\ KeptOK'
    BY <1>4, <1>5 DEF HeardOK, KeptOK, Sounding
<1> QED BY <1>6, <1>7, <1>8, <1>9 DEF SoundInv

\* A step that leaves all but the chosen pack alone
LEMMA SelectionKeeps ==
    ASSUME SoundInv, selected' \in Sources,
           UNCHANGED <<generation, elements, cache, plays, playing, soundDisposed>>
    PROVE  SoundInv'
BY DEF SoundInv, SoundTypeOK, CacheOK, HeardOK, KeptOK, ActiveOK, PromisesOK, NewestOK, Cached, Sounding,
       RequestStates

\* The inductive invariant of the sounds, for every number of requests: what is
\* heard is in the cache, and the newest request shares its element with no promise
\* of an earlier one.
THEOREM SoundsInvariant == SoundSpec => []SoundInv
<1>1. ASSUME SoundInit PROVE SoundInv
    <2>1. elements = <<>> /\ plays = <<>> /\ playing = 0 /\ generation = 0 /\ selected \in Sources
          /\ cache = [k \in SoundKinds |-> 0] /\ soundDisposed = FALSE
        BY <1>1 DEF SoundInit
    <2>2. SoundTypeOK
        <3>1. elements \in Seq(ElementStates) /\ plays \in Seq(RequestStates)
            BY <2>1
        <3>2. Len(elements) = 0 /\ Len(plays) = 0 /\ 0 \in 0..0
            BY <2>1
        <3>3. cache \in [SoundKinds -> 0..Len(elements)]
            BY <2>1, <3>2
        <3>4. playing \in 0..Len(plays) /\ generation \in 0..MaxGeneration
            BY <2>1, <3>2, SoundAssumption
        <3> QED BY <2>1, <3>1, <3>3, <3>4 DEF SoundTypeOK
    <2>3. Sounding = {}
        BY <2>1 DEF Sounding
    <2> QED BY <2>1, <2>2, <2>3 DEF SoundInv, CacheOK, HeardOK, KeptOK, ActiveOK, PromisesOK, NewestOK
<1>2. ASSUME SoundInv, [SoundNext]_soundVars PROVE SoundInv'
    <2>1. ASSUME NEW k \in SoundKinds, Disabled(k) \/ LoadFails(k) \/ begin(k) PROVE SoundInv'
        BY <1>2, <2>1, DisabledKeeps, LoadFailsKeeps, beginKeeps
    <2>2. ASSUME NEW r \in DOMAIN plays, NEW ok \in BOOLEAN, PlaySettles(r, ok) PROVE SoundInv'
        BY <1>2, <2>2, PlaySettlesKeeps
    <2>3. ASSUME NEW e \in DOMAIN elements, MediaError(e) \/ SoundEnds(e) PROVE SoundInv'
        BY <1>2, <2>3, MediaErrorKeeps, SoundEndsKeeps
    <2>4. ASSUME NEW src \in Sources, selectPack(src) PROVE SoundInv'
        BY <1>2, <2>4, SelectionKeeps DEF selectPack
    <2>5. CASE stop \/ dispose
        BY <1>2, <2>5, stopKeeps, disposeKeeps
    <2>6. CASE UNCHANGED soundVars
        <3>1. selected' \in Sources
            BY <1>2, <2>6 DEF soundVars, SoundInv, SoundTypeOK
        <3> QED BY <1>2, <2>6, <3>1, SelectionKeeps DEF soundVars
    <2> QED BY <1>2, <2>1, <2>2, <2>3, <2>4, <2>5, <2>6 DEF SoundNext
<1> QED BY <1>1, <1>2, PTL DEF SoundSpec

\* What the invariant says to somebody in the room
LEMMA SoundInvIsRight == SoundInv => SoundsAreRight
<1> SUFFICES ASSUME SoundInv PROVE SoundsAreRight
    OBVIOUS
<1>1. /\ DOMAIN elements = 1..Len(elements) /\ DOMAIN plays = 1..Len(plays)
    BY SoundShape DEF SoundInv
<1>2. OneSoundIsHeard
    <2>1. Cardinality(Sounding) <= 1
        <3>1. CASE Sounding = {}
            BY <3>1, FS_EmptySet
        <3>2. CASE Sounding # {}
            <4>1. PICK e \in Sounding : TRUE
                BY <3>2
            <4>2. Sounding = {e}
                BY <4>1 DEF SoundInv, HeardOK
            <4>3. Cardinality({e}) = 1
                BY FS_Singleton
            <4> QED BY <4>2, <4>3
        <3> QED BY <3>1, <3>2
    <2>2. soundDisposed => Sounding = {}
        BY DEF SoundInv, CacheOK, HeardOK, Cached
    <2> QED BY <2>1, <2>2 DEF OneSoundIsHeard
<1>3. NewestIsHeard
    BY <1>1 DEF SoundInv, NewestOK, NewestIsHeard
<1>4. NothingIsForgotten
    <2>1. \A e \in Sounding : elements[e].managed
        BY DEF SoundInv, HeardOK, CacheOK, Cached
    <2> QED BY <1>1, <2>1 DEF SoundInv, ActiveOK, KeptOK, NothingIsForgotten
<1> QED BY <1>2, <1>3, <1>4 DEF SoundsAreRight

\* At most one reminder is heard at a time and none after the controller is gone,
\* the newest is not silenced by what an earlier one left behind, and every
\* request is answered or active, however late play() settles.
THEOREM SoundsStayRight == SoundSpec => []SoundsAreRight
<1> QED BY SoundsInvariant, SoundInvIsRight, PTL

\* What the controller remembers is of an element and a request that there are.
THEOREM SoundTypesHold == SoundSpec => []SoundTypeOK
<1>1. SoundInv => SoundTypeOK
    BY DEF SoundInv
<1> QED BY <1>1, SoundsInvariant, PTL

-----------------------------------------------------------------------------
(* The timing of the exams (ExamSchedule).                                   *)

SeenStatuses == {"pending", "inProgress", "completed"}
TimedTask == [kind : Kinds, exam : ConfigExams, time : Int]
PlayerShape ==
    [bound : BOOLEAN, started : BOOLEAN, running : BOOLEAN, loaded : BOOLEAN,
     exams : Seq(ConfigExams), index : Nat \ {0}, currentTime : Int,
     tasks : Seq(TimedTask), pending : SUBSET Nat,
     timers : SUBSET [task : Nat, due : 1..(MaxTime + MaxTimerDelay)],
     accepted : SUBSET (Kinds \X ConfigExams), seen : SUBSET (ConfigExams \X SeenStatuses)]
StateShape ==
    [player : PlayerShape, shown : [last : SUBSET (Kinds \X ConfigExams), again : BOOLEAN],
     astray : SUBSET {"index", "time", "unheard"}]

\* The exams follow each other.
Successive(exams) ==
    \A i, j \in 1..Len(exams) : /\ exams[i].start < exams[i].end
                                /\ i < j => exams[i].end <= exams[j].start

\* Every begin and end after c has its task, which is still to come, if the queue
\* can read the clock.
IsBound(exams, b) == \E k \in 1..Len(exams) : b = exams[k].start \/ b = exams[k].end
Covers(p, c) == p.bound =>
    \A b \in Nat : IsBound(p.exams, b) /\ c < b =>
        \E i \in p.pending : p.tasks[i].time = b /\ p.tasks[i].kind # "alert"

\* The index was right at a time c, and every change since then is to come.
Follows(s, now) ==
    s.player.loaded /\ s.astray \cap {"index", "time"} = {} /\ s.player.exams # <<>> =>
        \E c \in Int : /\ c <= now /\ s.player.index = Target(s.player.exams, c)
                       /\ Covers(s.player, c)

\* What holds of the player, but for its timers, when its clock shows now.
Keeps(s, now) ==
    /\ s \in StateShape /\ Successive(s.player.exams)
    /\ s.player.exams # <<>> => s.player.index \in 1..Len(s.player.exams)
    /\ s.player.pending \subseteq 1..Len(s.player.tasks)
    /\ ~s.player.bound => s.player.pending = {}
    /\ \A i \in s.player.pending :
          s.player.tasks[i].kind = "alert" => s.player.tasks[i].exam.alert > 0
    /\ ~s.shown.again
    /\ s.player.loaded /\ "time" \notin s.astray => Covers(s.player, now)
    /\ Follows(s, now)

\* The tasks of S have a timer each, which is not late.
Timed(s, off, S) ==
    /\ {t.task : t \in s.player.timers} = S
    /\ "unheard" \notin s.astray =>
          \A t \in s.player.timers : t.due + off <= s.player.tasks[t.task].time

ScheduleInv ==
    /\ real \in 1..MaxTime /\ offset \in Corrections
    /\ Keeps(State, Clock)
    /\ Timed(State, offset, IF player.running THEN player.pending ELSE {})

\* From s to g only tasks that are due have been executed.
Spares(s, g, now) ==
    /\ g.player.tasks = s.player.tasks /\ g.player.pending \subseteq s.player.pending
    /\ \A i \in s.player.pending \ g.player.pending : s.player.tasks[i].time <= now

\* From s to g only the gate and what is shown has changed.
Tells(s, g) ==
    /\ g \in StateShape /\ g.astray = s.astray /\ (~s.shown.again => ~g.shown.again)
    /\ g.player.bound = s.player.bound /\ g.player.started = s.player.started
    /\ g.player.running = s.player.running
    /\ g.player.loaded = s.player.loaded /\ g.player.exams = s.player.exams
    /\ g.player.index = s.player.index /\ g.player.currentTime = s.player.currentTime
    /\ g.player.tasks = s.player.tasks /\ g.player.pending = s.player.pending
    /\ g.player.timers = s.player.timers
-----------------------------------------------------------------------------
(* The order of the exams and the current one.                               *)

\* Lemma: a set of numbers that is not empty has a least one.
LEMMA LeastOfAll ==
  ASSUME NEW S \in SUBSET Nat, S # {}
  PROVE  \E a \in S : \A b \in S : a <= b
<1> DEFINE R == OpToRel(<, Nat)
<1>1. IsWellFoundedOn(R, Nat)
  BY NatLessThanWellFounded
<1>2. \A x, y \in Nat : x < y => <<x, y>> \in R
  BY DEF OpToRel
<1> HIDE DEF R
<1>3. PICK a \in S : \A b \in S : ~(<<b, a>> \in R)
  BY <1>1, WFMin
<1>4. \A b \in S : a <= b
  <2> SUFFICES ASSUME NEW b \in S PROVE a <= b
    OBVIOUS
  <2>1. a \in Nat /\ b \in Nat /\ ~(<<b, a>> \in R)
    BY <1>3
  <2>2. ~(b < a)
    BY <1>2, <2>1
  <2> QED BY <2>1, <2>2
<1> QED BY <1>4

\* Lemma: exams have times.
LEMMA ExamTimes ==
    ASSUME NEW e \in ConfigExams
    PROVE  e \in [start : Nat, end : Nat, alert : Nat] /\ e.start < e.end
<1>1. PICK c \in ExamConfigs : \E i \in DOMAIN c : e = c[i] BY DEF ConfigExams
<1>2. PICK i \in DOMAIN c : e = c[i] BY <1>1
<1>3. c \in Seq([start : Nat, end : Nat, alert : Nat]) BY ScheduleAssumption
<1>4. c[i] \in [start : Nat, end : Nat, alert : Nat]
  <2>1. PICK E : E = [start : Nat, end : Nat, alert : Nat] OBVIOUS
  <2>2. c \in Seq(E) BY <1>3, <2>1, Zenon
  <2>3. c[i] \in E BY <1>2, <2>2
  <2> QED BY <2>1, <2>3
<1>5. c[i].start < c[i].end
  BY <1>2, ScheduleAssumption
<1> QED BY <1>2, <1>4, <1>5

\* Lemma: the current exam is one there is.
LEMMA TargetIn ==
    ASSUME NEW exams \in Seq(ConfigExams), exams # <<>>, NEW now \in Int
    PROVE  Target(exams, now) \in 1..Len(exams)
<1> DEFINE running == {i \in DOMAIN exams : exams[i].start <= now /\ now < exams[i].end}
           coming == {i \in DOMAIN exams : now < exams[i].start}
<1>1. ASSUME NEW S \in SUBSET (1..Len(exams)), S # {} PROVE Least(S) \in 1..Len(exams)
  <2>1. S \in SUBSET Nat OBVIOUS
  <2>2. \E a \in S : \A b \in S : a <= b BY <1>1, <2>1, LeastOfAll
  <2>3. Least(S) \in S BY <2>2 DEF Least
  <2> QED BY <2>3
<1>2. running \in SUBSET (1..Len(exams)) /\ coming \in SUBSET (1..Len(exams)) OBVIOUS
<1>3. Len(exams) \in 1..Len(exams) OBVIOUS
<1>4. Target(exams, now) = CASE running # {}                -> Least(running)
                             [] running = {} /\ coming # {} -> Least(coming)
                             [] OTHER                       -> Len(exams)
  BY DEF Target
<1> HIDE DEF running, coming
<1>5. CASE running # {} BY <1>1, <1>2, <1>4, <1>5
<1>6. CASE running = {} /\ coming # {} BY <1>1, <1>2, <1>4, <1>6
<1>7. CASE running = {} /\ coming = {} BY <1>3, <1>4, <1>7
<1> QED BY <1>5, <1>6, <1>7

\* Lemma: the exams before the current one have ended.
LEMMA PastHasEnded ==
    ASSUME NEW exams \in Seq(ConfigExams), Successive(exams), NEW c \in Int,
           NEW i \in 1..Len(exams), i < Target(exams, c)
    PROVE  exams[i].end <= c
<1> DEFINE running == {k \in DOMAIN exams : exams[k].start <= c /\ c < exams[k].end}
           coming == {k \in DOMAIN exams : c < exams[k].start}
<1>1. PICK to : to = Target(exams, c) OBVIOUS
<1>2. to \in 1..Len(exams)
  <2>1. exams # <<>> OBVIOUS
  <2> QED BY <1>1, <2>1, TargetIn
<1>3. ASSUME NEW k \in 1..Len(exams)
      PROVE  exams[k].start \in Nat /\ exams[k].end \in Nat
  <2>1. exams[k] \in ConfigExams OBVIOUS
  <2> QED BY <2>1, ExamTimes
<1>4. to = CASE running # {}                -> Least(running)
             [] running = {} /\ coming # {} -> Least(coming)
             [] OTHER                       -> Len(exams)
  BY <1>1 DEF Target
<1>5. ASSUME NEW S \in SUBSET (1..Len(exams)), S # {}
      PROVE  Least(S) \in S /\ \A k \in S : Least(S) <= k
  <2>1. S \in SUBSET Nat OBVIOUS
  <2> QED BY <1>5, <2>1, LeastOfAll DEF Least
<1>6. running \in SUBSET (1..Len(exams)) /\ coming \in SUBSET (1..Len(exams)) OBVIOUS
<1>7. i < to /\ exams[i].start \in Nat /\ exams[i].end \in Nat BY <1>1, <1>3
<1>8. ASSUME exams[to].start <= c PROVE exams[i].end <= c
  <2>1. exams[i].end <= exams[to].start BY <1>2, <1>7 DEF Successive
  <2> QED BY <1>2, <1>3, <1>7, <1>8, <2>1
<1>9. ASSUME i \notin running, i \notin coming PROVE exams[i].end <= c
  <2>1. ~(exams[i].start <= c /\ c < exams[i].end) /\ ~(c < exams[i].start) BY <1>9
  <2> QED BY <1>7, <2>1
<1> HIDE DEF running, coming
<1>10. CASE running # {}
  <2>1. to \in running BY <1>4, <1>5, <1>6, <1>10
  <2>2. exams[to].start <= c BY <2>1 DEF running
  <2> QED BY <1>8, <2>2
<1>11. CASE running = {} /\ coming # {}
  <2>1. \A k \in coming : to <= k BY <1>4, <1>5, <1>6, <1>11
  <2>2. i \notin coming BY <1>2, <1>7, <2>1
  <2> QED BY <1>9, <1>11, <2>2
<1>12. CASE running = {} /\ coming = {} BY <1>9, <1>12
<1> QED BY <1>10, <1>11, <1>12

\* Lemma: it only changes when an exam begins or ends.
LEMMA TargetStays ==
    ASSUME NEW exams \in Seq(ConfigExams), NEW c \in Int, NEW d \in Int, c <= d,
           \A b \in Nat : IsBound(exams, b) /\ c < b => d < b
    PROVE  Target(exams, c) = Target(exams, d)
<1>1. ASSUME NEW i \in DOMAIN exams
      PROVE  /\ exams[i].start <= c <=> exams[i].start <= d
             /\ c < exams[i].end <=> d < exams[i].end
             /\ c < exams[i].start <=> d < exams[i].start
  <2>1. i \in 1..Len(exams) /\ exams[i] \in ConfigExams OBVIOUS
  <2>2. PICK a, b : a = exams[i].start /\ b = exams[i].end OBVIOUS
  <2>3. a \in Nat /\ b \in Nat BY <2>1, <2>2, ExamTimes
  <2>4. IsBound(exams, a) /\ IsBound(exams, b) BY <2>1, <2>2 DEF IsBound
  <2>5. (c < a => d < a) /\ (c < b => d < b) BY <2>3, <2>4
  <2> QED BY <2>2, <2>3, <2>5
<1>2. /\ {i \in DOMAIN exams : exams[i].start <= c /\ c < exams[i].end}
          = {i \in DOMAIN exams : exams[i].start <= d /\ d < exams[i].end}
      /\ {i \in DOMAIN exams : c < exams[i].start} = {i \in DOMAIN exams : d < exams[i].start}
  BY <1>1
<1> QED BY <1>2, Zenon DEF Target

\* Lemma: updateCurrentExam finds the exam it looks for: exams that follow each
\* other leave nothing to step past.
LEMMA UpdateIs ==
    ASSUME NEW s \in StateShape, Successive(s.player.exams)
    PROVE  updateCurrentExam(s) =
               IF s.player.exams = <<>> THEN s
               ELSE [s EXCEPT !.player.index = Target(s.player.exams, s.player.currentTime)]
<1>1. PICK exams, now, old, to : /\ exams = s.player.exams /\ now = s.player.currentTime
                                 /\ old = s.player.index /\ to = Target(exams, now)
  OBVIOUS
<1>2. exams \in Seq(ConfigExams) /\ now \in Int /\ old \in Nat \ {0}
  BY <1>1 DEF StateShape, PlayerShape
<1>3. ASSUME exams # <<>>, old < Len(exams), now >= exams[old].end, to <= old
      PROVE  FALSE
  <2>1. to \in 1..Len(exams) BY <1>1, <1>2, <1>3, TargetIn
  <2>2. old \in 1..Len(exams) /\ Len(exams) \in Nat BY <1>1, <1>2, <1>3
  <2>3. ASSUME NEW i \in 1..Len(exams)
        PROVE  exams[i].start \in Nat /\ exams[i].end \in Nat
    BY <1>2, ExamTimes
  <2> DEFINE running == {i \in DOMAIN exams : exams[i].start <= now /\ now < exams[i].end}
             coming == {i \in DOMAIN exams : now < exams[i].start}
  <2>4. running \in SUBSET Nat /\ coming \in SUBSET Nat BY <1>2
  <2>5. ASSUME NEW S \in SUBSET Nat, S # {} PROVE Least(S) \in S
    BY <2>5, LeastOfAll DEF Least
  <2>6. to = CASE running # {}                -> Least(running)
               [] running = {} /\ coming # {} -> Least(coming)
               [] OTHER                       -> Len(exams)
    BY <1>1 DEF Target
  <2>7. to \in running \/ to \in coming \/ to = Len(exams)
    <3> HIDE DEF running, coming
    <3> QED BY <2>4, <2>5, <2>6
  <2>8. to # Len(exams) BY <1>2, <1>3, <2>1, <2>2
  <2>9. now < exams[to].end
    <3>1. CASE to \in running BY <3>1
    <3>2. CASE to \in coming
      <4>1. now < exams[to].start /\ exams[to].start < exams[to].end
        BY <1>1, <2>1, <3>2 DEF Successive
      <4> QED BY <1>2, <2>1, <2>3, <4>1
    <3> QED BY <2>7, <2>8, <3>1, <3>2
  <2>10. CASE to = old BY <1>2, <1>3, <2>1, <2>3, <2>9, <2>10
  <2>11. CASE to # old
    <3>1. to < old BY <1>2, <1>3, <2>1, <2>11
    <3>2. exams[to].end <= exams[old].start /\ exams[old].start < exams[old].end
      BY <1>1, <2>1, <2>2, <3>1 DEF Successive
    <3> QED BY <1>2, <1>3, <2>1, <2>2, <2>3, <2>9, <3>2
  <2> QED BY <2>10, <2>11
<1>4. ~(exams # <<>> /\ old < Len(exams) /\ now >= exams[old].end /\ to <= old) BY <1>3
<1> QED BY <1>1, <1>4, Zenon DEF updateCurrentExam
\* Lemma: the exams are put in the order in which they start.
LEMMA OrderIsSuccessive ==
    ASSUME NEW config \in ExamConfigs
    PROVE  /\ InOrder(config) \in Seq(ConfigExams) /\ Len(InOrder(config)) = Len(config)
           /\ Successive(InOrder(config))
           /\ \A k \in 1..Len(config) : \E i \in 1..Len(config) : InOrder(config)[k] = config[i]
<1> DEFINE E == [start : Nat, end : Nat, alert : Nat]
           n == Len(config)
           earlier(i) == {j \in 1..n : config[j].start < config[i].start}
           rank == [i \in 1..n |-> Cardinality(earlier(i)) + 1]
           at(k) == CHOOSE i \in 1..n : Cardinality(earlier(i)) = k - 1
           exams == InOrder(config)
<1>1. config \in Seq(E) /\ n \in Nat /\ DOMAIN config = 1..n BY ScheduleAssumption
<1>2. ASSUME NEW i \in 1..n
      PROVE  /\ config[i] \in ConfigExams /\ config[i].start \in Nat /\ config[i].end \in Nat
             /\ config[i].start < config[i].end
  <2>1. config[i] \in ConfigExams BY <1>1 DEF ConfigExams
  <2> QED BY <2>1, ExamTimes
<1>3. \A i, j \in 1..n : i # j => config[i].end <= config[j].start \/ config[j].end <= config[i].start
  BY <1>1, ScheduleAssumption
<1>4. IsFiniteSet(1..n) /\ Cardinality(1..n) = n
  <2>1. 1 \in Int /\ n \in Int /\ ~(1 > n + 1) /\ n - 1 + 1 = n BY <1>1
  <2>2. IsFiniteSet(1..n) /\ Cardinality(1..n) = IF 1 > n THEN 0 ELSE n - 1 + 1
    BY <2>1, FS_Interval, ZenonT(60)
  <2> QED BY <1>1, <2>1, <2>2
<1>5. ASSUME NEW i \in 1..n
      PROVE  /\ IsFiniteSet(earlier(i)) /\ Cardinality(earlier(i)) \in Nat
             /\ Cardinality(earlier(i)) < n
  <2>1. earlier(i) \in SUBSET (1..n) /\ i \notin earlier(i) BY <1>2
  <2>2. PICK S : S = earlier(i) OBVIOUS
  <2>3. IsFiniteSet(S) /\ Cardinality(S) <= n /\ (Cardinality(S) = n => S = 1..n)
    BY <1>4, <2>1, <2>2, FS_Subset
  <2>4. Cardinality(S) \in Nat BY <2>3, FS_CardinalityType
  <2> QED BY <1>1, <2>1, <2>2, <2>3, <2>4
<1>6. ASSUME NEW i \in 1..n, NEW j \in 1..n, config[i].start < config[j].start
      PROVE  Cardinality(earlier(i)) < Cardinality(earlier(j))
  <2>1. PICK S, T : S = earlier(i) /\ T = earlier(j) OBVIOUS
  <2>2. S \in SUBSET T /\ i \in T /\ i \notin S BY <1>2, <1>6, <2>1
  <2>3. IsFiniteSet(T) /\ Cardinality(T) \in Nat /\ Cardinality(S) \in Nat BY <1>5, <2>1
  <2>4. Cardinality(S) <= Cardinality(T) /\ (Cardinality(T) = Cardinality(S) => T = S)
    BY <2>2, <2>3, FS_Subset
  <2> QED BY <2>1, <2>2, <2>3, <2>4
<1>7. ASSUME NEW i \in 1..n, NEW j \in 1..n, i # j
      PROVE  config[i].start < config[j].start \/ config[j].start < config[i].start
  BY <1>2, <1>3, <1>7
<1> HIDE DEF earlier
<1>8. rank \in [1..n -> 1..n]
  <2>1. ASSUME NEW i \in 1..n PROVE Cardinality(earlier(i)) + 1 \in 1..n
    <3>1. PICK c : c = Cardinality(earlier(i)) OBVIOUS
    <3>2. c \in Nat /\ c < n BY <1>5, <3>1
    <3>3. PICK m : m = n OBVIOUS
    <3>4. m \in Nat /\ c < m BY <1>1, <3>2, <3>3
    <3>5. c + 1 \in 1..m BY <3>2, <3>4
    <3> QED BY <3>1, <3>3, <3>5
  <2> QED BY <2>1
<1>9. \A i, j \in 1..n : i # j => rank[i] # rank[j]
  <2> SUFFICES ASSUME NEW i \in 1..n, NEW j \in 1..n, i # j PROVE rank[i] # rank[j]
    OBVIOUS
  <2>1. Cardinality(earlier(i)) # Cardinality(earlier(j)) BY <1>5, <1>6, <1>7
  <2> QED BY <1>5, <2>1
<1>10. ASSUME NEW k \in 1..n PROVE \E i \in 1..n : Cardinality(earlier(i)) = k - 1
  <2>1. \A k2 \in 1..n : \E i \in 1..n : rank[i] = k2
    <3> HIDE DEF rank
    <3>1. rank \in Injection(1..n, 1..n) BY <1>8, <1>9 DEF Injection, IsInjective
    <3>2. rank \in Surjection(1..n, 1..n) BY <1>4, <3>1, FS_Injection
    <3> QED BY <3>2 DEF Surjection
  <2>2. PICK i \in 1..n : rank[i] = k BY <2>1
  <2>3. PICK c : c = Cardinality(earlier(i)) OBVIOUS
  <2>4. c \in Nat /\ rank[i] = c + 1 BY <1>5, <2>3
  <2>5. c = k - 1 BY <1>1, <2>2, <2>4
  <2> QED BY <2>3, <2>5
<1>11. ASSUME NEW k \in 1..n PROVE at(k) \in 1..n /\ Cardinality(earlier(at(k))) = k - 1
  BY <1>10
<1>12. exams = [k \in 1..n |-> config[at(k)]]
  <2>1. exams = [k \in DOMAIN config |->
                   config[CHOOSE i \in DOMAIN config :
                             Cardinality({j \in DOMAIN config : config[j].start < config[i].start})
                                 = k - 1]]
    BY Zenon DEF InOrder
  <2> QED BY <1>1, <2>1, Zenon DEF earlier
<1> HIDE DEF at, exams
<1>13. exams \in Seq(ConfigExams) /\ Len(exams) = n
  <2>1. \A k \in 1..n : config[at(k)] \in ConfigExams BY <1>2, <1>11
  <2>2. exams \in [1..n -> ConfigExams] BY <1>12, <2>1
  <2>3. n \in Nat BY <1>1
  <2> QED BY <2>2, <2>3, SMTT(30)
<1>14. Successive(exams)
  <2> SUFFICES ASSUME NEW k \in 1..n, NEW l \in 1..n
               PROVE  /\ exams[k].start < exams[k].end
                      /\ k < l => exams[k].end <= exams[l].start
    BY <1>13 DEF Successive
  <2>1. PICK i \in 1..n, j \in 1..n :
            /\ exams[k] = config[i] /\ exams[l] = config[j]
            /\ Cardinality(earlier(i)) = k - 1 /\ Cardinality(earlier(j)) = l - 1
    BY <1>11, <1>12
  <2>2. exams[k].start < exams[k].end BY <1>2, <2>1
  <2>3. ASSUME k < l PROVE exams[k].end <= exams[l].start
    <3>1. i # j /\ ~(config[j].start < config[i].start)
      <4>1. Cardinality(earlier(i)) < Cardinality(earlier(j)) BY <1>1, <2>1, <2>3
      <4>2. Cardinality(earlier(i)) \in Nat /\ Cardinality(earlier(j)) \in Nat BY <1>5
      <4> QED BY <1>6, <4>1, <4>2
    <3>2. config[i].end <= config[j].start \/ config[j].end <= config[i].start BY <1>3, <3>1
    <3>3. config[i].end <= config[j].start BY <1>2, <3>1, <3>2
    <3> QED BY <2>1, <3>3
  <2> QED BY <2>2, <2>3
<1> QED BY <1>11, <1>12, <1>13, <1>14 DEF exams

\* Lemma: each begin and end that is ahead has its task.
LEMMA TasksAreAhead ==
    ASSUME NEW config \in ExamConfigs, NEW now \in Int
    PROVE  LET tasks == TasksFor(config) IN
           /\ tasks \in Seq(TimedTask) /\ Ahead(tasks, {now}) \subseteq 1..Len(tasks)
           /\ \A i \in Ahead(tasks, {now}) : tasks[i].kind = "alert" => tasks[i].exam.alert > 0
           /\ \A i \in 1..Len(tasks) \ Ahead(tasks, {now}) :
                 tasks[i].time <= now \/ (tasks[i].kind = "alert" /\ tasks[i].exam.alert <= 0)
           /\ \A k \in 1..Len(config) : \A b \in {config[k].start, config[k].end} : now < b =>
                 \E i \in Ahead(tasks, {now}) : tasks[i].time = b /\ tasks[i].kind # "alert"
<1> DEFINE E == [start : Nat, end : Nat, alert : Nat]
           n == Len(config)
           exam(i) == config[(i + 2) \div 3]
           tasks == TasksFor(config)
<1>1. config \in Seq(E) /\ n \in Nat /\ DOMAIN config = 1..n BY ScheduleAssumption
<1>2. ASSUME NEW k \in 1..n
      PROVE  /\ config[k] \in ConfigExams /\ config[k].start \in Nat /\ config[k].end \in Nat
             /\ config[k].alert \in Nat /\ config[k].end - config[k].alert \in Int
  <2>1. config[k] \in ConfigExams BY <1>1 DEF ConfigExams
  <2>2. config[k].start \in Nat /\ config[k].end \in Nat /\ config[k].alert \in Nat
    BY <2>1, ExamTimes
  <2> QED BY <2>1, <2>2
<1>3. ASSUME NEW i \in 1..(3 * n)
      PROVE  (i + 2) \div 3 \in 1..n /\ (i % 3 = 0 \/ i % 3 = 1 \/ i % 3 = 2)
  BY <1>1
<1> DEFINE task(i) ==
             CASE i % 3 = 1 -> [kind |-> "start", exam |-> exam(i), time |-> exam(i).start]
               [] i % 3 = 2 -> [kind |-> "end", exam |-> exam(i), time |-> exam(i).end]
               [] i % 3 = 0 -> [kind |-> "alert", exam |-> exam(i),
                                time |-> exam(i).end - exam(i).alert]
<1>4. tasks = [i \in 1..(3 * n) |-> task(i)]
  BY DEF TasksFor
<1> HIDE DEF tasks
<1>5. ASSUME NEW i \in 1..(3 * n)
      PROVE  /\ task(i) \in TimedTask
             /\ i % 3 = 1 => task(i).kind = "start" /\ task(i).time = exam(i).start
             /\ i % 3 = 2 => task(i).kind = "end" /\ task(i).time = exam(i).end
  <2>1. PICK e : e = exam(i) OBVIOUS
  <2>2. /\ e \in ConfigExams /\ e.start \in Nat /\ e.end \in Nat /\ e.end - e.alert \in Int
    BY <1>2, <1>3, <2>1
  <2>3. task(i) = CASE i % 3 = 1 -> [kind |-> "start", exam |-> e, time |-> e.start]
                    [] i % 3 = 2 -> [kind |-> "end", exam |-> e, time |-> e.end]
                    [] i % 3 = 0 -> [kind |-> "alert", exam |-> e, time |-> e.end - e.alert]
    BY <2>1
  <2> HIDE DEF exam, task
  <2>4. CASE i % 3 = 1 BY <2>1, <2>2, <2>3, <2>4 DEF TimedTask, Kinds
  <2>5. CASE i % 3 = 2 BY <2>1, <2>2, <2>3, <2>5 DEF TimedTask, Kinds
  <2>6. CASE i % 3 = 0 BY <2>1, <2>2, <2>3, <2>6 DEF TimedTask, Kinds
  <2> QED BY <1>3, <2>4, <2>5, <2>6
<1> HIDE DEF task
<1>6. /\ tasks \in Seq(TimedTask) /\ Len(tasks) = 3 * n
      /\ \A i \in 1..(3 * n) : tasks[i] = task(i)
  <2>1. PICK m : m = 3 * n OBVIOUS
  <2>2. m \in Nat BY <1>1, <2>1
  <2>3. tasks = [i \in 1..m |-> task(i)] /\ \A i \in 1..m : task(i) \in TimedTask
    BY <1>4, <1>5, <2>1
  <2>4. tasks \in [1..m -> TimedTask] BY <2>3
  <2>5. tasks \in Seq(TimedTask) /\ Len(tasks) = m BY <2>2, <2>4
  <2> QED BY <2>1, <2>3, <2>5
<1>7. /\ Ahead(tasks, {now}) \subseteq 1..Len(tasks)
      /\ \A i \in Ahead(tasks, {now}) : tasks[i].kind = "alert" => tasks[i].exam.alert > 0
  BY <1>6 DEF Ahead
<1>8. ASSUME NEW i \in 1..Len(tasks) \ Ahead(tasks, {now})
      PROVE  tasks[i].time <= now \/ (tasks[i].kind = "alert" /\ tasks[i].exam.alert <= 0)
  <2>1. tasks[i] \in TimedTask BY <1>6
  <2>2. tasks[i].time \in Int /\ tasks[i].exam.alert \in Nat BY <2>1, ExamTimes DEF TimedTask
  <2>3. ~(tasks[i].time > now /\ (tasks[i].kind = "alert" => tasks[i].exam.alert > 0))
    BY <1>6 DEF Ahead
  <2> QED BY <2>2, <2>3
<1>9. ASSUME NEW k \in 1..n, NEW b \in {config[k].start, config[k].end}, now < b
      PROVE  \E i \in Ahead(tasks, {now}) : tasks[i].time = b /\ tasks[i].kind # "alert"
  <2>1. PICK i, j : i = 3 * k - 2 /\ j = 3 * k - 1 OBVIOUS
  <2>2. /\ i \in 1..(3 * n) /\ j \in 1..(3 * n) /\ i % 3 = 1 /\ j % 3 = 2
        /\ (i + 2) \div 3 = k /\ (j + 2) \div 3 = k
    <3>1. k \in Nat /\ n \in Nat /\ k <= n /\ 1 <= k BY <1>1
    <3>2. i \in 1..(3 * n) /\ j \in 1..(3 * n) BY <2>1, <3>1
    <3>3. i % 3 = 1 BY <2>1, <3>1
    <3>4. j % 3 = 2 BY <2>1, <3>1
    <3>5. (i + 2) \div 3 = k
      <4>1. i + 2 = 3 * k BY <2>1, <3>1
      <4>2. (3 * k) \div 3 = k BY <3>1
      <4> QED BY <4>1, <4>2
    <3>6. (j + 2) \div 3 = k
      <4>1. j + 2 = 3 * k + 1 BY <2>1, <3>1
      <4>2. (3 * k + 1) \div 3 = k BY <3>1
      <4> QED BY <4>1, <4>2
    <3> QED BY <3>2, <3>3, <3>4, <3>5, <3>6
  <2>3. exam(i) = config[k] /\ exam(j) = config[k] BY <2>2
  <2>4. /\ tasks[i].kind = "start" /\ tasks[i].time = config[k].start
        /\ tasks[j].kind = "end" /\ tasks[j].time = config[k].end
    BY <1>5, <1>6, <2>2, <2>3
  <2>5. DOMAIN tasks = 1..(3 * n) BY <1>6
  <2>6. CASE b = config[k].start
    <3>1. i \in Ahead(tasks, {now}) BY <1>9, <2>2, <2>4, <2>5, <2>6 DEF Ahead
    <3> QED BY <2>4, <2>6, <3>1
  <2>7. CASE b = config[k].end
    <3>1. j \in Ahead(tasks, {now}) BY <1>9, <2>2, <2>4, <2>5, <2>7 DEF Ahead
    <3> QED BY <2>4, <2>7, <3>1
  <2> QED BY <2>6, <2>7
<1> QED BY <1>6, <1>7, <1>8, <1>9 DEF tasks
-----------------------------------------------------------------------------
(* What the watchers present.                                                *)

\* Lemma: to present a reminder changes the gate and the screen alone.
LEMMA PresentTells ==
    ASSUME NEW s \in StateShape, NEW kind \in Kinds, NEW exam \in ConfigExams
    PROVE  Tells(s, Present(s, kind, exam))
<1>1. PICK r : r = <<kind, exam>> OBVIOUS
<1>2. r \in Kinds \X ConfigExams BY <1>1
<1>3. CASE r \in s.player.accepted
  <2>1. Present(s, kind, exam) = s BY <1>1, <1>3 DEF Present
  <2> QED BY <2>1 DEF Tells
<1>4. CASE r \notin s.player.accepted
  <2>1. Present(s, kind, exam) = Show(s, r) BY <1>1, <1>4 DEF Present
  <2>2. PICK p, again : p = s.player /\ again = s.shown.again OBVIOUS
  <2>3. p \in PlayerShape /\ again \in BOOLEAN BY <2>2, Zenon DEF StateShape
  <2>4. PICK q : q = [p EXCEPT !.accepted = @ \union {r}] OBVIOUS
  <2>5. /\ q \in PlayerShape /\ q.bound = p.bound /\ q.started = p.started /\ q.running = p.running
        /\ q.loaded = p.loaded /\ q.exams = p.exams /\ q.index = p.index
        /\ q.currentTime = p.currentTime /\ q.tasks = p.tasks /\ q.pending = p.pending
        /\ q.timers = p.timers
    BY <1>2, <2>3, <2>4 DEF PlayerShape
  <2>6. PICK h : h = [last |-> {r}, again |-> again \/ r \in p.accepted] OBVIOUS
  <2>7. h \in [last : SUBSET (Kinds \X ConfigExams), again : BOOLEAN] /\ (~again => ~h.again)
    BY <1>2, <1>4, <2>2, <2>3, <2>6
  <2>8. PICK g : g = [s EXCEPT !.player = q, !.shown = h] OBVIOUS
  <2>9. Show(s, r) = g
    BY <2>2, <2>4, <2>6, <2>8, Zenon DEF Show, StateShape
  <2>10. g.player = q /\ g.shown = h /\ g.astray = s.astray /\ g \in StateShape
    BY <2>5, <2>7, <2>8 DEF StateShape
  <2>11. Tells(s, g) BY <2>2, <2>5, <2>7, <2>10, Zenon DEF Tells
  <2> QED BY <2>1, <2>9, <2>11
<1> QED BY <1>3, <1>4

\* Lemma: the current exam is one of the configuration, with one of three
\* statuses; without one there is nothing to tell.
LEMMA StatusIs ==
    ASSUME NEW p \in PlayerShape
    PROVE  IF HasExam(p) THEN p.exams[p.index] \in ConfigExams /\ Status(p) \in SeenStatuses
           ELSE Status(p) = "unknown"
<1>1. PICK exams, index, now : exams = p.exams /\ index = p.index /\ now = p.currentTime
  OBVIOUS
<1>2. exams \in Seq(ConfigExams) /\ now \in Int BY <1>1 DEF PlayerShape
<1>3. CASE HasExam(p)
  <2>1. index \in DOMAIN exams BY <1>1, <1>3 DEF HasExam
  <2>2. PICK e : e = exams[index] OBVIOUS
  <2>3. e \in ConfigExams BY <1>2, <2>1, <2>2
  <2>4. e.start \in Nat /\ e.end \in Nat /\ e.start < e.end BY <2>3, ExamTimes
  <2>5. Status(p) = CASE now < e.start -> "pending"
                      [] now >= e.end  -> "completed"
                      [] OTHER         -> "inProgress"
    BY <1>1, <1>3, <2>2 DEF Status
  <2>6. Status(p) \in SeenStatuses BY <1>2, <2>4, <2>5 DEF SeenStatuses
  <2> QED BY <1>1, <1>3, <2>2, <2>3, <2>6
<1>4. CASE ~HasExam(p) BY <1>4 DEF Status
<1> QED BY <1>3, <1>4

\* Lemma: so does a look at the time that is left.
LEMMA SeeTimeLeftTells ==
    ASSUME NEW before, NEW s \in StateShape
    PROVE  Tells(s, SeeTimeLeft(before, s))
<1>1. PICK p : p = s.player OBVIOUS
<1>2. p \in PlayerShape BY <1>1, Zenon DEF StateShape
<1>3. PICK e : e = p.exams[p.index] OBVIOUS
<1>4. \/ SeeTimeLeft(before, s) = s
      \/ Status(p) = "inProgress" /\ SeeTimeLeft(before, s) = Present(s, "alert", e)
  BY <1>1, <1>3, Zenon DEF SeeTimeLeft
<1>5. CASE SeeTimeLeft(before, s) = s BY <1>5 DEF Tells
<1>6. CASE Status(p) = "inProgress" /\ SeeTimeLeft(before, s) = Present(s, "alert", e)
  <2>1. e \in ConfigExams BY <1>2, <1>3, <1>6, StatusIs
  <2> QED BY <1>6, <2>1, PresentTells DEF Kinds
<1> QED BY <1>4, <1>5, <1>6

\* Lemma: and so does a look at the status.
LEMMA SeeStatusTells ==
    ASSUME NEW s \in StateShape
    PROVE  Tells(s, SeeStatus(s))
<1>1. PICK p : p = s.player OBVIOUS
<1>2. p \in PlayerShape BY <1>1, Zenon DEF StateShape
<1>3. PICK e : e = p.exams[p.index] OBVIOUS
<1>4. PICK now : now = IF HasExam(p) THEN {<<e, Status(p)>>} ELSE {} OBVIOUS
<1>5. now \in SUBSET (ConfigExams \X SeenStatuses)
  <2>1. CASE HasExam(p) BY <1>2, <1>3, <1>4, <2>1, StatusIs
  <2>2. CASE ~HasExam(p) BY <1>4, <2>2
  <2> QED BY <2>1, <2>2
<1> DEFINE Turned(status) == /\ Status(p) = status
                             /\ \E seen \in p.seen : seen[1] = e /\ seen[2] # status
<1>6. PICK told : told = IF ~HasExam(p) THEN s
                         ELSE CASE Turned("inProgress") -> Present(s, "start", e)
                                [] Turned("completed")  -> Present(s, "end", e)
                                [] OTHER                -> s
  OBVIOUS
<1>7. SeeStatus(s) = [told EXCEPT !.player.seen = now]
  BY <1>1, <1>3, <1>4, <1>6, Zenon DEF SeeStatus
<1>8. Tells(s, told)
  <2>0. Tells(s, s) BY DEF Tells
  <2>1. CASE ~HasExam(p) BY <1>6, <2>0, <2>1
  <2>2. CASE HasExam(p)
    <3>1. e \in ConfigExams BY <1>2, <1>3, <2>2, StatusIs
    <3>2. Tells(s, Present(s, "start", e)) /\ Tells(s, Present(s, "end", e))
      BY <3>1, PresentTells DEF Kinds
    <3> HIDE DEF Turned
    <3>3. CASE Turned("inProgress")
      <4>1. ~Turned("completed") BY <3>3 DEF Turned
      <4> QED BY <1>6, <2>2, <3>2, <3>3, <4>1
    <3>4. CASE ~Turned("inProgress") /\ Turned("completed") BY <1>6, <2>2, <3>2, <3>4
    <3>5. CASE ~Turned("inProgress") /\ ~Turned("completed") BY <1>6, <2>0, <2>2, <3>5
    <3> QED BY <3>3, <3>4, <3>5
  <2> QED BY <2>1, <2>2
<1>9. PICK q : q = told.player OBVIOUS
<1>10. told \in StateShape /\ q \in PlayerShape BY <1>8, <1>9, Zenon DEF Tells, StateShape
<1>11. PICK r : r = [q EXCEPT !.seen = now] OBVIOUS
<1>12. /\ r \in PlayerShape /\ r.bound = q.bound /\ r.started = q.started /\ r.running = q.running
       /\ r.loaded = q.loaded /\ r.exams = q.exams /\ r.index = q.index
       /\ r.currentTime = q.currentTime /\ r.tasks = q.tasks /\ r.pending = q.pending
       /\ r.timers = q.timers
  BY <1>5, <1>10, <1>11 DEF PlayerShape
<1>13. PICK g : g = [told EXCEPT !.player = r] OBVIOUS
<1>14. [told EXCEPT !.player.seen = now] = g BY <1>9, <1>11, <1>13, Zenon
<1>15. g.player = r /\ g.shown = told.shown /\ g.astray = told.astray /\ g \in StateShape
  BY <1>10, <1>12, <1>13 DEF StateShape
<1>16. Tells(s, g) BY <1>8, <1>9, <1>12, <1>15, Zenon DEF Tells
<1> QED BY <1>7, <1>14, <1>16

\* From s to g the queue has not changed.
SameQueue(s, g) ==
    /\ g.player.tasks = s.player.tasks /\ g.player.pending = s.player.pending
    /\ g.player.timers = s.player.timers /\ g.player.running = s.player.running
    /\ g.player.started = s.player.started /\ g.player.bound = s.player.bound
    /\ "unheard" \in g.astray <=> "unheard" \in s.astray

\* Lemma: what is to come only depends on the exams and the queue.
LEMMA SameCovers ==
    ASSUME NEW p, NEW q, q.exams = p.exams, q.pending = p.pending,
           q.tasks = p.tasks, q.bound = p.bound
    PROVE  \A c : Covers(q, c) <=> Covers(p, c)
BY DEF Covers

\* Lemma: what is presented disturbs nothing.
LEMMA TellsKeeps ==
    ASSUME NEW s, NEW g, NEW now, Keeps(s, now), Tells(s, g)
    PROVE  Keeps(g, now) /\ SameQueue(s, g)
<1>1. SameQueue(s, g) BY Zenon DEF SameQueue, Tells
<1>2. \A c : Covers(g.player, c) <=> Covers(s.player, c)
  BY SameCovers, Zenon DEF Tells
<1>3. /\ g.astray = s.astray /\ g.player.loaded = s.player.loaded
      /\ g.player.exams = s.player.exams /\ g.player.index = s.player.index
  BY Zenon DEF Tells
<1>4. Follows(s, now) => Follows(g, now)
  <2> SUFFICES ASSUME Follows(s, now), g.player.loaded,
                      g.astray \cap {"index", "time"} = {}, g.player.exams # <<>>
               PROVE  \E c \in Int : /\ c <= now /\ g.player.index = Target(g.player.exams, c)
                                     /\ Covers(g.player, c)
    BY Zenon DEF Follows
  <2>1. PICK c \in Int : /\ c <= now /\ s.player.index = Target(s.player.exams, c)
                         /\ Covers(s.player, c)
    BY <1>3, Zenon DEF Follows
  <2> QED BY <1>2, <1>3, <2>1, Zenon
<1> QED BY <1>1, <1>2, <1>3, <1>4, Zenon DEF Keeps, Tells

\* Lemma: currentTime may have any value.
LEMMA ClockKeeps ==
    ASSUME NEW s, NEW now, Keeps(s, now), NEW time \in Int
    PROVE  LET g == [s EXCEPT !.player.currentTime = time]
           IN  Keeps(g, now) /\ SameQueue(s, g) /\ g.player.currentTime = time
<1>1. PICK p : p = s.player OBVIOUS
<1>2. s \in StateShape /\ p \in PlayerShape BY <1>1, Zenon DEF Keeps, StateShape
<1>3. PICK q : q = [p EXCEPT !.currentTime = time] OBVIOUS
<1>4. /\ q \in PlayerShape /\ q.bound = p.bound /\ q.started = p.started /\ q.running = p.running
      /\ q.loaded = p.loaded /\ q.exams = p.exams /\ q.index = p.index
      /\ q.currentTime = time /\ q.tasks = p.tasks /\ q.pending = p.pending
      /\ q.timers = p.timers
  BY <1>2, <1>3 DEF PlayerShape
<1>5. PICK g : g = [s EXCEPT !.player = q] OBVIOUS
<1>6. [s EXCEPT !.player.currentTime = time] = g BY <1>1, <1>3, <1>5, Zenon
<1>7. g.player = q /\ g.shown = s.shown /\ g.astray = s.astray /\ g \in StateShape
  BY <1>2, <1>4, <1>5 DEF StateShape
<1>8. SameQueue(s, g) BY <1>1, <1>4, <1>7, Zenon DEF SameQueue
<1>9. \A c : Covers(g.player, c) <=> Covers(s.player, c)
  <2>1. /\ g.player.exams = s.player.exams /\ g.player.pending = s.player.pending
        /\ g.player.tasks = s.player.tasks /\ g.player.bound = s.player.bound
    BY <1>1, <1>4, <1>7
  <2> QED BY <2>1, SameCovers, Zenon
<1>10. Follows(g, now)
  <2> SUFFICES ASSUME g.player.loaded,
                      g.astray \cap {"index", "time"} = {}, g.player.exams # <<>>
               PROVE  \E c \in Int : /\ c <= now /\ g.player.index = Target(g.player.exams, c)
                                     /\ Covers(g.player, c)
    BY Zenon DEF Follows
  <2>1. PICK c \in Int : /\ c <= now /\ s.player.index = Target(s.player.exams, c)
                         /\ Covers(s.player, c)
    BY <1>1, <1>4, <1>7, Zenon DEF Follows, Keeps
  <2> QED BY <1>1, <1>4, <1>7, <1>9, <2>1, Zenon
<1>11. Keeps(g, now)
  BY <1>1, <1>4, <1>7, <1>9, <1>10, Zenon DEF Keeps
<1> QED BY <1>4, <1>6, <1>7, <1>8, <1>11, Zenon

\* Lemma: an update at the time it is makes the index right.
LEMMA UpdateKeeps ==
    ASSUME NEW s, NEW now \in Int, Keeps(s, now), s.player.currentTime = now
    PROVE  LET g == [updateCurrentExam(s) EXCEPT !.astray = @ \ {"index"}]
           IN  /\ Keeps(g, now) /\ SameQueue(s, g) /\ g.player.currentTime = now
               /\ g.player.exams # <<>> => g.player.index = Target(g.player.exams, now)
<1>1. PICK p, to : p = s.player /\ to = Target(p.exams, now) OBVIOUS
<1>2. s \in StateShape /\ p \in PlayerShape /\ p.currentTime = now
  BY <1>1, Zenon DEF Keeps, StateShape
<1>3. updateCurrentExam(s) = IF p.exams = <<>> THEN s ELSE [s EXCEPT !.player.index = to]
  <2>1. updateCurrentExam(s) =
            IF s.player.exams = <<>> THEN s
            ELSE [s EXCEPT !.player.index = Target(s.player.exams, s.player.currentTime)]
    BY <1>2, UpdateIs, Zenon DEF Keeps
  <2> QED BY <1>1, <2>1
<1>4. PICK q : q = IF p.exams = <<>> THEN p ELSE [p EXCEPT !.index = to] OBVIOUS
<1>5. p.exams # <<>> => to \in 1..Len(p.exams)
  BY <1>1, <1>2, TargetIn DEF PlayerShape
<1>6. /\ q \in PlayerShape /\ q.bound = p.bound /\ q.started = p.started /\ q.running = p.running
      /\ q.loaded = p.loaded /\ q.exams = p.exams /\ (p.exams # <<>> => q.index = to)
      /\ q.currentTime = now /\ q.tasks = p.tasks /\ q.pending = p.pending
      /\ q.timers = p.timers
  <2>1. CASE p.exams = <<>> BY <1>2, <1>4, <2>1
  <2>2. CASE p.exams # <<>>
    <3>1. to \in Nat \ {0} BY <1>5, <2>2
    <3> QED BY <1>2, <1>4, <2>2, <3>1 DEF PlayerShape
  <2> QED BY <2>1, <2>2
<1>7. PICK g : g = [s EXCEPT !.player = q, !.astray = @ \ {"index"}] OBVIOUS
<1>8. /\ g.player = q /\ g.shown = s.shown /\ g.astray = s.astray \ {"index"}
      /\ g \in StateShape
  BY <1>2, <1>6, <1>7 DEF StateShape
<1>9. [updateCurrentExam(s) EXCEPT !.astray = @ \ {"index"}] = g
  <2>1. updateCurrentExam(s) = [s EXCEPT !.player = q]
    <3>1. CASE p.exams = <<>>
      <4>1. q = s.player BY <1>1, <1>4, <3>1
      <4>2. [s EXCEPT !.player = q] = s BY <1>2, <4>1 DEF StateShape
      <4> QED BY <1>3, <3>1, <4>2
    <3>2. CASE p.exams # <<>>
      <4>1. q = [p EXCEPT !.index = to] BY <1>4, <3>2
      <4> QED BY <1>1, <1>3, <3>2, <4>1, Zenon
    <3> QED BY <3>1, <3>2
  <2>2. [[s EXCEPT !.player = q] EXCEPT !.astray = @ \ {"index"}]
            = [s EXCEPT !.player = q, !.astray = @ \ {"index"}]
    OBVIOUS
  <2> QED BY <1>7, <2>1, <2>2, Zenon
<1>10. SameQueue(s, g)
  <2>1. "unheard" \in g.astray <=> "unheard" \in s.astray BY <1>8
  <2> QED BY <1>1, <1>6, <1>8, <2>1, Zenon DEF SameQueue
<1>11. \A c : Covers(g.player, c) <=> Covers(s.player, c)
  <2>1. /\ g.player.exams = s.player.exams /\ g.player.pending = s.player.pending
        /\ g.player.tasks = s.player.tasks /\ g.player.bound = s.player.bound
    BY <1>1, <1>6, <1>8
  <2> QED BY <2>1, SameCovers, Zenon
<1>12. "time" \in g.astray <=> "time" \in s.astray BY <1>8
<1>13. s.player.loaded /\ "time" \notin s.astray => Covers(g.player, now)
  BY <1>11, Zenon DEF Keeps
<1>14. Follows(g, now)
  <2> SUFFICES ASSUME g.player.loaded,
                      g.astray \cap {"index", "time"} = {}, g.player.exams # <<>>
               PROVE  \E c \in Int : /\ c <= now /\ g.player.index = Target(g.player.exams, c)
                                     /\ Covers(g.player, c)
    BY Zenon DEF Follows
  <2>1. "time" \notin s.astray BY <1>12
  <2>2. Covers(g.player, now) BY <1>1, <1>6, <1>8, <1>13, <2>1
  <2>3. g.player.index = Target(g.player.exams, now) BY <1>1, <1>6, <1>8
  <2>4. now <= now OBVIOUS
  <2> QED BY <2>2, <2>3, <2>4, Zenon
<1>15. g.player.exams # <<>> => g.player.index \in 1..Len(g.player.exams)
  BY <1>5, <1>6, <1>8
<1>16. Keeps(g, now)
  BY <1>1, <1>6, <1>8, <1>12, <1>13, <1>14, <1>15, Zenon DEF Keeps
<1>17. g.player.exams # <<>> => g.player.index = Target(g.player.exams, now)
  BY <1>1, <1>6, <1>8
<1> QED BY <1>6, <1>8, <1>9, <1>10, <1>16, <1>17, Zenon

\* Lemma: the watchers leave the player as it should be.
LEMMA WatchedKeeps ==
    ASSUME NEW before, NEW s, NEW now \in Int, NEW halfMinute \in BOOLEAN,
           Keeps(s, now), halfMinute => s.player.currentTime = now
    PROVE  Keeps(Watched(before, s, halfMinute), now)
             /\ SameQueue(s, Watched(before, s, halfMinute))
<1>1. PICK updated :
         updated = IF halfMinute /\ s.player.loaded
                      /\ s.player.currentTime # before.player.currentTime
                   THEN [updateCurrentExam(s) EXCEPT !.astray = @ \ {"index"}] ELSE s
  OBVIOUS
<1>2. Keeps(updated, now) /\ SameQueue(s, updated)
  <2>1. CASE updated = s BY <2>1 DEF SameQueue
  <2>2. CASE updated # s
    <3>1. updated = [updateCurrentExam(s) EXCEPT !.astray = @ \ {"index"}] /\ halfMinute
      BY <1>1, <2>2, Zenon
    <3> QED BY <3>1, UpdateKeeps, Zenon
  <2> QED BY <2>1, <2>2
<1>3. PICK t, g : t = SeeTimeLeft(before, updated) /\ g = SeeStatus(t) OBVIOUS
<1>4. Watched(before, s, halfMinute) = g \/ Watched(before, s, halfMinute) = updated
  BY <1>1, <1>3, Zenon DEF Watched
<1>5. Keeps(t, now) /\ SameQueue(updated, t)
  <2>1. updated \in StateShape BY <1>2, Zenon DEF Keeps
  <2>2. Tells(updated, t) BY <1>3, <2>1, SeeTimeLeftTells, Zenon
  <2> QED BY <1>2, <2>2, TellsKeeps, Zenon
<1>6. Keeps(g, now) /\ SameQueue(t, g)
  <2>1. t \in StateShape BY <1>5, Zenon DEF Keeps
  <2>2. Tells(t, g) BY <1>3, <2>1, SeeStatusTells, Zenon
  <2> QED BY <1>5, <2>2, TellsKeeps, Zenon
<1>7. SameQueue(s, g) BY <1>2, <1>5, <1>6, Zenon DEF SameQueue
<1> QED BY <1>2, <1>4, <1>6, <1>7, Zenon

\* Lemma: so do the callbacks of the tasks.
LEMMA HandleKeeps ==
    ASSUME NEW s, NEW now \in Int, Keeps(s, now), NEW task \in TimedTask
    PROVE  LET g == Handle(s, task, now)
           IN  /\ Keeps(g, now) /\ SameQueue(s, g)
               /\ s.player.currentTime = now => g.player.currentTime = now
               /\ task.kind # "alert" /\ g.player.exams # <<>>
                    => g.player.index = Target(g.player.exams, now)
<1>1. PICK t, u : /\ t = [s EXCEPT !.player.currentTime = now]
                  /\ u = IF task.kind = "alert" THEN s
                         ELSE [updateCurrentExam(t) EXCEPT !.astray = @ \ {"index"}]
  OBVIOUS
<1>2. PICK g : g = Present(u, task.kind, task.exam) OBVIOUS
<1>3. Handle(s, task, now) = g BY <1>1, <1>2, Zenon DEF Handle
<1>4. /\ Keeps(u, now) /\ SameQueue(s, u)
      /\ s.player.currentTime = now => u.player.currentTime = now
      /\ task.kind # "alert" /\ u.player.exams # <<>>
                    => u.player.index = Target(u.player.exams, now)
  <2>1. CASE task.kind = "alert" BY <1>1, <2>1 DEF SameQueue
  <2>2. CASE task.kind # "alert"
    <3>1. Keeps(t, now) /\ SameQueue(s, t) /\ t.player.currentTime = now
      BY <1>1, ClockKeeps, Zenon
    <3>2. u = [updateCurrentExam(t) EXCEPT !.astray = @ \ {"index"}] BY <1>1, <2>2
    <3>3. /\ Keeps(u, now) /\ SameQueue(t, u) /\ u.player.currentTime = now
          /\ u.player.exams # <<>> => u.player.index = Target(u.player.exams, now)
      BY <3>1, <3>2, UpdateKeeps, Zenon
    <3> QED BY <3>1, <3>3, Zenon DEF SameQueue
  <2> QED BY <2>1, <2>2
<1>5. task.kind \in Kinds /\ task.exam \in ConfigExams BY DEF TimedTask
<1>6. Tells(u, g) BY <1>2, <1>4, <1>5, PresentTells, Zenon DEF Keeps
<1>7. Keeps(g, now) /\ SameQueue(u, g) BY <1>4, <1>6, TellsKeeps, Zenon
<1>8. SameQueue(s, g) BY <1>4, <1>7, Zenon DEF SameQueue
<1>9. task.kind # "alert" /\ g.player.exams # <<>>
        => g.player.index = Target(g.player.exams, now)
  BY <1>4, <1>6, Zenon DEF Tells
<1>10. s.player.currentTime = now => g.player.currentTime = now
  BY <1>4, <1>6, Zenon DEF Tells
<1> QED BY <1>3, <1>7, <1>8, <1>9, <1>10, Zenon

\* Lemma: a task that is due is executed once, and only what is to come matters.
LEMMA ExecuteKeeps ==
    ASSUME NEW s, NEW now \in Int, Keeps(s, now), NEW i \in 1..Len(s.player.tasks),
           s.player.tasks[i].time <= now
    PROVE  LET g == executeTask(s, i, now)
           IN  /\ Keeps(g, now) /\ g.player.tasks = s.player.tasks
               /\ g.player.pending = s.player.pending \ {i}
               /\ g.player.timers = {t \in s.player.timers : t.task # i}
               /\ g.player.running = s.player.running /\ g.player.started = s.player.started
               /\ "unheard" \in g.astray <=> "unheard" \in s.astray
               /\ s.player.currentTime = now => g.player.currentTime = now
<1>1. PICK task, h : task = s.player.tasks[i] /\ h = Handle(s, task, now) OBVIOUS
<1>2. s \in StateShape /\ s.player \in PlayerShape BY Zenon DEF Keeps, StateShape
<1>3. task \in TimedTask
  <2>1. PICK T : T = TimedTask OBVIOUS
  <2>2. PICK tasks : tasks = s.player.tasks OBVIOUS
  <2>3. tasks \in Seq(T) /\ i \in 1..Len(tasks) BY <1>2, <2>1, <2>2, Zenon DEF PlayerShape
  <2>4. tasks[i] \in T BY <2>3
  <2> QED BY <1>1, <2>1, <2>2, <2>4
<1>4. /\ Keeps(h, now) /\ SameQueue(s, h)
      /\ s.player.currentTime = now => h.player.currentTime = now
      /\ task.kind # "alert" /\ h.player.exams # <<>>
           => h.player.index = Target(h.player.exams, now)
  BY <1>1, <1>3, HandleKeeps, Zenon
<1>5. PICK p : p = h.player OBVIOUS
<1>6. h \in StateShape /\ p \in PlayerShape BY <1>4, <1>5, Zenon DEF Keeps, StateShape
<1>7. PICK q : q = [p EXCEPT !.pending = @ \ {i}, !.timers = {t \in @ : t.task # i}]
  OBVIOUS
<1>8. /\ q \in PlayerShape /\ q.bound = p.bound /\ q.started = p.started /\ q.running = p.running
      /\ q.loaded = p.loaded /\ q.exams = p.exams /\ q.index = p.index
      /\ q.tasks = p.tasks /\ q.pending = p.pending \ {i} /\ q.currentTime = p.currentTime
      /\ q.timers = {t \in p.timers : t.task # i}
  BY <1>6, <1>7 DEF PlayerShape
<1>9. PICK g : g = [h EXCEPT !.player = q] OBVIOUS
<1>10. executeTask(s, i, now) = g
  <2>1. executeTask(s, i, now) = [h EXCEPT !.player.pending = @ \ {i},
                                           !.player.timers = {t \in @ : t.task # i}]
    BY <1>1, Zenon DEF executeTask
  <2>2. [h EXCEPT !.player.pending = @ \ {i}, !.player.timers = {t \in @ : t.task # i}] = g
    BY <1>5, <1>6, <1>7, <1>9 DEF StateShape, PlayerShape
  <2> QED BY <2>1, <2>2
<1>11. g.player = q /\ g.shown = h.shown /\ g.astray = h.astray /\ g \in StateShape
  BY <1>6, <1>8, <1>9 DEF StateShape
<1>12. /\ g.player.tasks = s.player.tasks /\ g.player.pending = s.player.pending \ {i}
       /\ g.player.timers = {t \in s.player.timers : t.task # i}
       /\ g.player.running = s.player.running /\ g.player.started = s.player.started
       /\ "unheard" \in g.astray <=> "unheard" \in s.astray
  <2>1. /\ p.tasks = s.player.tasks /\ p.pending = s.player.pending
        /\ p.timers = s.player.timers /\ p.running = s.player.running
        /\ p.started = s.player.started /\ ("unheard" \in h.astray <=> "unheard" \in s.astray)
    BY <1>4, <1>5, Zenon DEF SameQueue
  <2> QED BY <1>8, <1>11, <2>1
<1>13. ASSUME NEW c \in Int, Covers(p, c), c = now \/ task.kind = "alert"
       PROVE  Covers(q, c)
  <2> SUFFICES ASSUME q.bound, NEW b \in Nat, IsBound(q.exams, b), c < b
               PROVE  \E j \in q.pending : q.tasks[j].time = b /\ q.tasks[j].kind # "alert"
    BY DEF Covers
  <2>1. PICK j \in p.pending : p.tasks[j].time = b /\ p.tasks[j].kind # "alert"
    BY <1>8, <1>13, Zenon DEF Covers
  <2>2. j # i
    <3>1. p.tasks[i] = task /\ task.time <= now BY <1>1, <1>4, <1>5, Zenon DEF SameQueue
    <3>2. task.time \in Int BY <1>3 DEF TimedTask
    <3> QED BY <1>13, <2>1, <3>1, <3>2
  <2> QED BY <1>8, <2>1, <2>2
<1>14. g.player.loaded /\ "time" \notin g.astray => Covers(g.player, now)
  <2>1. h.player.loaded /\ "time" \notin h.astray => Covers(p, now)
    BY <1>4, <1>5, Zenon DEF Keeps
  <2> QED BY <1>5, <1>8, <1>11, <1>13, <2>1
<1>15. Follows(g, now)
  <2> SUFFICES ASSUME g.player.loaded,
                      g.astray \cap {"index", "time"} = {}, g.player.exams # <<>>
               PROVE  \E c \in Int : /\ c <= now /\ g.player.index = Target(g.player.exams, c)
                                     /\ Covers(g.player, c)
    BY Zenon DEF Follows
  <2>1. CASE task.kind # "alert"
    <3>1. "time" \notin g.astray OBVIOUS
    <3>2. Covers(g.player, now) BY <1>14, <3>1
    <3>3. g.player.index = Target(g.player.exams, now)
      BY <1>4, <1>5, <1>8, <1>11, <2>1
    <3>4. now <= now OBVIOUS
    <3> QED BY <3>2, <3>3, <3>4, Zenon
  <2>2. CASE task.kind = "alert"
    <3>1. PICK c \in Int : /\ c <= now /\ p.index = Target(p.exams, c) /\ Covers(p, c)
      BY <1>4, <1>5, <1>8, <1>11, Zenon DEF Keeps, Follows
    <3>2. Covers(q, c) BY <1>13, <2>2, <3>1
    <3> QED BY <1>8, <1>11, <3>1, <3>2, Zenon
  <2> QED BY <2>1, <2>2
<1>16. /\ g.player.exams = h.player.exams /\ g.player.index = h.player.index
       /\ g.shown = h.shown /\ g.player.bound = h.player.bound
       /\ g.player.pending \subseteq h.player.pending /\ g.player.tasks = h.player.tasks
  BY <1>5, <1>8, <1>11
<1>17. Keeps(g, now)
  <2>1. g.player.pending \subseteq 1..Len(g.player.tasks)
    BY <1>4, <1>16, Zenon DEF Keeps
  <2>2. \A j \in g.player.pending :
            g.player.tasks[j].kind = "alert" => g.player.tasks[j].exam.alert > 0
    BY <1>4, <1>16, Zenon DEF Keeps
  <2>3. /\ Successive(g.player.exams) /\ ~g.shown.again
        /\ g.player.exams # <<>> => g.player.index \in 1..Len(g.player.exams)
    BY <1>4, <1>16, Zenon DEF Keeps
  <2>4. ~g.player.bound => g.player.pending = {}
    <3>1. ~h.player.bound => h.player.pending = {} BY <1>4, Zenon DEF Keeps
    <3> QED BY <1>16, <3>1
  <2> QED BY <1>11, <1>14, <1>15, <2>1, <2>2, <2>3, <2>4, Zenon DEF Keeps
<1>18. s.player.currentTime = now => g.player.currentTime = now
  BY <1>4, <1>5, <1>8, <1>11
<1> QED BY <1>10, <1>12, <1>17, <1>18, Zenon
-----------------------------------------------------------------------------
(* The queue.                                                                *)

\* The queue is stopped or started anew.
WithTimers(s, running, started, timers) ==
    [s EXCEPT !.player = [@ EXCEPT !.running = running, !.started = started,
                                   !.timers = timers]]

\* Lemma: other timers leave the rest as it is.
LEMMA TimersKeep ==
    ASSUME NEW s, NEW now, Keeps(s, now), NEW running \in BOOLEAN, NEW started \in BOOLEAN,
           NEW timers \in SUBSET [task : Nat, due : 1..(MaxTime + MaxTimerDelay)]
    PROVE  LET g == WithTimers(s, running, started, timers)
           IN  /\ Keeps(g, now) /\ g.player.tasks = s.player.tasks
               /\ g.player.pending = s.player.pending /\ g.player.timers = timers
               /\ g.player.running = running /\ g.player.started = started
               /\ g.astray = s.astray /\ g.player.currentTime = s.player.currentTime
<1>1. PICK p : p = s.player OBVIOUS
<1>2. s \in StateShape /\ p \in PlayerShape BY <1>1, Zenon DEF Keeps, StateShape
<1>3. PICK q : q = [p EXCEPT !.running = running, !.started = started, !.timers = timers]
  OBVIOUS
<1>4. /\ q \in PlayerShape /\ q.bound = p.bound /\ q.started = started /\ q.running = running
      /\ q.loaded = p.loaded /\ q.exams = p.exams /\ q.index = p.index
      /\ q.tasks = p.tasks /\ q.pending = p.pending /\ q.timers = timers
      /\ q.currentTime = p.currentTime
  BY <1>2, <1>3 DEF PlayerShape
<1>5. PICK g : g = [s EXCEPT !.player = q] OBVIOUS
<1>6. WithTimers(s, running, started, timers) = g
  BY <1>1, <1>3, <1>5, Zenon DEF WithTimers
<1>7. g.player = q /\ g.shown = s.shown /\ g.astray = s.astray /\ g \in StateShape
  BY <1>2, <1>4, <1>5 DEF StateShape
<1>8. /\ g.player.exams = s.player.exams /\ g.player.pending = s.player.pending
      /\ g.player.tasks = s.player.tasks /\ g.player.index = s.player.index
      /\ g.player.loaded = s.player.loaded /\ g.player.bound = s.player.bound
  BY <1>1, <1>4, <1>7
<1>9. \A c : Covers(g.player, c) <=> Covers(s.player, c) BY <1>8, SameCovers, Zenon
<1>10. Follows(g, now)
  <2> SUFFICES ASSUME g.player.loaded,
                      g.astray \cap {"index", "time"} = {}, g.player.exams # <<>>
               PROVE  \E c \in Int : /\ c <= now /\ g.player.index = Target(g.player.exams, c)
                                     /\ Covers(g.player, c)
    BY Zenon DEF Follows
  <2>1. PICK c \in Int : /\ c <= now /\ s.player.index = Target(s.player.exams, c)
                         /\ Covers(s.player, c)
    BY <1>7, <1>8, Zenon DEF Follows, Keeps
  <2> QED BY <1>8, <1>9, <2>1, Zenon
<1>11. Keeps(g, now) BY <1>7, <1>8, <1>9, <1>10, Zenon DEF Keeps
<1> QED BY <1>1, <1>4, <1>6, <1>7, <1>8, <1>11, Zenon

\* From s to g the task i has been executed or has got its timer, where those of
\* the tasks S were there.
Planned(s, g, i, S, off, now) ==
    /\ Keeps(g, now) /\ Spares(s, g, now)
    /\ Timed(g, off, (S \ {i}) \union ({i} \cap g.player.pending))
    /\ s.player.pending \ {i} \subseteq g.player.pending
    /\ g.player.running = s.player.running /\ g.player.started = s.player.started
    /\ "unheard" \in g.astray <=> "unheard" \in s.astray
    /\ s.player.currentTime = now => g.player.currentTime = now

\* Lemma: what the queue reads is the clock, if getCurrentTime is a closure.
LEMMA ScheduleIs ==
    ASSUME NEW s, NEW i, NEW now, s.player.bound,
           NEW delay, delay = s.player.tasks[i].time - now,
           NEW wait, wait = IF delay > MaxTimerDelay THEN MaxTimerDelay ELSE delay
    PROVE  scheduleTask(s, i, now) =
               IF delay <= 0 THEN executeTask(s, i, now)
               ELSE [s EXCEPT !.player.timers = {t \in @ : t.task # i} \union
                                                    {[task |-> i, due |-> real + wait]}]
<1>1. PICK delays, waits :
         /\ delays = {s.player.tasks[i].time - n : n \in Reading(s.player, now)}
         /\ waits = IF delays = {} THEN {0}
                    ELSE {IF d > MaxTimerDelay THEN MaxTimerDelay ELSE d : d \in delays}
  OBVIOUS
<1>2. scheduleTask(s, i, now) =
          IF \E d \in delays : d <= 0 THEN executeTask(s, i, now)
          ELSE [s EXCEPT !.player.timers = {t \in @ : t.task # i} \union
                                               {[task |-> i, due |-> real + w] : w \in waits}]
  BY <1>1, Zenon DEF scheduleTask
<1>3. Reading(s.player, now) = {now} BY Zenon DEF Reading
<1>4. delays = {delay} BY <1>1, <1>3
<1>5. waits = {wait}
  <2>1. delays # {} BY <1>4
  <2>2. waits = {IF d > MaxTimerDelay THEN MaxTimerDelay ELSE d : d \in delays}
    BY <1>1, <2>1
  <2>3. waits = {IF d > MaxTimerDelay THEN MaxTimerDelay ELSE d : d \in {delay}}
    BY <1>4, <2>2
  <2> QED BY <2>3
<1>6. (\E d \in delays : d <= 0) <=> delay <= 0 BY <1>4
<1>7. {[task |-> i, due |-> real + w] : w \in waits} = {[task |-> i, due |-> real + wait]}
  BY <1>5
<1> QED BY <1>2, <1>6, <1>7, Zenon

\* Lemma: a task that is pending is executed when it is due, and else gets the
\* one timer it has.
LEMMA ScheduleKeeps ==
    ASSUME NEW s, NEW off \in Int, NEW S, NEW i \in s.player.pending, real \in 1..MaxTime,
           Keeps(s, real + off), Timed(s, off, S)
    PROVE  Planned(s, scheduleTask(s, i, real + off), i, S, off, real + off)
<1>1. PICK now : now = real + off OBVIOUS
<1>2. PICK tasks, time : tasks = s.player.tasks /\ time = tasks[i].time OBVIOUS
<1>3. now \in Int /\ Keeps(s, now) /\ real \in Nat /\ 1 <= real /\ real <= MaxTime
  BY <1>1, ScheduleAssumption
<1>4. s \in StateShape /\ s.player \in PlayerShape BY <1>3, Zenon DEF Keeps, StateShape
<1>5. i \in 1..Len(tasks) BY <1>2, <1>3, Zenon DEF Keeps
<1>6. time \in Int
  <2>1. tasks \in Seq(TimedTask) BY <1>2, <1>4 DEF PlayerShape
  <2>2. tasks[i] \in TimedTask BY <1>5, <2>1
  <2> QED BY <1>2, <2>2 DEF TimedTask
<1>0. s.player.bound
  <2>1. ~s.player.bound => s.player.pending = {} BY <1>3, Zenon DEF Keeps
  <2> QED BY <2>1
<1>7. CASE time <= now
  <2>1. PICK g : g = executeTask(s, i, now) OBVIOUS
  <2>2. scheduleTask(s, i, now) = g
    <3>1. time - now <= 0 BY <1>3, <1>6, <1>7
    <3> QED BY <1>0, <1>2, <2>1, <3>1, ScheduleIs, Zenon
  <2>3. s.player.tasks[i].time <= now /\ i \in 1..Len(s.player.tasks) BY <1>2, <1>5, <1>7
  <2>4. /\ Keeps(g, now) /\ g.player.tasks = s.player.tasks
        /\ g.player.pending = s.player.pending \ {i}
        /\ g.player.timers = {t \in s.player.timers : t.task # i}
        /\ g.player.running = s.player.running /\ g.player.started = s.player.started
        /\ "unheard" \in g.astray <=> "unheard" \in s.astray
        /\ s.player.currentTime = now => g.player.currentTime = now
    BY <1>3, <2>1, <2>3, ExecuteKeeps
  <2>5. Spares(s, g, now) BY <2>3, <2>4 DEF Spares
  <2>6. Timed(g, off, S \ {i})
    <3>1. {t.task : t \in g.player.timers} = S \ {i}
      BY <2>4 DEF Timed
    <3>2. ASSUME "unheard" \notin g.astray, NEW t \in g.player.timers
          PROVE  t.due + off <= g.player.tasks[t.task].time
      BY <2>4, <3>2, Zenon DEF Timed
    <3> QED BY <3>1, <3>2 DEF Timed
  <2>7. S \ {i} = (S \ {i}) \union ({i} \cap g.player.pending) BY <2>4
  <2>8. s.player.pending \ {i} \subseteq g.player.pending BY <2>4
  <2>9. Timed(g, off, (S \ {i}) \union ({i} \cap g.player.pending)) BY <2>6, <2>7
  <2>10. Planned(s, g, i, S, off, now) BY <2>4, <2>5, <2>8, <2>9, Zenon DEF Planned
  <2> QED BY <1>1, <2>2, <2>10
<1>8. CASE time > now
  <2>1. PICK wait : wait = IF time - now > MaxTimerDelay THEN MaxTimerDelay ELSE time - now
    OBVIOUS
  <2>2. /\ wait \in Nat /\ 1 <= wait /\ wait <= MaxTimerDelay /\ wait <= time - now
        /\ MaxTime \in Nat /\ MaxTimerDelay \in Nat
    BY <1>3, <1>6, <1>8, <2>1, ScheduleAssumption
  <2>3. PICK due : due = real + wait OBVIOUS
  <2>4. due \in 1..(MaxTime + MaxTimerDelay) /\ due + off <= time
    BY <1>1, <1>3, <1>6, <2>2, <2>3
  <2>5. PICK p, new, timers : /\ p = s.player /\ new = [task |-> i, due |-> due]
                              /\ timers = {t \in p.timers : t.task # i} \union {new}
    OBVIOUS
  <2>6. i \in Nat BY <1>5
  <2>7. /\ new \in [task : Nat, due : 1..(MaxTime + MaxTimerDelay)]
        /\ new.task = i /\ new.due = due
    BY <2>4, <2>5, <2>6
  <2>8. timers \in SUBSET [task : Nat, due : 1..(MaxTime + MaxTimerDelay)]
    BY <1>4, <2>5, <2>7 DEF PlayerShape
  <2>9. p.running \in BOOLEAN /\ p.started \in BOOLEAN
    BY <1>4, <2>5, Zenon DEF PlayerShape
  <2>10. PICK g : g = WithTimers(s, p.running, p.started, timers) OBVIOUS
  <2>11. scheduleTask(s, i, now) = g
    <3>1. ~(time - now <= 0) BY <1>3, <1>6, <1>8
    <3>2. scheduleTask(s, i, now) = [s EXCEPT !.player.timers = {t \in @ : t.task # i} \union
                                             {[task |-> i, due |-> real + wait]}]
      <4>1. PICK delay : delay = time - now OBVIOUS
      <4>2. delay = s.player.tasks[i].time - now BY <1>2, <4>1
      <4>3. wait = IF delay > MaxTimerDelay THEN MaxTimerDelay ELSE delay BY <2>1, <4>1
      <4>4. ~(delay <= 0) BY <3>1, <4>1
      <4>5. scheduleTask(s, i, now) =
                IF delay <= 0 THEN executeTask(s, i, now)
                ELSE [s EXCEPT !.player.timers = {t \in @ : t.task # i} \union
                                                     {[task |-> i, due |-> real + wait]}]
        BY <1>0, <4>2, <4>3, ScheduleIs
      <4> QED BY <4>4, <4>5, Zenon
    <3>3. [s EXCEPT !.player.timers = {t \in @ : t.task # i} \union
                                             {[task |-> i, due |-> real + wait]}]
            = [s EXCEPT !.player = [p EXCEPT !.timers = timers]]
      BY <2>3, <2>5, Zenon
    <3>4. [p EXCEPT !.timers = timers]
            = [p EXCEPT !.running = p.running, !.started = p.started, !.timers = timers]
      BY <1>4, <2>5 DEF PlayerShape
    <3>5. g = [s EXCEPT !.player = [p EXCEPT !.running = p.running, !.started = p.started,
                                             !.timers = timers]]
      BY <2>5, <2>10, Zenon DEF WithTimers
    <3> QED BY <3>2, <3>3, <3>4, <3>5
  <2>12. /\ Keeps(g, now) /\ g.player.tasks = s.player.tasks
         /\ g.player.pending = s.player.pending /\ g.player.timers = timers
         /\ g.player.running = p.running /\ g.player.started = p.started
         /\ g.astray = s.astray /\ g.player.currentTime = s.player.currentTime
    BY <1>3, <2>8, <2>9, <2>10, TimersKeep
  <2>13. Spares(s, g, now) BY <2>12 DEF Spares
  <2>14. (S \ {i}) \union ({i} \cap g.player.pending) = (S \ {i}) \union {i} BY <2>12
  <2>15. Timed(g, off, (S \ {i}) \union {i})
    <3>1. {t.task : t \in timers} = (S \ {i}) \union {i}
      BY <2>5, <2>7 DEF Timed
    <3>2. ASSUME "unheard" \notin s.astray, NEW t \in timers
          PROVE  t.due + off <= tasks[t.task].time
      <4>1. CASE t = new BY <1>2, <2>4, <2>7, <4>1
      <4>2. CASE t # new
        <5>1. t \in s.player.timers BY <2>5, <4>2
        <5> QED BY <1>2, <3>2, <5>1, Zenon DEF Timed
      <4> QED BY <4>1, <4>2
    <3> QED BY <1>2, <2>12, <3>1, <3>2, Zenon DEF Timed
  <2>16. s.player.pending \ {i} \subseteq g.player.pending BY <2>12
  <2>17. Timed(g, off, (S \ {i}) \union ({i} \cap g.player.pending)) BY <2>14, <2>15
  <2>18. Planned(s, g, i, S, off, now)
    BY <2>5, <2>12, <2>13, <2>16, <2>17, Zenon DEF Planned
  <2> QED BY <1>1, <2>11, <2>18
<1>9. time <= now \/ time > now BY <1>3, <1>6
<1> QED BY <1>7, <1>8, <1>9

\* start, as it goes through the first m tasks: after n of them the state is f[n].
NextTask(r, n, now) == IF n \in r.player.pending THEN scheduleTask(r, n, now) ELSE r
IsRun(f, s, now, m) ==
    f = [n \in 0..m |-> IF n = 0 THEN [s EXCEPT !.player.running = TRUE]
                        ELSE NextTask(f[n - 1], n, now)]

\* Lemma: a start comes to an end.
LEMMA RunExists ==
    ASSUME NEW s, NEW now
    PROVE  \A m \in Nat : \E f : IsRun(f, s, now, m)
<1> DEFINE Bad == {m \in Nat : ~\E f : IsRun(f, s, now, m)}
           start == [s EXCEPT !.player.running = TRUE]
<1>1. ASSUME Bad # {} PROVE FALSE
  <2>1. Bad \in SUBSET Nat OBVIOUS
  <2>2. PICK a \in Bad : \A b \in Bad : a <= b BY <1>1, <2>1, LeastOfAll
  <2>3. a \in Nat /\ ~\E f : IsRun(f, s, now, a) BY <2>2
  <2> HIDE DEF start
  <2>4. CASE a = 0
    <3>1. PICK f : f = [n \in 0..0 |-> start] OBVIOUS
    <3>2. f = [n \in 0..0 |-> IF n = 0 THEN start ELSE NextTask(f[n - 1], n, now)] BY <3>1
    <3>3. IsRun(f, s, now, 0) BY <3>2, Zenon DEF IsRun, start
    <3> QED BY <2>3, <2>4, <3>3
  <2>5. CASE a # 0
    <3>1. PICK k : k = a - 1 OBVIOUS
    <3>2. k \in Nat /\ a = k + 1 /\ ~(a <= k) BY <2>3, <2>5, <3>1
    <3>3. k \notin Bad BY <2>2, <3>2
    <3>4. PICK f : IsRun(f, s, now, k) BY <3>2, <3>3
    <3>5. f = [n \in 0..k |-> IF n = 0 THEN start ELSE NextTask(f[n - 1], n, now)]
      BY <3>4, Zenon DEF IsRun, start
    <3>6. \A n \in 0..k : f[n] = IF n = 0 THEN start ELSE NextTask(f[n - 1], n, now)
      BY <3>5, Zenon
    <3>7. PICK last : last = NextTask(f[k], a, now) OBVIOUS
    <3>8. PICK h : h = [n \in 0..a |-> IF n = a THEN last ELSE f[n]] OBVIOUS
    <3>9. ASSUME NEW n \in 0..a
          PROVE  (IF n = a THEN last ELSE f[n])
                    = IF n = 0 THEN start ELSE NextTask(h[n - 1], n, now)
      <4>1. CASE n = a
        <5>1. n # 0 /\ n - 1 = k /\ k \in 0..a /\ k # a BY <3>2, <4>1
        <5>2. h[n - 1] = f[k] BY <3>8, <5>1
        <5> QED BY <3>7, <4>1, <5>1, <5>2
      <4>2. CASE n # a /\ n = 0
        <5>1. n \in 0..k BY <3>2, <4>2
        <5> QED BY <3>6, <4>2, <5>1
      <4>3. CASE n # a /\ n # 0
        <5>1. n \in 0..k /\ n - 1 \in 0..a /\ n - 1 # a BY <3>2, <4>3
        <5>2. h[n - 1] = f[n - 1] BY <3>8, <5>1
        <5>3. f[n] = NextTask(f[n - 1], n, now) BY <3>6, <4>3, <5>1
        <5> QED BY <4>3, <5>2, <5>3
      <4> QED BY <4>1, <4>2, <4>3
    <3>10. h = [n \in 0..a |-> IF n = 0 THEN start ELSE NextTask(h[n - 1], n, now)]
      BY <3>8, <3>9
    <3>11. IsRun(h, s, now, a) BY <3>10, Zenon DEF IsRun, start
    <3> QED BY <2>3, <3>11
  <2> QED BY <2>4, <2>5
<1> QED BY <1>1

\* What holds of the state r after n tasks of a start.
Started(s, r, n, off, now) ==
    /\ Keeps(r, now) /\ Timed(r, off, {i \in r.player.pending : i <= n}) /\ Spares(s, r, now)
    /\ r.player.running = TRUE /\ r.player.started = s.player.started
    /\ "unheard" \in r.astray <=> "unheard" \in s.astray
    /\ s.player.currentTime = now => r.player.currentTime = now

\* Lemma: the first n tasks have been executed or have their timers.
LEMMA RunKeeps ==
    ASSUME NEW s, NEW off \in Int, real \in 1..MaxTime, Keeps(s, real + off),
           s.player.timers = {}, NEW m \in Nat, NEW f, IsRun(f, s, real + off, m)
    PROVE  \A n \in 0..m : Started(s, f[n], n, off, real + off)
<1>1. PICK now : now = real + off OBVIOUS
<1>2. PICK start : start = [s EXCEPT !.player.running = TRUE] OBVIOUS
<1>3. now \in Int /\ Keeps(s, now) BY <1>1, ScheduleAssumption
<1>4. \A n \in 0..m : f[n] = IF n = 0 THEN start ELSE NextTask(f[n - 1], n, now)
  <2>1. f = [n \in 0..m |-> IF n = 0 THEN start ELSE NextTask(f[n - 1], n, now)]
    BY <1>1, <1>2, Zenon DEF IsRun
  <2> QED BY <2>1, Zenon
<1>5. Started(s, start, 0, off, now)
  <2>1. PICK p : p = s.player OBVIOUS
  <2>2. s \in StateShape /\ p \in PlayerShape BY <1>3, <2>1, Zenon DEF Keeps, StateShape
  <2>3. start = WithTimers(s, TRUE, p.started, p.timers)
    <3>1. [p EXCEPT !.running = TRUE]
             = [p EXCEPT !.running = TRUE, !.started = p.started, !.timers = p.timers]
      BY <2>2 DEF PlayerShape
    <3>2. start = [s EXCEPT !.player = [p EXCEPT !.running = TRUE]] BY <1>2, <2>1, Zenon
    <3>3. WithTimers(s, TRUE, p.started, p.timers)
             = [s EXCEPT !.player = [p EXCEPT !.running = TRUE, !.started = p.started,
                                              !.timers = p.timers]]
      BY <2>1, Zenon DEF WithTimers
    <3> QED BY <3>1, <3>2, <3>3
  <2>4. /\ p.started \in BOOLEAN
        /\ p.timers \in SUBSET [task : Nat, due : 1..(MaxTime + MaxTimerDelay)]
    <3>1. p.started \in BOOLEAN BY <2>2, Zenon DEF PlayerShape
    <3> QED BY <2>2, <3>1 DEF PlayerShape
  <2>0. PICK yes : yes = TRUE OBVIOUS
  <2>5. /\ Keeps(start, now) /\ start.player.tasks = s.player.tasks
        /\ start.player.pending = s.player.pending /\ start.player.timers = p.timers
        /\ start.player.running = TRUE /\ start.player.started = p.started
        /\ start.astray = s.astray /\ start.player.currentTime = s.player.currentTime
    <3>1. yes \in BOOLEAN BY <2>0, Zenon
    <3>2. start = WithTimers(s, yes, p.started, p.timers) BY <2>0, <2>3, Zenon
    <3>3. /\ Keeps(start, now) /\ start.player.tasks = s.player.tasks
          /\ start.player.pending = s.player.pending /\ start.player.timers = p.timers
          /\ start.player.running = yes /\ start.player.started = p.started
          /\ start.astray = s.astray /\ start.player.currentTime = s.player.currentTime
      BY <1>3, <2>4, <3>1, <3>2, TimersKeep
    <3> QED BY <2>0, <3>3, Zenon
  <2>6. {i \in start.player.pending : i <= 0} = {}
    <3>1. \A i \in start.player.pending : i \in 1..Len(start.player.tasks)
      BY <2>5, Zenon DEF Keeps
    <3> QED BY <3>1
  <2>7. Timed(start, off, {}) BY <2>1, <2>5 DEF Timed
  <2>8. Spares(s, start, now) BY <2>5 DEF Spares
  <2>9. Timed(start, off, {i \in start.player.pending : i <= 0}) BY <2>6, <2>7
  <2> QED BY <2>1, <2>5, <2>8, <2>9, Zenon DEF Started
<1>6. ASSUME NEW n \in 1..m, NEW r, Started(s, r, n - 1, off, now)
      PROVE  Started(s, NextTask(r, n, now), n, off, now)
  <2>1. PICK S : S = {i \in r.player.pending : i <= n - 1} OBVIOUS
  <2>2. /\ Keeps(r, now) /\ Timed(r, off, S) /\ Spares(s, r, now)
        /\ r.player.running = TRUE /\ r.player.started = s.player.started
        /\ "unheard" \in r.astray <=> "unheard" \in s.astray
        /\ s.player.currentTime = now => r.player.currentTime = now
    BY <1>6, <2>1, Zenon DEF Started
  <2>3. \A i \in r.player.pending : i \in Nat
    <3>1. \A i \in r.player.pending : i \in 1..Len(r.player.tasks) BY <2>2, Zenon DEF Keeps
    <3> QED BY <3>1
  <2>4. CASE n \notin r.player.pending
    <3>1. NextTask(r, n, now) = r BY <2>4 DEF NextTask
    <3>2. S = {i \in r.player.pending : i <= n} BY <2>1, <2>3, <2>4
    <3>3. Timed(r, off, {i \in r.player.pending : i <= n}) BY <2>2, <3>2
    <3> QED BY <2>2, <3>1, <3>3, Zenon DEF Started
  <2>5. CASE n \in r.player.pending
    <3>1. PICK g : g = NextTask(r, n, now) OBVIOUS
    <3>2. g = scheduleTask(r, n, real + off) BY <1>1, <2>5, <3>1 DEF NextTask
    <3>3. Keeps(r, real + off) BY <1>1, <2>2
    <3>4. /\ Keeps(g, now) /\ Spares(r, g, now)
          /\ Timed(g, off, (S \ {n}) \union ({n} \cap g.player.pending))
          /\ r.player.pending \ {n} \subseteq g.player.pending
          /\ g.player.running = r.player.running /\ g.player.started = r.player.started
          /\ "unheard" \in g.astray <=> "unheard" \in r.astray
          /\ r.player.currentTime = now => g.player.currentTime = now
      <4>1. Planned(r, g, n, S, off, real + off) BY <2>2, <2>5, <3>2, <3>3, ScheduleKeeps
      <4>2. Planned(r, g, n, S, off, now) BY <1>1, <4>1
      <4> QED BY <4>2, Zenon DEF Planned
    <3>5. g.player.pending \subseteq r.player.pending BY <3>4, Zenon DEF Spares
    <3>6. (S \ {n}) \union ({n} \cap g.player.pending) = {i \in g.player.pending : i <= n}
      BY <2>1, <2>3, <3>4, <3>5
    <3>7. Timed(g, off, {i \in g.player.pending : i <= n}) BY <3>4, <3>6
    <3>8. Spares(s, g, now)
      <4>1. \A i \in s.player.pending \ g.player.pending : s.player.tasks[i].time <= now
        <5> SUFFICES ASSUME NEW i \in s.player.pending \ g.player.pending
                     PROVE  s.player.tasks[i].time <= now
          OBVIOUS
        <5>1. CASE i \in r.player.pending
          <6>1. r.player.tasks[i].time <= now BY <3>4, <5>1 DEF Spares
          <6> QED BY <2>2, <6>1 DEF Spares
        <5>2. CASE i \notin r.player.pending BY <2>2, <5>2 DEF Spares
        <5> QED BY <5>1, <5>2
      <4>2. /\ g.player.tasks = s.player.tasks
            /\ g.player.pending \subseteq s.player.pending
        BY <2>2, <3>4 DEF Spares
      <4> QED BY <4>1, <4>2 DEF Spares
    <3>9. Started(s, g, n, off, now)
      BY <2>2, <3>4, <3>7, <3>8, Zenon DEF Started
    <3> QED BY <3>1, <3>9
  <2> QED BY <2>4, <2>5
<1> DEFINE Bad == {n \in 0..m : ~Started(s, f[n], n, off, now)}
<1>7. ASSUME Bad # {} PROVE FALSE
  <2>1. Bad \in SUBSET Nat OBVIOUS
  <2>2. PICK a \in Bad : \A b \in Bad : a <= b BY <1>7, <2>1, LeastOfAll
  <2>3. a \in 0..m /\ ~Started(s, f[a], a, off, now) BY <2>2
  <2>4. a # 0
    <3>1. 0 \in 0..m OBVIOUS
    <3>2. f[0] = start BY <1>4, <3>1
    <3> QED BY <1>5, <2>3, <3>2
  <2>5. PICK k : k = a - 1 OBVIOUS
  <2>6. k \in 0..m /\ a \in 1..m /\ ~(a <= k) BY <2>3, <2>4, <2>5
  <2>7. Started(s, f[k], k, off, now) BY <2>2, <2>6
  <2>8. Started(s, f[k], a - 1, off, now) BY <2>5, <2>7
  <2>9. Started(s, NextTask(f[k], a, now), a, off, now) BY <1>6, <2>6, <2>8
  <2>10. f[a] = NextTask(f[k], a, now) BY <1>4, <2>3, <2>4, <2>5
  <2> QED BY <2>3, <2>9, <2>10
<1> QED BY <1>1, <1>7

\* Lemma: a start gives every task that is pending its timer, or executes it.
LEMMA StartOfQueueKeeps ==
    ASSUME NEW s, NEW off \in Int, real \in 1..MaxTime, Keeps(s, real + off),
           s.player.timers = {}
    PROVE  LET g == StartQueue(s, real + off)
           IN  /\ Keeps(g, real + off) /\ Spares(s, g, real + off)
               /\ Timed(g, off, g.player.pending)
               /\ g.player.running = TRUE /\ g.player.started = s.player.started
               /\ "unheard" \in g.astray <=> "unheard" \in s.astray
               /\ s.player.currentTime = real + off => g.player.currentTime = real + off
<1>1. PICK now, m : now = real + off /\ m = Len(s.player.tasks) OBVIOUS
<1>2. m \in Nat
  <2>1. s.player \in PlayerShape BY Zenon DEF Keeps, StateShape
  <2>2. s.player.tasks \in Seq(TimedTask) BY <2>1 DEF PlayerShape
  <2> QED BY <1>1, <2>2
<1>3. PICK f : f = CHOOSE h : IsRun(h, s, now, m) OBVIOUS
<1>4. IsRun(f, s, now, m) BY <1>2, <1>3, RunExists, Zenon
<1>5. StartQueue(s, now) = f[m]
  <2>1. StartQueue(s, now) = (CHOOSE h : IsRun(h, s, now, Len(s.player.tasks)))[Len(s.player.tasks)]
    BY DEF StartQueue, IsRun, NextTask
  <2> QED BY <1>1, <1>3, <2>1
<1>6. m \in 0..m BY <1>2
<1>7. Started(s, f[m], m, off, now) BY <1>1, <1>2, <1>4, <1>6, RunKeeps
<1>8. PICK g : g = f[m] OBVIOUS
<1>9. /\ Keeps(g, now) /\ Spares(s, g, now)
      /\ Timed(g, off, {i \in g.player.pending : i <= m})
      /\ g.player.running = TRUE /\ g.player.started = s.player.started
      /\ "unheard" \in g.astray <=> "unheard" \in s.astray
      /\ s.player.currentTime = now => g.player.currentTime = now
  BY <1>7, <1>8, Zenon DEF Started
<1>10. {i \in g.player.pending : i <= m} = g.player.pending
  <2>1. \A i \in g.player.pending : i \in 1..Len(g.player.tasks) BY <1>9, Zenon DEF Keeps
  <2>2. g.player.tasks = s.player.tasks BY <1>9, Zenon DEF Spares
  <2>3. \A i \in g.player.pending : i \in 1..m BY <1>1, <2>1, <2>2
  <2> QED BY <2>3
<1> QED BY <1>1, <1>5, <1>8, <1>9, <1>10
-----------------------------------------------------------------------------
(* The steps.                                                                *)

\* From s, a step may lead to g, when the clock then shows now.
MayLead(s, g, off, now) ==
    /\ Keeps(g, now) /\ Timed(g, off, IF g.player.running THEN g.player.pending ELSE {})
    /\ g.player.tasks = s.player.tasks =>
          \A i \in s.player.pending \ g.player.pending : s.player.tasks[i].time <= now

\* Lemma: what does not touch the queue leaves it as it should be.
LEMMA SameSound ==
    ASSUME NEW s, NEW t, NEW g, NEW off, NEW now, MayLead(s, t, off, now), Keeps(g, now),
           SameQueue(t, g)
    PROVE  MayLead(s, g, off, now)
<1>1. /\ g.player.tasks = t.player.tasks /\ g.player.pending = t.player.pending
      /\ g.player.timers = t.player.timers /\ g.player.running = t.player.running
      /\ "unheard" \in g.astray <=> "unheard" \in t.astray
  BY Zenon DEF SameQueue
<1>2. PICK S : S = IF t.player.running THEN t.player.pending ELSE {} OBVIOUS
<1>3. Timed(t, off, S) BY <1>2, Zenon DEF MayLead
<1>4. Timed(g, off, S) BY <1>1, <1>3, Zenon DEF Timed
<1>5. S = IF g.player.running THEN g.player.pending ELSE {} BY <1>1, <1>2
<1> QED BY <1>1, <1>4, <1>5, Zenon DEF MayLead

\* Lemma: neither do the watchers.
LEMMA WatchedSound ==
    ASSUME NEW s, NEW before, NEW t, NEW off, NEW now \in Int, NEW halfMinute \in BOOLEAN,
           MayLead(s, t, off, now), halfMinute => t.player.currentTime = now
    PROVE  MayLead(s, Watched(before, t, halfMinute), off, now)
<1>1. Keeps(t, now) BY Zenon DEF MayLead
<1>2. PICK g : g = Watched(before, t, halfMinute) OBVIOUS
<1>3. Keeps(g, now) /\ SameQueue(t, g) BY <1>1, <1>2, WatchedKeeps
<1> QED BY <1>2, <1>3, SameSound

\* Lemma: what was to come is to come, or has been.
LEMMA LaterKeeps ==
    ASSUME NEW s, NEW c \in Int, NEW d \in Int, Keeps(s, c), c <= d
    PROVE  Keeps(s, d)
<1>1. Covers(s.player, c) => Covers(s.player, d)
  <2> SUFFICES ASSUME Covers(s.player, c), s.player.bound,
                      NEW b \in Nat, IsBound(s.player.exams, b), d < b
               PROVE  \E i \in s.player.pending :
                         s.player.tasks[i].time = b /\ s.player.tasks[i].kind # "alert"
    BY DEF Covers
  <2>1. c < b OBVIOUS
  <2> QED BY <2>1, Zenon DEF Covers
<1>2. Follows(s, d)
  <2> SUFFICES ASSUME s.player.loaded, s.astray \cap {"index", "time"} = {},
                      s.player.exams # <<>>
               PROVE  \E e \in Int : /\ e <= d /\ s.player.index = Target(s.player.exams, e)
                                     /\ Covers(s.player, e)
    BY Zenon DEF Follows
  <2>1. PICK e \in Int : /\ e <= c /\ s.player.index = Target(s.player.exams, e)
                         /\ Covers(s.player, e)
    BY Zenon DEF Follows, Keeps
  <2>2. e <= d BY <2>1
  <2> QED BY <2>1, <2>2, Zenon
<1> QED BY <1>1, <1>2, Zenon DEF Keeps

\* Lemma: what the invariant says of the state.
LEMMA StateIs ==
    ASSUME ScheduleInv
    PROVE  /\ real \in 1..MaxTime /\ real \in Int /\ offset \in Int /\ Clock \in Int
           /\ Clock = real + offset
           /\ State.player = player /\ State.shown = shown /\ State.astray = astray
           /\ Keeps(State, Clock) /\ State \in StateShape /\ player \in PlayerShape
           /\ player.started \in BOOLEAN /\ player.running \in BOOLEAN
           /\ Timed(State, offset, IF player.running THEN player.pending ELSE {})
           /\ MayLead(State, State, offset, Clock)
<1>1. real \in 1..MaxTime /\ real \in Int /\ offset \in Int /\ Clock = real + offset
  BY ScheduleAssumption DEF ScheduleInv, Clock
<1>2. Clock \in Int BY <1>1
<1>3. State.player = player /\ State.shown = shown /\ State.astray = astray BY DEF State
<1>4. /\ Keeps(State, Clock)
      /\ Timed(State, offset, IF player.running THEN player.pending ELSE {})
  BY Zenon DEF ScheduleInv
<1>5. State \in StateShape BY <1>4, Zenon DEF Keeps
<1>6. player \in PlayerShape BY <1>3, <1>5, Zenon DEF StateShape
<1>7. player.started \in BOOLEAN /\ player.running \in BOOLEAN BY <1>6, Zenon DEF PlayerShape
<1>8. MayLead(State, State, offset, Clock) BY <1>3, <1>4 DEF MayLead
<1> QED BY <1>1, <1>2, <1>3, <1>4, <1>5, <1>6, <1>7, <1>8

\* Lemma: a stop leaves no timer.
LEMMA StopSound ==
    ASSUME NEW s, NEW off, NEW now, Keeps(s, now), NEW started \in BOOLEAN
    PROVE  LET g == WithTimers(s, FALSE, started, {})
           IN  MayLead(s, g, off, now) /\ g.player.timers = {} /\ g.player.started = started
               /\ g.astray = s.astray /\ g.player.currentTime = s.player.currentTime
               /\ g.player.tasks = s.player.tasks /\ g.player.pending = s.player.pending
<1>1. PICK no, none, g : no = FALSE /\ none = {} /\ g = WithTimers(s, no, started, none)
  OBVIOUS
<1>2. no \in BOOLEAN BY <1>1, Zenon
<1>3. none \in SUBSET [task : Nat, due : 1..(MaxTime + MaxTimerDelay)] BY <1>1
<1>4. /\ Keeps(g, now) /\ g.player.tasks = s.player.tasks
      /\ g.player.pending = s.player.pending /\ g.player.timers = none
      /\ g.player.running = no /\ g.player.started = started
      /\ g.astray = s.astray /\ g.player.currentTime = s.player.currentTime
  BY <1>1, <1>2, <1>3, TimersKeep
<1>5. Timed(g, off, {}) BY <1>1, <1>4 DEF Timed
<1>6. MayLead(s, g, off, now) BY <1>1, <1>4, <1>5 DEF MayLead
<1> QED BY <1>1, <1>4, <1>6

\* Lemma: a start is a step.
LEMMA StartSound ==
    ASSUME NEW s, NEW off \in Int, real \in 1..MaxTime, Keeps(s, real + off),
           s.player.timers = {}
    PROVE  LET g == StartQueue(s, real + off)
           IN  /\ MayLead(s, g, off, real + off) /\ Spares(s, g, real + off)
               /\ s.player.currentTime = real + off => g.player.currentTime = real + off
<1>1. PICK g, now : now = real + off /\ g = StartQueue(s, now) OBVIOUS
<1>2. /\ Keeps(g, now) /\ Spares(s, g, now) /\ Timed(g, off, g.player.pending)
      /\ g.player.running = TRUE /\ (s.player.currentTime = now => g.player.currentTime = now)
  BY <1>1, StartOfQueueKeeps
<1>3. Timed(g, off, IF g.player.running THEN g.player.pending ELSE {}) BY <1>2
<1>4. \A i \in s.player.pending \ g.player.pending : s.player.tasks[i].time <= now
  BY <1>2, Zenon DEF Spares
<1>5. MayLead(s, g, off, now) BY <1>2, <1>3, <1>4, Zenon DEF MayLead
<1> QED BY <1>1, <1>2, <1>5

\* Lemma: the other watchers of a step.
LEMMA UnwatchedSound ==
    ASSUME NEW s, NEW t, NEW before, NEW off, NEW now \in Int, MayLead(s, t, off, now)
    PROVE  MayLead(s, Watched(before, t, FALSE), off, now)
<1>1. PICK no : no = FALSE OBVIOUS
<1>2. no \in BOOLEAN /\ (no => t.player.currentTime = now) BY <1>1, Zenon
<1>3. MayLead(s, Watched(before, t, no), off, now) BY <1>2, WatchedSound
<1> QED BY <1>1, <1>3, Zenon

\* A step that is sound.
SoundStep == \E g : SetPlayer(g) /\ MayLead(State, g, offset', real' + offset')

\* Lemma: Second.
LEMMA SecondSound ==
    ASSUME ScheduleInv, Second
    PROVE  SoundStep
<1>1. /\ Clock \in Int /\ Clock = real + offset /\ Keeps(State, Clock)
      /\ MayLead(State, State, offset, Clock)
  BY StateIs
<1>2. PICK halfMinute \in BOOLEAN :
         SetPlayer(Watched(State, [State EXCEPT !.player.currentTime = Clock], halfMinute))
  BY DEF Second
<1>3. real' = real /\ offset' = offset BY DEF Second
<1>4. PICK t : t = [State EXCEPT !.player.currentTime = Clock] OBVIOUS
<1>5. Keeps(t, Clock) /\ SameQueue(State, t) /\ t.player.currentTime = Clock
  BY <1>1, <1>4, ClockKeeps
<1>6. MayLead(State, t, offset, Clock) BY <1>1, <1>5, SameSound
<1>7. MayLead(State, Watched(State, t, halfMinute), offset, Clock)
  BY <1>1, <1>5, <1>6, WatchedSound
<1> QED BY <1>1, <1>2, <1>3, <1>4, <1>7 DEF SoundStep

\* Lemma: switchToExam.
LEMMA SwitchSound ==
    ASSUME ScheduleInv, NEW index \in DOMAIN player.exams, switchToExam(index)
    PROVE  SoundStep
<1>1. /\ Clock \in Int /\ Clock = real + offset /\ Keeps(State, Clock)
      /\ State.player = player /\ State \in StateShape /\ player \in PlayerShape
      /\ MayLead(State, State, offset, Clock)
  BY StateIs
<1>2. PICK t : t = [State EXCEPT !.player.index = index, !.astray = @ \union {"index"}]
  OBVIOUS
<1>3. SetPlayer(Watched(State, t, FALSE)) /\ real' = real /\ offset' = offset
  BY <1>2, Zenon DEF switchToExam
<1>4. index \in 1..Len(player.exams) BY <1>1 DEF PlayerShape
<1>5. PICK q : q = [player EXCEPT !.index = index] OBVIOUS
<1>6. /\ q \in PlayerShape /\ q.bound = player.bound
      /\ q.started = player.started /\ q.running = player.running
      /\ q.loaded = player.loaded /\ q.exams = player.exams /\ q.index = index
      /\ q.tasks = player.tasks /\ q.pending = player.pending /\ q.timers = player.timers
  <2>1. index \in Nat \ {0} BY <1>4
  <2>2. /\ q.bound = player.bound /\ q.started = player.started /\ q.running = player.running
        /\ q.loaded = player.loaded /\ q.exams = player.exams /\ q.index = index
        /\ q.tasks = player.tasks /\ q.pending = player.pending /\ q.timers = player.timers
    BY <1>1, <1>5 DEF PlayerShape
  <2>3. PICK p, i : p = player /\ i = index OBVIOUS
  <2>4. p \in PlayerShape /\ i \in Nat \ {0} /\ q = [p EXCEPT !.index = i]
    BY <1>1, <1>5, <2>1, <2>3
  <2>5. q \in PlayerShape BY <2>4 DEF PlayerShape
  <2> QED BY <2>2, <2>5
<1>7. t = [State EXCEPT !.player = q, !.astray = @ \union {"index"}] BY <1>1, <1>2, <1>5, Zenon
<1>8. /\ t.player = q /\ t.shown = State.shown /\ t.astray = State.astray \union {"index"}
      /\ t \in StateShape
  BY <1>1, <1>6, <1>7 DEF StateShape
<1>9. \A c : Covers(t.player, c) <=> Covers(player, c)
  <2>1. /\ t.player.exams = player.exams /\ t.player.pending = player.pending
        /\ t.player.tasks = player.tasks /\ t.player.bound = player.bound
    BY <1>6, <1>8
  <2> QED BY <2>1, SameCovers, Zenon
<1>10. Follows(t, Clock) BY <1>8 DEF Follows
<1>11. SameQueue(State, t)
  <2>1. "unheard" \in t.astray <=> "unheard" \in State.astray BY <1>8
  <2> QED BY <1>1, <1>6, <1>8, <2>1, Zenon DEF SameQueue
<1>12. Keeps(t, Clock)
  <2>1. "time" \in t.astray <=> "time" \in State.astray BY <1>8
  <2>2. t.player.index \in 1..Len(t.player.exams) BY <1>4, <1>6, <1>8
  <2> QED BY <1>1, <1>6, <1>8, <1>9, <1>10, <2>1, <2>2, Zenon DEF Keeps
<1>13. MayLead(State, t, offset, Clock) BY <1>1, <1>11, <1>12, SameSound
<1>14. MayLead(State, Watched(State, t, FALSE), offset, Clock)
  BY <1>1, <1>13, UnwatchedSound
<1> QED BY <1>1, <1>3, <1>14 DEF SoundStep

\* Lemma: StartCore and StopCore.
LEMMA CoreSound ==
    ASSUME ScheduleInv, StartCore \/ StopCore
    PROVE  SoundStep
<1>1. /\ Clock \in Int /\ Clock = real + offset /\ Keeps(State, Clock)
      /\ offset \in Int /\ real \in 1..MaxTime
      /\ State.player = player /\ State \in StateShape /\ player \in PlayerShape
      /\ player.started \in BOOLEAN /\ player.running \in BOOLEAN
      /\ MayLead(State, State, offset, Clock)
      /\ Timed(State, offset, IF player.running THEN player.pending ELSE {})
  BY StateIs
<1>2. real' = real /\ offset' = offset BY DEF StartCore, StopCore
<1>3. CASE StopCore
  <2>1. PICK g : g = WithTimers(State, FALSE, FALSE, {}) OBVIOUS
  <2>2. SetPlayer(g)
    <3>1. PICK p : p = [player EXCEPT !.running = FALSE, !.started = FALSE, !.timers = {}]
      OBVIOUS
    <3>2. g = [State EXCEPT !.player = p] BY <1>1, <2>1, <3>1, Zenon DEF WithTimers
    <3>3. [StopQueue(State) EXCEPT !.player.started = FALSE] = [State EXCEPT !.player = p]
      BY <1>1, <3>1 DEF StopQueue, StateShape, PlayerShape
    <3> QED BY <1>3, <3>2, <3>3 DEF StopCore
  <2>3. FALSE \in BOOLEAN BY Zenon
  <2>4. MayLead(State, g, offset, Clock) BY <1>1, <2>1, <2>3, StopSound, Zenon
  <2> QED BY <1>1, <1>2, <2>2, <2>4 DEF SoundStep
<1>4. CASE StartCore
  <2>0. PICK yes, run, timers : yes = TRUE /\ run = player.running /\ timers = player.timers
    OBVIOUS
  <2>1. PICK u : u = WithTimers(State, run, yes, timers) OBVIOUS
  <2>2. yes \in BOOLEAN BY <2>0, Zenon
  <2>3. timers \in SUBSET [task : Nat, due : 1..(MaxTime + MaxTimerDelay)] /\ run \in BOOLEAN
    <3>1. timers \in SUBSET [task : Nat, due : 1..(MaxTime + MaxTimerDelay)]
      BY <1>1, <2>0 DEF PlayerShape
    <3>2. run \in BOOLEAN BY <1>1, <2>0, Zenon
    <3> QED BY <3>1, <3>2
  <2>4. /\ Keeps(u, Clock) /\ u.player.tasks = player.tasks
        /\ u.player.pending = player.pending /\ u.player.timers = player.timers
        /\ u.player.running = player.running /\ u.astray = State.astray
    <3>1. /\ Keeps(u, Clock) /\ u.player.tasks = State.player.tasks
          /\ u.player.pending = State.player.pending /\ u.player.timers = timers
          /\ u.player.running = run /\ u.astray = State.astray
      BY <1>1, <2>1, <2>2, <2>3, TimersKeep
    <3> QED BY <1>1, <2>0, <3>1, Zenon
  <2>5. [State EXCEPT !.player.started = TRUE] = u
    <3>1. u = [State EXCEPT !.player = [player EXCEPT !.running = player.running,
                                            !.started = TRUE, !.timers = player.timers]]
      BY <1>1, <2>0, <2>1, Zenon DEF WithTimers
    <3>2. [player EXCEPT !.running = player.running, !.started = TRUE, !.timers = player.timers]
             = [player EXCEPT !.started = TRUE]
      BY <1>1 DEF PlayerShape
    <3>3. [State EXCEPT !.player.started = TRUE]
             = [State EXCEPT !.player = [player EXCEPT !.started = TRUE]]
      BY <1>1, Zenon
    <3> QED BY <3>1, <3>2, <3>3
  <2>6. PICK t : t = IF player.running THEN u ELSE StartQueue(u, Clock) OBVIOUS
  <2>7. SetPlayer(Watched(State, t, FALSE)) BY <1>4, <2>5, <2>6, Zenon DEF StartCore
  <2>8. MayLead(State, t, offset, Clock)
    <3>1. CASE player.running
      <4>1. Timed(u, offset, player.pending)
        BY <1>1, <2>4, <3>1 DEF Timed
      <4>2. Timed(u, offset, IF u.player.running THEN u.player.pending ELSE {})
        BY <2>4, <3>1, <4>1
      <4>3. \A i \in State.player.pending \ u.player.pending :
               State.player.tasks[i].time <= Clock
        BY <1>1, <2>4
      <4>4. MayLead(State, u, offset, Clock) BY <2>4, <4>2, <4>3, Zenon DEF MayLead
      <4> QED BY <2>6, <3>1, <4>4
    <3>2. CASE ~player.running
      <4>1. u.player.timers = {} BY <1>1, <2>4, <3>2 DEF Timed
      <4>2. Keeps(u, real + offset) BY <1>1, <2>4
      <4>3. MayLead(u, t, offset, Clock) BY <1>1, <2>6, <3>2, <4>1, <4>2, StartSound
      <4> QED BY <1>1, <2>4, <4>3 DEF MayLead
    <3> QED BY <3>1, <3>2
  <2>9. MayLead(State, Watched(State, t, FALSE), offset, Clock)
    BY <1>1, <2>8, UnwatchedSound
  <2> QED BY <1>1, <1>2, <2>7, <2>9 DEF SoundStep
<1> QED BY <1>3, <1>4

\* Lemma: Fire.
LEMMA FireSound ==
    ASSUME ScheduleInv, NEW t \in player.timers, Fire(t)
    PROVE  SoundStep
<1>1. /\ Clock \in Int /\ Clock = real + offset /\ Keeps(State, Clock)
      /\ offset \in Int /\ real \in 1..MaxTime /\ State.player = player
      /\ player \in PlayerShape
      /\ Timed(State, offset, IF player.running THEN player.pending ELSE {})
  BY StateIs
<1>2. PICK i, g : i = t.task /\ g = scheduleTask(State, i, Clock) OBVIOUS
<1>3. i \in (IF player.running THEN player.pending ELSE {}) BY <1>1, <1>2, Zenon DEF Timed
<1>4. SetPlayer(Watched(State, g, FALSE)) /\ real' = real /\ offset' = offset
  <2>1. State.player.bound
    <3>1. ~State.player.bound => State.player.pending = {} BY <1>1, Zenon DEF Keeps
    <3> QED BY <1>1, <1>3, <3>1
  <2>2. PICK time : time = State.player.tasks[i].time OBVIOUS
  <2>3. time \in Int
    <3>1. i \in 1..Len(player.tasks)
      <4>1. player.pending \subseteq 1..Len(player.tasks) BY <1>1, Zenon DEF Keeps
      <4> QED BY <1>3, <4>1
    <3>2. player.tasks \in Seq(TimedTask) BY <1>1 DEF PlayerShape
    <3>3. player.tasks[i] \in TimedTask BY <3>1, <3>2
    <3> QED BY <1>1, <2>2, <3>3 DEF TimedTask
  <2> DEFINE early == \E now \in Reading(player, Clock) : player.tasks[t.task].time > now
  <2>4. early <=> time > Clock
    <3>1. Reading(player, Clock) = {Clock} BY <1>1, <2>1, Zenon DEF Reading
    <3> QED BY <1>1, <1>2, <2>2, <3>1
  <2>5. PICK next : next = IF early THEN scheduleTask(State, i, Clock)
                           ELSE executeTask(State, i, Clock)
    OBVIOUS
  <2>6. SetPlayer(Watched(State, next, FALSE)) /\ real' = real /\ offset' = offset
    BY <1>2, <2>5, Zenon DEF Fire
  <2> HIDE DEF early
  <2>7. next = g
    <3>1. CASE early BY <1>2, <2>5, <3>1
    <3>2. CASE ~early
      <4>1. time - Clock <= 0 BY <1>1, <2>3, <2>4, <3>2
      <4>2. PICK delay, wait :
               /\ delay = time - Clock
               /\ wait = IF delay > MaxTimerDelay THEN MaxTimerDelay ELSE delay
        OBVIOUS
      <4>3. scheduleTask(State, i, Clock) =
                IF delay <= 0 THEN executeTask(State, i, Clock)
                ELSE [State EXCEPT !.player.timers = {u \in @ : u.task # i} \union
                                                         {[task |-> i, due |-> real + wait]}]
        BY <2>1, <2>2, <4>2, ScheduleIs
      <4>4. delay <= 0 BY <4>1, <4>2
      <4>5. g = executeTask(State, i, Clock) BY <1>2, <4>3, <4>4, Zenon
      <4> QED BY <2>5, <3>2, <4>5
    <3> QED BY <3>1, <3>2
  <2> QED BY <2>6, <2>7
<1>5. player.running /\ i \in player.pending /\ Timed(State, offset, player.pending)
  BY <1>1, <1>3
<1>6. PICK S : S = player.pending OBVIOUS
<1>7. Planned(State, g, i, S, offset, Clock)
  <2>1. Keeps(State, real + offset) /\ Timed(State, offset, S) /\ i \in State.player.pending
    BY <1>1, <1>5, <1>6
  <2>2. Planned(State, scheduleTask(State, i, real + offset), i, S, offset, real + offset)
    BY <1>1, <2>1, ScheduleKeeps
  <2> QED BY <1>1, <1>2, <2>2
<1>8. /\ Keeps(g, Clock) /\ Spares(State, g, Clock)
      /\ Timed(g, offset, (S \ {i}) \union ({i} \cap g.player.pending))
      /\ S \ {i} \subseteq g.player.pending /\ g.player.running = player.running
  BY <1>1, <1>6, <1>7, Zenon DEF Planned
<1>9. g.player.pending \subseteq S BY <1>1, <1>6, <1>8, Zenon DEF Spares
<1>10. (S \ {i}) \union ({i} \cap g.player.pending) = g.player.pending BY <1>8, <1>9
<1>11. Timed(g, offset, IF g.player.running THEN g.player.pending ELSE {})
  BY <1>5, <1>8, <1>10
<1>12. \A j \in State.player.pending \ g.player.pending : State.player.tasks[j].time <= Clock
  BY <1>8, Zenon DEF Spares
<1>13. MayLead(State, g, offset, Clock) BY <1>8, <1>11, <1>12, Zenon DEF MayLead
<1>14. MayLead(State, Watched(State, g, FALSE), offset, Clock) BY <1>1, <1>13, UnwatchedSound
<1> QED BY <1>1, <1>4, <1>14 DEF SoundStep

\* Lemma: what has come in between may be noted.
LEMMA AstrayKeeps ==
    ASSUME NEW s, NEW c \in Int, NEW d \in Int, Keeps(s, c),
           NEW A \in SUBSET {"index", "time", "unheard"},
           s.astray \ {"unheard"} \subseteq A, d < c => "time" \in A
    PROVE  LET g == [s EXCEPT !.astray = A]
           IN  Keeps(g, d) /\ g.player = s.player /\ g.astray = A
<1>1. s \in StateShape BY Zenon DEF Keeps
<1>2. PICK g : g = [s EXCEPT !.astray = A] OBVIOUS
<1>3. g \in StateShape /\ g.player = s.player /\ g.shown = s.shown /\ g.astray = A
  BY <1>1, <1>2 DEF StateShape
<1>4. \/ "time" \in g.astray
      \/ "time" \notin g.astray /\ "time" \notin s.astray /\ Keeps(s, d)
  <2>1. CASE "time" \in A BY <1>3, <2>1
  <2>2. CASE "time" \notin A
    <3>1. "time" \notin s.astray /\ c <= d BY <2>2
    <3>2. Keeps(s, d) BY <3>1, LaterKeeps
    <3> QED BY <1>3, <2>2, <3>1, <3>2
  <2> QED BY <2>1, <2>2
<1>5. s.player.loaded /\ "time" \notin g.astray => Covers(s.player, d)
  BY <1>4, Zenon DEF Keeps
<1>6. Follows(g, d)
  <2> SUFFICES ASSUME s.player.loaded, g.astray \cap {"index", "time"} = {},
                      s.player.exams # <<>>
               PROVE  \E e \in Int : /\ e <= d /\ s.player.index = Target(s.player.exams, e)
                                     /\ Covers(s.player, e)
    BY <1>3, Zenon DEF Follows
  <2>1. "time" \notin g.astray OBVIOUS
  <2>2. s.astray \cap {"index", "time"} = {} BY <1>3
  <2>3. Keeps(s, d) BY <1>4, <2>1
  <2> QED BY <2>2, <2>3, Zenon DEF Keeps, Follows
<1>7. Keeps(g, d) BY <1>3, <1>5, <1>6, Zenon DEF Keeps
<1> QED BY <1>2, <1>3, <1>7

\* Lemma: the queue is rescheduled at the time it is.
LEMMA RescheduleSound ==
    ASSUME NEW s, NEW off \in Int, real \in 1..MaxTime, Keeps(s, real + off),
           ~s.player.running => s.player.timers = {}
    PROVE  LET g == Reschedule(s, real + off)
           IN  /\ MayLead(s, g, off, real + off)
               /\ s.player.currentTime = real + off => g.player.currentTime = real + off
<1>1. PICK now, p : now = real + off /\ p = s.player OBVIOUS
<1>2. s \in StateShape /\ p \in PlayerShape /\ Keeps(s, now)
  BY <1>1, Zenon DEF Keeps, StateShape
<1>3. PICK started : started = p.started OBVIOUS
<1>4. started \in BOOLEAN BY <1>2, <1>3, Zenon DEF PlayerShape
<1>5. CASE p.running
  <2>1. PICK u, g : u = WithTimers(s, FALSE, started, {}) /\ g = StartQueue(u, now) OBVIOUS
  <2>2. /\ MayLead(s, u, off, now) /\ u.player.timers = {}
        /\ u.player.currentTime = s.player.currentTime
        /\ u.player.tasks = s.player.tasks /\ u.player.pending = s.player.pending
    BY <1>2, <1>4, <2>1, StopSound, Zenon
  <2>3. StopQueue(s) = u
    <3>1. [p EXCEPT !.running = FALSE, !.timers = {}]
             = [p EXCEPT !.running = FALSE, !.started = started, !.timers = {}]
      BY <1>2, <1>3 DEF PlayerShape
    <3>2. u = [s EXCEPT !.player = [p EXCEPT !.running = FALSE, !.started = started,
                                             !.timers = {}]]
      BY <1>1, <2>1, Zenon DEF WithTimers
    <3>3. StopQueue(s) = [s EXCEPT !.player = [p EXCEPT !.running = FALSE, !.timers = {}]]
      BY <1>1, <1>2 DEF StopQueue, StateShape, PlayerShape
    <3> QED BY <3>1, <3>2, <3>3
  <2>4. Reschedule(s, now) = g BY <1>1, <1>5, <2>1, <2>3 DEF Reschedule
  <2>5. Keeps(u, real + off) BY <1>1, <2>2 DEF MayLead
  <2>6. /\ MayLead(u, g, off, now)
        /\ u.player.currentTime = now => g.player.currentTime = now
    BY <1>1, <2>1, <2>2, <2>5, StartSound
  <2>7. MayLead(s, g, off, now) BY <2>2, <2>6, Zenon DEF MayLead
  <2> QED BY <1>1, <2>2, <2>4, <2>6, <2>7
<1>6. CASE ~p.running
  <2>1. Reschedule(s, now) = s BY <1>1, <1>6 DEF Reschedule
  <2>2. Timed(s, off, {}) BY <1>1, <1>6 DEF Timed
  <2>3. MayLead(s, s, off, now) BY <1>1, <1>2, <1>6, <2>2 DEF MayLead
  <2> QED BY <1>1, <2>1, <2>3
<1> QED BY <1>5, <1>6

\* Lemma: TimeChange.
LEMMA ChangeSound ==
    ASSUME ScheduleInv, NEW correction \in Corrections, TimeChange(correction)
    PROVE  SoundStep
<1>1. /\ Clock \in Int /\ Clock = real + offset /\ Keeps(State, Clock)
      /\ offset \in Int /\ real \in 1..MaxTime /\ real \in Int
      /\ State.player = player /\ State \in StateShape /\ player \in PlayerShape
      /\ State.astray = astray
      /\ player.started \in BOOLEAN /\ player.running \in BOOLEAN
      /\ Timed(State, offset, IF player.running THEN player.pending ELSE {})
  BY StateIs
<1>2. correction \in Int /\ offset' = correction /\ real' = real
  BY ScheduleAssumption DEF TimeChange
<1>3. PICK now : now = real + correction OBVIOUS
<1>4. now \in Int BY <1>1, <1>2, <1>3
<1>5. PICK A : A = IF now < Clock THEN astray \union {"time"} ELSE astray OBVIOUS
<1>6. astray \in SUBSET {"index", "time", "unheard"} BY <1>1 DEF StateShape
<1>7. CASE ~player.started
  <2>1. PICK B, g : B = A \union {"unheard"} /\ g = [State EXCEPT !.astray = B] OBVIOUS
  <2>2. SetPlayer(g)
    <3>1. SetPlayer([[State EXCEPT !.astray = A] EXCEPT !.astray = @ \union {"unheard"}])
      BY <1>1, <1>3, <1>5, <1>7, Zenon DEF TimeChange
    <3>2. [[State EXCEPT !.astray = A] EXCEPT !.astray = @ \union {"unheard"}] = g
      BY <1>1, <2>1 DEF StateShape
    <3> QED BY <3>1, <3>2
  <2>3. /\ B \in SUBSET {"index", "time", "unheard"} /\ astray \ {"unheard"} \subseteq B
        /\ (now < Clock => "time" \in B) /\ "unheard" \in B
    BY <1>5, <1>6, <2>1
  <2>4. Keeps(g, now) /\ g.player = State.player /\ g.astray = B
    BY <1>1, <1>4, <2>1, <2>3, AstrayKeeps
  <2>5. Timed(g, correction, IF g.player.running THEN g.player.pending ELSE {})
    BY <1>1, <2>3, <2>4, Zenon DEF Timed
  <2>6. MayLead(State, g, correction, now) BY <2>4, <2>5 DEF MayLead
  <2> QED BY <1>2, <1>3, <2>2, <2>6 DEF SoundStep
<1>8. CASE player.started
  <2>1. PICK B, s : B = A \ {"unheard"} /\ s = [State EXCEPT !.astray = B] OBVIOUS
  <2>2. PICK t, g : t = [s EXCEPT !.player.currentTime = now] /\ g = Reschedule(t, now)
    OBVIOUS
  <2>3. [[State EXCEPT !.astray = A] EXCEPT !.player.currentTime = now,
                                            !.astray = @ \ {"unheard"}] = t
    BY <1>1, <2>1, <2>2 DEF StateShape
  <2>4. PICK halfMinute \in BOOLEAN : SetPlayer(Watched(State, g, halfMinute))
    BY <1>1, <1>3, <1>5, <1>8, <2>2, <2>3, Zenon DEF TimeChange
  <2>5. /\ B \in SUBSET {"index", "time", "unheard"} /\ astray \ {"unheard"} \subseteq B
        /\ (now < Clock => "time" \in B)
    BY <1>5, <1>6, <2>1
  <2>6. Keeps(s, now) /\ s.player = player
    BY <1>1, <1>4, <2>1, <2>5, AstrayKeeps
  <2>7. Keeps(t, now) /\ SameQueue(s, t) /\ t.player.currentTime = now
    BY <1>4, <2>2, <2>6, ClockKeeps
  <2>8. /\ t.player.tasks = player.tasks /\ t.player.pending = player.pending
        /\ t.player.timers = player.timers /\ t.player.running = player.running
    BY <2>6, <2>7, Zenon DEF SameQueue
  <2>9. ~t.player.running => t.player.timers = {}
    <3>1. ~player.running => player.timers = {} BY <1>1 DEF Timed
    <3> QED BY <2>8, <3>1
  <2>10. MayLead(t, g, correction, now) /\ g.player.currentTime = now
    <3>1. Keeps(t, real + correction) BY <1>3, <2>7
    <3> QED BY <1>1, <1>2, <1>3, <2>2, <2>7, <2>9, <3>1, RescheduleSound
  <2>11. MayLead(State, g, correction, now) BY <1>1, <2>8, <2>10 DEF MayLead
  <2>12. MayLead(State, Watched(State, g, halfMinute), correction, now)
    BY <1>4, <2>10, <2>11, WatchedSound
  <2> QED BY <1>2, <1>3, <2>4, <2>12 DEF SoundStep
<1> QED BY <1>7, <1>8

\* Lemma: RejectConfig.
LEMMA RejectLeads ==
    ASSUME ScheduleInv, RejectConfig
    PROVE  SoundStep
<1>1. /\ Clock \in Int /\ Clock = real + offset /\ Keeps(State, Clock)
      /\ State.player = player /\ State \in StateShape /\ player \in PlayerShape
      /\ State.astray = astray
  BY StateIs
<1>2. PICK q : q = [player EXCEPT !.accepted = {}, !.seen = {}, !.loaded = FALSE,
                                  !.running = FALSE, !.tasks = <<>>,
                                  !.pending = {}, !.timers = {}]
  OBVIOUS
<1>3. PICK g : g = [State EXCEPT !.shown = NothingShown, !.player = q] OBVIOUS
<1>4. SetPlayer(g) /\ real' = real /\ offset' = offset
  BY <1>1, <1>2, <1>3, Zenon DEF RejectConfig
<1>5. /\ q \in PlayerShape /\ q.running = FALSE /\ q.loaded = FALSE /\ q.exams = player.exams
      /\ q.index = player.index /\ q.tasks = <<>> /\ q.pending = {} /\ q.timers = {}
  <2>1. /\ q.running = FALSE /\ q.loaded = FALSE /\ q.exams = player.exams
        /\ q.index = player.index /\ q.tasks = <<>> /\ q.pending = {} /\ q.timers = {}
    BY <1>1, <1>2 DEF PlayerShape
  <2>2. PICK none, no : none = <<>> /\ no = FALSE OBVIOUS
  <2>3. none \in Seq(TimedTask) BY <2>2
  <2>4. no \in BOOLEAN BY <2>2, Zenon
  <2>5. q = [player EXCEPT !.accepted = {}, !.seen = {}, !.loaded = no,
                           !.running = no, !.tasks = none, !.pending = {}, !.timers = {}]
    BY <1>2, <2>2, Zenon
  <2>6. q \in PlayerShape BY <1>1, <2>3, <2>4, <2>5 DEF PlayerShape
  <2> QED BY <2>1, <2>6
<1>6. g.player = q /\ g \in StateShape /\ ~g.shown.again
  BY <1>1, <1>3, <1>5 DEF StateShape, NothingShown
<1>7. Follows(g, Clock) BY <1>5, <1>6 DEF Follows
<1>8. Keeps(g, Clock)
  <2>1. Successive(player.exams) /\ (player.exams # <<>> => player.index \in 1..Len(player.exams))
    BY <1>1, Zenon DEF Keeps
  <2> QED BY <1>5, <1>6, <1>7, <2>1 DEF Keeps
<1>9. Timed(g, offset, {}) BY <1>5, <1>6 DEF Timed
<1>10. g.player.tasks = State.player.tasks => State.player.pending = {}
  <2>1. State.player.pending \subseteq 1..Len(State.player.tasks) BY <1>1, Zenon DEF Keeps
  <2>2. ASSUME State.player.tasks = <<>> PROVE State.player.pending = {}
    <3>1. 1..Len(State.player.tasks) = {} BY <2>2
    <3> QED BY <2>1, <3>1
  <2> QED BY <1>5, <1>6, <2>2
<1>11. MayLead(State, g, offset, Clock) BY <1>5, <1>6, <1>8, <1>9, <1>10 DEF MayLead
<1> QED BY <1>1, <1>4, <1>11 DEF SoundStep

\* Lemma: LoadConfig.
LEMMA LoadSound ==
    ASSUME ScheduleInv, NEW config \in ExamConfigs, LoadConfig(config)
    PROVE  SoundStep
<1>1. /\ Clock \in Int /\ Clock = real + offset /\ Keeps(State, Clock)
      /\ offset \in Int /\ real \in 1..MaxTime
      /\ State.player = player /\ State \in StateShape /\ player \in PlayerShape
  BY StateIs
<1>2. PICK exams, tasks, ahead :
         /\ exams = InOrder(config) /\ tasks = TasksFor(config)
         /\ ahead = Ahead(tasks, Reading(player, Clock))
  OBVIOUS
<1>3. /\ exams \in Seq(ConfigExams) /\ Len(exams) = Len(config) /\ Successive(exams)
      /\ \A k \in 1..Len(config) : \E i \in 1..Len(config) : exams[k] = config[i]
  BY <1>2, OrderIsSuccessive
<1>4. /\ tasks \in Seq(TimedTask) /\ ahead \subseteq 1..Len(tasks)
      /\ \A i \in ahead : tasks[i].kind = "alert" => tasks[i].exam.alert > 0
      /\ ~player.bound => ahead = {}
      /\ player.bound =>
            \A i \in 1..Len(tasks) \ ahead :
               tasks[i].time <= Clock \/ (tasks[i].kind = "alert" /\ tasks[i].exam.alert <= 0)
      /\ player.bound =>
            \A k \in 1..Len(config) : \A b \in {config[k].start, config[k].end} : Clock < b =>
               \E i \in ahead : tasks[i].time = b /\ tasks[i].kind # "alert"
  <2>1. CASE player.bound
    <3>1. ahead = Ahead(tasks, {Clock}) BY <1>2, <2>1, Zenon DEF Reading
    <3> QED BY <1>1, <1>2, <2>1, <3>1, TasksAreAhead
  <2>2. CASE ~player.bound
    <3>1. ahead = {} BY <1>2, <2>2 DEF Ahead, Reading
    <3>2. tasks \in Seq(TimedTask) BY <1>1, <1>2, TasksAreAhead
    <3> QED BY <2>2, <3>1, <3>2
  <2> QED BY <2>1, <2>2
<1>5. PICK A : A = IF player.currentTime = Clock THEN {} ELSE {"index"} OBVIOUS
<1>6. PICK p, yes : /\ p = [player EXCEPT !.accepted = {}, !.seen = {}, !.loaded = yes,
                                          !.exams = exams]
                    /\ yes = TRUE
  OBVIOUS
<1>7. PICK cleared : cleared = [State EXCEPT !.shown = NothingShown, !.astray = A, !.player = p]
  OBVIOUS
<1>8. /\ p \in PlayerShape /\ p.loaded = TRUE /\ p.exams = exams /\ p.bound = player.bound
      /\ p.currentTime = player.currentTime /\ p.running = player.running
  <2>1. yes \in BOOLEAN BY <1>6, Zenon
  <2>2. p = [player EXCEPT !.accepted = {}, !.seen = {}, !.loaded = yes, !.exams = exams]
    BY <1>6
  <2>3. /\ p \in PlayerShape /\ p.loaded = yes /\ p.exams = exams /\ p.bound = player.bound
        /\ p.currentTime = player.currentTime /\ p.running = player.running
    BY <1>1, <1>3, <2>1, <2>2 DEF PlayerShape
  <2> QED BY <1>6, <2>3, Zenon
<1>9. /\ cleared \in StateShape /\ cleared.player = p /\ cleared.astray = A
      /\ cleared.shown = NothingShown
  BY <1>1, <1>5, <1>7, <1>8 DEF StateShape, NothingShown
<1>10. PICK to, q : /\ to = Target(exams, p.currentTime)
                    /\ q = IF exams = <<>> THEN p ELSE [p EXCEPT !.index = to]
  OBVIOUS
<1>11. exams # <<>> => to \in 1..Len(exams)
  BY <1>3, <1>8, <1>10, TargetIn DEF PlayerShape
<1>12. /\ q \in PlayerShape /\ q.loaded = TRUE /\ q.exams = exams
       /\ q.bound = player.bound
       /\ (exams # <<>> => q.index = to)
  <2>1. CASE exams = <<>> BY <1>8, <1>10, <2>1
  <2>2. CASE exams # <<>>
    <3>1. to \in Nat \ {0} BY <1>11, <2>2
    <3>2. q = [p EXCEPT !.index = to] BY <1>10, <2>2
    <3>3. /\ q \in PlayerShape /\ q.loaded = p.loaded /\ q.exams = p.exams /\ q.index = to
          /\ q.bound = p.bound
      BY <1>8, <3>1, <3>2 DEF PlayerShape
    <3> QED BY <1>8, <3>3, Zenon
  <2> QED BY <2>1, <2>2
<1>13. updateCurrentExam(cleared) = [cleared EXCEPT !.player = q]
  <2>1. updateCurrentExam(cleared) =
            IF exams = <<>> THEN cleared ELSE [cleared EXCEPT !.player.index = to]
    <3>1. Successive(cleared.player.exams) BY <1>3, <1>8, <1>9
    <3>2. updateCurrentExam(cleared) =
              IF cleared.player.exams = <<>> THEN cleared
              ELSE [cleared EXCEPT !.player.index =
                       Target(cleared.player.exams, cleared.player.currentTime)]
      BY <1>9, <3>1, UpdateIs, Zenon
    <3> QED BY <1>8, <1>9, <1>10, <3>2, Zenon
  <2>2. CASE exams = <<>>
    <3>1. q = cleared.player BY <1>9, <1>10, <2>2
    <3>2. [cleared EXCEPT !.player = q] = cleared BY <1>9, <3>1 DEF StateShape
    <3> QED BY <2>1, <2>2, <3>2
  <2>3. CASE exams # <<>>
    <3>1. q = [p EXCEPT !.index = to] BY <1>10, <2>3
    <3> QED BY <1>9, <2>1, <2>3, <3>1, Zenon
  <2> QED BY <2>2, <2>3
<1>14. PICK r, s : /\ r = [q EXCEPT !.tasks = tasks, !.timers = {}, !.pending = ahead]
                   /\ s = [cleared EXCEPT !.player = r]
  OBVIOUS
<1>15. [updateCurrentExam(cleared) EXCEPT !.player.tasks = tasks, !.player.timers = {},
                                          !.player.pending = ahead] = s
  <2>1. updateCurrentExam(cleared) = [cleared EXCEPT !.player = q] BY <1>13
  <2>2. [[cleared EXCEPT !.player = q] EXCEPT !.player.tasks = tasks, !.player.timers = {},
                                          !.player.pending = ahead] = s
    BY <1>9, <1>12, <1>14 DEF StateShape, PlayerShape
  <2> QED BY <2>1, <2>2
<1>16. /\ r \in PlayerShape /\ r.loaded = TRUE /\ r.exams = exams /\ r.tasks = tasks
       /\ r.pending = ahead /\ r.timers = {} /\ r.bound = player.bound
       /\ (exams # <<>> => r.index = to)
  <2>1. ahead \in SUBSET Nat BY <1>4
  <2>2. /\ r \in PlayerShape /\ r.loaded = q.loaded /\ r.exams = q.exams /\ r.tasks = tasks
        /\ r.pending = ahead /\ r.timers = {} /\ r.index = q.index
        /\ r.bound = q.bound
    BY <1>4, <1>12, <1>14, <2>1 DEF PlayerShape
  <2> QED BY <1>12, <2>2, Zenon
<1>17. s \in StateShape /\ s.player = r /\ s.astray = A /\ s.shown = NothingShown
  BY <1>9, <1>14, <1>16 DEF StateShape
<1>18. Covers(r, Clock)
  <2> SUFFICES ASSUME r.bound, NEW b \in Nat, IsBound(r.exams, b), Clock < b
               PROVE  \E i \in r.pending : r.tasks[i].time = b /\ r.tasks[i].kind # "alert"
    BY DEF Covers
  <2>1. PICK k \in 1..Len(exams) : b = exams[k].start \/ b = exams[k].end
    BY <1>16, Zenon DEF IsBound
  <2>2. PICK i \in 1..Len(config) : exams[k] = config[i] BY <1>3, <2>1
  <2>3. b \in {config[i].start, config[i].end} BY <2>1, <2>2
  <2> QED BY <1>4, <1>16, <2>3, Zenon
<1>19. Follows(s, Clock)
  <2> SUFFICES ASSUME A \cap {"index", "time"} = {}, exams # <<>>
               PROVE  \E c \in Int : /\ c <= Clock /\ r.index = Target(exams, c)
                                     /\ Covers(r, c)
    BY <1>16, <1>17, Zenon DEF Follows
  <2>1. p.currentTime = Clock BY <1>5, <1>8
  <2>2. r.index = Target(exams, Clock) BY <1>10, <1>16, <2>1
  <2>3. Clock <= Clock BY <1>1
  <2> QED BY <1>1, <1>18, <2>2, <2>3, Zenon
<1>20. Keeps(s, Clock)
  <2>1. ~s.shown.again BY <1>17 DEF NothingShown
  <2>2. exams # <<>> => r.index \in 1..Len(exams) BY <1>11, <1>16
  <2>3. ~r.bound => r.pending = {} BY <1>4, <1>16
  <2>4. ahead \subseteq 1..Len(tasks) BY <1>4
  <2>5. \A i \in ahead : tasks[i].kind = "alert" => tasks[i].exam.alert > 0 BY <1>4
  <2> QED BY <1>3, <1>16, <1>17, <1>18, <1>19, <2>1, <2>2, <2>3, <2>4, <2>5, Zenon DEF Keeps
<1>21. PICK t, u, g : /\ t = StartQueue(s, Clock) /\ u = SeeTimeLeft(State, t)
                      /\ g = SeeStatus(u)
  OBVIOUS
<1>22. SetPlayer(g) /\ real' = real /\ offset' = offset
  BY <1>1, <1>2, <1>5, <1>6, <1>7, <1>15, <1>21, Zenon DEF LoadConfig
<1>23. MayLead(s, t, offset, Clock) /\ Spares(s, t, Clock)
  <2>1. Keeps(s, real + offset) /\ s.player.timers = {} BY <1>1, <1>16, <1>17, <1>20
  <2> QED BY <1>1, <1>21, <2>1, StartSound
<1>24. MayLead(State, t, offset, Clock)
  <2> SUFFICES ASSUME t.player.tasks = State.player.tasks,
                      NEW i \in State.player.pending \ t.player.pending
               PROVE  State.player.tasks[i].time <= Clock
    BY <1>23, Zenon DEF MayLead
  <2>1. State.player.tasks = tasks BY <1>16, <1>17, <1>23, Zenon DEF Spares
  <2>2. i \in 1..Len(tasks) BY <1>1, <2>1, Zenon DEF Keeps
  <2>3. CASE i \in ahead BY <1>16, <1>17, <1>23, <2>1, <2>3 DEF Spares
  <2>4. CASE i \notin ahead
    <3>0. player.bound
      <4>1. ~State.player.bound => State.player.pending = {} BY <1>1, Zenon DEF Keeps
      <4> QED BY <1>1, <4>1
    <3>1. tasks[i].time <= Clock \/ (tasks[i].kind = "alert" /\ tasks[i].exam.alert <= 0)
      BY <1>4, <2>2, <2>4, <3>0
    <3>2. tasks[i].kind = "alert" => tasks[i].exam.alert > 0
      BY <1>1, <2>1, Zenon DEF Keeps
    <3>3. PICK n : n = tasks[i].exam.alert OBVIOUS
    <3>4. n \in Nat
      <4>1. tasks[i] \in TimedTask BY <1>4, <2>2
      <4>2. tasks[i].exam \in ConfigExams BY <4>1 DEF TimedTask
      <4> QED BY <3>3, <4>2, ExamTimes
    <3>5. ~(tasks[i].kind = "alert" /\ n <= 0) BY <3>2, <3>3, <3>4
    <3> QED BY <2>1, <3>1, <3>3, <3>5
  <2> QED BY <2>3, <2>4
<1>25. Keeps(u, Clock) /\ SameQueue(t, u)
  <2>1. Keeps(t, Clock) /\ t \in StateShape BY <1>24, Zenon DEF MayLead, Keeps
  <2> QED BY <1>21, <2>1, SeeTimeLeftTells, TellsKeeps
<1>26. Keeps(g, Clock) /\ SameQueue(u, g)
  <2>1. u \in StateShape BY <1>25, Zenon DEF Keeps
  <2> QED BY <1>21, <1>25, <2>1, SeeStatusTells, TellsKeeps
<1>27. MayLead(State, g, offset, Clock)
  <2>1. MayLead(State, u, offset, Clock) BY <1>24, <1>25, SameSound
  <2> QED BY <1>26, <2>1, SameSound
<1> QED BY <1>1, <1>22, <1>27 DEF SoundStep

\* Lemma: TimePasses.
LEMMA PassSound ==
    ASSUME ScheduleInv, TimePasses
    PROVE  SoundStep
<1>1. /\ Clock \in Int /\ Clock = real + offset /\ MayLead(State, State, offset, Clock)
      /\ State.player = player /\ State.shown = shown /\ State.astray = astray
      /\ real \in Int /\ offset \in Int
  BY StateIs
<1>2. PICK now : now = real + 1 + offset OBVIOUS
<1>3. /\ offset' = offset /\ real' + offset' = now /\ now \in Int /\ Clock <= now
      /\ player' = player /\ shown' = shown /\ astray' = astray
  BY <1>1, <1>2 DEF TimePasses
<1>4. SetPlayer(State) BY <1>1, <1>3 DEF SetPlayer
<1>5. Keeps(State, now) BY <1>1, <1>3, LaterKeeps DEF MayLead
<1>6. MayLead(State, State, offset, now) BY <1>1, <1>5 DEF MayLead
<1> QED BY <1>3, <1>4, <1>6 DEF SoundStep

\* Lemma: every step is sound.
LEMMA NextSound ==
    ASSUME ScheduleInv, ScheduleNext
    PROVE  SoundStep /\ real' \in 1..MaxTime /\ offset' \in Corrections
<1>1. SoundStep
  <2>1. CASE \E config \in ExamConfigs : LoadConfig(config) BY <2>1, LoadSound
  <2>2. CASE RejectConfig BY <2>2, RejectLeads
  <2>3. CASE StartCore \/ StopCore BY <2>3, CoreSound
  <2>4. CASE Second BY <2>4, SecondSound
  <2>5. CASE \E correction \in Corrections : TimeChange(correction) BY <2>5, ChangeSound
  <2>6. CASE \E t \in player.timers : Fire(t) BY <2>6, FireSound
  <2>7. CASE \E index \in DOMAIN player.exams : switchToExam(index) BY <2>7, SwitchSound
  <2>8. CASE TimePasses BY <2>8, PassSound
  <2> QED BY <2>1, <2>2, <2>3, <2>4, <2>5, <2>6, <2>7, <2>8, Zenon DEF ScheduleNext
<1>2. real \in 1..MaxTime /\ offset \in Corrections BY DEF ScheduleInv
<1>3. real' \in 1..MaxTime
  <2>1. CASE TimePasses
    <3>1. MaxTime \in Nat /\ real < MaxTime /\ real' = real + 1
      BY <2>1, ScheduleAssumption DEF TimePasses
    <3> QED BY <1>2, <3>1
  <2>2. CASE ~TimePasses
    <3>1. real' = real
      BY <2>2, Zenon DEF ScheduleNext, LoadConfig, RejectConfig, StartCore, StopCore, Second,
                         TimeChange, Fire, switchToExam
    <3> QED BY <1>2, <3>1
  <2> QED BY <2>1, <2>2
<1>4. offset' \in Corrections
  <2>1. CASE \E correction \in Corrections : TimeChange(correction)
    BY <2>1 DEF TimeChange
  <2>2. CASE ~\E correction \in Corrections : TimeChange(correction)
    <3>1. offset' = offset
      BY <2>2, Zenon DEF ScheduleNext, LoadConfig, RejectConfig, StartCore, StopCore, Second,
                         TimePasses, Fire, switchToExam
    <3> QED BY <1>2, <3>1
  <2> QED BY <2>1, <2>2
<1> QED BY <1>1, <1>3, <1>4

\* Lemma: the invariant holds at first.
LEMMA ScheduleStarts ==
    ScheduleInit => ScheduleInv
<1> SUFFICES ASSUME ScheduleInit PROVE ScheduleInv
  OBVIOUS
<1>0. PICK closure \in BOOLEAN :
         player = [bound |-> closure, started |-> FALSE, running |-> FALSE, loaded |-> FALSE,
                   exams |-> <<>>, index |-> 1, currentTime |-> Clock, tasks |-> <<>>,
                   pending |-> {}, timers |-> {}, accepted |-> {}, seen |-> {}]
  BY DEF ScheduleInit
<1>1. real = 1 /\ offset \in Corrections /\ astray = {} /\ shown = NothingShown
  BY DEF ScheduleInit
<1>2. real \in 1..MaxTime /\ Clock \in Int BY <1>1, ScheduleAssumption DEF Clock
<1>3. PICK no, nothing : no = FALSE /\ nothing = <<>> OBVIOUS
<1>4. /\ no \in BOOLEAN /\ nothing \in Seq(ConfigExams) /\ nothing \in Seq(TimedTask)
  <2>1. no \in BOOLEAN BY <1>3, Zenon
  <2> QED BY <1>3, <2>1
<1>5. player \in PlayerShape
  <2>1. player = [bound |-> closure, started |-> no, running |-> no, loaded |-> no,
                  exams |-> nothing, index |-> 1, currentTime |-> Clock, tasks |-> nothing,
                  pending |-> {}, timers |-> {}, accepted |-> {}, seen |-> {}]
    BY <1>0, <1>3, Zenon
  <2> QED BY <1>2, <1>4, <2>1 DEF PlayerShape
<1>6. NothingShown \in [last : SUBSET (Kinds \X ConfigExams), again : BOOLEAN]
      /\ ~NothingShown.again
  BY DEF NothingShown
<1>7. PICK s : s = State OBVIOUS
<1>8. s.player = player /\ s.shown = NothingShown /\ s.astray = {} /\ s \in StateShape
  BY <1>1, <1>5, <1>6, <1>7 DEF State, StateShape
<1>9. /\ player.running = FALSE /\ player.loaded = FALSE /\ player.exams = <<>>
      /\ player.pending = {} /\ player.timers = {}
  BY <1>0
<1>10. Keeps(s, Clock)
  <2>1. Successive(s.player.exams) BY <1>8, <1>9 DEF Successive
  <2>2. Follows(s, Clock) BY <1>8, <1>9 DEF Follows
  <2> QED BY <1>6, <1>8, <1>9, <2>1, <2>2 DEF Keeps
<1>11. Timed(s, offset, {}) BY <1>8, <1>9 DEF Timed
<1> QED BY <1>1, <1>2, <1>7, <1>9, <1>10, <1>11 DEF ScheduleInv

\* Lemma: every step keeps the invariant, and executes only what is due.
LEMMA ScheduleStep ==
    ASSUME ScheduleInv, [ScheduleNext]_scheduleVars
    PROVE  /\ ScheduleInv'
           /\ \/ UNCHANGED scheduleVars
              \/ \A i \in player.pending \ player'.pending :
                    player'.tasks = player.tasks => player.tasks[i].time <= real' + offset'
<1>1. CASE ScheduleNext
  <2>1. SoundStep /\ real' \in 1..MaxTime /\ offset' \in Corrections BY <1>1, NextSound
  <2>2. PICK g : SetPlayer(g) /\ MayLead(State, g, offset', real' + offset')
    BY <2>1 DEF SoundStep
  <2>3. player' = g.player /\ shown' = g.shown /\ astray' = g.astray BY <2>2 DEF SetPlayer
  <2>4. /\ Keeps(g, real' + offset') /\ g \in StateShape
        /\ Timed(g, offset', IF g.player.running THEN g.player.pending ELSE {})
        /\ g.player.tasks = State.player.tasks =>
             \A i \in State.player.pending \ g.player.pending :
                State.player.tasks[i].time <= real' + offset'
    BY <2>2, Zenon DEF MayLead, Keeps
  <2>5. State' = g
    <3>1. g = [player |-> g.player, shown |-> g.shown, astray |-> g.astray]
      BY <2>4 DEF StateShape
    <3>2. State' = [player |-> player', shown |-> shown', astray |-> astray'] BY DEF State
    <3> QED BY <2>3, <3>1, <3>2, Zenon
  <2>6. Clock' = real' + offset' BY DEF Clock
  <2>7. ScheduleInv' BY <2>1, <2>3, <2>4, <2>5, <2>6, Zenon DEF ScheduleInv
  <2>8. \A i \in player.pending \ player'.pending :
           player'.tasks = player.tasks => player.tasks[i].time <= real' + offset'
    <3>1. State.player = player BY StateIs
    <3> QED BY <2>3, <2>4, <3>1, Zenon
  <2> QED BY <2>7, <2>8
<1>2. CASE UNCHANGED scheduleVars
  <2>1. real' = real /\ offset' = offset /\ player' = player /\ State' = State /\ Clock' = Clock
    BY <1>2 DEF scheduleVars, State, Clock
  <2> QED BY <1>2, <2>1, Zenon DEF ScheduleInv
<1> QED BY <1>1, <1>2

\* Lemma: the invariant holds.
LEMMA ScheduleHolds == ScheduleSpec => []ScheduleInv
BY ScheduleStarts, ScheduleStep, PTL DEF ScheduleSpec

\* Theorem: the player, its queue and its reminders are always of their types:
\* in particular its index is that of an exam, if there is one, and no timer
\* outlives the task it is for.
THEOREM PlayerTypesHold == ScheduleSpec => []ScheduleTypeOK
<1>1. ScheduleInv => ScheduleTypeOK
  <2> SUFFICES ASSUME ScheduleInv PROVE ScheduleTypeOK
    OBVIOUS
  <2>1. /\ Keeps(State, Clock) /\ State \in StateShape /\ player \in PlayerShape
        /\ State.player = player /\ State.shown = shown /\ State.astray = astray
        /\ Timed(State, offset, IF player.running THEN player.pending ELSE {})
        /\ player.started \in BOOLEAN /\ player.running \in BOOLEAN
    BY StateIs
  <2>2. real \in 1..MaxTime /\ offset \in Corrections BY DEF ScheduleInv
  <2>3. player.loaded \in BOOLEAN /\ player.bound \in BOOLEAN
    BY <2>1, Zenon DEF PlayerShape
  <2>4. /\ player.exams \in Seq(ConfigExams) /\ player.index \in Nat \ {0}
        /\ player.currentTime \in Int /\ player.tasks \in Seq(TimedTask)
        /\ player.timers \in SUBSET [task : Nat, due : 1..(MaxTime + MaxTimerDelay)]
        /\ player.accepted \in SUBSET (Kinds \X ConfigExams)
        /\ player.seen \in SUBSET (ConfigExams \X SeenStatuses)
    BY <2>1 DEF PlayerShape
  <2>5. shown \in [last : SUBSET (Kinds \X ConfigExams), again : BOOLEAN]
        /\ astray \in SUBSET {"index", "time", "unheard"}
    BY <2>1, Zenon DEF StateShape
  <2>6. /\ player.exams # <<>> => player.index \in 1..Len(player.exams)
        /\ player.pending \subseteq 1..Len(player.tasks)
    BY <2>1, Zenon DEF Keeps
  <2>7. DOMAIN player.exams = 1..Len(player.exams) /\ DOMAIN player.tasks = 1..Len(player.tasks)
    BY <2>4
  <2>8. player.timers \subseteq [task : DOMAIN player.tasks, due : 1..(MaxTime + MaxTimerDelay)]
    <3> SUFFICES ASSUME NEW t \in player.timers
                 PROVE  t \in [task : DOMAIN player.tasks, due : 1..(MaxTime + MaxTimerDelay)]
      OBVIOUS
    <3>1. t.task \in player.pending BY <2>1 DEF Timed
    <3>2. t.task \in DOMAIN player.tasks BY <2>6, <2>7, <3>1
    <3>3. t \in [task : Nat, due : 1..(MaxTime + MaxTimerDelay)] BY <2>4
    <3> QED BY <3>2, <3>3
  <2> QED BY <2>1, <2>2, <2>3, <2>4, <2>5, <2>6, <2>7, <2>8, Zenon
          DEF ScheduleTypeOK, TimedTask, SeenStatuses
<1> QED BY <1>1, ScheduleHolds, PTL

\* Theorem: while the queue runs exactly the pending tasks have a timer, and
\* none of the timers is late by the corrected clock, in whatever order loads,
\* starts, stops, ticks and corrections come; a queue that can read the clock has
\* a task for every exam that is yet to begin or to end.
THEOREM TasksStayKept == ScheduleSpec => []TasksAreKept
<1>1. ScheduleInv => TasksAreKept
  <2> SUFFICES ASSUME ScheduleInv PROVE TasksAreKept
    OBVIOUS
  <2>1. /\ State.player = player /\ State.astray = astray /\ player \in PlayerShape
        /\ Timed(State, offset, IF player.running THEN player.pending ELSE {})
        /\ real \in Int /\ offset \in Int /\ Clock = real + offset
    BY StateIs
  <2>2. TimersArePending BY <2>1, Zenon DEF Timed, TimersArePending
  <2>3. Punctual
    <3> SUFFICES ASSUME "unheard" \notin astray, NEW t \in player.timers,
                        player.tasks[t.task].time <= Clock
                 PROVE  t.due <= real
      BY DEF Punctual
    <3>1. t.due + offset <= player.tasks[t.task].time BY <2>1, Zenon DEF Timed
    <3>2. t.task \in 1..Len(player.tasks)
      <4>1. t.task \in player.pending BY <2>1 DEF Timed
      <4>2. Keeps(State, Clock) BY StateIs
      <4>3. player.pending \subseteq 1..Len(player.tasks) BY <2>1, <4>2, Zenon DEF Keeps
      <4> QED BY <4>1, <4>3
    <3>3. PICK due, time : due = t.due /\ time = player.tasks[t.task].time OBVIOUS
    <3>4. due \in Int /\ time \in Int
      <4>1. t \in [task : Nat, due : 1..(MaxTime + MaxTimerDelay)] BY <2>1 DEF PlayerShape
      <4>2. player.tasks \in Seq(TimedTask) BY <2>1 DEF PlayerShape
      <4>3. player.tasks[t.task] \in TimedTask BY <3>2, <4>2
      <4> QED BY <3>3, <4>1, <4>3 DEF TimedTask
    <3>5. due + offset <= time /\ time <= real + offset BY <2>1, <3>1, <3>3
    <3>6. due <= real BY <2>1, <3>4, <3>5
    <3> QED BY <3>3, <3>6
  <2>4. player.bound => TurnsAreAwaited
    <3> SUFFICES ASSUME player.bound, player.loaded, "time" \notin astray,
                        NEW k \in DOMAIN player.exams,
                        NEW turn \in {player.exams[k].start, player.exams[k].end},
                        turn > Clock
                 PROVE  \E i \in player.pending : /\ player.tasks[i].time = turn
                                                  /\ player.tasks[i].kind # "alert"
      BY DEF TurnsAreAwaited
    <3>1. Covers(player, Clock)
      <4>1. Keeps(State, Clock) BY StateIs
      <4> QED BY <2>1, <4>1, Zenon DEF Keeps
    <3>2. player.exams \in Seq(ConfigExams) BY <2>1 DEF PlayerShape
    <3>3. k \in 1..Len(player.exams) /\ player.exams[k] \in ConfigExams BY <3>2
    <3>4. turn \in Nat BY <3>3, ExamTimes
    <3>5. IsBound(player.exams, turn) BY <3>3 DEF IsBound
    <3>6. Clock < turn BY <2>1, <3>4
    <3> QED BY <3>1, <3>4, <3>5, <3>6, Zenon DEF Covers
  <2> QED BY <2>2, <2>3, <2>4, Zenon DEF TasksAreKept
<1> QED BY <1>1, ScheduleHolds, PTL

\* Theorem: no reminder of a configuration is presented twice, and while the
\* queue runs with none of its tasks due, the player shows the exam in progress,
\* or the next one, unless its index or the clock was set by hand; whatever the
\* queue reads, no exam is passed that has not ended.
THEOREM ScreenAlwaysFollows == ScheduleSpec => []ScreenFollows
<1>1. ScheduleInv => ScreenFollows
  <2> SUFFICES ASSUME ScheduleInv PROVE ScreenFollows
    OBVIOUS
  <2>1. /\ State.player = player /\ State.astray = astray /\ State.shown = shown
        /\ player \in PlayerShape /\ Keeps(State, Clock) /\ Clock \in Int
    BY StateIs
  <2>2. OnceEach BY <2>1, Zenon DEF Keeps, OnceEach
  <2>3. ShowsTheExam
    <3> SUFFICES ASSUME player.bound, player.loaded, astray \cap {"index", "time"} = {},
                        player.exams # <<>>,
                        \A i \in player.pending : player.tasks[i].time > Clock
                 PROVE  player.index = Target(player.exams, Clock)
      BY DEF ShowsTheExam
    <3>1. PICK c \in Int : /\ c <= Clock /\ player.index = Target(player.exams, c)
                           /\ Covers(player, c)
      BY <2>1, Zenon DEF Keeps, Follows
    <3>2. ASSUME NEW b \in Nat, IsBound(player.exams, b), c < b PROVE Clock < b
      <4>1. PICK i \in player.pending : player.tasks[i].time = b
        BY <3>1, <3>2, Zenon DEF Covers
      <4> QED BY <2>1, <4>1
    <3>3. player.exams \in Seq(ConfigExams) BY <2>1 DEF PlayerShape
    <3>4. PICK exams, now : exams = player.exams /\ now = Clock OBVIOUS
    <3>5. Target(exams, c) = Target(exams, now)
      BY <2>1, <3>1, <3>2, <3>3, <3>4, TargetStays
    <3> QED BY <3>1, <3>4, <3>5
  <2>4. SkipsNothing
    <3> SUFFICES ASSUME player.loaded, astray \cap {"index", "time"} = {},
                        NEW i \in DOMAIN player.exams, i < player.index
                 PROVE  player.exams[i].end <= Clock
      BY DEF SkipsNothing
    <3>1. PICK exams, index, now : exams = player.exams /\ index = player.index /\ now = Clock
      OBVIOUS
    <3>2. exams \in Seq(ConfigExams) BY <2>1, <3>1 DEF PlayerShape
    <3>3. i \in 1..Len(exams) /\ exams # <<>> BY <3>1, <3>2
    <3>4. Successive(exams) BY <2>1, <3>1, Zenon DEF Keeps
    <3>5. PICK c \in Int : c <= now /\ index = Target(exams, c)
      BY <2>1, <3>1, <3>3, Zenon DEF Keeps, Follows
    <3>6. exams[i].end <= c BY <3>1, <3>2, <3>3, <3>4, <3>5, PastHasEnded
    <3>7. exams[i].end \in Nat
      <4>1. exams[i] \in ConfigExams BY <3>2, <3>3
      <4> QED BY <4>1, ExamTimes
    <3>8. now \in Int BY <2>1, <3>1
    <3> QED BY <3>1, <3>5, <3>6, <3>7, <3>8
  <2> QED BY <2>2, <2>3, <2>4, Zenon DEF ScreenFollows
<1> QED BY <1>1, ScheduleHolds, PTL

\* Theorem: no task is executed before its time by the corrected clock, whatever
\* the length of its delay and however the clock is corrected. (A queue that reads
\* NaN has no task to execute.)
THEOREM NothingIsEarly == ScheduleSpec => NeverEarly
<1>1. ScheduleInv /\ [ScheduleNext]_scheduleVars
        => [\A i \in player.pending \ player'.pending :
              player'.tasks = player.tasks => player.tasks[i].time <= real' + offset']_scheduleVars
  BY ScheduleStep, Zenon
<1> QED BY <1>1, ScheduleHolds, PTL DEF ScheduleSpec, NeverEarly
=============================================================================
