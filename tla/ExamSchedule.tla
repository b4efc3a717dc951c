---------------------------- MODULE ExamSchedule ----------------------------
(***************************************************************************)
(* The timing of the exam player: ExamPlayerCore with its ExamTaskQueue,   *)
(* the corrected clock of a TimeProvider, and the reminders that           *)
(* ExamPlayer.vue presents through its ReminderEventGate. Timers run on    *)
(* the computer's time; what is due is read from the corrected clock,      *)
(* which a synchronisation moves in either direction.                      *)
(*                                                                         *)
(* The core hands getCurrentTime to the queue without its provider. One    *)
(* that is a closure works there too: those of the web player, of the      *)
(* tests and of the interface. The method of ElectronTimeProvider does     *)
(* not: it reads the offset of what it is called on, and the queue gets    *)
(* NaN. The core itself calls either one on the provider.                  *)
(*                                                                         *)
(* A step is one task of the renderer's event loop, with the watchers that *)
(* Vue runs before the next one. A timer may fire late (the machine        *)
(* sleeps, the loop is busy); timers fire in the order they are due.       *)
(***************************************************************************)
EXTENDS Integers, Sequences, FiniteSets

CONSTANTS ExamConfigs,    \* the exam configurations, in the order of the file
          Corrections,    \* offsets the synchronisation may find
          MaxTime,        \* bound: the computer's time
          MaxTimerDelay   \* the longest delay a timer takes (2^31 - 1 ms)

\* validateExamConfig and hasExamTimeOverlap accept the configurations.
ASSUME ScheduleAssumption ==
    /\ MaxTime \in Nat \ {0} /\ MaxTimerDelay \in Nat \ {0} /\ Corrections \subseteq Int
    /\ ExamConfigs \subseteq Seq([start : Nat, end : Nat, alert : Nat])
    /\ \A c \in ExamConfigs : \A i, j \in DOMAIN c :
          /\ c[i].start < c[i].end
          /\ i # j => c[i].end <= c[j].start \/ c[j].end <= c[i].start

VARIABLES
    real,     \* the computer's time
    offset,   \* syncedTimeOffset
    player,   \* the core, its queue and the gate
    shown,    \* the last reminder presented, and (ghost) whether one of this
              \* configuration was presented before
    astray    \* ghost: "index" while it was set by hand or by an old
              \* currentTime, "time" once the clock was set back, "unheard"
              \* while the queue has not heard of a correction

scheduleVars == <<real, offset, player, shown, astray>>

\* bound: getCurrentTime is a closure; started: timeInterval is set; running: the queue's isRunning; exams: the
\* sorted canonicalExamInfos; seen: the exam and its status at the last look;
\* pending: the tasks not executed; timers: the tasks that have one, with the
\* computer's time it fires at
Clock == real + offset

\* What the queue reads when the clock shows now: nothing is NaN, with which every
\* comparison fails.
Reading(p, now) == IF p.bound THEN {now} ELSE {}

NothingShown == [last |-> {}, again |-> FALSE]
State == [player |-> player, shown |-> shown, astray |-> astray]

SetPlayer(s) ==
    player' = s.player /\ shown' = s.shown /\ astray' = s.astray

-----------------------------------------------------------------------------
(* The current exam and its reminders                                      *)

Least(S) == CHOOSE n \in S : \A m \in S : n <= m

\* The exams in the order in which they start
InOrder(config) ==
    LET earlier(i) == {j \in DOMAIN config : config[j].start < config[i].start}
    IN  [k \in DOMAIN config |->
            config[CHOOSE i \in DOMAIN config : Cardinality(earlier(i)) = k - 1]]

\* updateCurrentExam without the step past an exam that has ended: the exam in
\* progress, else the next one, else the last one.
Target(exams, now) ==
    LET running == {i \in DOMAIN exams : exams[i].start <= now /\ now < exams[i].end}
        coming  == {i \in DOMAIN exams : now < exams[i].start}
    IN  CASE running # {}                  -> Least(running)
          [] running = {} /\ coming # {}   -> Least(coming)
          [] OTHER                         -> Len(exams)

updateCurrentExam(s) ==
    LET p     == s.player
        exams == p.exams
        old   == p.index
        ended == old < Len(exams) /\ p.currentTime >= exams[old].end
        to    == Target(exams, p.currentTime)
        next  == IF ended /\ to <= old THEN old + 1 ELSE to
    IN  IF exams = <<>> THEN s ELSE [s EXCEPT !.player.index = next]

Show(s, reminder) ==
    [s EXCEPT !.player.accepted = @ \union {reminder},
              !.shown = [last  |-> {reminder},
                         again |-> @.again \/ reminder \in s.player.accepted]]

BugPresent(s, kind, exam) == Show(s, <<kind, exam>>)

\* presentExamReminder: what the gate has accepted is not shown again.
Present(s, kind, exam) ==
    IF <<kind, exam>> \in s.player.accepted THEN s ELSE Show(s, <<kind, exam>>)

\* getExamStatus of the current exam, and the time that is left when there is
\* any.
HasExam(p) == p.index \in DOMAIN p.exams
Status(p) == LET e == p.exams[p.index]
             IN  IF ~HasExam(p) THEN "unknown"
                 ELSE CASE p.currentTime < e.start -> "pending"
                        [] p.currentTime >= e.end  -> "completed"
                        [] OTHER                   -> "inProgress"
TimeLeft(p) == LET e == p.exams[p.index]
               IN  CASE Status(p) = "pending"    -> {e.start - p.currentTime}
                     [] Status(p) = "inProgress" -> {e.end - p.currentTime}
                     [] OTHER                    -> {}

\* Near the end of an exam, a change of the time that is left presents the alert.
SeeTimeLeft(before, s) ==
    LET p    == s.player
        exam == p.exams[p.index]
    IN  IF TimeLeft(p) # TimeLeft(before.player) /\ Status(p) = "inProgress"
           /\ exam.alert > 0 /\ exam.end - p.currentTime <= exam.alert
        THEN Present(s, "alert", exam) ELSE s

\* When the exam that was seen last has begun or ended, its reminder is due.
SeeStatus(s) ==
    LET p    == s.player
        now  == IF HasExam(p) THEN {<<p.exams[p.index], Status(p)>>} ELSE {}
        Turned(status) == /\ Status(p) = status
                          /\ \E seen \in p.seen : seen[1] = p.exams[p.index] /\ seen[2] # status
        told == IF ~HasExam(p) THEN s
                ELSE CASE Turned("inProgress") -> Present(s, "start", p.exams[p.index])
                       [] Turned("completed")  -> Present(s, "end", p.exams[p.index])
                       [] OTHER                -> s
    IN  [told EXCEPT !.player.seen = now]

\* The watchers that follow a change of the exams, of the index or of
\* currentTime: the current exam is updated in the first second of every half
\* minute, then the time that is left and the status are looked at.
Watched(before, s, halfMinute) ==
    LET on(t)   == <<t.player.exams, t.player.index, t.player.currentTime>>
        updated == IF halfMinute /\ s.player.loaded
                      /\ s.player.currentTime # before.player.currentTime
                   THEN [updateCurrentExam(s) EXCEPT !.astray = @ \ {"index"}] ELSE s
    IN  IF on(updated) # on(before) THEN SeeStatus(SeeTimeLeft(before, updated)) ELSE updated

-----------------------------------------------------------------------------
(* ExamTaskQueue. now is the corrected clock, at the computer's time.      *)

\* The callbacks: a start or an end reads the clock and updates the current
\* exam, each presents its reminder.
Handle(s, task, now) ==
    Present(IF task.kind = "alert" THEN s
            ELSE [updateCurrentExam([s EXCEPT !.player.currentTime = now])
                     EXCEPT !.astray = @ \ {"index"}],
            task.kind, task.exam)

executeTask(s, i, now) ==
    LET task == s.player.tasks[i]
    IN  [Handle(s, task, now) EXCEPT !.player.pending = @ \ {i},
                                     !.player.timers = {t \in @ : t.task # i}]

\* A task that is due is executed at once; any other gets a timer, which may
\* be shorter than its delay. One for NaN milliseconds fires at once.
scheduleTask(s, i, now) ==
    LET delays == {s.player.tasks[i].time - n : n \in Reading(s.player, now)}
        waits  == IF delays = {} THEN {0}
                  ELSE {IF d > MaxTimerDelay THEN MaxTimerDelay ELSE d : d \in delays}
    IN  IF \E d \in delays : d <= 0 THEN executeTask(s, i, now)
        ELSE [s EXCEPT !.player.timers = {t \in @ : t.task # i} \union
                                             {[task |-> i, due |-> real + w] : w \in waits}]

StopQueue(s) == [s EXCEPT !.player.running = FALSE, !.player.timers = {}]

\* start: the pending tasks, in the order they were added in
StartQueue(s, now) ==
    LET after[n \in 0..Len(s.player.tasks)] ==
            IF n = 0 THEN [s EXCEPT !.player.running = TRUE]
            ELSE LET r == after[n - 1]
                 IN  IF n \in r.player.pending THEN scheduleTask(r, n, now) ELSE r
    IN  after[Len(s.player.tasks)]

BugReschedule(s, now) == s

\* updateTimeProvider
Reschedule(s, now) == IF s.player.running THEN StartQueue(StopQueue(s), now) ELSE s

\* createTasksForConfig: two tasks of every exam and its alert, if it has one.
\* What is not in the future gets no task: here, one that is not pending.
TasksFor(config) ==
    LET exam(i) == config[(i + 2) \div 3]
    IN  [i \in 1..(3 * Len(config)) |->
            CASE i % 3 = 1 -> [kind |-> "start", exam |-> exam(i), time |-> exam(i).start]
              [] i % 3 = 2 -> [kind |-> "end", exam |-> exam(i), time |-> exam(i).end]
              [] i % 3 = 0 -> [kind |-> "alert", exam |-> exam(i),
                               time |-> exam(i).end - exam(i).alert]]

Ahead(tasks, reading) ==
    {i \in DOMAIN tasks : (\E now \in reading : tasks[i].time > now)
                            /\ (tasks[i].kind = "alert" => tasks[i].exam.alert > 0)}

-----------------------------------------------------------------------------
(* The tasks of the event loop                                             *)

\* The configuration of the window changes: the gate is reset, the current
\* exam is found with the currentTime there is, and the queue starts anew,
\* also in a core that is stopped.
LoadConfig(config) ==
    /\ LET cleared == [State EXCEPT
               !.shown = NothingShown,
               !.astray = IF player.currentTime = Clock THEN {} ELSE {"index"},
               !.player = [@ EXCEPT !.accepted = {}, !.seen = {}, !.loaded = TRUE,
                                    !.exams = InOrder(config)]]
           updated == updateCurrentExam(cleared)
           tasks   == TasksFor(config)
           loaded  == [updated EXCEPT !.player.tasks = tasks, !.player.timers = {},
                                      !.player.pending = Ahead(tasks, Reading(player, Clock))]
       IN  SetPlayer(SeeStatus(SeeTimeLeft(State, StartQueue(loaded, Clock))))
    /\ UNCHANGED <<real, offset>>

\* No configuration, or one that is not valid: the queue is cleared.
RejectConfig ==
    /\ player.loaded
    /\ SetPlayer([State EXCEPT !.shown = NothingShown,
                              !.player = [@ EXCEPT !.accepted = {}, !.seen = {}, !.loaded = FALSE,
                                                   !.running = FALSE, !.tasks = <<>>,
                                                   !.pending = {}, !.timers = {}]])
    /\ UNCHANGED <<real, offset>>

\* The core starts when the component is mounted.
StartCore ==
    /\ ~player.started
    /\ LET started == [State EXCEPT !.player.started = TRUE]
           s == IF player.running THEN started ELSE StartQueue(started, Clock)
       IN  SetPlayer(Watched(State, s, FALSE))
    /\ UNCHANGED <<real, offset>>

StopCore ==
    /\ player.started
    /\ SetPlayer([StopQueue(State) EXCEPT !.player.started = FALSE])
    /\ UNCHANGED <<real, offset>>

\* The interval of the core: the current time advances.
Second ==
    /\ player.started
    /\ \E halfMinute \in BOOLEAN :
          SetPlayer(Watched(State, [State EXCEPT !.player.currentTime = Clock], halfMinute))
    /\ UNCHANGED <<real, offset>>

\* The synchronisation has found an offset, or the second of the provider is
\* over with the offset there is: a core that has started is notified.
TimeChange(correction) ==
    /\ offset' = correction
    /\ LET now == real + correction
           s   == [State EXCEPT !.astray = IF now < Clock THEN @ \union {"time"} ELSE @]
           t   == Reschedule([s EXCEPT !.player.currentTime = now,
                                       !.astray = @ \ {"unheard"}], now)
       IN  IF player.started
           THEN \E halfMinute \in BOOLEAN : SetPlayer(Watched(State, t, halfMinute))
           ELSE SetPlayer([s EXCEPT !.astray = @ \union {"unheard"}])
    /\ UNCHANGED real

BugFire(t) ==
    /\ t.due <= real
    /\ \A u \in player.timers : t.due <= u.due
    /\ SetPlayer(Watched(State, executeTask(State, t.task, Clock), FALSE))
    /\ UNCHANGED <<real, offset>>

\* The timer t fires: its task is executed unless it is too early by the clock.
Fire(t) ==
    LET early == \E now \in Reading(player, Clock) : player.tasks[t.task].time > now
    IN  /\ t.due <= real
        /\ \A u \in player.timers : t.due <= u.due
        /\ SetPlayer(Watched(State, IF early THEN scheduleTask(State, t.task, Clock)
                                    ELSE executeTask(State, t.task, Clock), FALSE))
        /\ UNCHANGED <<real, offset>>

\* The invigilator or a plugin selects an exam.
switchToExam(index) ==
    /\ index # player.index
    /\ SetPlayer(Watched(State, [State EXCEPT !.player.index = index,
                                             !.astray = @ \union {"index"}], FALSE))
    /\ UNCHANGED <<real, offset>>

TimePasses ==
    /\ real < MaxTime
    /\ real' = real + 1
    /\ UNCHANGED <<offset, player, shown, astray>>

-----------------------------------------------------------------------------
ScheduleInit ==
    /\ real = 1 /\ offset \in Corrections
    /\ \E closure \in BOOLEAN :
          player = [bound |-> closure, started |-> FALSE, running |-> FALSE, loaded |-> FALSE,
                    exams |-> <<>>, index |-> 1, currentTime |-> Clock, tasks |-> <<>>,
                    pending |-> {}, timers |-> {}, accepted |-> {}, seen |-> {}]
    /\ shown = NothingShown /\ astray = {}

ScheduleNext ==
    \/ \E config \in ExamConfigs : LoadConfig(config)
    \/ RejectConfig
    \/ StartCore
    \/ StopCore
    \/ Second
    \/ \E correction \in Corrections : TimeChange(correction)
    \/ \E t \in player.timers : Fire(t)
    \/ \E index \in DOMAIN player.exams : switchToExam(index)
    \/ TimePasses

ScheduleSpec == ScheduleInit /\ [][ScheduleNext]_scheduleVars

-----------------------------------------------------------------------------
ConfigExams == UNION {{c[i] : i \in DOMAIN c} : c \in ExamConfigs}
Kinds == {"start", "end", "alert"}

\* The index is that of an exam, if there is one.
ScheduleTypeOK ==
    /\ real \in 1..MaxTime /\ offset \in Corrections
    /\ player.bound \in BOOLEAN /\ player.started \in BOOLEAN
    /\ player.running \in BOOLEAN /\ player.loaded \in BOOLEAN
    /\ player.exams \in Seq(ConfigExams)
    /\ player.index \in Nat /\ player.currentTime \in Int
    /\ player.exams # <<>> => player.index \in DOMAIN player.exams
    /\ player.accepted \subseteq Kinds \X ConfigExams
    /\ player.seen \subseteq ConfigExams \X {"pending", "inProgress", "completed"}
    /\ player.tasks \in Seq([kind : Kinds, exam : ConfigExams, time : Int])
    /\ player.pending \subseteq DOMAIN player.tasks
    /\ player.timers \subseteq [task : DOMAIN player.tasks, due : 1..(MaxTime + MaxTimerDelay)]
    /\ shown \in [last : SUBSET (Kinds \X ConfigExams), again : BOOLEAN]
    /\ astray \subseteq {"index", "time", "unheard"}

\* While the queue runs, exactly the pending tasks have a timer: nothing that
\* was stopped, cleared or executed can still fire, and nothing that is left
\* can be forgotten, in whatever order loads, starts, stops and corrections
\* come.
TimersArePending ==
    {t.task : t \in player.timers} = IF player.running THEN player.pending ELSE {}

\* No task is executed before its time by the corrected clock, whatever the
\* length of its delay and however the clock is corrected after its timer was
\* set.
NeverEarly ==
    [][\A i \in player.pending \ player'.pending :
          player'.tasks = player.tasks => player.tasks[i].time <= real' + offset']_scheduleVars

\* However often the queue is stopped, started and rescheduled, and whether
\* the timer, the notification or the time that is left comes first, no
\* reminder of a configuration is presented twice.
OnceEach == ~shown.again

\* While the queue runs and none of its tasks is due, the player shows the exam
\* that is in progress, or the next one, unless its index was set by hand or
\* the clock was set back since the configuration was loaded. A queue that
\* reads NaN has no tasks: there the exam is shown half a minute late.
ShowsTheExam ==
    player.bound /\ player.loaded /\ player.running /\ astray \cap {"index", "time"} = {}
        /\ player.exams # <<>>
        /\ (\A i \in player.pending : player.tasks[i].time > Clock)
        => player.index = Target(player.exams, Clock)

\* While the core runs, a task that is due by the corrected clock is waited for
\* no longer: it has been executed, or its timer fires as soon as the event
\* loop gets to it, unless the clock was corrected before the core started.
Punctual ==
    player.started /\ "unheard" \notin astray =>
        \A t \in player.timers : player.tasks[t.task].time <= Clock => t.due <= real

\* Whatever the queue reads, the player goes past no exam that has not ended,
\* unless its index was set by hand or the clock was set back.
SkipsNothing ==
    player.loaded /\ astray \cap {"index", "time"} = {} =>
        \A i \in DOMAIN player.exams : i < player.index => player.exams[i].end <= Clock

\* Every exam that is yet to begin or to end has a task that is yet to be
\* executed, unless the clock was set back: onExamStart and onExamEnd will be
\* called.
TurnsAreAwaited ==
    player.loaded /\ "time" \notin astray =>
        \A k \in DOMAIN player.exams :
           \A turn \in {player.exams[k].start, player.exams[k].end} :
              turn > Clock => \E i \in player.pending : /\ player.tasks[i].time = turn
                                                       /\ player.tasks[i].kind # "alert"

\* No task is forgotten, and none is late; with a provider whose method is a
\* closure there is one for every turn.
TasksAreKept == TimersArePending /\ Punctual /\ (player.bound => TurnsAreAwaited)

\* The screen follows the exams without skipping one, and reminds of each once.
ScreenFollows == OnceEach /\ SkipsNothing /\ ShowsTheExam
=============================================================================
