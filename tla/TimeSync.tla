------------------------------ MODULE TimeSync ------------------------------
(***************************************************************************)
(* The time of the desktop app: timeService and ntpClient. The offset that *)
(* an NTP server gives and the one the user sets, to which every day may   *)
(* add an increment; the settings, which live in the configuration store,  *)
(* in the older timeSync.json or in memory alone; and what windows hear.   *)
(*                                                                         *)
(* A step is one task of the main process. An offset of NTP is the server  *)
(* it comes from. An offset of the user is what was set and the increments *)
(* added since. autoIncrementSeconds is 1 whenever the increment is on,    *)
(* and the length of the sync interval is left out. How the store reaches  *)
(* the disk is modelled in SettingsStore: here a snapshot of it does, at   *)
(* any time.                                                               *)
(***************************************************************************)
EXTENDS Integers, Sequences, FiniteSets

CONSTANTS Servers,       \* NTP servers
          DefaultServer, \* the one of DEFAULT_TIME_SYNC_CONFIG
          OldServer,     \* the one in timeSync.json
          ShortDays,     \* days of 23 hours: clocks are put forward on them
          Absent,        \* no value
          MaxDay,        \* bound: the last day
          MaxSyncs,      \* bound: NTP requests in one run of the app
          MaxSettings    \* bound: changes of settings

ASSUME TimeAssumption ==
    /\ {DefaultServer, OldServer} \subseteq Servers
    /\ ShortDays \subseteq Nat
    /\ Absent \notin Servers \union Int
    /\ MaxDay \in Nat /\ MaxSyncs \in Nat /\ MaxSettings \in Nat

VARIABLES
    day,        \* the date of the system clock
    timeOn,     \* the service is initialized: the app runs
    conf,       \* timeSyncConfig
    store,      \* 'time' in the configuration store: a value for each key, or Absent
    disk,       \* the same on the disk
    legacy,     \* timeSync.json, or Absent
    offset,     \* timeSyncInfo.offset: the server it comes from, or Absent for 0
    manual,     \* timeSyncInfo.manualOffset
    status,     \* timeSyncInfo.syncStatus
    address,    \* timeSyncInfo.serverAddress
    syncs,      \* the NTP requests of this run: the server, and whether it is pending
    interval,   \* syncIntervalId is set
    toldOffset, \* the offsets that windows were last told
    timeChanges, \* number of changes of settings
    overlapped, \* ghost: an NTP request was sent while another one was pending
    unsaved     \* ghost: a save failed half-way and nothing has told the windows since

timeVars == <<day, timeOn, conf, store, disk, legacy, offset, manual, status, address, syncs,
              interval, toldOffset, timeChanges, overlapped, unsaved>>

Keys == {"ntpServer", "autoSync", "manual", "enabled", "last"}

\* An offset of the user, the increments added to it, and, as a ghost, the last day
\* that had been counted when it was set, or the first one counted after that
Offset(user, since) == [user |-> user, added |-> 0, since |-> since]

Seconds(m) == m.user + m.added

Defaults == [ntpServer |-> DefaultServer, autoSync |-> TRUE, manual |-> Offset(0, Absent),
             enabled |-> FALSE, last |-> Absent]
NoStore == [k \in Keys |-> Absent]

\* daysBetween: whole periods of 24 hours between two midnights
DaysBetween(a, b) ==
    LET short == IF a <= b THEN Cardinality(ShortDays \intersect a..(b - 1))
                           ELSE -Cardinality(ShortDays \intersect b..(a - 1))
    IN  (24 * (b - a) - short) \div 24

-----------------------------------------------------------------------------
(* The increments. Each change of the date they are counted to is written  *)
(* to the store, and with it the offset.                                   *)

BugCounted(c) ==
    IF c.last = Absent THEN [c EXCEPT !.last = day, !.manual.since = day]
    ELSE [c EXCEPT !.manual.added = @ + DaysBetween(c.last, day)]

\* applyAutoIncrementIfNeeded, on a configuration whose switch is on
Counted(c) ==
    IF c.last = Absent THEN [c EXCEPT !.last = day, !.manual.since = day]
    ELSE [c EXCEPT !.manual.added = @ + DaysBetween(c.last, day), !.last = day]

Due(c) == c.enabled /\ (c.last # Absent => DaysBetween(c.last, day) > 0)

Incremented(c) == IF Due(c) THEN Counted(c) ELSE c

\* The ghost of an offset whose increments are counted from today
From(m) == IF m = Absent THEN m ELSE [m EXCEPT !.since = day]

\* What it does to the store: the first date alone, or the offset and the date
StoredWith(s, c) ==
    CASE ~Due(c)                       -> s
      [] Due(c) /\ c.last = Absent     -> [s EXCEPT !.last = day, !.manual = From(@)]
      [] OTHER -> [s EXCEPT !.last = day, !.manual = Counted(c).manual]

Tell(o, m) == toldOffset' = [offset |-> o, manual |-> m] /\ unsaved' = FALSE

-----------------------------------------------------------------------------
(* Synchronisation.                                                        *)

Pending == {s \in DOMAIN syncs : syncs[s].pending}

\* syncTimeWithNTP sends a request; the requests under way stay so.
Ask(server) ==
    /\ Len(syncs) < MaxSyncs
    /\ syncs' = Append(syncs, [server |-> server, pending |-> TRUE])
    /\ status' = "pending" /\ address' = server
    /\ overlapped' = (overlapped \/ Pending # {})

\* restartAutoSync, which resets the offset when the configuration c turns it off
RestartSync(c) ==
    /\ interval' = c.autoSync
    /\ IF c.autoSync
       THEN Ask(c.ntpServer) /\ UNCHANGED offset
       ELSE /\ status' = "disabled" /\ offset' = Absent
            /\ UNCHANGED <<syncs, address, overlapped>>

NoRestart == UNCHANGED <<interval, syncs, status, address, overlapped, offset>>

\* performTimeSync: asked for by a window, a plugin or the HTTP API, or by the interval
performTimeSync ==
    /\ timeOn /\ Ask(conf.ntpServer)
    /\ UNCHANGED <<day, timeOn, conf, store, disk, legacy, offset, manual, interval, toldOffset,
                   timeChanges, unsaved>>

SyncTimer == interval /\ performTimeSync

\* The answer is taken whatever has been asked or turned off since.
NtpAnswers(s) ==
    /\ timeOn /\ syncs[s].pending
    /\ syncs' = [syncs EXCEPT ![s].pending = FALSE]
    /\ offset' = syncs[s].server /\ status' = "success"
    /\ Tell(offset', manual)
    /\ UNCHANGED <<day, timeOn, conf, store, disk, legacy, manual, address, interval, timeChanges,
                   overlapped>>

\* No answer in time, an error of the socket, or an answer that does not parse: windows
\* hear nothing of it.
NtpFails(s) ==
    /\ timeOn /\ syncs[s].pending
    /\ syncs' = [syncs EXCEPT ![s].pending = FALSE]
    /\ status' = "error"
    /\ UNCHANGED <<day, timeOn, conf, store, disk, legacy, offset, manual, address, interval,
                   toldOffset, timeChanges, overlapped, unsaved>>

-----------------------------------------------------------------------------
(* Settings.                                                               *)

TimeValues(k) ==
    CASE k = "ntpServer" -> Servers
      [] k \in {"autoSync", "enabled"} -> BOOLEAN
      [] OTHER -> {Offset(5, conf.last)}

\* applyTimeConfig({k: v}), with the store as it is by then
Apply(k, v, stored) ==
    LET c     == [conf EXCEPT ![k] = v]
        tries == k \in {"enabled", "manual"}
    IN  /\ conf' = IF tries THEN Incremented(c) ELSE c
        /\ store' = IF tries THEN StoredWith(stored, c) ELSE stored
        /\ manual' = Seconds(conf'.manual)
        /\ IF k \in {"autoSync", "ntpServer"} THEN RestartSync(c) ELSE NoRestart
        /\ Tell(offset', manual')

Changed == timeOn /\ timeChanges < MaxSettings /\ timeChanges' = timeChanges + 1

\* config.set of a window: the store first, then the service
setTime(k, v) ==
    /\ Changed
    /\ Apply(k, v, [store EXCEPT ![k] = v])
    /\ UNCHANGED <<day, timeOn, disk, legacy>>

\* applyTimeConfig by a plugin of the main process: for this run alone
applyTimeConfig(k, v) ==
    /\ Changed
    /\ Apply(k, v, store)
    /\ UNCHANGED <<day, timeOn, disk, legacy>>

\* saveTimeSyncConfig, by a plugin of a window: timeSync.json holds it. A new server is
\* not asked at once.
saveTimeSyncConfig(k, v) ==
    /\ Changed
    /\ conf' = [conf EXCEPT ![k] = v] /\ legacy' = conf' /\ manual' = Seconds(conf'.manual)
    /\ IF k = "autoSync" THEN RestartSync(conf') ELSE NoRestart
    /\ Tell(offset', manual')
    /\ UNCHANGED <<day, timeOn, store, disk>>

\* Writing timeSync.json throws: what comes after it is left out. A file that was cut
\* off by it does not parse, and at the next start it is as if there were none.
SaveThrows(k, v) ==
    /\ Changed
    /\ conf' = [conf EXCEPT ![k] = v] /\ manual' = Seconds(conf'.manual)
    /\ legacy' \in {legacy, Absent}
    /\ NoRestart /\ unsaved' = TRUE
    /\ UNCHANGED <<day, timeOn, store, disk, toldOffset>>

-----------------------------------------------------------------------------
(* The app and the days.                                                   *)

\* loadTimeSyncConfig: the store if it has any key of 'time', else timeSync.json
Loaded ==
    LET some(k) == store[k] # Absent
    IN  IF \E k \in Keys : some(k)
        THEN [k \in Keys |-> IF some(k) THEN store[k]
                             ELSE IF k = "manual" THEN Offset(0, store.last) ELSE Defaults[k]]
        ELSE IF legacy # Absent THEN legacy ELSE Defaults

\* initializeTimeSync
initializeTimeSync ==
    LET c == Loaded
    IN  /\ ~timeOn /\ timeOn' = TRUE
        /\ conf' = Incremented(c) /\ store' = StoredWith(store, c)
        /\ manual' = Seconds(conf'.manual)
        /\ RestartSync(conf')
        /\ Tell(offset', manual')
        /\ UNCHANGED <<day, disk, legacy, timeChanges>>

\* The timer of the next midnight; the clock may have been set meanwhile.
IncrementTimer ==
    /\ timeOn /\ Due(conf)
    /\ conf' = Counted(conf) /\ store' = StoredWith(store, conf)
    /\ manual' = Seconds(conf'.manual)
    /\ IF conf.last = Absent THEN UNCHANGED <<toldOffset, unsaved>> ELSE Tell(offset, manual')
    /\ UNCHANGED <<day, timeOn, disk, legacy, offset, status, address, syncs, interval, timeChanges,
                   overlapped>>

\* The store is written.
Persist ==
    /\ timeOn /\ disk # store /\ disk' = store
    /\ UNCHANGED <<day, timeOn, conf, store, legacy, offset, manual, status, address, syncs,
                   interval, toldOffset, timeChanges, overlapped, unsaved>>

\* The app ends or crashes: what the disk has is read when it starts again.
AppExits ==
    /\ timeOn /\ timeOn' = FALSE
    /\ store' = disk /\ conf' = Defaults
    /\ offset' = Absent /\ manual' = 0 /\ status' = "pending"
    /\ address' = DefaultServer /\ syncs' = <<>> /\ interval' = FALSE
    /\ Tell(Absent, manual') /\ overlapped' = FALSE
    /\ UNCHANGED <<day, disk, legacy, timeChanges>>

\* A day goes by, or the clock is set back.
DayChanges ==
    /\ day' \in {day - 1, day + 1} \intersect 0..MaxDay
    /\ UNCHANGED <<timeOn, conf, store, disk, legacy, offset, manual, status, address, syncs,
                   interval, toldOffset, timeChanges, overlapped, unsaved>>

-----------------------------------------------------------------------------
OldSettings == [ntpServer |-> OldServer, autoSync |-> FALSE, manual |-> Offset(5, Absent),
                enabled |-> TRUE, last |-> Absent]

TimeInit ==
    /\ day = 0 /\ timeOn = FALSE /\ conf = Defaults
    /\ store = NoStore /\ disk = NoStore /\ legacy \in {Absent, OldSettings}
    /\ offset = Absent /\ manual = 0 /\ status = "pending"
    /\ address = DefaultServer /\ syncs = <<>> /\ interval = FALSE
    /\ toldOffset = [offset |-> Absent, manual |-> 0]
    /\ timeChanges = 0 /\ overlapped = FALSE /\ unsaved = FALSE

TimeNext ==
    \/ initializeTimeSync \/ performTimeSync \/ SyncTimer \/ IncrementTimer
    \/ \E s \in DOMAIN syncs : NtpAnswers(s) \/ NtpFails(s)
    \/ \E k \in Keys \ {"last"} : \E v \in TimeValues(k) :
          setTime(k, v) \/ applyTimeConfig(k, v) \/ saveTimeSyncConfig(k, v) \/ SaveThrows(k, v)
    \/ Persist \/ AppExits \/ DayChanges

TimeSpec == TimeInit /\ [][TimeNext]_timeVars

-----------------------------------------------------------------------------
Dates == 0..MaxDay \union {Absent}
Offsets == [user : {0, 5}, added : Nat, since : Dates]

\* A store holds values of the same kind as the configuration.
TimeTypeOK ==
    /\ day \in 0..MaxDay /\ timeOn \in BOOLEAN
    /\ \A c \in {conf} \union ({legacy} \ {Absent}) :
          /\ c.ntpServer \in Servers /\ c.autoSync \in BOOLEAN /\ c.manual \in Offsets
          /\ c.enabled \in BOOLEAN /\ c.last \in Dates
    /\ \A s \in {store, disk} :
          /\ s.ntpServer \in Servers \union {Absent} /\ s.autoSync \in BOOLEAN \union {Absent}
          /\ s.manual \in Offsets \union {Absent} /\ s.last \in Dates
    /\ offset \in Servers \union {Absent} /\ manual \in Nat
    /\ status \in {"pending", "success", "error", "disabled"} /\ address \in Servers
    /\ syncs \in Seq([server : Servers, pending : BOOLEAN]) /\ interval \in BOOLEAN
    /\ toldOffset \in [offset : Servers \union {Absent}, manual : Nat]
    /\ timeChanges \in 0..MaxSettings /\ overlapped \in BOOLEAN /\ unsaved \in BOOLEAN

\* Of the days between the setting of the offset and the last day counted, each has
\* added one increment, if none of them is a short one
CountsEachDayOnce(m, last) ==
    last # Absent /\ m.since # Absent /\ ShortDays \intersect m.since..(last - 1) = {}
        => m.added = last - m.since

\* Whatever is restarted, crashes, or is set meanwhile, every day adds its increment
\* exactly once, in memory as in what the store and the disk hold.
EachDayCountsOnce ==
    /\ CountsEachDayOnce(conf.manual, conf.last)
    /\ \A s \in {store, disk} : s.manual # Absent => CountsEachDayOnce(s.manual, s.last)

\* The offset in use is the configured one, and windows know it and that of NTP, unless
\* a save failed half-way. A synchronisation that is shown as disabled has no offset, and
\* one that is shown as a success has that of the server shown, unless requests overlapped.
TimeIsTruthful ==
    /\ timeOn => manual = Seconds(conf.manual)
    /\ ~unsaved => toldOffset = [offset |-> offset, manual |-> manual]
    /\ status = "disabled" => offset = Absent
    /\ status = "success" /\ ~overlapped => offset = address

\* Both: what is in use, what is stored and what is shown agree, and no day counts twice.
TimeIsKept == EachDayCountsOnce /\ TimeIsTruthful
=============================================================================
