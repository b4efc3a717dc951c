------------------------- MODULE ExamLifecycleProofs -------------------------
(***************************************************************************)
(* An exam is ready or active, and devices play it, only when it has been  *)
(* prepared: for every number of requests and devices, for every bound,    *)
(* and whatever handlers read before another of them writes. What makes it *)
(* so is that commands only grow: a row that has succeeded stays so, and   *)
(* what a handler has read of it may be old but never wrong. With one      *)
(* handler at a time a status says more: ready is since the last version,  *)
(* and an exam is completed after its clients have exited.                 *)
(***************************************************************************)
EXTENDS ExamLifecycle, FiniteSetTheorems, WellFoundedInduction, TLAPS

Nexts == {"idle", "activateRead", "stopIssue", "reconcileRead", "recordState"}

CommandShape == [kind : {"prepare", "activate", "stop"}, dep : Nat \ {0},
                 of : Nat, asOf : Nat \ {0}, row : [Devices -> RowStatus]]
ProcShape == [step : Steps, next : Nexts, fin : SUBSET Nat, fixing : Nat, cmd : Nat,
              of : Nat, seen : ExamStatus, devs : SUBSET Devices, state : PlayerState]
ResultShape == [cmd : Nat, st : {"succeeded", "failed"}, state : PlayerState]
AppShape == [session : Nat, prepared : SUBSET Nat, player : PlayerState,
             running : SUBSET Nat, unaccepted : SUBSET ResultShape]

\* A device has prepared some deployment of the exam.
SomePrepared == \E c \in Prepares : Succeeded(c) # {}

\* A command is about a deployment, and an activation about its prepared devices.
CommandsOK ==
  /\ commands \in Seq(CommandShape) /\ lapsed \subseteq Ids
  /\ \A c \in Ids : commands[c].dep \in Prepares
  /\ \A c \in Ids : Kind(c) = "activate" => Targets(c) \subseteq Succeeded(commands[c].dep)

\* The steps of a request or a reconciliation that is about a deployment.
DeploymentSteps ==
  {"activateRead", "activateTargets", "activateIssue", "activateMark", "stopIssue", "stopMark",
   "reconcileGet", "reconcileRead", "reconcileActivation", "reconcileTargets",
   "reconcileDevices", "reconcileMark"}

\* What a process r has read was true when it was read, and has remained true.
Knows(r) ==
  /\ r.fin \subseteq Prepares
  /\ r.step \in {"finalizeStatus", "finalizeTargets"} => r.fixing \in Prepares
  /\ r.step \in DeploymentSteps \/ r.next \in {"activateRead", "stopIssue", "reconcileRead"}
     => r.cmd \in Prepares
  /\ r.step \in {"prepareMark", "prepareIssue"} => r.cmd # 0
  /\ r.seen \in {"ready", "active"} => SomePrepared
  /\ r.step = "activateIssue" => r.devs \subseteq Succeeded(r.cmd)
  /\ r.step \in {"activateIssue", "activateMark"} => SomePrepared

ProcsOK == proc \in [Procs -> ProcShape] /\ \A p \in Procs : Knows(proc[p])

\* What the app a of device d has prepared, runs, keeps, plays and says is about
\* commands that d is a target of, and it plays what it has prepared.
Plays(d, a) ==
  /\ a.prepared \subseteq Prepares
  /\ a.running \subseteq Ids /\ \A c \in a.running : commands[c].row[d] # "none"
  /\ \A r \in a.unaccepted : r.cmd \in Ids
  /\ a.player.dep \in Prepares \cup {0}
  /\ a.session \in Prepares \cup {0}
  /\ a.session # 0 => d \in Succeeded(a.session)

AppsOK == app \in [Devices -> AppShape] /\ \A d \in Devices : Plays(d, app[d])

StatusOK ==
  /\ status \in ExamStatus /\ version \in 1..MaxVersions \cup {1}
  /\ status \in {"ready", "active"} => SomePrepared

RestOK ==
  /\ reported \in [Devices -> PlayerState]
  /\ spent \in [failures : Nat, repeats : Nat, restarts : Nat]

LifecycleInv == CommandsOK /\ ProcsOK /\ AppsOK /\ StatusOK /\ RestOK

-----------------------------------------------------------------------------
(* Commands only grow.                                                       *)

Grows ==
  /\ Len(commands) <= Len(commands')
  /\ \A c \in Ids :
       /\ commands'[c].kind = commands[c].kind /\ commands'[c].dep = commands[c].dep
       /\ commands'[c].asOf = commands[c].asOf
       /\ \A d \in Devices :
            /\ commands'[c].row[d] = "none" <=> commands[c].row[d] = "none"
            /\ commands[c].row[d] = "succeeded" => commands'[c].row[d] = "succeeded"

LEMMA GrowthKeepsFacts ==
  ASSUME CommandsOK, commands' \in Seq(CommandShape), Grows
  PROVE  /\ Ids \subseteq Ids'
         /\ Prepares \subseteq Prepares'
         /\ \A c \in Ids : Succeeded(c) \subseteq Succeeded(c)' /\ Targets(c)' = Targets(c)
         /\ SomePrepared => SomePrepared'
<1>1. Ids \subseteq Ids'
  BY DEF CommandsOK, Grows, Ids
<1>2. Prepares \subseteq Prepares'
  BY <1>1 DEF Grows, Prepares, Kind
<1>3. \A c \in Ids : Succeeded(c) \subseteq Succeeded(c)' /\ Targets(c)' = Targets(c)
  BY DEF Grows, Succeeded, Targets
<1>4. Prepares \subseteq Ids
  BY DEF Prepares
<1>5. SomePrepared => SomePrepared'
  BY <1>2, <1>3, <1>4 DEF SomePrepared
<1>6. QED
  BY <1>1, <1>2, <1>3, <1>5

LEMMA NoGrowth ==
  ASSUME CommandsOK, UNCHANGED commands
  PROVE  Grows
BY DEF CommandsOK, Grows

\* Rows that are closed keep the commands well-formed.
LEMMA RowsKeepCommands ==
  ASSUME CommandsOK, commands' \in Seq(CommandShape), Grows, Len(commands') = Len(commands),
         lapsed' \subseteq Ids
  PROVE  CommandsOK'
<1>1. Ids' = Ids
  BY DEF CommandsOK, Ids
<1>2. \A c \in Ids : commands'[c].dep = commands[c].dep /\ commands'[c].kind = commands[c].kind
  BY DEF Grows
<1>3. \A c \in Ids : commands'[c].dep \in Prepares'
  BY <1>2, GrowthKeepsFacts DEF CommandsOK
<1>4. ASSUME NEW c \in Ids, Kind(c)' = "activate"
      PROVE  Targets(c)' \subseteq Succeeded(commands[c].dep)'
  <2>1. Targets(c) \subseteq Succeeded(commands[c].dep) /\ commands[c].dep \in Ids
    BY <1>2, <1>4 DEF CommandsOK, Kind, Prepares
  <2>2. Targets(c)' = Targets(c)
    BY GrowthKeepsFacts
  <2>3. \A d \in Devices : commands[commands[c].dep].row[d] = "succeeded"
                              => commands'[commands[c].dep].row[d] = "succeeded"
    BY <2>1 DEF Grows
  <2>4. commands'[c].dep = commands[c].dep
    BY <1>2
  <2>5. QED
    BY <2>1, <2>2, <2>3, <2>4 DEF Succeeded
<1>5. QED
  BY <1>1, <1>3, <1>4 DEF CommandsOK

LEMMA SweptGrows ==
  ASSUME CommandsOK, commands' = Swept, UNCHANGED lapsed
  PROVE  CommandsOK' /\ Grows /\ Len(commands') = Len(commands)
<1> DEFINE Expired(c) == [d \in Devices |-> IF commands[c].row[d] = "open" THEN "expired"
                                                                      ELSE commands[c].row[d]]
<1>1. commands' = [c \in Ids |-> IF c \in lapsed THEN [commands[c] EXCEPT !.row = Expired(c)]
                                                ELSE commands[c]]
  BY DEF Swept
<1>2. Len(commands) \in Nat /\ Ids = 1..Len(commands)
      /\ \A c \in Ids : commands[c] \in CommandShape
  BY DEF CommandsOK, Ids
<1>3. \A c \in Ids : Expired(c) \in [Devices -> RowStatus]
  BY <1>2 DEF CommandShape, RowStatus
<1>4. ASSUME NEW c \in Ids PROVE commands'[c] \in CommandShape
  <2> DEFINE rows == Expired(c)
  <2>1. commands[c] \in CommandShape /\ rows \in [Devices -> RowStatus]
    BY <1>2, <1>3
  <2>2. commands'[c] = IF c \in lapsed THEN [commands[c] EXCEPT !.row = rows] ELSE commands[c]
    BY <1>1
  <2> HIDE DEF rows
  <2>3. QED
    BY <2>1, <2>2 DEF CommandShape
<1>5. commands' \in Seq(CommandShape) /\ Len(commands') = Len(commands)
  BY <1>1, <1>2, <1>4
<1>6. ASSUME NEW c \in Ids
      PROVE  /\ commands'[c].kind = commands[c].kind /\ commands'[c].dep = commands[c].dep
             /\ commands'[c].asOf = commands[c].asOf
             /\ \A d \in Devices :
                  /\ commands'[c].row[d] = "none" <=> commands[c].row[d] = "none"
                  /\ commands[c].row[d] = "succeeded" => commands'[c].row[d] = "succeeded"
  <2>1. CASE c \in lapsed
    <3>1. commands'[c] = [commands[c] EXCEPT !.row = Expired(c)]
      BY <1>1, <2>1
    <3>2. commands'[c].row = Expired(c) /\ commands'[c].kind = commands[c].kind
          /\ commands'[c].dep = commands[c].dep /\ commands'[c].asOf = commands[c].asOf
      BY <1>2, <3>1 DEF CommandShape
    <3>3. QED
      BY <3>2
  <2>2. CASE c \notin lapsed
    BY <1>1, <2>2
  <2>3. QED
    BY <2>1, <2>2
<1>7. Grows
  BY <1>2, <1>5, <1>6 DEF Grows
<1>8. CommandsOK'
  BY <1>5, <1>7, RowsKeepCommands DEF CommandsOK
<1>9. QED
  BY <1>5, <1>7, <1>8

\* One open row is closed.
LEMMA ClosedRowGrows ==
  ASSUME CommandsOK, NEW c \in Ids, NEW d \in Devices, NEW st \in {"succeeded", "failed", "expired"},
         commands[c].row[d] = "open",
         commands' = [commands EXCEPT ![c].row[d] = st], UNCHANGED lapsed
  PROVE  CommandsOK' /\ Grows
<1>1. Len(commands) \in Nat /\ Ids = 1..Len(commands)
      /\ \A e \in Ids : commands[e] \in CommandShape
  BY DEF CommandsOK, Ids
<1>2. [commands[c] EXCEPT !.row[d] = st] \in CommandShape
  BY <1>1 DEF CommandShape, RowStatus
<1>3. commands' \in Seq(CommandShape) /\ Len(commands') = Len(commands)
  BY <1>1, <1>2 DEF CommandsOK
<1>4. /\ commands'[c] = [commands[c] EXCEPT !.row[d] = st]
      /\ \A e \in Ids : e # c => commands'[e] = commands[e]
  <2> DEFINE new == [commands[c] EXCEPT !.row[d] = st]
  <2>1. commands \in [Ids -> CommandShape]
    BY <1>1 DEF CommandsOK
  <2>2. commands' = [commands EXCEPT ![c] = new]
    OBVIOUS
  <2> HIDE DEF new
  <2>3. commands'[c] = new /\ \A e \in Ids : e # c => commands'[e] = commands[e]
    BY <2>1, <2>2
  <2>4. QED
    BY <2>3 DEF new
<1>5. /\ commands'[c].kind = commands[c].kind /\ commands'[c].dep = commands[c].dep
      /\ commands'[c].asOf = commands[c].asOf
      /\ commands'[c].row[d] = st
      /\ \A e \in Devices : e # d => commands'[c].row[e] = commands[c].row[e]
  BY <1>1, <1>4 DEF CommandShape
<1>6. Grows
  BY <1>1, <1>3, <1>4, <1>5 DEF Grows
<1>7. CommandsOK'
  BY <1>3, <1>6, RowsKeepCommands DEF CommandsOK
<1>8. QED
  BY <1>6, <1>7

\* A command is appended: a new deployment, or one about an old deployment.
LEMMA IssuedGrows ==
  ASSUME CommandsOK, NEW kind \in {"prepare", "activate", "stop"}, NEW dep, NEW of \in Nat,
         NEW asOf \in Nat \ {0}, NEW targets \in SUBSET Devices,
         IF kind = "prepare" THEN dep = Len(commands) + 1 ELSE dep \in Prepares,
         kind = "activate" => targets \subseteq Succeeded(dep),
         commands' = Issued(kind, dep, of, asOf, targets), UNCHANGED lapsed
  PROVE  CommandsOK' /\ Grows
<1> DEFINE new == [kind |-> kind, dep |-> dep, of |-> of, asOf |-> asOf,
                   row |-> [d \in Devices |-> IF d \in targets THEN "open" ELSE "none"]]
           n == Len(commands) + 1
<1>1. commands' = Append(commands, new)
  BY DEF Issued
<1>2. Len(commands) \in Nat /\ Ids = 1..Len(commands) /\ n \in Nat \ {0}
  BY DEF CommandsOK, Ids
<1>3. dep \in Nat \ {0}
  BY <1>2 DEF Prepares
<1>4. new \in CommandShape
  BY <1>3 DEF CommandShape, RowStatus
<1>5. /\ new.kind = kind /\ new.dep = dep
      /\ \A d \in Devices : new.row[d] = IF d \in targets THEN "open" ELSE "none"
  OBVIOUS
<1> HIDE DEF new
<1>6. /\ commands' \in Seq(CommandShape) /\ Len(commands') = n /\ commands'[n] = new
      /\ \A c \in Ids : commands'[c] = commands[c]
  BY <1>1, <1>2, <1>4 DEF CommandsOK
<1>7. Grows
  BY <1>2, <1>6 DEF Grows
<1>8. Ids' = Ids \cup {n}
  BY <1>2, <1>6 DEF Ids
<1>9. dep \in Prepares'
  BY <1>5, <1>6, <1>7, <1>8, GrowthKeepsFacts DEF Prepares, Kind
<1>10. \A c \in Ids' : commands'[c].dep \in Prepares'
  BY <1>5, <1>6, <1>7, <1>8, <1>9, GrowthKeepsFacts DEF CommandsOK
<1>11. ASSUME NEW c \in Ids', commands'[c].kind = "activate"
       PROVE  \A d \in Devices : commands'[c].row[d] # "none"
                                   => commands'[commands'[c].dep].row[d] = "succeeded"
  <2>1. CASE c = n
    <3>1. kind = "activate" /\ commands'[c].dep = dep /\ dep \in Ids
      BY <1>5, <1>6, <1>11, <2>1 DEF Prepares
    <3>2. \A d \in Devices : commands'[c].row[d] # "none" => d \in Succeeded(dep)
      BY <1>5, <1>6, <2>1, <3>1
    <3>3. QED
      BY <1>6, <3>1, <3>2 DEF Succeeded
  <2>2. CASE c \in Ids
    <3>1. commands'[c] = commands[c] /\ commands[c].dep \in Ids
      BY <1>6, <2>2 DEF CommandsOK, Prepares
    <3>2. Targets(c) \subseteq Succeeded(commands[c].dep)
      BY <1>11, <2>2, <3>1 DEF CommandsOK, Kind
    <3>3. QED
      BY <1>6, <3>1, <3>2 DEF Targets, Succeeded
  <2>3. QED
    BY <1>8, <2>1, <2>2
<1>12. \A c \in Ids' : Kind(c)' = "activate" => Targets(c)' \subseteq Succeeded(commands[c].dep)'
  BY <1>11 DEF Kind, Targets, Succeeded
<1>13. lapsed' \subseteq Ids'
  BY <1>8 DEF CommandsOK
<1>14. QED
  BY <1>6, <1>7, <1>10, <1>12, <1>13 DEF CommandsOK

-----------------------------------------------------------------------------
(* What was known stays known, and a step of one process leaves the others.  *)

LEMMA ProcStep ==
  ASSUME LifecycleInv, CommandsOK', Grows, NEW p \in Procs,
         NEW r \in ProcShape, Knows(r), proc' = [proc EXCEPT ![p] = r]
  PROVE  ProcsOK'
<1>1. /\ Prepares \subseteq Prepares' /\ (SomePrepared => SomePrepared')
      /\ \A c \in Ids : \A d \in Devices :
           commands[c].row[d] = "succeeded" => commands'[c].row[d] = "succeeded"
  BY GrowthKeepsFacts DEF LifecycleInv, CommandsOK, Grows
<1>2. Prepares \subseteq Ids
  BY DEF Prepares
<1>3. proc' \in [Procs -> ProcShape] /\ \A q \in Procs : proc'[q] = IF q = p THEN r ELSE proc[q]
  BY DEF LifecycleInv, ProcsOK
<1>4. ASSUME NEW k, Knows(k) PROVE Knows(k)'
  <2>1. k.step = "activateIssue" => k.cmd \in Ids
    BY <1>2, <1>4 DEF Knows, DeploymentSteps
  <2>2. QED
    BY <1>1, <1>4, <2>1 DEF Knows, Succeeded
<1>5. ASSUME NEW q \in Procs PROVE Knows(proc[q])'
  <2>1. Knows(IF q = p THEN r ELSE proc[q])
    BY DEF LifecycleInv, ProcsOK
  <2>2. QED
    BY <1>3, <1>4, <2>1 DEF Knows
<1>6. QED
  BY <1>3, <1>5 DEF ProcsOK

LEMMA ProcsStay ==
  ASSUME LifecycleInv, CommandsOK', Grows, UNCHANGED proc
  PROVE  ProcsOK'
<1>1. CASE Procs = {}
  BY <1>1 DEF LifecycleInv, ProcsOK
<1>2. ASSUME NEW p \in Procs PROVE ProcsOK'
  <2>1. proc[p] \in ProcShape /\ Knows(proc[p]) /\ proc' = [proc EXCEPT ![p] = proc[p]]
    BY DEF LifecycleInv, ProcsOK
  <2>2. QED
    BY <2>1, ProcStep
<1>3. QED
  BY <1>1, <1>2

LEMMA AppStep ==
  ASSUME LifecycleInv, CommandsOK', Grows, NEW d \in Devices,
         NEW a \in AppShape, Plays(d, a), app' = [app EXCEPT ![d] = a]
  PROVE  AppsOK'
<1>1. /\ Ids \subseteq Ids' /\ Prepares \subseteq Prepares' /\ Prepares \subseteq Ids
      /\ \A c \in Ids : \A e \in Devices :
           /\ commands'[c].row[e] = "none" <=> commands[c].row[e] = "none"
           /\ commands[c].row[e] = "succeeded" => commands'[c].row[e] = "succeeded"
  BY GrowthKeepsFacts DEF LifecycleInv, CommandsOK, Grows, Prepares
<1>2. app' \in [Devices -> AppShape] /\ \A e \in Devices : app'[e] = IF e = d THEN a ELSE app[e]
  BY DEF LifecycleInv, AppsOK
<1>3. ASSUME NEW e \in Devices, NEW k, Plays(e, k) PROVE Plays(e, k)'
  <2>1. \A c \in k.running : commands'[c].row[e] # "none"
    BY <1>1, <1>3 DEF Plays
  <2>2. k.session # 0 => e \in Succeeded(k.session)'
    BY <1>1, <1>3 DEF Plays, Succeeded
  <2>3. QED
    BY <1>1, <1>3, <2>1, <2>2 DEF Plays
<1>4. ASSUME NEW e \in Devices PROVE Plays(e, app[e])'
  <2>1. Plays(e, IF e = d THEN a ELSE app[e])
    BY DEF LifecycleInv, AppsOK
  <2>2. QED
    BY <1>2, <1>3, <2>1 DEF Plays
<1>5. QED
  BY <1>2, <1>4 DEF AppsOK

LEMMA AppsStay ==
  ASSUME LifecycleInv, CommandsOK', Grows, UNCHANGED app
  PROVE  AppsOK'
<1>1. PICK d \in Devices : TRUE
  BY LifecycleAssumption
<1>2. app[d] \in AppShape /\ Plays(d, app[d]) /\ app' = [app EXCEPT ![d] = app[d]]
  BY DEF LifecycleInv, AppsOK
<1>3. QED
  BY <1>2, AppStep

LEMMA StatusStep ==
  ASSUME LifecycleInv, CommandsOK', Grows, NEW s \in ExamStatus, status' \in {status, s},
         s \in {"ready", "active"} => SomePrepared,
         version' \in 1..MaxVersions \cup {1}
  PROVE  StatusOK'
<1>1. SomePrepared => SomePrepared'
  BY GrowthKeepsFacts DEF LifecycleInv, CommandsOK
<1>2. QED
  BY <1>1 DEF LifecycleInv, StatusOK

\* A step that writes neither a command nor the status of the exam.
LEMMA ReadingKeepsInv ==
  ASSUME LifecycleInv, NEW p \in Procs, NEW r \in ProcShape, Knows(r),
         proc' = [proc EXCEPT ![p] = r],
         UNCHANGED <<status, version, commands, lapsed, reported, app>>,
         spent' \in [failures : Nat, repeats : Nat, restarts : Nat]
  PROVE  LifecycleInv'
<1>1. CommandsOK' /\ Grows
  BY NoGrowth DEF LifecycleInv, CommandsOK, Ids, Prepares, Kind, Targets, Succeeded
<1>2. ProcsOK' /\ AppsOK'
  BY <1>1, ProcStep, AppsStay
<1>3. status \in ExamStatus /\ version \in 1..MaxVersions \cup {1}
      /\ (status \in {"ready", "active"} => SomePrepared)
  BY DEF LifecycleInv, StatusOK
<1>4. StatusOK'
  BY <1>1, <1>3, StatusStep
<1>5. QED
  BY <1>1, <1>2, <1>4 DEF LifecycleInv, RestOK

\* A step that writes the status, which it has from what it knows.
LEMMA MarkingKeepsInv ==
  ASSUME LifecycleInv, NEW p \in Procs, NEW r \in ProcShape, Knows(r),
         proc' = [proc EXCEPT ![p] = r],
         NEW s \in ExamStatus, SetStatus(s), s \in {"ready", "active"} => SomePrepared,
         UNCHANGED <<version, commands, lapsed, spent, reported, app>>
  PROVE  LifecycleInv'
<1>1. CommandsOK' /\ Grows
  BY NoGrowth DEF LifecycleInv, CommandsOK, Ids, Prepares, Kind, Targets, Succeeded
<1>2. ProcsOK' /\ AppsOK'
  BY <1>1, ProcStep, AppsStay
<1>3. status' \in {status, s} /\ version' \in 1..MaxVersions \cup {1}
  BY DEF SetStatus, LifecycleInv, StatusOK
<1>4. StatusOK'
  BY <1>1, <1>3, StatusStep
<1>5. QED
  BY <1>1, <1>2, <1>4 DEF LifecycleInv, RestOK

\* get() and list(), before a request or a reconciliation goes on.
LEMMA GettingKeepsInv ==
  ASSUME LifecycleInv, NEW p \in Procs, NEW c \in Prepares,
         NEW next \in {"idle", "activateRead", "stopIssue", "reconcileRead"}, Get(p, c, next),
         UNCHANGED <<status, version, lapsed, spent, reported, app>>
  PROVE  LifecycleInv'
<1> DEFINE r == [Idle EXCEPT !.step = "finalize", !.fin = JustExpired \cup {c},
                             !.cmd = c, !.next = next]
<1>1. commands' = Swept /\ proc' = [proc EXCEPT ![p] = r]
  BY DEF Get
<1>2. CommandsOK' /\ Grows
  BY <1>1, SweptGrows DEF LifecycleInv
<1>3. JustExpired \cup {c} \subseteq Prepares /\ Prepares \subseteq Nat
  BY DEF JustExpired, Prepares, Ids
<1>4. r \in ProcShape
  BY <1>3 DEF Idle, ProcShape, Steps, Nexts, ExamStatus, NoPlayer, PlayerState
<1>5. Knows(r)
  BY <1>3 DEF Idle, Knows, DeploymentSteps
<1>6. ProcsOK' /\ AppsOK'
  BY <1>1, <1>2, <1>4, <1>5, ProcStep, AppsStay
<1>7. status \in ExamStatus /\ version \in 1..MaxVersions \cup {1}
      /\ (status \in {"ready", "active"} => SomePrepared)
  BY DEF LifecycleInv, StatusOK
<1>8. StatusOK'
  BY <1>2, <1>7, StatusStep
<1>9. QED
  BY <1>2, <1>6, <1>8 DEF LifecycleInv, RestOK

-----------------------------------------------------------------------------
(* Steps of a handler.                                                       *)

LEMMA IdleKnows == Idle \in ProcShape /\ Knows(Idle)
<1>1. {} \in SUBSET Nat /\ {} \in SUBSET Devices /\ 0 \in Nat
  OBVIOUS
<1>2. NoPlayer \in PlayerState
  BY DEF NoPlayer, PlayerState
<1>3. Idle \in ProcShape
  BY <1>1, <1>2 DEF Idle, ProcShape, Steps, Nexts, ExamStatus
<1>4. Knows(Idle)
  BY DEF Idle, Knows, DeploymentSteps
<1>5. QED
  BY <1>3, <1>4

\* A process that only goes on from step to step knows as much as before.
LEMMA WalkKnows ==
  ASSUME NEW r \in ProcShape, Knows(r), NEW step \in Steps,
         step \in DeploymentSteps => r.cmd \in Prepares,
         step \notin {"finalizeStatus", "finalizeTargets", "activateIssue"},
         step \in {"prepareMark", "prepareIssue"} => r.cmd # 0,
         step = "activateMark" => SomePrepared
  PROVE  [r EXCEPT !.step = step] \in ProcShape /\ Knows([r EXCEPT !.step = step])
<1>1. [r EXCEPT !.step = step] \in ProcShape
  BY DEF ProcShape
<1>2. QED
  BY <1>1 DEF Knows, ProcShape

LEMMA FinalizeKeepsInv ==
  ASSUME LifecycleInv, NEW p \in Procs, Finalize(p)
  PROVE  LifecycleInv'
<1> DEFINE r == proc[p]
<1>1. r \in ProcShape /\ Knows(r) /\ proc \in [Procs -> ProcShape]
  BY DEF LifecycleInv, ProcsOK
<1>2. spent \in [failures : Nat, repeats : Nat, restarts : Nat]
  BY DEF LifecycleInv, RestOK
<1>3. Finalized(p) \in ProcShape /\ Knows(Finalized(p))
  BY <1>1 DEF Finalized, Idle, ProcShape, Knows, Steps, ExamStatus, DeploymentSteps
<1>4. CASE FinalizeLatest(p)
  <2>1. PICK c \in r.fin :
          proc' = [proc EXCEPT ![p] =
                     IF latestPrepareForExam = c
                     THEN [r EXCEPT !.fin = r.fin \ {c}, !.fixing = c, !.step = "finalizeStatus"]
                     ELSE [r EXCEPT !.fin = r.fin \ {c}]]
    BY <1>4 DEF FinalizeLatest
  <2> DEFINE q == IF latestPrepareForExam = c
                  THEN [r EXCEPT !.fin = r.fin \ {c}, !.fixing = c, !.step = "finalizeStatus"]
                  ELSE [r EXCEPT !.fin = r.fin \ {c}]
  <2>2. c \in Prepares /\ c \in Nat /\ r.step = "finalize"
    BY <1>1, <1>4 DEF Knows, ProcShape, FinalizeLatest, At
  <2>3. q \in ProcShape
    BY <1>1, <2>2 DEF ProcShape, Steps
  <2>4. Knows(q)
    BY <1>1, <2>2 DEF Knows, ProcShape, DeploymentSteps
  <2>5. UNCHANGED <<status, version, commands, lapsed, reported, app, spent>>
    BY <1>4 DEF FinalizeLatest, exam, devices
  <2> HIDE DEF q
  <2>6. proc' = [proc EXCEPT ![p] = q]
    BY <2>1 DEF q
  <2>7. QED
    BY <1>2, <2>3, <2>4, <2>5, <2>6, ReadingKeepsInv
<1>5. CASE FinalizeStatus(p)
  <2> DEFINE q == [r EXCEPT !.step = "finalizeTargets"]
  <2>1. r.step = "finalizeStatus"
        /\ UNCHANGED <<status, version, commands, lapsed, reported, app, spent>>
    BY <1>5 DEF FinalizeStatus, exam, devices, At
  <2>2. q \in ProcShape /\ Knows(q)
    BY <1>1, <2>1 DEF ProcShape, Knows, Steps, DeploymentSteps
  <2>3. CASE status = "preparing"
    BY <1>2, <1>5, <2>1, <2>2, <2>3, ReadingKeepsInv DEF FinalizeStatus
  <2>4. CASE status # "preparing"
    BY <1>2, <1>3, <1>5, <2>1, <2>4, ReadingKeepsInv DEF FinalizeStatus
  <2>5. QED
    BY <2>3, <2>4
<1>6. CASE FinalizeTargets(p)
  <2> DEFINE c == r.fixing
             q == [r EXCEPT !.step = "finalizeMark", !.seen = PreparedStatus(c)]
  <2>1. r.step = "finalizeTargets"
        /\ UNCHANGED <<status, version, commands, lapsed, reported, app, spent>>
    BY <1>6 DEF FinalizeTargets, exam, devices, At
  <2>2. c \in Prepares
    BY <1>1, <2>1 DEF Knows
  <2>3. PreparedStatus(c) \in ExamStatus
        /\ (PreparedStatus(c) \in {"ready", "active"} => SomePrepared)
    BY <2>2 DEF PreparedStatus, ExamStatus, SomePrepared
  <2>4. q \in ProcShape
    BY <1>1, <2>3 DEF ProcShape, Steps
  <2>5. Knows(q)
    BY <1>1, <2>1, <2>3 DEF ProcShape, Knows, DeploymentSteps
  <2>6. CASE \E d \in Devices : commands[c].row[d] = "open"
    BY <1>2, <1>3, <1>6, <2>1, <2>6, ReadingKeepsInv DEF FinalizeTargets
  <2>7. CASE ~\E d \in Devices : commands[c].row[d] = "open"
    <3>1. proc' = [proc EXCEPT ![p] = q]
      BY <1>6, <2>7 DEF FinalizeTargets
    <3>2. QED
      BY <1>2, <2>1, <2>4, <2>5, <3>1, ReadingKeepsInv
  <2>8. QED
    BY <2>6, <2>7
<1>7. CASE FinalizeMark(p)
  <2>1. SetStatus(r.seen) /\ proc' = [proc EXCEPT ![p] = Finalized(p)]
        /\ UNCHANGED <<version, commands, lapsed, spent, reported, app>>
    BY <1>7 DEF FinalizeMark, devices
  <2>2. r.seen \in ExamStatus /\ (r.seen \in {"ready", "active"} => SomePrepared)
    BY <1>1 DEF ProcShape, Knows
  <2>3. QED
    BY <1>3, <2>1, <2>2, MarkingKeepsInv
<1>8. CASE FinalizeEnd(p)
  <2> DEFINE q == [r EXCEPT !.step = r.next]
  <2>1. UNCHANGED <<status, version, commands, lapsed, reported, app, spent>>
    BY <1>8 DEF FinalizeEnd, exam, devices
  <2>2. r.next \in Steps /\ r.next \in Nexts
    BY <1>1 DEF ProcShape, Nexts, Steps
  <2>3. q \in ProcShape /\ Knows(q)
    BY <1>1, <2>2, WalkKnows DEF Knows, Nexts, DeploymentSteps
  <2>4. CASE r.next = "idle"
    BY <1>2, <1>8, <2>1, <2>4, IdleKnows, ReadingKeepsInv DEF FinalizeEnd, Done
  <2>5. CASE r.next # "idle"
    <3>1. proc' = [proc EXCEPT ![p] = q]
      BY <1>8, <2>5 DEF FinalizeEnd, Goto
    <3>2. QED
      BY <1>2, <2>1, <2>3, <3>1, ReadingKeepsInv
  <2>6. QED
    BY <2>4, <2>5
<1>9. QED
  BY <1>4, <1>5, <1>6, <1>7, <1>8 DEF Finalize

-----------------------------------------------------------------------------
(* Requests that read and mark.                                              *)

LEMMA PrepareReadKeepsInv ==
  ASSUME LifecycleInv, NEW p \in Procs, PrepareRead(p)
  PROVE  LifecycleInv'
<1>0. PICK of \in 1..version :
        proc' = [proc EXCEPT ![p] = [Idle EXCEPT !.step = "prepareMark", !.seen = status,
                                                 !.cmd = version, !.of = of]]
  BY DEF PrepareRead
<1> DEFINE r == [Idle EXCEPT !.step = "prepareMark", !.seen = status, !.cmd = version, !.of = of]
<1>1. proc' = [proc EXCEPT ![p] = r]
      /\ UNCHANGED <<status, version, commands, lapsed, reported, app, spent>>
  BY <1>0 DEF PrepareRead, exam, devices
<1>2. status \in ExamStatus /\ (status \in {"ready", "active"} => SomePrepared)
      /\ version \in Nat \ {0} /\ spent \in [failures : Nat, repeats : Nat, restarts : Nat]
  BY LifecycleAssumption DEF LifecycleInv, StatusOK, RestOK
<1>3. of \in Nat
  BY <1>2
<1>4. r \in ProcShape
  BY <1>2, <1>3, IdleKnows DEF ProcShape, Idle, Steps
<1>5. Knows(r)
  BY <1>2 DEF Knows, Idle, DeploymentSteps
<1>6. QED
  BY <1>1, <1>2, <1>4, <1>5, ReadingKeepsInv

LEMMA RefusalKeepsInv ==
  ASSUME LifecycleInv, NEW p \in Procs, PrepareRefused(p) \/ IssueRefused(p)
  PROVE  LifecycleInv'
<1> DEFINE r == proc[p]
<1>1. r \in ProcShape /\ Knows(r)
  BY DEF LifecycleInv, ProcsOK
<1>2. /\ UNCHANGED <<status, version, commands, lapsed, reported, app>>
      /\ spent' = [spent EXCEPT !.failures = @ + 1]
  BY DEF PrepareRefused, IssueRefused, exam, devices
<1>3. spent' \in [failures : Nat, repeats : Nat, restarts : Nat]
  BY <1>2 DEF LifecycleInv, RestOK
<1>4. [r EXCEPT !.step = "prepareRestore"] \in ProcShape
      /\ Knows([r EXCEPT !.step = "prepareRestore"])
  BY <1>1, WalkKnows DEF Steps, DeploymentSteps
<1>5. CASE PrepareRefused(p)
  BY <1>2, <1>3, <1>4, <1>5, ReadingKeepsInv DEF PrepareRefused, Goto
<1>6. CASE IssueRefused(p)
  BY <1>2, <1>3, <1>6, IdleKnows, ReadingKeepsInv DEF IssueRefused, Done
<1>7. QED
  BY <1>5, <1>6

LEMMA ActivateReadsKeepInv ==
  ASSUME LifecycleInv, NEW p \in Procs, ActivateRead(p) \/ ActivateTargets(p)
  PROVE  LifecycleInv'
<1> DEFINE r == proc[p]
<1>1. r \in ProcShape /\ Knows(r)
  BY DEF LifecycleInv, ProcsOK
<1>2. /\ UNCHANGED <<status, version, commands, lapsed, reported, app, spent>>
      /\ r.step \in {"activateRead", "activateTargets"}
  BY DEF ActivateRead, ActivateTargets, exam, devices, At
<1>3. r.cmd \in Prepares /\ spent \in [failures : Nat, repeats : Nat, restarts : Nat]
  BY <1>1, <1>2 DEF Knows, DeploymentSteps, LifecycleInv, RestOK
<1>4. CASE ActivateRead(p)
  <2>1. [r EXCEPT !.step = "activateTargets"] \in ProcShape
        /\ Knows([r EXCEPT !.step = "activateTargets"])
    BY <1>1, <1>3, WalkKnows DEF Steps
  <2>2. CASE MayActivate
    BY <1>2, <1>3, <1>4, <2>1, <2>2, ReadingKeepsInv DEF ActivateRead, Goto
  <2>3. CASE ~MayActivate
    BY <1>2, <1>3, <1>4, <2>3, IdleKnows, ReadingKeepsInv DEF ActivateRead, Done
  <2>4. QED
    BY <2>2, <2>3
<1>5. CASE ActivateTargets(p)
  <2> DEFINE devs == PreparedDevices(r.cmd)
             q == [r EXCEPT !.step = "activateIssue", !.devs = devs]
  <2>1. CASE devs = {}
    BY <1>2, <1>3, <1>5, <2>1, IdleKnows, ReadingKeepsInv DEF ActivateTargets, Done
  <2>2. CASE devs # {}
    <3>1. proc' = [proc EXCEPT ![p].step = "activateIssue", ![p].devs = devs]
      BY <1>5, <2>2 DEF ActivateTargets
    <3>2. proc' = [proc EXCEPT ![p] = q]
      BY <3>1 DEF LifecycleInv, ProcsOK
    <3>3. devs = Succeeded(r.cmd) /\ devs \subseteq Devices /\ SomePrepared
      BY <1>3, <2>2 DEF PreparedDevices, Succeeded, SomePrepared
    <3> HIDE DEF devs
    <3>4. q \in ProcShape
      BY <1>1, <3>3 DEF ProcShape, Steps
    <3>5. Knows(q)
      BY <1>1, <1>3, <3>3 DEF Knows, ProcShape, DeploymentSteps
    <3>6. QED
      BY <1>2, <1>3, <3>2, <3>4, <3>5, ReadingKeepsInv
  <2>3. QED
    BY <2>1, <2>2
<1>6. QED
  BY <1>4, <1>5

LEMMA MarksKeepInv ==
  ASSUME LifecycleInv, NEW p \in Procs,
         PrepareMark(p) \/ PrepareRestore(p) \/ ActivateMark(p) \/ StopMark(p) \/ ReconcileMark(p)
  PROVE  LifecycleInv'
<1> DEFINE r == proc[p]
<1>1. r \in ProcShape /\ Knows(r)
  BY DEF LifecycleInv, ProcsOK
<1>2. UNCHANGED <<version, commands, lapsed, spent, reported, app>>
  BY DEF PrepareMark, PrepareRestore, ActivateMark, StopMark, ReconcileMark, devices
<1>3. CASE PrepareMark(p)
  <2>1. r.step = "prepareMark" /\ SetStatus("preparing")
        /\ proc' = [proc EXCEPT ![p] = [r EXCEPT !.step = "prepareIssue"]]
    BY <1>3 DEF PrepareMark, At, Goto
  <2>2. [r EXCEPT !.step = "prepareIssue"] \in ProcShape
        /\ Knows([r EXCEPT !.step = "prepareIssue"])
    BY <1>1, <2>1, WalkKnows DEF Knows, Steps, DeploymentSteps
  <2>3. QED
    BY <1>2, <2>1, <2>2, MarkingKeepsInv DEF ExamStatus
<1>4. CASE PrepareRestore(p)
  <2>1. SetStatus(r.seen) /\ proc' = [proc EXCEPT ![p] = Idle]
    BY <1>4 DEF PrepareRestore, RestoredStatus, Done
  <2>2. r.seen \in ExamStatus /\ (r.seen \in {"ready", "active"} => SomePrepared)
    BY <1>1 DEF ProcShape, Knows
  <2>3. QED
    BY <1>2, <2>1, <2>2, IdleKnows, MarkingKeepsInv
<1>5. CASE ActivateMark(p)
  <2>1. SomePrepared /\ SetStatus("active") /\ proc' = [proc EXCEPT ![p] = Idle]
    BY <1>1, <1>5 DEF ActivateMark, At, Done, Knows
  <2>2. QED
    BY <1>2, <2>1, IdleKnows, MarkingKeepsInv DEF ExamStatus
<1>6. CASE StopMark(p) \/ ReconcileMark(p)
  <2>1. SetStatus("completed") /\ proc' = [proc EXCEPT ![p] = Idle]
    BY <1>6 DEF StopMark, ReconcileMark, Done
  <2>2. QED
    BY <1>2, <2>1, IdleKnows, MarkingKeepsInv DEF ExamStatus
<1>7. QED
  BY <1>3, <1>4, <1>5, <1>6

-----------------------------------------------------------------------------
(* Requests that issue a command.                                            *)

\* The status and what devices say stay while commands grow.
LEMMA GrowthKeepsInv ==
  ASSUME LifecycleInv, CommandsOK', Grows, ProcsOK', AppsOK', RestOK',
         UNCHANGED <<status, version>>
  PROVE  LifecycleInv'
<1>1. status \in ExamStatus /\ version \in 1..MaxVersions \cup {1}
      /\ (status \in {"ready", "active"} => SomePrepared)
  BY DEF LifecycleInv, StatusOK
<1>2. StatusOK'
  BY <1>1, StatusStep
<1>3. QED
  BY <1>2 DEF LifecycleInv

LEMMA IssuingKeepsInv ==
  ASSUME LifecycleInv, NEW p \in Procs, CommandsOK', Grows,
         NEW r \in ProcShape, Knows(r), NEW q \in ProcShape, Knows(q), IssueReturns(p, r, q),
         UNCHANGED <<status, version, reported, app>>
  PROVE  LifecycleInv'
<1>1. spent' \in [failures : Nat, repeats : Nat, restarts : Nat]
  BY DEF IssueReturns, LifecycleInv, RestOK
<1>2. ProcsOK'
  BY ProcStep DEF IssueReturns
<1>3. AppsOK' /\ RestOK'
  BY <1>1, AppsStay DEF LifecycleInv, RestOK
<1>4. QED
  BY <1>2, <1>3, GrowthKeepsInv

LEMMA PrepareIssueKeepsInv ==
  ASSUME LifecycleInv, NEW p \in Procs, PrepareIssue(p)
  PROVE  LifecycleInv'
<1> DEFINE r == proc[p]
           n == Len(commands) + 1
<1>1. r \in ProcShape /\ Knows(r) /\ r.step = "prepareIssue" /\ r.cmd \in Nat \ {0}
      /\ r.of \in Nat
  BY DEF LifecycleInv, ProcsOK, PrepareIssue, At, ProcShape, Knows
<1>2. PICK targets \in SUBSET Devices \ {{}} : commands' = Issued("prepare", n, r.of, r.cmd, targets)
  BY DEF PrepareIssue
<1>3. /\ IssueReturns(p, Idle, [r EXCEPT !.step = "prepareRestore"])
      /\ UNCHANGED <<status, version, lapsed, reported, app>>
  BY DEF PrepareIssue, exam, devices
<1>4. CommandsOK' /\ Grows
  BY <1>1, <1>2, <1>3, IssuedGrows DEF LifecycleInv
<1>5. [r EXCEPT !.step = "prepareRestore"] \in ProcShape
      /\ Knows([r EXCEPT !.step = "prepareRestore"])
  BY <1>1, WalkKnows DEF Steps, DeploymentSteps
<1>6. QED
  BY <1>3, <1>4, <1>5, IdleKnows, IssuingKeepsInv

LEMMA DeploymentIssueKeepsInv ==
  ASSUME LifecycleInv, NEW p \in Procs, ActivateIssue(p) \/ StopIssue(p)
  PROVE  LifecycleInv'
<1> DEFINE r == proc[p]
<1>1. /\ r \in ProcShape /\ Knows(r) /\ r.step \in {"activateIssue", "stopIssue"}
      /\ UNCHANGED <<status, version, lapsed, reported, app>>
  BY DEF LifecycleInv, ProcsOK, ActivateIssue, StopIssue, At, exam, devices
<1>2. r.cmd \in Prepares /\ r.cmd \in Ids
  BY <1>1 DEF Knows, DeploymentSteps, Prepares
<1>3. commands[r.cmd] \in CommandShape
  BY <1>2 DEF LifecycleInv, CommandsOK, Ids
<1>4. commands[r.cmd].asOf \in Nat \ {0} /\ commands[r.cmd].of \in Nat
  BY <1>3 DEF CommandShape
<1>5. CASE ActivateIssue(p)
  <2>1. /\ commands' = Issued("activate", r.cmd, commands[r.cmd].of, commands[r.cmd].asOf, r.devs)
        /\ IssueReturns(p, [r EXCEPT !.step = "activateMark"], Idle)
        /\ r.step = "activateIssue"
    BY <1>5 DEF ActivateIssue, At
  <2>2. r.devs \subseteq Succeeded(r.cmd) /\ r.devs \in SUBSET Devices /\ SomePrepared
    BY <1>1, <2>1 DEF Knows, ProcShape
  <2>3. CommandsOK' /\ Grows
    BY <1>1, <1>2, <1>4, <2>1, <2>2, IssuedGrows DEF LifecycleInv
  <2>4. [r EXCEPT !.step = "activateMark"] \in ProcShape
        /\ Knows([r EXCEPT !.step = "activateMark"])
    BY <1>1, <1>2, <2>2, WalkKnows DEF Steps
  <2>5. QED
    BY <1>1, <2>1, <2>3, <2>4, IdleKnows, IssuingKeepsInv
<1>6. CASE StopIssue(p)
  <2>1. /\ commands' = Issued("stop", r.cmd, 0, commands[r.cmd].asOf, Targets(r.cmd))
        /\ IssueReturns(p, [r EXCEPT !.step = "stopMark"], Idle)
    BY <1>6 DEF StopIssue
  <2>2. Targets(r.cmd) \in SUBSET Devices
    BY DEF Targets
  <2>3. CommandsOK' /\ Grows
    BY <1>1, <1>2, <1>4, <2>1, <2>2, IssuedGrows DEF LifecycleInv
  <2>4. [r EXCEPT !.step = "stopMark"] \in ProcShape
        /\ Knows([r EXCEPT !.step = "stopMark"])
    BY <1>1, <1>2, WalkKnows DEF Steps
  <2>5. QED
    BY <1>1, <2>1, <2>3, <2>4, IdleKnows, IssuingKeepsInv
<1>7. QED
  BY <1>5, <1>6

-----------------------------------------------------------------------------
(* The transactions of the exam's row, and the clock.                        *)

LEMMA ConfigKeepsInv ==
  ASSUME LifecycleInv, createVersion \/ updateTargets \/ remove
  PROVE  LifecycleInv'
<1>1. UNCHANGED <<commands, lapsed, proc, spent, reported, app>>
  BY DEF createVersion, updateTargets, remove, devices
<1>2. CommandsOK' /\ Grows
  BY <1>1, NoGrowth DEF LifecycleInv, CommandsOK, Ids, Prepares, Kind, Targets, Succeeded
<1>3. ProcsOK' /\ AppsOK'
  BY <1>1, <1>2, ProcsStay, AppsStay
<1>4. version \in 1..MaxVersions \cup {1} /\ status \in ExamStatus
  BY DEF LifecycleInv, StatusOK
<1>5. version' \in 1..MaxVersions \cup {1}
  BY <1>4, LifecycleAssumption DEF createVersion, updateTargets, remove
<1>6. status' \in {status, "draft"} \/ status' \in {status, "archived"}
  BY DEF createVersion, updateTargets, remove, SetStatus, NewVersionStatus
<1>7. StatusOK'
  BY <1>2, <1>5, <1>6, StatusStep DEF ExamStatus
<1>8. QED
  BY <1>1, <1>2, <1>3, <1>7 DEF LifecycleInv, RestOK

LEMMA LapseKeepsInv ==
  ASSUME LifecycleInv, NEW c \in Ids, Lapse(c)
  PROVE  LifecycleInv'
<1>1. /\ lapsed' = lapsed \cup {c}
      /\ UNCHANGED <<commands, proc, spent, status, version, reported, app>>
  BY DEF Lapse, exam, devices
<1>2. CommandsOK' /\ Grows
  BY <1>1, NoGrowth DEF LifecycleInv, CommandsOK, Ids, Prepares, Kind, Targets, Succeeded
<1>3. ProcsOK' /\ AppsOK' /\ RestOK'
  BY <1>1, <1>2, ProcsStay, AppsStay DEF LifecycleInv, RestOK
<1>4. QED
  BY <1>1, <1>2, <1>3, GrowthKeepsInv

-----------------------------------------------------------------------------
(* The desktop app.                                                          *)

\* A step of the app that the server hears nothing of.
LEMMA QuietAppKeepsInv ==
  ASSUME LifecycleInv, NEW d \in Devices, NEW a \in AppShape, Plays(d, a),
         app' = [app EXCEPT ![d] = a],
         UNCHANGED <<status, version, commands, lapsed, reported, proc>>,
         spent' \in [failures : Nat, repeats : Nat, restarts : Nat]
  PROVE  LifecycleInv'
<1>1. CommandsOK' /\ Grows
  BY NoGrowth DEF LifecycleInv, CommandsOK, Ids, Prepares, Kind, Targets, Succeeded
<1>2. ProcsOK' /\ AppsOK' /\ RestOK'
  BY <1>1, ProcsStay, AppStep DEF LifecycleInv, RestOK
<1>3. QED
  BY <1>1, <1>2, GrowthKeepsInv

LEMMA ClosedPlays ==
  ASSUME LifecycleInv, NEW d \in Devices, app[d].session # 0
  PROVE  Closed(d, app[d].session) \in AppShape /\ Plays(d, Closed(d, app[d].session))
<1> DEFINE a == app[d]
           dep == a.session
<1>1. a \in AppShape /\ Plays(d, a)
  BY DEF LifecycleInv, AppsOK
<1>2. Closed(d, dep) = [a EXCEPT !.session = 0, !.prepared = a.prepared \ {dep},
                                 !.player = [status |-> "idle", dep |-> dep]]
  BY DEF Closed
<1>3. dep \in Prepares /\ dep \in Nat
  BY <1>1 DEF Plays, AppShape
<1>4. [status |-> "idle", dep |-> dep] \in PlayerState
  BY <1>3 DEF PlayerState
<1> HIDE DEF a, dep
<1>5. Closed(d, dep) \in AppShape
  <2> DEFINE left == a.prepared \ {dep}
             says == [status |-> "idle", dep |-> dep]
  <2>1. left \in SUBSET Nat /\ says \in PlayerState
    BY <1>1, <1>4 DEF AppShape
  <2> HIDE DEF left, says
  <2>2. [a EXCEPT !.session = 0, !.prepared = left, !.player = says] \in AppShape
    BY <1>1, <2>1 DEF AppShape
  <2>3. QED
    BY <1>2, <2>2 DEF left, says
<1>6. Plays(d, Closed(d, dep))
  BY <1>1, <1>2, <1>3 DEF Plays, AppShape
<1>7. QED
  BY <1>5, <1>6 DEF a, dep

LEMMA BeginKeepsInv ==
  ASSUME LifecycleInv, NEW d \in Devices, NEW c \in Ids, BeginCommand(d, c)
  PROVE  LifecycleInv'
<1> DEFINE now == IF Kind(c) = "activate" /\ app[d].session # 0
                  THEN Closed(d, app[d].session) ELSE app[d]
           a == [now EXCEPT !.running = now.running \cup {c}]
<1>1. app' = [app EXCEPT ![d] = a]
  BY DEF BeginCommand
<1>2. UNCHANGED <<status, version, commands, lapsed, reported, proc, spent>>
      /\ commands[c].row[d] # "none"
  BY DEF BeginCommand, exam, Open
<1>3. now \in AppShape /\ Plays(d, now)
  BY ClosedPlays DEF LifecycleInv, AppsOK
<1>4. c \in Nat
  BY DEF Ids
<1> HIDE DEF now
<1>5. a \in AppShape
  BY <1>3, <1>4 DEF AppShape
<1>6. Plays(d, a)
  BY <1>2, <1>3 DEF Plays, AppShape
<1>7. QED
  BY <1>1, <1>2, <1>5, <1>6, QuietAppKeepsInv DEF LifecycleInv, RestOK

LEMMA ExitKeepsInv ==
  ASSUME LifecycleInv, NEW d \in Devices, PlayerExits(d) \/ Restart(d)
  PROVE  LifecycleInv'
<1>1. UNCHANGED <<status, version, commands, lapsed, reported, proc>>
  BY DEF PlayerExits, Restart, exam
<1>2. spent' \in [failures : Nat, repeats : Nat, restarts : Nat]
  BY DEF PlayerExits, Restart, LifecycleInv, RestOK
<1>3. CASE PlayerExits(d)
  BY <1>1, <1>2, <1>3, ClosedPlays, QuietAppKeepsInv DEF PlayerExits
<1>4. CASE Restart(d)
  <2>1. {} \in SUBSET Nat /\ {} \in SUBSET ResultShape /\ NoPlayer \in PlayerState
    BY DEF NoPlayer, PlayerState
  <2>2. Started \in AppShape
    BY <2>1 DEF Started, AppShape
  <2>3. Plays(d, Started)
    BY DEF Started, Plays, NoPlayer
  <2>4. QED
    BY <1>1, <1>2, <1>4, <2>2, <2>3, QuietAppKeepsInv DEF Restart
<1>5. QED
  BY <1>3, <1>4

\* What a handler leaves behind: an activation only plays what was prepared.
LEMMA ExecutedPlays ==
  ASSUME LifecycleInv, NEW d \in Devices, NEW c \in Ids, commands[c].row[d] # "none"
  PROVE  Executed(d, c) \in AppShape /\ Plays(d, Executed(d, c))
<1> DEFINE a == app[d]
           dep == commands[c].dep
<1>1. a \in AppShape /\ Plays(d, a)
  BY DEF LifecycleInv, AppsOK
<1>2. dep \in Prepares /\ dep \in Nat
  BY DEF LifecycleInv, CommandsOK, Prepares, Ids
<1>3. Kind(c) \in {"prepare", "activate", "stop"}
  <2>1. commands[c] \in CommandShape
    BY DEF LifecycleInv, CommandsOK, Ids
  <2>2. QED
    BY <2>1 DEF CommandShape, Kind
<1>4. \A st \in {"ready", "playing", "idle"} : [status |-> st, dep |-> dep] \in PlayerState
  BY <1>2 DEF PlayerState
<1>5. CASE Kind(c) = "prepare"
  <2>1. Executed(d, c) = [a EXCEPT !.prepared = a.prepared \cup {dep},
                                   !.player = [status |-> "ready", dep |-> dep]]
    BY <1>5 DEF Executed
  <2> HIDE DEF a, dep
  <2>2. Executed(d, c) \in AppShape
    <3> DEFINE more == a.prepared \cup {dep}
               says == [status |-> "ready", dep |-> dep]
    <3>1. more \in SUBSET Nat /\ says \in PlayerState
      BY <1>1, <1>2, <1>4 DEF AppShape
    <3>2. Executed(d, c) = [a EXCEPT !.prepared = more, !.player = says]
      BY <2>1
    <3> HIDE DEF more, says
    <3>3. QED
      BY <1>1, <3>1, <3>2 DEF AppShape
  <2>3. Plays(d, Executed(d, c))
    BY <1>1, <1>2, <2>1 DEF Plays, AppShape
  <2>4. QED
    BY <2>2, <2>3
<1>6. CASE Kind(c) = "activate"
  <2>1. Executed(d, c) = [a EXCEPT !.session = dep,
                                   !.player = [status |-> "playing", dep |-> dep]]
    BY <1>6 DEF Executed
  <2>2. d \in Succeeded(dep)
    BY <1>6 DEF LifecycleInv, CommandsOK, Targets
  <2> HIDE DEF a, dep
  <2>3. Executed(d, c) \in AppShape
    BY <1>1, <1>2, <1>4, <2>1 DEF AppShape
  <2>4. Plays(d, Executed(d, c))
    BY <1>1, <1>2, <2>1, <2>2 DEF Plays, AppShape
  <2>5. QED
    BY <2>3, <2>4
<1>7. CASE Kind(c) = "stop"
  <2>1. Executed(d, c) = [a EXCEPT !.session = IF a.session = dep THEN 0 ELSE a.session,
                                   !.prepared = a.prepared \ {dep},
                                   !.player = [status |-> "idle", dep |-> dep]]
    BY <1>7 DEF Executed
  <2> HIDE DEF a, dep
  <2>2. Executed(d, c) \in AppShape
    <3> DEFINE on == IF a.session = dep THEN 0 ELSE a.session
               left == a.prepared \ {dep}
               says == [status |-> "idle", dep |-> dep]
    <3>1. on \in Nat /\ left \in SUBSET Nat /\ says \in PlayerState
      BY <1>1, <1>4 DEF AppShape
    <3>2. Executed(d, c) = [a EXCEPT !.session = on, !.prepared = left, !.player = says]
      BY <2>1
    <3> HIDE DEF on, left, says
    <3>3. QED
      BY <1>1, <3>1, <3>2 DEF AppShape
  <2>3. Plays(d, Executed(d, c))
    BY <1>1, <1>2, <2>1 DEF Plays, AppShape
  <2>4. QED
    BY <2>2, <2>3
<1>8. QED
  BY <1>3, <1>5, <1>6, <1>7

LEMMA FailedPlays ==
  ASSUME LifecycleInv, NEW d \in Devices, NEW c \in Ids
  PROVE  FailedToExecute(d, c) \in AppShape /\ Plays(d, FailedToExecute(d, c))
<1> DEFINE a == app[d]
           dep == commands[c].dep
<1>1. a \in AppShape /\ Plays(d, a)
  BY DEF LifecycleInv, AppsOK
<1>2. dep \in Prepares /\ dep \in Nat
  BY DEF LifecycleInv, CommandsOK, Prepares, Ids
<1>3. [status |-> "error", dep |-> dep] \in PlayerState
  BY <1>2 DEF PlayerState
<1>4. FailedToExecute(d, c) = a
      \/ FailedToExecute(d, c) = [a EXCEPT !.player = [status |-> "error", dep |-> dep]]
  BY DEF FailedToExecute
<1> HIDE DEF a, dep
<1>5. FailedToExecute(d, c) \in AppShape
  BY <1>1, <1>3, <1>4 DEF AppShape
<1>6. Plays(d, FailedToExecute(d, c))
  BY <1>1, <1>2, <1>4 DEF Plays, AppShape
<1>7. QED
  BY <1>5, <1>6

-----------------------------------------------------------------------------
(* What a device answers.                                                    *)

\* recordResult closes an open row or none, and the process goes on to finalize.
LEMMA RecordStep ==
  ASSUME LifecycleInv, NEW d \in Devices, NEW c \in Ids, NEW st \in {"succeeded", "failed"},
         NEW state \in PlayerState, RecordResult(d, c, st, state), UNCHANGED lapsed
  PROVE  CommandsOK' /\ Grows /\ ProcsOK'
<1> DEFINE go == [Idle EXCEPT !.step = "finalize", !.fin = {c} \cap Prepares, !.state = state]
           on == [go EXCEPT !.next = "recordState"]
           r == proc[d]
           now == IF c \in lapsed THEN "expired" ELSE st
<1>1. now \in {"succeeded", "failed", "expired"}
  OBVIOUS
<1>2. ASSUME Open(d, c) PROVE CommandsOK' /\ Grows
  <2>1. commands' = [commands EXCEPT ![c].row[d] = now] /\ commands[c].row[d] = "open"
    BY <1>2 DEF RecordResult, Open
  <2> HIDE DEF now
  <2>2. QED
    BY <1>1, <2>1, ClosedRowGrows DEF LifecycleInv
<1>3. ASSUME ~Open(d, c) PROVE CommandsOK' /\ Grows
  <2>1. UNCHANGED commands
    BY <1>3 DEF RecordResult
  <2>2. QED
    BY <2>1, NoGrowth DEF LifecycleInv, CommandsOK, Ids, Prepares, Kind, Targets, Succeeded
<1>4. {c} \cap Prepares \in SUBSET Nat /\ {c} \cap Prepares \subseteq Prepares
  BY DEF Prepares, Ids
<1>5. go \in ProcShape /\ Knows(go)
  <2>1. go \in ProcShape
    BY <1>4, IdleKnows DEF ProcShape, Idle, Steps
  <2>2. Knows(go)
    BY <1>4 DEF Knows, Idle, DeploymentSteps
  <2>3. QED
    BY <2>1, <2>2
<1>6. on \in ProcShape /\ Knows(on)
  <2>1. on \in ProcShape
    BY <1>5 DEF ProcShape, Nexts
  <2>2. Knows(on)
    BY <1>4 DEF Knows, Idle, DeploymentSteps
  <2>3. QED
    BY <2>1, <2>2
<1>7. r \in ProcShape /\ Knows(r) /\ d \in Procs
  BY DEF LifecycleInv, ProcsOK, Procs
<1>8. \/ proc' = [proc EXCEPT ![d] = on]
      \/ proc' = [proc EXCEPT ![d] = go]
      \/ proc' = [proc EXCEPT ![d] = r]
  BY DEF RecordResult
<1>9. CommandsOK' /\ Grows
  BY <1>2, <1>3
<1> HIDE DEF go, on, r
<1>10. ProcsOK'
  BY <1>5, <1>6, <1>7, <1>8, <1>9, ProcStep
<1>11. QED
  BY <1>9, <1>10

LEMMA AnswerKeepsInv ==
  ASSUME LifecycleInv, NEW d \in Devices, NEW c \in Ids, NEW st \in {"succeeded", "failed"},
         AnswerCommand(d, c, st)
  PROVE  LifecycleInv'
<1> DEFINE done == IF st = "succeeded" THEN Executed(d, c) ELSE FailedToExecute(d, c)
           result == [cmd |-> c, st |-> st, state |-> done.player]
           accepted == [done EXCEPT !.running = done.running \ {c}]
           kept == [done EXCEPT !.running = done.running \ {c},
                                !.unaccepted = done.unaccepted \cup {result}]
<1>1. /\ RecordResult(d, c, st, done.player)
      /\ UNCHANGED <<status, version, lapsed, reported>>
      /\ \/ app' = [app EXCEPT ![d] = accepted] /\ UNCHANGED spent
         \/ /\ app' = [app EXCEPT ![d] = kept]
            /\ spent' = [spent EXCEPT !.repeats = @ + 1]
  BY DEF AnswerCommand, exam
<1>2. done \in AppShape /\ Plays(d, done)
  <2>1. CASE st = "succeeded"
    <3>1. c \in app[d].running
      BY <2>1 DEF AnswerCommand
    <3>2. commands[c].row[d] # "none"
      BY <3>1 DEF LifecycleInv, AppsOK, Plays
    <3>3. QED
      BY <2>1, <3>2, ExecutedPlays
  <2>2. CASE st # "succeeded"
    BY <2>2, FailedPlays
  <2>3. QED
    BY <2>1, <2>2
<1>3. c \in Nat
  BY DEF Ids
<1> HIDE DEF done
<1>4. done.player \in PlayerState /\ result \in ResultShape
  BY <1>2, <1>3 DEF AppShape, ResultShape
<1>5. CommandsOK' /\ Grows /\ ProcsOK'
  BY <1>1, <1>4, RecordStep
<1>6. accepted \in AppShape /\ Plays(d, accepted)
  <2> DEFINE left == done.running \ {c}
  <2>1. left \in SUBSET Nat /\ left \subseteq done.running
    BY <1>2 DEF AppShape
  <2> HIDE DEF left
  <2>2. [done EXCEPT !.running = left] \in AppShape
    BY <1>2, <2>1 DEF AppShape
  <2>3. Plays(d, [done EXCEPT !.running = left])
    BY <1>2, <2>1 DEF AppShape, Plays
  <2>4. QED
    BY <2>2, <2>3 DEF left
<1>7. kept \in AppShape /\ Plays(d, kept)
  <2> DEFINE left == done.running \ {c}
             owed == done.unaccepted \cup {result}
  <2>1. /\ left \in SUBSET Nat /\ left \subseteq done.running
        /\ owed \in SUBSET ResultShape
        /\ \A e \in owed : e \in done.unaccepted \/ e.cmd = c
    BY <1>2, <1>4 DEF AppShape
  <2> HIDE DEF left, owed
  <2>2. [done EXCEPT !.running = left, !.unaccepted = owed] \in AppShape
    BY <1>2, <2>1 DEF AppShape
  <2>3. Plays(d, [done EXCEPT !.running = left, !.unaccepted = owed])
    BY <1>2, <2>1 DEF AppShape, Plays
  <2>4. QED
    BY <2>2, <2>3 DEF left, owed
<1>8. RestOK'
  BY <1>1 DEF LifecycleInv, RestOK
<1> HIDE DEF accepted, kept
<1>9. AppsOK'
  BY <1>1, <1>5, <1>6, <1>7, AppStep
<1>10. QED
  BY <1>1, <1>5, <1>8, <1>9, GrowthKeepsInv

LEMMA RepeatKeepsInv ==
  ASSUME LifecycleInv, NEW d \in Devices, RepeatResult(d)
  PROVE  LifecycleInv'
<1> DEFINE a == app[d]
<1>1. PICK k \in a.unaccepted :
        /\ RecordResult(d, k.cmd, k.st, k.state)
        /\ app' = [app EXCEPT ![d].unaccepted = @ \ {k}]
  BY DEF RepeatResult
<1>2. a \in AppShape /\ Plays(d, a) /\ app \in [Devices -> AppShape]
  BY DEF LifecycleInv, AppsOK
<1> DEFINE left == a.unaccepted \ {k}
<1>3. app' = [app EXCEPT ![d] = [a EXCEPT !.unaccepted = left]]
  BY <1>1, <1>2
<1>4. k \in ResultShape /\ k.cmd \in Ids
  BY <1>2 DEF AppShape, Plays
<1>5. k.st \in {"succeeded", "failed"} /\ k.state \in PlayerState
  BY <1>4 DEF ResultShape
<1>6. UNCHANGED <<status, version, lapsed, reported, spent>>
  BY DEF RepeatResult, exam
<1>7. CommandsOK' /\ Grows /\ ProcsOK'
  BY <1>1, <1>4, <1>5, <1>6, RecordStep
<1>8. left \in SUBSET ResultShape /\ left \subseteq a.unaccepted
  BY <1>2 DEF AppShape
<1> HIDE DEF left, a
<1>9. [a EXCEPT !.unaccepted = left] \in AppShape
  BY <1>2, <1>8 DEF AppShape
<1>10. Plays(d, [a EXCEPT !.unaccepted = left])
  BY <1>2, <1>8 DEF AppShape, Plays
<1>11. AppsOK' /\ RestOK'
  BY <1>3, <1>6, <1>7, <1>9, <1>10, AppStep DEF LifecycleInv, RestOK
<1>12. QED
  BY <1>6, <1>7, <1>11, GrowthKeepsInv

LEMMA RejectionKeepsInv ==
  ASSUME LifecycleInv, NEW d \in Devices, NEW c \in Ids, CapabilityRejected(d, c)
  PROVE  LifecycleInv'
<1> DEFINE r == [Idle EXCEPT !.step = "finalize", !.fin = {c} \cap Prepares]
<1>1. /\ commands[c].row[d] = "open" /\ commands' = [commands EXCEPT ![c].row[d] = "failed"]
      /\ proc' = [proc EXCEPT ![d] = r]
      /\ UNCHANGED <<status, version, lapsed, reported, app>>
      /\ spent' = [spent EXCEPT !.failures = @ + 1]
  BY DEF CapabilityRejected, Open, exam, devices
<1>2. CommandsOK' /\ Grows
  BY <1>1, ClosedRowGrows DEF LifecycleInv
<1>3. {c} \cap Prepares \in SUBSET Nat /\ {c} \cap Prepares \subseteq Prepares
  BY DEF Prepares, Ids
<1>4. r \in ProcShape
  BY <1>3, IdleKnows DEF ProcShape, Idle, Steps
<1>5. Knows(r) /\ d \in Procs
  BY <1>3 DEF Knows, Idle, DeploymentSteps, Procs
<1>6. RestOK'
  BY <1>1 DEF LifecycleInv, RestOK
<1> HIDE DEF r
<1>7. ProcsOK' /\ AppsOK'
  BY <1>1, <1>2, <1>4, <1>5, ProcStep, AppsStay
<1>8. QED
  BY <1>1, <1>2, <1>6, <1>7, GrowthKeepsInv

-----------------------------------------------------------------------------
(* What a device says of itself.                                             *)

LEMMA SayingKeepsInv ==
  ASSUME LifecycleInv, NEW d \in Devices, RecordState(d) \/ Heartbeat(d)
  PROVE  LifecycleInv'
<1> DEFINE r == [Idle EXCEPT !.step = "reconcileGet", !.cmd = app[d].player.dep]
<1>1. UNCHANGED <<status, version, commands, lapsed, app, spent>>
  BY DEF RecordState, Heartbeat, exam
<1>2. /\ d \in Procs /\ proc[d] \in ProcShape /\ Knows(proc[d])
      /\ app[d] \in AppShape /\ Plays(d, app[d])
  BY DEF LifecycleInv, ProcsOK, AppsOK, Procs
<1>3. /\ proc[d].state \in PlayerState /\ app[d].player \in PlayerState
      /\ app[d].player.dep \in Nat
  BY <1>2 DEF ProcShape, AppShape, PlayerState
<1>4. CommandsOK' /\ Grows
  BY <1>1, NoGrowth DEF LifecycleInv, CommandsOK, Ids, Prepares, Kind, Targets, Succeeded
<1>5. RestOK'
  BY <1>1, <1>3 DEF LifecycleInv, RestOK, RecordState, Heartbeat
<1>6. r \in ProcShape
  BY <1>3, IdleKnows DEF ProcShape, Idle, Steps
<1>7. app[d].player.dep # 0 => Knows(r)
  BY <1>2 DEF Plays, Knows, Idle, DeploymentSteps
<1>8. \/ proc' = [proc EXCEPT ![d] = Idle]
      \/ app[d].player.dep # 0 /\ proc' = [proc EXCEPT ![d] = r]
      \/ proc' = proc
  BY DEF RecordState, Heartbeat, Done
<1> HIDE DEF r
<1>9. ProcsOK'
  BY <1>2, <1>4, <1>6, <1>7, <1>8, IdleKnows, ProcStep, ProcsStay
<1>10. AppsOK'
  BY <1>1, <1>4, AppsStay
<1>11. QED
  BY <1>1, <1>4, <1>5, <1>9, <1>10, GrowthKeepsInv

-----------------------------------------------------------------------------
(* Reconciliation.                                                           *)

\* A set of numbers up to n that is not empty has a largest one.
LEMMA LargestOf ==
  ASSUME NEW n \in Nat, NEW S \in SUBSET (1..n), S # {}
  PROVE  \E c \in S : \A e \in S : e <= c
<1> DEFINE R == OpToRel(<, Nat)
           T == {n - c : c \in S}
<1>1. IsWellFoundedOn(R, Nat)
  BY NatLessThanWellFounded
<1>2. T \subseteq Nat /\ T # {}
  <2>1. \A c \in S : c \in 1..n
    OBVIOUS
  <2>2. \A c \in S : n - c \in Nat
    BY <2>1
  <2>3. QED
    BY <2>2
<1>3. \A x, y \in Nat : x < y => <<x, y>> \in R
  BY DEF OpToRel
<1> HIDE DEF R
<1>4. \E x \in T : \A y \in T : ~(<<y, x>> \in R)
  BY <1>1, <1>2, WFMin
<1>5. PICK c \in S : \A e \in S : ~(n - e < n - c)
  BY <1>2, <1>3, <1>4
<1>6. \A e \in S : e <= c
  BY <1>5
<1>7. QED
  BY <1>6

\* The latest of some commands is one of them.
LEMMA LatestIsOne ==
  ASSUME CommandsOK, NEW S \in SUBSET Ids
  PROVE  Latest(S) \in S \cup {0}
<1>1. Len(commands) \in Nat
  BY DEF CommandsOK
<1>2. CASE S = {}
  BY <1>2 DEF Latest
<1>3. CASE S # {}
  <2>1. \E c \in S : \A e \in S : e <= c
    BY <1>1, <1>3, LargestOf DEF Ids
  <2>2. QED
    BY <1>3, <2>1 DEF Latest
<1>4. QED
  BY <1>2, <1>3

LEMMA ReconcileKeepsInv ==
  ASSUME LifecycleInv, NEW d \in Devices, Reconcile(d)
  PROVE  LifecycleInv'
<1> DEFINE r == proc[d]
<1>1. r \in ProcShape /\ Knows(r) /\ d \in Procs /\ proc \in [Procs -> ProcShape]
  BY DEF LifecycleInv, ProcsOK, Procs
<1>2. r.step \in DeploymentSteps
  BY DEF Reconcile, ReconcileGet, ReconcileRead, ReconcileActivation, ReconcileTargets,
         ReconcileDevices, ReconcileMark, At, DeploymentSteps
<1>3. r.cmd \in Prepares /\ spent \in [failures : Nat, repeats : Nat, restarts : Nat]
  BY <1>1, <1>2 DEF Knows, LifecycleInv, RestOK
<1>4. CASE ReconcileGet(d)
  BY <1>1, <1>3, <1>4, GettingKeepsInv DEF ReconcileGet, exam, devices
<1>5. CASE ReconcileMark(d)
  BY <1>1, <1>5, MarksKeepInv
<1>6. ASSUME NEW s \in {"reconcileActivation", "reconcileMark"}
      PROVE  [r EXCEPT !.step = s] \in ProcShape /\ Knows([r EXCEPT !.step = s])
  BY <1>1, <1>3, <1>6, WalkKnows DEF Steps
<1>7. CASE ReconcileRead(d) \/ ReconcileDevices(d)
  <2>1. UNCHANGED <<status, version, commands, lapsed, reported, app, spent>>
    BY <1>7 DEF ReconcileRead, ReconcileDevices, exam, devices
  <2>2. \/ proc' = [proc EXCEPT ![d] = Idle]
        \/ proc' = [proc EXCEPT ![d] = [r EXCEPT !.step = "reconcileActivation"]]
        \/ proc' = [proc EXCEPT ![d] = [r EXCEPT !.step = "reconcileMark"]]
    BY <1>7 DEF ReconcileRead, ReconcileDevices, Done, Goto
  <2>3. QED
    BY <1>1, <1>3, <1>6, <2>1, <2>2, IdleKnows, ReadingKeepsInv
<1>8. CASE ReconcileActivation(d)
  <2> DEFINE c == latestActivationForDeployment(r.cmd)
             q == [r EXCEPT !.step = "reconcileTargets", !.fixing = c]
  <2>1. /\ UNCHANGED <<status, version, commands, lapsed, reported, app, spent>>
        /\ \/ proc' = [proc EXCEPT ![d] = Idle]
           \/ proc' = [proc EXCEPT ![d].step = "reconcileTargets", ![d].fixing = c]
    BY <1>8 DEF ReconcileActivation, Done, exam, devices
  <2>2. c \in Nat
    <3>1. c \in Ids \cup {0}
      BY LatestIsOne DEF latestActivationForDeployment, LifecycleInv
    <3>2. QED
      BY <3>1 DEF Ids
  <2> HIDE DEF c
  <2>3. proc' = [proc EXCEPT ![d] = Idle] \/ proc' = [proc EXCEPT ![d] = q]
    BY <1>1, <2>1
  <2>4. q \in ProcShape
    BY <1>1, <2>2 DEF ProcShape, Steps
  <2>5. Knows(q)
    BY <1>1, <1>3 DEF Knows, ProcShape, DeploymentSteps
  <2> HIDE DEF q
  <2>6. QED
    BY <1>1, <1>3, <2>1, <2>3, <2>4, <2>5, IdleKnows, ReadingKeepsInv
<1>9. CASE ReconcileTargets(d)
  <2> DEFINE devs == Succeeded(r.fixing)
             q == [r EXCEPT !.step = "reconcileDevices", !.devs = devs]
  <2>1. /\ UNCHANGED <<status, version, commands, lapsed, reported, app, spent>>
        /\ \/ proc' = [proc EXCEPT ![d] = Idle]
           \/ proc' = [proc EXCEPT ![d].step = "reconcileDevices", ![d].devs = devs]
    BY <1>9 DEF ReconcileTargets, Done, exam, devices
  <2>2. devs \in SUBSET Devices
    BY DEF Succeeded
  <2> HIDE DEF devs
  <2>3. proc' = [proc EXCEPT ![d] = Idle] \/ proc' = [proc EXCEPT ![d] = q]
    BY <1>1, <2>1
  <2>4. q \in ProcShape
    BY <1>1, <2>2 DEF ProcShape, Steps
  <2>5. Knows(q)
    BY <1>1, <1>3 DEF Knows, ProcShape, DeploymentSteps
  <2> HIDE DEF q
  <2>6. QED
    BY <1>1, <1>3, <2>1, <2>3, <2>4, <2>5, IdleKnows, ReadingKeepsInv
<1>10. QED
  BY <1>4, <1>5, <1>7, <1>8, <1>9 DEF Reconcile

LEMMA StartKeepsInv ==
  ASSUME LifecycleInv, NEW p \in Admins, NEW c \in Ids,
         Read(p, c) \/ ActivateStart(p, c) \/ StopStart(p, c)
  PROVE  LifecycleInv'
<1>1. /\ c \in Prepares /\ p \in Procs
      /\ UNCHANGED <<status, version, lapsed, spent, reported, app>>
  BY DEF Read, ActivateStart, StopStart, exam, devices, Procs
<1>2. Get(p, c, "idle") \/ Get(p, c, "activateRead") \/ Get(p, c, "stopIssue")
  BY DEF Read, ActivateStart, StopStart
<1>3. QED
  BY <1>1, <1>2, GettingKeepsInv

-----------------------------------------------------------------------------

LEMMA InitEstablishesInv == Init => LifecycleInv
<1> SUFFICES ASSUME Init PROVE LifecycleInv
  OBVIOUS
<1>1. Ids = {} /\ Prepares = {}
  BY DEF Init, Ids, Prepares
<1>2. CommandsOK
  BY <1>1 DEF Init, CommandsOK
<1>3. ProcsOK
  BY IdleKnows DEF Init, ProcsOK
<1>4. NoPlayer \in PlayerState
  BY DEF NoPlayer, PlayerState
<1>5. Started \in AppShape
  <2>1. {} \in SUBSET Nat /\ {} \in SUBSET ResultShape
    OBVIOUS
  <2>2. QED
    BY <1>4, <2>1 DEF Started, AppShape
<1>6. \A d \in Devices : Plays(d, Started)
  BY DEF Started, Plays, NoPlayer
<1>7. AppsOK
  BY <1>5, <1>6 DEF Init, AppsOK
<1>8. StatusOK
  BY DEF Init, StatusOK, ExamStatus
<1>9. RestOK
  BY <1>4 DEF Init, RestOK
<1>10. QED
  BY <1>2, <1>3, <1>7, <1>8, <1>9 DEF LifecycleInv

LEMMA StutterKeepsInv ==
  ASSUME LifecycleInv, UNCHANGED vars
  PROVE  LifecycleInv'
<1>1. UNCHANGED <<status, version, commands, lapsed, reported, app, proc, spent>>
  BY DEF vars
<1>2. CommandsOK' /\ Grows
  BY <1>1, NoGrowth DEF LifecycleInv, CommandsOK, Ids, Prepares, Kind, Targets, Succeeded
<1>3. ProcsOK' /\ AppsOK' /\ RestOK'
  BY <1>1, <1>2, ProcsStay, AppsStay DEF LifecycleInv, RestOK
<1>4. QED
  BY <1>1, <1>2, <1>3, GrowthKeepsInv

LEMMA HandlerKeepsInv ==
  ASSUME LifecycleInv, NEW p \in Procs, Handler(p)
  PROVE  LifecycleInv'
<1>1. CASE Finalize(p)
  BY <1>1, FinalizeKeepsInv
<1>2. CASE Request(p)
  BY <1>2, MarksKeepInv, PrepareIssueKeepsInv, RefusalKeepsInv, ActivateReadsKeepInv,
     DeploymentIssueKeepsInv DEF Request
<1>3. CASE p \in Devices /\ (RecordState(p) \/ Reconcile(p))
  BY <1>3, SayingKeepsInv, ReconcileKeepsInv
<1>4. QED
  BY <1>1, <1>2, <1>3 DEF Handler

LEMMA NextKeepsInv ==
  ASSUME LifecycleInv, Next
  PROVE  LifecycleInv'
<1>1. CASE \E p \in Procs : Handler(p)
  BY <1>1, HandlerKeepsInv
<1>2. CASE \E p \in Admins : PrepareRead(p)
  BY <1>2, PrepareReadKeepsInv DEF Procs
<1>3. CASE \E p \in Admins, c \in Ids : Read(p, c) \/ ActivateStart(p, c) \/ StopStart(p, c)
  BY <1>3, StartKeepsInv
<1>4. CASE createVersion \/ updateTargets \/ remove
  BY <1>4, ConfigKeepsInv
<1>5. CASE \E c \in Ids : Lapse(c)
  BY <1>5, LapseKeepsInv
<1>6. CASE \E d \in Devices, c \in Ids :
             \/ BeginCommand(d, c)
             \/ \E st \in {"succeeded", "failed"} : AnswerCommand(d, c, st)
             \/ CapabilityRejected(d, c)
  BY <1>6, BeginKeepsInv, AnswerKeepsInv, RejectionKeepsInv
<1>7. CASE \E d \in Devices : RepeatResult(d) \/ PlayerExits(d) \/ Restart(d) \/ Heartbeat(d)
  BY <1>7, RepeatKeepsInv, ExitKeepsInv, SayingKeepsInv
<1>8. QED
  BY <1>1, <1>2, <1>3, <1>4, <1>5, <1>6, <1>7 DEF Next

LEMMA InvAlways == Spec => []LifecycleInv
<1>1. LifecycleInv /\ [Next]_vars => LifecycleInv'
  BY NextKeepsInv, StutterKeepsInv
<1>2. QED
  BY <1>1, InitEstablishesInv, PTL DEF Spec

LEMMA InvIsTyped ==
  ASSUME LifecycleInv
  PROVE  TypeOK
<1>1. status \in ExamStatus /\ version \in 1..MaxVersions \cup {1}
  BY DEF LifecycleInv, StatusOK
<1>2. commands \in Seq(CommandShape) /\ lapsed \subseteq Ids
  BY DEF LifecycleInv, CommandsOK
<1>3. Prepares \subseteq Ids /\ Nexts \subseteq Steps
  BY DEF Prepares, Nexts, Steps
<1>4. ASSUME NEW d \in Devices
      PROVE  app[d] \in [session : Nat, prepared : SUBSET Prepares, player : PlayerState,
                         running : SUBSET Ids,
                         unaccepted : SUBSET [cmd : Ids, st : {"succeeded", "failed"},
                                              state : PlayerState]]
  <2>1. app[d] \in AppShape /\ Plays(d, app[d])
    BY DEF LifecycleInv, AppsOK
  <2>2. \A k \in app[d].unaccepted : k \in ResultShape /\ k.cmd \in Ids
    BY <2>1 DEF AppShape, Plays
  <2>3. app[d].unaccepted \subseteq [cmd : Ids, st : {"succeeded", "failed"}, state : PlayerState]
    BY <2>2 DEF ResultShape
  <2>4. QED
    BY <2>1, <2>3 DEF AppShape, Plays
<1>5. app \in [Devices -> [session : Nat, prepared : SUBSET Prepares, player : PlayerState,
                           running : SUBSET Ids,
                           unaccepted : SUBSET [cmd : Ids, st : {"succeeded", "failed"},
                                                state : PlayerState]]]
  BY <1>4 DEF LifecycleInv, AppsOK
<1>6. ASSUME NEW p \in Procs
      PROVE  proc[p] \in [step : Steps, next : Steps, fin : SUBSET Ids, fixing : Nat, cmd : Nat,
                          of : Nat, seen : ExamStatus, devs : SUBSET Devices, state : PlayerState]
  <2>1. proc[p] \in ProcShape /\ proc[p].fin \subseteq Prepares
    BY DEF LifecycleInv, ProcsOK, Knows
  <2>2. QED
    BY <1>3, <2>1 DEF ProcShape
<1>7. proc \in [Procs -> [step : Steps, next : Steps, fin : SUBSET Ids, fixing : Nat,
                          cmd : Nat, of : Nat, seen : ExamStatus, devs : SUBSET Devices,
                          state : PlayerState]]
  BY <1>6 DEF LifecycleInv, ProcsOK
<1>8. reported \in [Devices -> PlayerState]
      /\ spent \in [failures : Nat, repeats : Nat, restarts : Nat]
  BY DEF LifecycleInv, RestOK
<1>9. QED
  BY <1>1, <1>2, <1>5, <1>7, <1>8 DEF TypeOK, CommandShape

\* Every variable keeps its type, whatever the bounds: a process and an app only
\* refer to commands that were issued, though rows, answers and reports overtake
\* each other.
THEOREM TypesAreKept == Spec => []TypeOK
<1>1. LifecycleInv => TypeOK
  BY InvIsTyped
<1>2. QED
  BY <1>1, InvAlways, PTL

\* An exam is ready, and can become active, only when a device has prepared some
\* deployment of it, whatever the handlers read before another one writes: the
\* status a refused prepare request puts back was true of the exam when it was
\* read, and a device that has prepared a deployment has prepared it for good.
THEOREM ReadyOnlyIfPrepared == Spec => []ReadyIsPrepared
<1>1. LifecycleInv => ReadyIsPrepared
  BY DEF LifecycleInv, StatusOK, SomePrepared, ReadyIsPrepared
<1>2. QED
  BY <1>1, InvAlways, PTL

\* A device is told to play, and plays, only a deployment that it has prepared:
\* the devices an activation is sent to were read from rows that have succeeded,
\* and a session is only opened by a command that the device is a target of.
THEOREM NothingElseIsPlayed == Spec => []PlaysOnlyPrepared
<1>1. LifecycleInv => PlaysOnlyPrepared
  BY DEF LifecycleInv, CommandsOK, AppsOK, Plays, PlaysOnlyPrepared
<1>2. QED
  BY <1>1, InvAlways, PTL
-----------------------------------------------------------------------------
(* One handler at a time: a ready exam was prepared since its latest version. *)

Current(c) == c \in Prepares /\ commands[c].asOf = version

\* The latest deployment, or one that a device has prepared, was asked for when the
\* exam had its current version.
LatestCurrent == Current(latestPrepareForExam)
CurrentPrepared == \E c \in Ids : Current(c) /\ Succeeded(c) # {}

\* The exam may have status s, as far as its current version is concerned.
Fits(s) ==
  /\ s = "preparing" => LatestCurrent
  /\ s \in {"ready", "active"} => CurrentPrepared

\* Between these steps a request has made the exam "preparing" without a command.
Unissued == {"prepareIssue", "prepareRestore"}

\* The handler r that is under way goes by the current version of the exam.
UpToDate(r) ==
  /\ r.step \in {"prepareMark", "prepareIssue"} => r.cmd = version
  /\ r.step \in {"prepareMark", "prepareIssue", "prepareRestore"} => Fits(r.seen)
  /\ r.step = "finalizeStatus" => r.fixing = latestPrepareForExam
  /\ r.step \in {"finalizeTargets", "finalizeMark"} => Current(r.fixing)
  /\ r.step = "finalizeMark" => /\ r.seen \in {"draft", "ready"}
                                /\ r.seen = "ready" => Succeeded(r.fixing) # {}
  /\ r.step \in {"activateTargets", "activateIssue", "activateMark"} => CurrentPrepared

Others(p) == \A q \in Procs : q # p => proc[q].step = "idle"

StatusFits ==
  /\ status = "preparing" => LatestCurrent \/ \E p \in Procs : proc[p].step \in Unissued
  /\ status \in {"ready", "active"} => CurrentPrepared

SequentialInv ==
  /\ \A p \in Procs : proc[p].step # "idle" => Others(p)
  /\ \A p \in Procs : UpToDate(proc[p])
  /\ StatusFits

\* The step of a process, the others being idle, is about that process alone.
LEMMA TurnKeepsInv ==
  ASSUME NEW p \in Procs, Others(p)', UpToDate(proc[p])', StatusFits'
  PROVE  SequentialInv'
<1>1. ASSUME NEW q \in Procs PROVE UpToDate(proc[q])' /\ (proc'[q].step # "idle" => Others(q)')
  BY DEF UpToDate, Others
<1>2. QED
  BY <1>1 DEF SequentialInv

\* What is known of the current version stays known as commands grow.
LEMMA CurrentStays ==
  ASSUME LifecycleInv, CommandsOK', Grows, UNCHANGED version
  PROVE  /\ \A c : Current(c) => c \in Ids /\ Current(c)' /\ Succeeded(c) \subseteq Succeeded(c)'
         /\ CurrentPrepared => CurrentPrepared'
<1>1. Ids \subseteq Ids' /\ Prepares \subseteq Prepares' /\ Prepares \subseteq Ids
      /\ \A c \in Ids : Succeeded(c) \subseteq Succeeded(c)'
  BY GrowthKeepsFacts DEF LifecycleInv, CommandsOK, Prepares
<1>2. \A c \in Ids : commands'[c].asOf = commands[c].asOf
  BY DEF Grows
<1>3. \A c : Current(c) => c \in Ids /\ Current(c)' /\ Succeeded(c) \subseteq Succeeded(c)'
  BY <1>1, <1>2 DEF Current
<1>4. QED
  BY <1>1, <1>3 DEF CurrentPrepared

\* As long as no deployment is added, the latest one remains the latest one.
LEMMA LatestStays ==
  ASSUME LifecycleInv, CommandsOK', Grows, UNCHANGED version, Prepares' = Prepares
  PROVE  /\ latestPrepareForExam' = latestPrepareForExam
         /\ \A s : Fits(s) => Fits(s)'
<1>1. latestPrepareForExam' = latestPrepareForExam
  BY DEF latestPrepareForExam, Latest
<1>2. QED
  BY <1>1, CurrentStays DEF Fits, LatestCurrent, Current

LEMMA SameIds ==
  ASSUME CommandsOK, Grows, Len(commands') = Len(commands)
  PROVE  Prepares' = Prepares
BY DEF Grows, Prepares, Ids, Kind

\* A process goes on to a step that needs nothing of the current version.
LEMMA PlainKeepsInv ==
  ASSUME LifecycleInv, SequentialInv, CommandsOK', Grows, UNCHANGED <<status, version>>,
         Prepares' = Prepares, NEW p \in Procs, Others(p), NEW r \in ProcShape,
         proc' = [proc EXCEPT ![p] = r], proc[p].step \notin Unissued,
         r.step \notin {"prepareMark", "prepareIssue", "prepareRestore", "finalizeStatus",
                        "finalizeTargets", "finalizeMark",
                        "activateTargets", "activateIssue", "activateMark"}
  PROVE  SequentialInv'
<1>1. proc \in [Procs -> ProcShape]
  BY DEF LifecycleInv, ProcsOK
<1>2. proc'[p] = r /\ \A q \in Procs : q # p => proc'[q] = proc[q]
  BY <1>1
<1>3. Others(p)' /\ UpToDate(proc[p])'
  BY <1>2 DEF Others, UpToDate
<1>4. \A q \in Procs : proc[q].step \notin Unissued
  BY DEF Others, Unissued
<1>5. Fits(status)
  BY <1>4 DEF SequentialInv, StatusFits, Fits
<1>6. Fits(status)'
  BY <1>5, LatestStays DEF Fits
<1>7. StatusFits'
  BY <1>6 DEF Fits, StatusFits
<1>8. QED
  BY <1>3, <1>7, TurnKeepsInv

\* Nothing the current version depends on changes.
LEMMA StillKeepsInv ==
  ASSUME SequentialInv, UNCHANGED <<status, version, commands, proc>>
  PROVE  SequentialInv'
<1>1. Ids' = Ids /\ Prepares' = Prepares
  BY DEF Ids, Prepares, Kind
<1>2. latestPrepareForExam' = latestPrepareForExam
  BY <1>1 DEF latestPrepareForExam, Latest
<1>3. \A c : (Current(c)' <=> Current(c)) /\ Succeeded(c)' = Succeeded(c)
  BY <1>1 DEF Current, Succeeded
<1>4. (LatestCurrent' <=> LatestCurrent) /\ (CurrentPrepared' <=> CurrentPrepared)
  BY <1>1, <1>2, <1>3 DEF LatestCurrent, CurrentPrepared, Current
<1>5. \A s : Fits(s) <=> Fits(s)'
  BY <1>4 DEF Fits
<1>6. \A p \in Procs : UpToDate(proc[p]) => UpToDate(proc[p])'
  BY <1>2, <1>3, <1>4, <1>5 DEF UpToDate
<1>7. \A p \in Procs : Others(p) => Others(p)'
  BY DEF Others
<1>8. StatusFits => StatusFits'
  BY <1>4 DEF StatusFits
<1>9. QED
  BY <1>6, <1>7, <1>8 DEF SequentialInv

\* A step of the apps or of the clock.
LEMMA AppsKeepSequentialInv ==
  ASSUME SequentialInv,
         \/ \E c \in Ids : Lapse(c)
         \/ \E d \in Devices, c \in Ids : BeginCommand(d, c)
         \/ \E d \in Devices : PlayerExits(d) \/ Restart(d)
  PROVE  SequentialInv'
<1>1. UNCHANGED <<status, version, commands, proc>>
  BY DEF Lapse, BeginCommand, PlayerExits, Restart, exam
<1>2. QED
  BY <1>1, StillKeepsInv

\* A handler starts only when no other is under way.
LEMMA StartsAlone ==
  ASSUME OneAtATime, Quiet, NEW p \in Procs
  PROVE  Others(p) /\ proc[p].step = "idle" /\ \A q \in Procs : proc[q].step \notin Unissued
BY DEF Quiet, Others, Unissued

\* A transaction on the exam: no handler is under way, and a new version makes it
\* a draft.
LEMMA ConfigKeepsSequentialInv ==
  ASSUME OneAtATime, LifecycleInv, SequentialInv, createVersion \/ updateTargets \/ remove
  PROVE  SequentialInv'
<1>1. Quiet /\ UNCHANGED <<commands, proc>>
  BY DEF createVersion, updateTargets, remove
<1>2. \A q \in Procs : proc'[q].step = "idle"
  BY <1>1 DEF Quiet
<1>3. \A q \in Procs : UpToDate(proc[q])' /\ (proc'[q].step # "idle" => Others(q)')
  BY <1>2 DEF UpToDate
<1>4. status' \in {"draft", "archived"}
  BY DEF createVersion, updateTargets, remove, SetStatus, NewVersionStatus
<1>5. StatusFits'
  BY <1>4 DEF StatusFits
<1>6. QED
  BY <1>3, <1>5 DEF SequentialInv

\* The steps by which a handler begins.
LEMMA StartsKeepSequentialInv ==
  ASSUME OneAtATime, LifecycleInv, LifecycleInv', SequentialInv, NEW p \in Procs,
         \/ PrepareRead(p)
         \/ \E c \in Ids : Read(p, c) \/ ActivateStart(p, c) \/ StopStart(p, c)
         \/ p \in Devices /\ Heartbeat(p)
  PROVE  SequentialInv'
<1>1. /\ Others(p) /\ proc[p].step = "idle" /\ \A q \in Procs : proc[q].step \notin Unissued
      /\ UNCHANGED <<status, version>>
  BY StartsAlone DEF PrepareRead, Read, ActivateStart, StopStart, Heartbeat, MayStart, exam
<1>2. proc \in [Procs -> ProcShape] /\ proc' \in [Procs -> ProcShape] /\ CommandsOK /\ CommandsOK'
  BY DEF LifecycleInv, ProcsOK
<1>3. CASE PrepareRead(p)
  <2>0. PICK of \in 1..version :
          proc' = [proc EXCEPT ![p] = [Idle EXCEPT !.step = "prepareMark", !.seen = status,
                                                   !.cmd = version, !.of = of]]
    BY <1>3 DEF PrepareRead
  <2> DEFINE r == [Idle EXCEPT !.step = "prepareMark", !.seen = status, !.cmd = version, !.of = of]
  <2>1. proc' = [proc EXCEPT ![p] = r] /\ UNCHANGED <<commands, lapsed>>
    BY <1>3, <2>0 DEF PrepareRead
  <2>2. r.step = "prepareMark" /\ r.seen = status /\ r.cmd = version
    BY DEF Idle
  <2> HIDE DEF r
  <2>3. proc'[p] = r /\ \A q \in Procs : q # p => proc'[q] = proc[q]
    BY <1>2, <2>1
  <2>4. Grows /\ Prepares' = Prepares
    BY <1>2, <2>1, NoGrowth, SameIds
  <2>5. Fits(status) /\ Fits(status)'
    BY <1>1, <1>2, <2>4, LatestStays DEF SequentialInv, StatusFits, Fits
  <2>6. UpToDate(proc[p])'
    BY <1>1, <2>2, <2>3, <2>5 DEF UpToDate
  <2>7. StatusFits'
    BY <1>1, <2>5 DEF StatusFits, Fits
  <2>8. Others(p)'
    BY <1>1, <2>3 DEF Others
  <2>9. QED
    BY <2>6, <2>7, <2>8, TurnKeepsInv
<1>4. CASE \E c \in Ids : Read(p, c) \/ ActivateStart(p, c) \/ StopStart(p, c)
  <2>1. PICK c \in Ids, next \in Nexts : Get(p, c, next) /\ UNCHANGED lapsed
    BY <1>4 DEF Read, ActivateStart, StopStart, Nexts
  <2> DEFINE r == [Idle EXCEPT !.step = "finalize", !.fin = JustExpired \cup {c},
                               !.cmd = c, !.next = next]
  <2>2. commands' = Swept /\ proc' = [proc EXCEPT ![p] = r]
    BY <2>1 DEF Get
  <2>3. Grows /\ Len(commands') = Len(commands)
    BY <1>2, <2>1, <2>2, SweptGrows
  <2>4. Prepares' = Prepares
    BY <1>2, <2>3, SameIds
  <2>5. r.step = "finalize"
    BY DEF Idle
  <2>6. r \in ProcShape
    BY <1>2, <2>2
  <2> HIDE DEF r
  <2>7. QED
    BY <1>1, <1>2, <2>2, <2>3, <2>4, <2>5, <2>6, PlainKeepsInv
<1>5. CASE p \in Devices /\ Heartbeat(p)
  <2> DEFINE r == [Idle EXCEPT !.step = "reconcileGet", !.cmd = app[p].player.dep]
  <2>1. UNCHANGED commands /\ (proc' = [proc EXCEPT ![p] = r] \/ proc' = proc)
    BY <1>5 DEF Heartbeat
  <2>2. Grows /\ Prepares' = Prepares
    BY <1>2, <2>1, NoGrowth, SameIds
  <2>3. CASE proc' = proc
    BY <1>1, <2>1, <2>3, StillKeepsInv
  <2>4. CASE proc' = [proc EXCEPT ![p] = r]
    <3>1. r \in ProcShape /\ r.step = "reconcileGet"
      BY <1>2, <2>4 DEF Idle
    <3> HIDE DEF r
    <3>2. QED
      BY <1>1, <1>2, <2>2, <2>4, <3>1, PlainKeepsInv
  <2>5. QED
    BY <2>1, <2>3, <2>4
<1>6. QED
  BY <1>3, <1>4, <1>5

\* A device answers, repeats an answer or is found unable to.
LEMMA AnswersKeepSequentialInv ==
  ASSUME OneAtATime, LifecycleInv, LifecycleInv', SequentialInv, NEW d \in Devices,
         \/ \E c \in Ids, st \in {"succeeded", "failed"} : AnswerCommand(d, c, st)
         \/ RepeatResult(d)
         \/ \E c \in Ids : CapabilityRejected(d, c)
  PROVE  SequentialInv'
<1>1. /\ d \in Procs /\ MayStart(d) /\ UNCHANGED <<status, version, lapsed>>
  BY DEF AnswerCommand, RepeatResult, CapabilityRejected, exam, Procs
<1>2. /\ Others(d) /\ proc[d].step = "idle" /\ proc[d].step \notin Unissued
      /\ proc \in [Procs -> ProcShape] /\ proc' \in [Procs -> ProcShape]
      /\ CommandsOK /\ CommandsOK'
  BY <1>1, StartsAlone DEF MayStart, LifecycleInv, ProcsOK
<1>3. /\ \/ UNCHANGED commands
         \/ \E c \in Ids, st \in {"succeeded", "failed", "expired"} :
              commands[c].row[d] = "open" /\ commands' = [commands EXCEPT ![c].row[d] = st]
      /\ \/ proc' = proc
         \/ \E r \in ProcShape : r.step = "finalize" /\ proc' = [proc EXCEPT ![d] = r]
  <2>1. ASSUME NEW c, NEW st, NEW state, c \in Ids, st \in {"succeeded", "failed"},
               RecordResult(d, c, st, state)
        PROVE  <1>3
    <3> DEFINE go == [Idle EXCEPT !.step = "finalize", !.fin = {c} \cap Prepares, !.state = state]
               on == [go EXCEPT !.next = "recordState"]
               now == IF c \in lapsed THEN "expired" ELSE st
    <3>1. \/ UNCHANGED commands
          \/ commands[c].row[d] = "open" /\ commands' = [commands EXCEPT ![c].row[d] = now]
      BY <2>1 DEF RecordResult, Open
    <3>2. now \in {"succeeded", "failed", "expired"}
      BY <2>1
    <3> HIDE DEF now
    <3>3. \/ proc' = proc
          \/ proc' = [proc EXCEPT ![d] = go] \/ proc' = [proc EXCEPT ![d] = on]
      BY <1>2, <2>1 DEF RecordResult
    <3>4. go.step = "finalize" /\ on.step = "finalize"
      BY DEF Idle
    <3> HIDE DEF go, on
    <3>5. \/ proc' = proc
          \/ \E r \in ProcShape : r.step = "finalize" /\ proc' = [proc EXCEPT ![d] = r]
      BY <1>1, <1>2, <3>3, <3>4
    <3>6. QED
      BY <2>1, <3>1, <3>2, <3>5
  <2>2. CASE \E c \in Ids, st \in {"succeeded", "failed"} : AnswerCommand(d, c, st)
    BY <2>1, <2>2 DEF AnswerCommand
  <2>3. CASE RepeatResult(d)
    <3>1. PICK k \in app[d].unaccepted : RecordResult(d, k.cmd, k.st, k.state)
      BY <2>3 DEF RepeatResult
    <3>2. k.cmd \in Ids /\ k.st \in {"succeeded", "failed"}
      BY DEF LifecycleInv, AppsOK, Plays, AppShape, ResultShape
    <3>3. QED
      BY <2>1, <3>1, <3>2
  <2>4. CASE \E c \in Ids : CapabilityRejected(d, c)
    <3>1. PICK c \in Ids : CapabilityRejected(d, c)
      BY <2>4
    <3> DEFINE r == [Idle EXCEPT !.step = "finalize", !.fin = {c} \cap Prepares]
    <3>2. /\ proc' = [proc EXCEPT ![d] = r] /\ r.step = "finalize"
          /\ commands[c].row[d] = "open" /\ commands' = [commands EXCEPT ![c].row[d] = "failed"]
      BY <3>1 DEF CapabilityRejected, Open, Idle
    <3> HIDE DEF r
    <3>3. r \in ProcShape
      BY <1>1, <1>2, <3>2
    <3>4. QED
      BY <3>2, <3>3
  <2>5. QED
    BY <2>2, <2>3, <2>4
<1>4. Grows /\ Len(commands') = Len(commands)
  <2>1. CASE UNCHANGED commands
    BY <1>2, <2>1, NoGrowth
  <2>2. CASE ~UNCHANGED commands
    <3>1. PICK c \in Ids, st \in {"succeeded", "failed", "expired"} :
            commands[c].row[d] = "open" /\ commands' = [commands EXCEPT ![c].row[d] = st]
      BY <1>3, <2>2
    <3>2. Grows
      BY <1>1, <1>2, <3>1, ClosedRowGrows
    <3>3. Len(commands') = Len(commands)
      BY <1>2, <3>1 DEF CommandsOK, Ids
    <3>4. QED
      BY <3>2, <3>3
  <2>3. QED
    BY <2>1, <2>2
<1>5. Prepares' = Prepares
  BY <1>2, <1>4, SameIds
<1>6. CASE proc' = proc
  <2>1. proc' = [proc EXCEPT ![d] = proc[d]] /\ proc[d] \in ProcShape
    BY <1>1, <1>2, <1>6
  <2>2. QED
    BY <1>1, <1>2, <1>4, <1>5, <2>1, PlainKeepsInv
<1>7. CASE proc' # proc
  <2>1. PICK r \in ProcShape : r.step = "finalize" /\ proc' = [proc EXCEPT ![d] = r]
    BY <1>3, <1>7
  <2>2. QED
    BY <1>1, <1>2, <1>4, <1>5, <2>1, PlainKeepsInv
<1>8. QED
  BY <1>6, <1>7

-----------------------------------------------------------------------------
(* A handler that is under way goes on, alone.                               *)

\* What the step of p knows: the others are idle, and p knows the version.
LEMMA Underway ==
  ASSUME LifecycleInv, LifecycleInv', SequentialInv, NEW p \in Procs, proc[p].step # "idle"
  PROVE  /\ Others(p) /\ UpToDate(proc[p]) /\ proc[p] \in ProcShape /\ Knows(proc[p])
         /\ proc \in [Procs -> ProcShape] /\ proc' \in [Procs -> ProcShape]
         /\ CommandsOK /\ CommandsOK'
         /\ status = "preparing" /\ proc[p].step \notin Unissued => LatestCurrent
         /\ status \in {"ready", "active"} => CurrentPrepared
BY DEF LifecycleInv, ProcsOK, SequentialInv, StatusFits, Others, Unissued

\* A step that reads: neither the commands nor the status change.
LEMMA ReadingKeepsSequentialInv ==
  ASSUME LifecycleInv, LifecycleInv', SequentialInv, NEW p \in Procs, proc[p].step # "idle",
         NEW r, proc' = [proc EXCEPT ![p] = r],
         UNCHANGED <<status, version, commands>>, UpToDate(r),
         proc[p].step \in Unissued => r.step \in Unissued
  PROVE  SequentialInv'
<1>1. Others(p) /\ proc \in [Procs -> ProcShape] /\ CommandsOK /\ CommandsOK'
  BY Underway
<1>2. proc'[p] = r /\ \A q \in Procs : q # p => proc'[q] = proc[q]
  BY <1>1
<1>3. Grows /\ Prepares' = Prepares
  BY <1>1, NoGrowth, SameIds
<1>4. /\ latestPrepareForExam' = latestPrepareForExam /\ \A s : Fits(s) => Fits(s)'
      /\ \A c : Current(c) => Current(c)'
      /\ CurrentPrepared => CurrentPrepared'
  BY <1>1, <1>3, LatestStays, CurrentStays
<1>5. \A c : Succeeded(c)' = Succeeded(c)
  BY DEF Succeeded
<1>6. UpToDate(proc[p])'
  BY <1>2, <1>4, <1>5 DEF UpToDate
<1>7. LatestCurrent => LatestCurrent'
  BY <1>4 DEF LatestCurrent
<1>8. (\E q \in Procs : proc[q].step \in Unissued) => \E q \in Procs : proc'[q].step \in Unissued
  BY <1>1, <1>2 DEF Others, Unissued
<1>9. StatusFits'
  BY <1>4, <1>7, <1>8 DEF SequentialInv, StatusFits
<1>10. Others(p)'
  BY <1>1, <1>2 DEF Others
<1>11. QED
  BY <1>6, <1>9, <1>10, TurnKeepsInv

\* A step that writes a status that fits, and ends what the handler was about.
LEMMA MarkingKeepsSequentialInv ==
  ASSUME LifecycleInv, LifecycleInv', SequentialInv, NEW p \in Procs, proc[p].step # "idle",
         NEW r, proc' = [proc EXCEPT ![p] = r], r.step \in {"idle", "finalize"},
         NEW s, SetStatus(s), Fits(s), UNCHANGED <<version, commands>>
  PROVE  SequentialInv'
<1>1. Others(p) /\ proc \in [Procs -> ProcShape] /\ CommandsOK /\ CommandsOK'
  BY Underway
<1>2. proc'[p] = r /\ \A q \in Procs : q # p => proc'[q] = proc[q]
  BY <1>1
<1>3. Grows /\ Prepares' = Prepares
  BY <1>1, NoGrowth, SameIds
<1>4. Fits(s)'
  BY <1>3, <1>1, LatestStays
<1>5. status' = s \/ status' = "archived"
  BY DEF SetStatus
<1>6. StatusFits'
  BY <1>4, <1>5 DEF StatusFits, Fits
<1>7. Others(p)' /\ UpToDate(proc[p])'
  BY <1>1, <1>2 DEF Others, UpToDate
<1>8. QED
  BY <1>6, <1>7, TurnKeepsInv

LEMMA IdleIsUpToDate == Idle.step = "idle" /\ UpToDate(Idle)
BY DEF Idle, UpToDate

LEMMA FinalizeKeepsSequentialInv ==
  ASSUME LifecycleInv, LifecycleInv', SequentialInv, NEW p \in Procs, Finalize(p)
  PROVE  SequentialInv'
<1> DEFINE r == proc[p]
<1>1. r.step \in {"finalize", "finalizeStatus", "finalizeTargets", "finalizeMark"}
  BY DEF Finalize, FinalizeLatest, FinalizeStatus, FinalizeTargets, FinalizeMark, FinalizeEnd, At
<1>2. /\ r \in ProcShape /\ Knows(r) /\ UpToDate(r) /\ r.step # "idle" /\ r.step \notin Unissued
      /\ status = "preparing" => LatestCurrent
  BY <1>1, Underway DEF Unissued
<1>3. Finalized(p).step = "finalize" /\ UpToDate(Finalized(p))
  BY <1>2 DEF Finalized, ProcShape, UpToDate
<1>4. CASE FinalizeLatest(p)
  <2>1. PICK c \in r.fin :
          proc' = [proc EXCEPT ![p] =
                     IF latestPrepareForExam = c
                     THEN [r EXCEPT !.fin = r.fin \ {c}, !.fixing = c, !.step = "finalizeStatus"]
                     ELSE [r EXCEPT !.fin = r.fin \ {c}]]
    BY <1>4 DEF FinalizeLatest
  <2> DEFINE q == IF latestPrepareForExam = c
                  THEN [r EXCEPT !.fin = r.fin \ {c}, !.fixing = c, !.step = "finalizeStatus"]
                  ELSE [r EXCEPT !.fin = r.fin \ {c}]
  <2>2. r.step = "finalize" /\ UNCHANGED <<status, version, commands>>
    BY <1>4 DEF FinalizeLatest, At, exam
  <2>3. UpToDate(q)
    BY <1>2, <2>2 DEF UpToDate, ProcShape
  <2> HIDE DEF q
  <2>4. proc' = [proc EXCEPT ![p] = q]
    BY <2>1 DEF q
  <2>5. QED
    BY <1>2, <2>2, <2>3, <2>4, ReadingKeepsSequentialInv
<1>5. CASE FinalizeStatus(p)
  <2> DEFINE q == [r EXCEPT !.step = "finalizeTargets"]
  <2>1. r.step = "finalizeStatus" /\ UNCHANGED <<status, version, commands>>
    BY <1>5 DEF FinalizeStatus, At, exam
  <2>2. CASE status = "preparing"
    <3>1. Current(r.fixing)
      BY <1>2, <2>1, <2>2 DEF UpToDate, LatestCurrent
    <3>2. UpToDate(q)
      BY <1>2, <3>1 DEF UpToDate, ProcShape
    <3>3. proc' = [proc EXCEPT ![p] = q]
      BY <1>5, <2>2 DEF FinalizeStatus
    <3> HIDE DEF q
    <3>4. QED
      BY <1>2, <2>1, <3>2, <3>3, ReadingKeepsSequentialInv
  <2>3. CASE status # "preparing"
    <3>1. proc' = [proc EXCEPT ![p] = Finalized(p)]
      BY <1>5, <2>3 DEF FinalizeStatus
    <3>2. QED
      BY <1>2, <1>3, <2>1, <3>1, ReadingKeepsSequentialInv
  <2>4. QED
    BY <2>2, <2>3
<1>6. CASE FinalizeTargets(p)
  <2> DEFINE c == r.fixing
             q == [r EXCEPT !.step = "finalizeMark", !.seen = PreparedStatus(c)]
  <2>1. r.step = "finalizeTargets" /\ UNCHANGED <<status, version, commands>>
    BY <1>6 DEF FinalizeTargets, At, exam
  <2>2. CASE \E d \in Devices : commands[c].row[d] = "open"
    <3>1. proc' = [proc EXCEPT ![p] = Finalized(p)]
      BY <1>6, <2>2 DEF FinalizeTargets
    <3>2. QED
      BY <1>2, <1>3, <2>1, <3>1, ReadingKeepsSequentialInv
  <2>3. CASE ~\E d \in Devices : commands[c].row[d] = "open"
    <3>1. proc' = [proc EXCEPT ![p] = q]
      BY <1>6, <2>3 DEF FinalizeTargets
    <3>2. Current(c) /\ PreparedStatus(c) \in {"draft", "ready"}
          /\ (PreparedStatus(c) = "ready" => Succeeded(c) # {})
      BY <1>2, <2>1 DEF UpToDate, PreparedStatus
    <3>3. q.step = "finalizeMark" /\ q.seen = PreparedStatus(c) /\ q.fixing = c
      BY <1>2 DEF ProcShape
    <3> HIDE DEF q
    <3>4. UpToDate(q)
      BY <3>2, <3>3 DEF UpToDate
    <3>5. QED
      BY <1>2, <2>1, <3>1, <3>4, ReadingKeepsSequentialInv
  <2>4. QED
    BY <2>2, <2>3
<1>7. CASE FinalizeMark(p)
  <2>1. /\ r.step = "finalizeMark" /\ SetStatus(r.seen) /\ UNCHANGED <<version, commands>>
        /\ proc' = [proc EXCEPT ![p] = Finalized(p)]
    BY <1>7 DEF FinalizeMark, At
  <2>2. Current(r.fixing) /\ r.seen \in {"draft", "ready"}
        /\ (r.seen = "ready" => Succeeded(r.fixing) # {})
    BY <1>2, <2>1 DEF UpToDate
  <2>3. r.fixing \in Ids
    BY <2>2 DEF Current, Prepares
  <2>4. Fits(r.seen)
    BY <2>2, <2>3 DEF Fits, CurrentPrepared
  <2>5. QED
    BY <1>2, <1>3, <2>1, <2>4, MarkingKeepsSequentialInv
<1>8. CASE FinalizeEnd(p)
  <2> DEFINE q == [r EXCEPT !.step = r.next]
  <2>1. UNCHANGED <<status, version, commands>>
    BY <1>8 DEF FinalizeEnd, exam
  <2>2. proc' = [proc EXCEPT ![p] = Idle] \/ proc' = [proc EXCEPT ![p] = q]
    BY <1>8 DEF FinalizeEnd, Done, Goto
  <2>3. UpToDate(q)
    BY <1>2 DEF UpToDate, ProcShape, Nexts
  <2> HIDE DEF q
  <2>4. QED
    BY <1>2, <2>1, <2>2, <2>3, IdleIsUpToDate, ReadingKeepsSequentialInv
<1>9. QED
  BY <1>4, <1>5, <1>6, <1>7, <1>8 DEF Finalize

\* Requests that read, give up or write the status.
LEMMA RequestsKeepSequentialInv ==
  ASSUME LifecycleInv, LifecycleInv', SequentialInv, NEW p \in Procs,
         \/ PrepareMark(p) \/ PrepareRefused(p) \/ PrepareRestore(p)
         \/ ActivateRead(p) \/ ActivateTargets(p) \/ ActivateMark(p)
         \/ StopMark(p) \/ IssueRefused(p)
  PROVE  SequentialInv'
<1> DEFINE r == proc[p]
<1>1. /\ UNCHANGED <<version, commands>>
      /\ r.step \in {"prepareMark", "prepareIssue", "prepareRestore", "activateRead",
                     "activateTargets", "activateIssue", "activateMark", "stopIssue", "stopMark"}
  BY DEF PrepareMark, PrepareRefused, PrepareRestore, ActivateRead, ActivateTargets,
         ActivateMark, StopMark, IssueRefused, At, exam
<1>2. r.step # "idle"
  BY <1>1
<1>3. /\ Others(p) /\ r \in ProcShape /\ UpToDate(r)
      /\ proc \in [Procs -> ProcShape] /\ CommandsOK /\ CommandsOK'
      /\ status \in {"ready", "active"} => CurrentPrepared
  BY <1>2, Underway
<1>4. CASE PrepareMark(p)
  <2> DEFINE q == [r EXCEPT !.step = "prepareIssue"]
  <2>1. r.step = "prepareMark" /\ SetStatus("preparing") /\ proc' = [proc EXCEPT ![p] = q]
    BY <1>4 DEF PrepareMark, At, Goto
  <2>2. q.step = "prepareIssue" /\ q.cmd = r.cmd /\ q.seen = r.seen
    BY <1>3 DEF ProcShape
  <2> HIDE DEF q
  <2>3. proc'[p] = q /\ \A o \in Procs : o # p => proc'[o] = proc[o]
    BY <1>3, <2>1
  <2>4. Grows /\ Prepares' = Prepares
    BY <1>1, <1>3, NoGrowth, SameIds
  <2>5. PICK s : s = r.seen /\ r.cmd = version /\ Fits(s)
    BY <1>3, <2>1 DEF UpToDate
  <2>6. Fits(s)'
    BY <1>1, <1>3, <2>4, <2>5, LatestStays
  <2>7. UpToDate(proc[p])' /\ Others(p)'
    BY <1>1, <1>3, <2>2, <2>3, <2>5, <2>6 DEF UpToDate, Others
  <2>8. status' \in {"preparing", "archived"}
    BY <2>1 DEF SetStatus
  <2>9. StatusFits'
    BY <2>2, <2>3, <2>8 DEF StatusFits, Unissued
  <2>10. QED
    BY <2>7, <2>9, TurnKeepsInv
<1>5. CASE PrepareRefused(p)
  <2> DEFINE q == [r EXCEPT !.step = "prepareRestore"]
  <2>1. /\ r.step = "prepareIssue" /\ UNCHANGED status /\ proc' = [proc EXCEPT ![p] = q]
    BY <1>5 DEF PrepareRefused, At, Goto, exam
  <2>2. q.step = "prepareRestore" /\ q.seen = r.seen
    BY <1>3 DEF ProcShape
  <2> HIDE DEF q
  <2>3. UpToDate(q) /\ q.step \in Unissued
    BY <1>3, <2>1, <2>2 DEF UpToDate, Unissued
  <2>4. QED
    BY <1>1, <1>2, <2>1, <2>3, ReadingKeepsSequentialInv
<1>6. CASE PrepareRestore(p)
  <2>1. /\ r.step = "prepareRestore" /\ SetStatus(r.seen) /\ proc' = [proc EXCEPT ![p] = Idle]
    BY <1>6 DEF PrepareRestore, RestoredStatus, At, Done
  <2>2. Fits(r.seen)
    BY <1>3, <2>1 DEF UpToDate
  <2>3. QED
    BY <1>1, <1>2, <2>1, <2>2, IdleIsUpToDate, MarkingKeepsSequentialInv
<1>7. CASE ActivateRead(p)
  <2> DEFINE q == [r EXCEPT !.step = "activateTargets"]
  <2>1. /\ r.step = "activateRead" /\ UNCHANGED status
        /\ \/ status = "ready" /\ proc' = [proc EXCEPT ![p] = q]
           \/ proc' = [proc EXCEPT ![p] = Idle]
    BY <1>7 DEF ActivateRead, MayActivate, At, Goto, Done, exam
  <2>2. q.step = "activateTargets"
    BY <1>3 DEF ProcShape
  <2> HIDE DEF q
  <2>3. status = "ready" => UpToDate(q)
    BY <1>3, <2>2 DEF UpToDate
  <2>4. QED
    BY <1>1, <1>2, <2>1, <2>3, IdleIsUpToDate, ReadingKeepsSequentialInv DEF Unissued
<1>8. CASE ActivateTargets(p)
  <2> DEFINE devs == PreparedDevices(r.cmd)
             q == [r EXCEPT !.step = "activateIssue", !.devs = devs]
  <2>1. /\ r.step = "activateTargets" /\ UNCHANGED status
        /\ \/ proc' = [proc EXCEPT ![p].step = "activateIssue", ![p].devs = devs]
           \/ proc' = [proc EXCEPT ![p] = Idle]
    BY <1>8 DEF ActivateTargets, At, Done, exam
  <2>2. proc' = [proc EXCEPT ![p] = q] \/ proc' = [proc EXCEPT ![p] = Idle]
    BY <1>3, <2>1
  <2>3. q.step = "activateIssue"
    BY <1>3 DEF ProcShape
  <2> HIDE DEF q
  <2>4. UpToDate(q)
    BY <1>3, <2>1, <2>3 DEF UpToDate
  <2>5. QED
    BY <1>1, <1>2, <2>1, <2>2, <2>4, IdleIsUpToDate, ReadingKeepsSequentialInv DEF Unissued
<1>9. CASE ActivateMark(p)
  <2>1. r.step = "activateMark" /\ SetStatus("active") /\ proc' = [proc EXCEPT ![p] = Idle]
    BY <1>9 DEF ActivateMark, At, Done
  <2>2. Fits("active")
    BY <1>3, <2>1 DEF UpToDate, Fits
  <2>3. QED
    BY <1>1, <1>2, <2>1, <2>2, IdleIsUpToDate, MarkingKeepsSequentialInv
<1>10. CASE StopMark(p)
  <2>1. SetStatus("completed") /\ proc' = [proc EXCEPT ![p] = Idle]
    BY <1>10 DEF StopMark, Done
  <2>2. Fits("completed")
    BY DEF Fits
  <2>3. QED
    BY <1>1, <1>2, <2>1, <2>2, IdleIsUpToDate, MarkingKeepsSequentialInv
<1>11. CASE IssueRefused(p)
  <2>1. /\ r.step \in {"activateIssue", "stopIssue"} /\ UNCHANGED status
        /\ proc' = [proc EXCEPT ![p] = Idle]
    BY <1>11 DEF IssueRefused, At, Done, exam
  <2>2. QED
    BY <1>1, <1>2, <2>1, IdleIsUpToDate, ReadingKeepsSequentialInv DEF Unissued
<1>12. QED
  BY <1>4, <1>5, <1>6, <1>7, <1>8, <1>9, <1>10, <1>11

\* A deployment is issued: it is the latest, asked for at the version the request read.
LEMMA PrepareIssueKeepsSequentialInv ==
  ASSUME LifecycleInv, LifecycleInv', SequentialInv, NEW p \in Procs, PrepareIssue(p)
  PROVE  SequentialInv'
<1> DEFINE r == proc[p]
           n == Len(commands) + 1
<1>1. r.step = "prepareIssue" /\ UNCHANGED <<status, version, lapsed>>
  BY DEF PrepareIssue, At, exam
<1>2. /\ Others(p) /\ r \in ProcShape /\ UpToDate(r)
      /\ proc \in [Procs -> ProcShape] /\ CommandsOK /\ CommandsOK'
      /\ status \in {"ready", "active"} => CurrentPrepared
  BY <1>1, Underway
<1>3. PICK targets \in SUBSET Devices \ {{}} : commands' = Issued("prepare", n, r.of, r.cmd, targets)
  BY DEF PrepareIssue
<1>4. r.cmd = version /\ version \in Nat \ {0} /\ r.of \in Nat
  BY <1>1, <1>2, LifecycleAssumption DEF UpToDate, LifecycleInv, StatusOK, ProcShape
<1>5. Grows
  BY <1>1, <1>2, <1>3, <1>4, IssuedGrows
<1> DEFINE new == [kind |-> "prepare", dep |-> n, of |-> r.of, asOf |-> r.cmd,
                   row |-> [d \in Devices |-> IF d \in targets THEN "open" ELSE "none"]]
<1>6. commands' = Append(commands, new)
  BY <1>3 DEF Issued
<1>7. new.kind = "prepare" /\ new.asOf = r.cmd
  OBVIOUS
<1> HIDE DEF new
<1>8. Len(commands) \in Nat /\ Len(commands') = n /\ commands'[n] = new /\ Ids' = 1..n
  BY <1>2, <1>6 DEF CommandsOK, Ids
<1>9. n \in Prepares' /\ \A c \in Prepares' : c \in 1..n
  BY <1>7, <1>8 DEF Prepares, Kind
<1>10. latestPrepareForExam' = n
  <2>1. Prepares' # {} /\ \A c \in Prepares' : (\A e \in Prepares' : e <= c) <=> c = n
    BY <1>8, <1>9
  <2>2. QED
    BY <1>9, <2>1 DEF latestPrepareForExam, Latest
<1>11. LatestCurrent' /\ (CurrentPrepared => CurrentPrepared')
  BY <1>1, <1>2, <1>4, <1>5, <1>7, <1>8, <1>9, <1>10, CurrentStays DEF LatestCurrent, Current
<1>12. PICK s : s = r.seen
  OBVIOUS
<1>13. proc' = [proc EXCEPT ![p] = Idle]
       \/ proc' = [proc EXCEPT ![p] = [r EXCEPT !.step = "prepareRestore"]]
  BY DEF PrepareIssue, IssueReturns
<1>14. /\ \A q \in Procs : q # p => proc'[q] = proc[q]
       /\ proc'[p] = Idle \/ proc'[p] = [r EXCEPT !.step = "prepareRestore"]
  BY <1>2, <1>13
<1>15. proc'[p].step = "idle" \/ (proc'[p].step = "prepareRestore" /\ proc'[p].seen = r.seen)
  BY <1>2, <1>14 DEF Idle, ProcShape
<1>16. UpToDate(proc[p])'
  <2>1. Fits(s)
    BY <1>1, <1>2, <1>12 DEF UpToDate
  <2>2. Fits(s)'
    BY <1>11, <2>1 DEF Fits
  <2>3. QED
    BY <1>12, <1>15, <2>2 DEF UpToDate
<1>17. Others(p)' /\ StatusFits'
  BY <1>1, <1>2, <1>11, <1>14 DEF Others, StatusFits
<1>18. QED
  BY <1>16, <1>17, TurnKeepsInv

\* An activation or a stop is issued: the deployments remain what they are.
LEMMA DeploymentIssueKeepsSequentialInv ==
  ASSUME LifecycleInv, LifecycleInv', SequentialInv, NEW p \in Procs,
         ActivateIssue(p) \/ StopIssue(p)
  PROVE  SequentialInv'
<1> DEFINE r == proc[p]
<1>1. r.step \in {"activateIssue", "stopIssue"} /\ UNCHANGED <<status, version, lapsed>>
  BY DEF ActivateIssue, StopIssue, At, exam
<1>2. /\ Others(p) /\ r \in ProcShape /\ UpToDate(r) /\ Knows(r)
      /\ proc \in [Procs -> ProcShape] /\ CommandsOK /\ CommandsOK'
      /\ status = "preparing" => LatestCurrent
      /\ status \in {"ready", "active"} => CurrentPrepared
  BY <1>1, Underway DEF Unissued
<1>3. r.cmd \in Prepares /\ r.cmd \in Ids /\ r.devs \in SUBSET Devices
  BY <1>1, <1>2 DEF Knows, DeploymentSteps, Prepares, ProcShape
<1>4. commands[r.cmd] \in CommandShape
  BY <1>2, <1>3 DEF CommandsOK, Ids
<1>5. commands[r.cmd].asOf \in Nat \ {0} /\ commands[r.cmd].of \in Nat
  BY <1>4 DEF CommandShape
<1>6. PICK kind \in {"activate", "stop"}, of \in Nat, targets \in SUBSET Devices :
        /\ commands' = Issued(kind, r.cmd, of, commands[r.cmd].asOf, targets)
        /\ kind = "activate" => targets \subseteq Succeeded(r.cmd)
  <2>1. CASE ActivateIssue(p)
    <3>1. r.step = "activateIssue"
          /\ commands' = Issued("activate", r.cmd, commands[r.cmd].of, commands[r.cmd].asOf, r.devs)
      BY <2>1 DEF ActivateIssue, At
    <3>2. r.devs \subseteq Succeeded(r.cmd)
      BY <1>2, <3>1 DEF Knows
    <3>3. QED
      BY <1>3, <1>5, <3>1, <3>2
  <2>2. CASE StopIssue(p)
    BY <2>2 DEF StopIssue, Targets
  <2>3. QED
    BY <2>1, <2>2
<1>7. Grows
  BY <1>1, <1>2, <1>3, <1>5, <1>6, IssuedGrows
<1> DEFINE new == [kind |-> kind, dep |-> r.cmd, of |-> of, asOf |-> commands[r.cmd].asOf,
                   row |-> [d \in Devices |-> IF d \in targets THEN "open" ELSE "none"]]
           n == Len(commands) + 1
<1>8. commands' = Append(commands, new) /\ new.kind = kind
  BY <1>6 DEF Issued
<1> HIDE DEF new
<1>9. /\ Len(commands) \in Nat /\ Ids = 1..Len(commands) /\ Ids' = 1..n
      /\ commands'[n] = new /\ \A c \in Ids : commands'[c] = commands[c]
  BY <1>2, <1>8 DEF CommandsOK, Ids
<1>10. Prepares' = Prepares
  <2>1. n \notin Prepares' /\ n \notin Ids /\ Ids' = Ids \cup {n}
    BY <1>6, <1>8, <1>9 DEF Prepares, Kind
  <2>2. QED
    BY <1>9, <2>1 DEF Prepares, Kind
<1>11. /\ latestPrepareForExam' = latestPrepareForExam
       /\ \A c : Current(c) => Current(c)'
       /\ CurrentPrepared => CurrentPrepared'
  BY <1>1, <1>2, <1>7, <1>10, LatestStays, CurrentStays
<1>12. LatestCurrent => LatestCurrent'
  BY <1>11 DEF LatestCurrent
<1> DEFINE Marked(m) == [r EXCEPT !.step = m]
<1>13. PICK m \in {"activateMark", "stopMark"} :
         /\ proc' = [proc EXCEPT ![p] = Marked(m)] \/ proc' = [proc EXCEPT ![p] = Idle]
         /\ m = "activateMark" => r.step = "activateIssue"
  BY DEF ActivateIssue, StopIssue, IssueReturns, At
<1>14. /\ \A q \in Procs : q # p => proc'[q] = proc[q]
       /\ proc'[p] = Idle \/ proc'[p] = Marked(m)
  BY <1>2, <1>13
<1>15. proc'[p].step = "idle" \/ proc'[p].step = m
  BY <1>2, <1>14 DEF Idle, ProcShape
<1>16. UpToDate(proc[p])'
  BY <1>2, <1>11, <1>13, <1>15 DEF UpToDate
<1>17. Others(p)' /\ StatusFits'
  BY <1>1, <1>2, <1>11, <1>12, <1>14 DEF Others, StatusFits
<1>18. QED
  BY <1>16, <1>17, TurnKeepsInv

\* What a device says of itself, and the reconciliation that follows.
LEMMA ReconcileKeepsSequentialInv ==
  ASSUME LifecycleInv, LifecycleInv', SequentialInv, NEW d \in Devices,
         RecordState(d) \/ Reconcile(d)
  PROVE  SequentialInv'
<1> DEFINE r == proc[d]
<1>1. /\ d \in Procs /\ UNCHANGED version
      /\ r.step \in {"recordState", "reconcileGet", "reconcileRead", "reconcileActivation",
                     "reconcileTargets", "reconcileDevices", "reconcileMark"}
  BY DEF RecordState, Reconcile, ReconcileGet, ReconcileRead, ReconcileActivation,
         ReconcileTargets, ReconcileDevices, ReconcileMark, At, exam, Procs
<1>2. r.step # "idle" /\ r.step \notin Unissued
  BY <1>1 DEF Unissued
<1>3. /\ Others(d) /\ r \in ProcShape
      /\ proc \in [Procs -> ProcShape] /\ proc' \in [Procs -> ProcShape]
      /\ CommandsOK /\ CommandsOK'
  BY <1>1, <1>2, Underway
<1>4. CASE ReconcileGet(d)
  <2>1. PICK c, next : Get(d, c, next) /\ UNCHANGED <<lapsed, status>>
    BY <1>4 DEF ReconcileGet, exam
  <2> DEFINE q == [Idle EXCEPT !.step = "finalize", !.fin = JustExpired \cup {c},
                               !.cmd = c, !.next = next]
  <2>2. commands' = Swept /\ proc' = [proc EXCEPT ![d] = q]
    BY <2>1 DEF Get
  <2>3. Grows /\ Len(commands') = Len(commands)
    BY <1>3, <2>1, <2>2, SweptGrows
  <2>4. Prepares' = Prepares
    BY <1>3, <2>3, SameIds
  <2>5. q.step = "finalize" /\ q \in ProcShape
    BY <1>1, <1>3, <2>2 DEF Idle
  <2> HIDE DEF q
  <2>6. QED
    BY <1>1, <1>2, <1>3, <2>1, <2>2, <2>3, <2>4, <2>5, PlainKeepsInv
<1>5. CASE ReconcileMark(d)
  <2>1. SetStatus("completed") /\ proc' = [proc EXCEPT ![d] = Idle] /\ UNCHANGED commands
    BY <1>5 DEF ReconcileMark, Done
  <2>2. Fits("completed")
    BY DEF Fits
  <2>3. QED
    BY <1>1, <1>2, <2>1, <2>2, IdleIsUpToDate, MarkingKeepsSequentialInv
<1>6. CASE \/ RecordState(d) \/ ReconcileRead(d) \/ ReconcileActivation(d)
           \/ ReconcileTargets(d) \/ ReconcileDevices(d)
  <2>1. UNCHANGED <<status, commands>>
    BY <1>6 DEF RecordState, ReconcileRead, ReconcileActivation, ReconcileTargets,
                ReconcileDevices, exam
  <2>2. Grows /\ Prepares' = Prepares
    BY <1>3, <2>1, NoGrowth, SameIds
  <2>3. PICK s \in {"reconcileActivation", "reconcileTargets", "reconcileDevices",
                    "reconcileMark"} :
          \/ proc' = [proc EXCEPT ![d] = Idle]
          \/ proc' = [proc EXCEPT ![d] = proc'[d]] /\ proc'[d].step = s
    <3>1. \/ proc' = [proc EXCEPT ![d] = Idle]
          \/ \E s \in {"reconcileActivation", "reconcileMark"} :
               proc' = [proc EXCEPT ![d] = [r EXCEPT !.step = s]]
          \/ \E a : proc' = [proc EXCEPT ![d] = [r EXCEPT !.step = "reconcileTargets", !.fixing = a]]
          \/ \E a : proc' = [proc EXCEPT ![d] = [r EXCEPT !.step = "reconcileDevices", !.devs = a]]
      <4>1. \/ proc' = [proc EXCEPT ![d] = Idle]
            \/ \E s \in {"reconcileActivation", "reconcileMark"} :
                 proc' = [proc EXCEPT ![d] = [r EXCEPT !.step = s]]
            \/ \E a : proc' = [proc EXCEPT ![d].step = "reconcileTargets", ![d].fixing = a]
            \/ \E a : proc' = [proc EXCEPT ![d].step = "reconcileDevices", ![d].devs = a]
        BY <1>6 DEF RecordState, ReconcileRead, ReconcileActivation, ReconcileTargets,
                    ReconcileDevices, Done, Goto
      <4>2. QED
        BY <1>1, <1>3, <4>1
    <3>2. QED
      BY <1>1, <1>3, <3>1 DEF ProcShape
  <2>4. QED
    <3>1. IdleIsUpToDate => Idle.step = "idle"
      BY IdleIsUpToDate
    <3>2. proc'[d] \in ProcShape /\ Idle \in ProcShape
      BY <1>1, <1>3, IdleKnows
    <3>3. QED
      BY <1>1, <1>2, <1>3, <2>1, <2>2, <2>3, <3>2, IdleIsUpToDate, PlainKeepsInv
<1>7. QED
  BY <1>4, <1>5, <1>6 DEF Reconcile

LEMMA NextKeepsSequentialInv ==
  ASSUME OneAtATime, LifecycleInv, LifecycleInv', SequentialInv, Next
  PROVE  SequentialInv'
<1>1. CASE \E p \in Procs : Handler(p)
  BY <1>1, FinalizeKeepsSequentialInv, RequestsKeepSequentialInv, PrepareIssueKeepsSequentialInv,
     DeploymentIssueKeepsSequentialInv, ReconcileKeepsSequentialInv DEF Handler, Request
<1>2. CASE \/ \E p \in Admins : PrepareRead(p)
           \/ \E p \in Admins, c \in Ids : Read(p, c) \/ ActivateStart(p, c) \/ StopStart(p, c)
           \/ \E d \in Devices : Heartbeat(d)
  BY <1>2, StartsKeepSequentialInv DEF Procs
<1>3. CASE createVersion \/ updateTargets \/ remove
  BY <1>3, ConfigKeepsSequentialInv
<1>4. CASE \/ \E c \in Ids : Lapse(c)
           \/ \E d \in Devices, c \in Ids : BeginCommand(d, c)
           \/ \E d \in Devices : PlayerExits(d) \/ Restart(d)
  BY <1>4, AppsKeepSequentialInv
<1>5. CASE \/ \E d \in Devices, c \in Ids, st \in {"succeeded", "failed"} : AnswerCommand(d, c, st)
           \/ \E d \in Devices : RepeatResult(d)
           \/ \E d \in Devices, c \in Ids : CapabilityRejected(d, c)
  BY <1>5, AnswersKeepSequentialInv
<1>6. QED
  BY <1>1, <1>2, <1>3, <1>4, <1>5 DEF Next

LEMMA InitIsSequential == Init => SequentialInv
<1> SUFFICES ASSUME Init PROVE SequentialInv
  OBVIOUS
<1>1. \A p \in Procs : proc[p].step = "idle" /\ UpToDate(proc[p])
  BY IdleIsUpToDate DEF Init
<1>2. StatusFits
  BY DEF Init, StatusFits
<1>3. QED
  BY <1>1, <1>2 DEF SequentialInv

\* While no two handlers overlap, an exam that is ready or active has a device that
\* succeeded in a deployment asked for since the exam has had its current version:
\* a new version takes back what was ready, and neither a late result of an earlier
\* deployment, nor a status that a refused request puts back, makes the exam ready
\* again. Which version that deployment is of is up to the request.
THEOREM ReadyIsAlwaysRenewed == OneAtATime => (Spec => []ReadyIsRenewed)
<1> SUFFICES ASSUME OneAtATime PROVE Spec => []ReadyIsRenewed
  OBVIOUS
<1>1. LifecycleInv /\ LifecycleInv' /\ SequentialInv /\ [Next]_vars => SequentialInv'
  BY NextKeepsSequentialInv, StillKeepsInv DEF vars
<1>2. SequentialInv => ReadyIsRenewed
  BY DEF SequentialInv, StatusFits, CurrentPrepared, Current, ReadyIsRenewed
<1>3. QED
  BY <1>1, <1>2, InvAlways, InitIsSequential, PTL DEF Spec

-----------------------------------------------------------------------------
(* One handler at a time: an exam is completed after every client has exited. *)

\* No command is closed or expires while its device executes it, and every answer is
\* accepted at once.
Undisturbed ==
  \A d \in Devices :
    /\ \A c \in app[d].running : Open(d, c) /\ c \notin lapsed
    /\ app[d].unaccepted = {}

Finalizing == {"finalize", "finalizeStatus", "finalizeTargets", "finalizeMark"}

\* The handler r will record the state that a result came with.
Telling(r) ==
  \/ r.step = "recordState"
  \/ r.step \in Finalizing /\ r.next = "recordState"

\* A device that plays a deployment does not say that it has left it, nor does the
\* database, unless a handler is about to correct it.
Shown(d) ==
  LET exited == [status |-> "idle", dep |-> app[d].session] IN
  app[d].session # 0 =>
    /\ app[d].player # exited
    /\ IF Telling(proc[d]) THEN proc[d].state # exited ELSE reported[d] # exited

\* What a reconciliation r has read of the activation and its devices is still so.
Reconciling(r) ==
  /\ r.step \in {"reconcileTargets", "reconcileDevices", "reconcileMark"}
       => r.fixing = latestActivationForDeployment(r.cmd)
  /\ r.step \in {"reconcileDevices", "reconcileMark"} => r.devs = Succeeded(r.fixing)
  /\ r.step = "reconcileMark" => AllExited(r.devs, r.cmd)

ExitInv == \A d \in Devices : Shown(d) /\ Reconciling(proc[d])

LEMMA IdleTellsNothing ==
  /\ Idle.step = "idle" /\ ~Telling(Idle) /\ Reconciling(Idle)
  /\ \A r : r.step = "idle" => Reconciling(r) /\ ~Telling(r)
BY DEF Idle, Telling, Finalizing, Reconciling

\* A device whose app goes on playing and saying what it did, if it plays, and of which
\* the server and the handlers know what they did.
LEMMA StillShown ==
  ASSUME NEW d \in Devices, Shown(d),
         \/ app'[d].session = 0
         \/ app'[d].session = app[d].session /\ app'[d].player = app[d].player,
         reported'[d] = reported[d], Telling(proc[d])' <=> Telling(proc[d]),
         Telling(proc[d]) => proc'[d].state = proc[d].state
  PROVE  Shown(d)'
BY Zenon DEF Shown

\* The step of a process, the others being idle, leaves the others as they are.
LEMMA OthersStayTrue ==
  ASSUME ExitInv, NEW p \in Procs, Others(p), Others(p)', NEW d \in Devices, d # p,
         \/ app'[d].session = 0
         \/ app'[d].session = app[d].session /\ app'[d].player = app[d].player,
         reported'[d] = reported[d]
  PROVE  Shown(d)' /\ Reconciling(proc[d])'
<1>1. proc[d].step = "idle" /\ proc'[d].step = "idle"
  BY DEF Others, Procs
<1>2. ~Telling(proc[d]) /\ ~Telling(proc[d])' /\ Reconciling(proc[d])'
  BY <1>1 DEF Telling, Finalizing, Reconciling
<1>3. Shown(d)
  BY DEF ExitInv
<1>4. QED
  BY <1>2, <1>3, StillShown

\* What is known after a step of process p alone.
LEMMA AloneKeepsExitInv ==
  ASSUME ExitInv, LifecycleInv, NEW p \in Procs, Others(p), NEW r \in ProcShape,
         proc' = [proc EXCEPT ![p] = r], UNCHANGED <<app, reported>>,
         p \in Devices => /\ Telling(r) <=> Telling(proc[p])
                          /\ Telling(r) => r.state = proc[p].state
                          /\ Reconciling(proc[p])'
  PROVE  ExitInv'
<1>1. proc'[p] = r /\ \A q \in Procs : q # p => proc'[q] = proc[q]
  BY DEF LifecycleInv, ProcsOK
<1>2. Others(p)'
  BY <1>1 DEF Others
<1>3. ASSUME NEW d \in Devices PROVE Shown(d)' /\ Reconciling(proc[d])'
  <2>1. CASE d # p
    BY <1>2, <2>1, OthersStayTrue
  <2>2. CASE d = p
    <3>1. Shown(d)
      BY DEF ExitInv
    <3>2. Telling(proc[d])' <=> Telling(proc[d])
      BY <1>1, <2>2 DEF Telling
    <3>3. QED
      BY <1>1, <2>2, <3>1, <3>2, StillShown
  <2>3. QED
    BY <2>1, <2>2
<1>4. QED
  BY <1>3 DEF ExitInv

\* Finalizing the preparations goes on to what it was called for.
LEMMA FinalizeKeepsExitInv ==
  ASSUME ExitInv, LifecycleInv, LifecycleInv', SequentialInv, NEW p \in Procs, Finalize(p)
  PROVE  ExitInv'
<1> DEFINE r == proc[p]
           q == proc'[p]
<1>1. r \in ProcShape /\ q \in ProcShape /\ proc \in [Procs -> ProcShape]
  BY DEF LifecycleInv, ProcsOK
<1>2. UNCHANGED <<app, reported>> /\ r.step \in Finalizing
  BY DEF Finalize, FinalizeLatest, FinalizeStatus, FinalizeTargets, FinalizeMark, FinalizeEnd,
         devices, At, Finalizing
<1>3. \/ r.step = "finalize" /\ r.next = "idle" /\ proc' = [proc EXCEPT ![p] = Idle]
      \/ r.step = "finalize" /\ proc' = [proc EXCEPT ![p].step = r.next]
      \/ \E x : proc' = [proc EXCEPT ![p] = x] /\ x.next = r.next /\ x.state = r.state
                /\ x.step \in Finalizing
  <2>1. ASSUME FinalizeEnd(p)
        PROVE  \/ r.step = "finalize" /\ r.next = "idle" /\ proc' = [proc EXCEPT ![p] = Idle]
               \/ r.step = "finalize" /\ proc' = [proc EXCEPT ![p].step = r.next]
    BY <2>1 DEF FinalizeEnd, At, Done, Goto
  <2>2. Finalized(p).next = r.next /\ Finalized(p).state = r.state
        /\ Finalized(p).step \in Finalizing
    BY <1>1 DEF Finalized, ProcShape, Finalizing
  <2>3. ASSUME FinalizeMark(p) PROVE proc' = [proc EXCEPT ![p] = Finalized(p)]
    BY <2>3 DEF FinalizeMark
  <2>4. ASSUME FinalizeStatus(p)
        PROVE  \/ proc' = [proc EXCEPT ![p] = Finalized(p)]
               \/ proc' = [proc EXCEPT ![p] = [r EXCEPT !.step = "finalizeTargets"]]
    BY <2>4 DEF FinalizeStatus
  <2>5. ASSUME FinalizeTargets(p)
        PROVE  \/ proc' = [proc EXCEPT ![p] = Finalized(p)]
               \/ \E s : proc' = [proc EXCEPT ![p] =
                                    [r EXCEPT !.step = "finalizeMark", !.seen = s]]
    BY <2>5 DEF FinalizeTargets
  <2>6. ASSUME FinalizeLatest(p)
        PROVE  \E f, c : \/ proc' = [proc EXCEPT ![p] =
                                  [r EXCEPT !.fin = f, !.fixing = c, !.step = "finalizeStatus"]]
                         \/ r.step = "finalize" /\ proc' = [proc EXCEPT ![p] = [r EXCEPT !.fin = f]]
    BY <2>6 DEF FinalizeLatest, At
  <2>7. ASSUME NEW x,
               \/ x = [r EXCEPT !.step = "finalizeTargets"]
               \/ \E s : x = [r EXCEPT !.step = "finalizeMark", !.seen = s]
               \/ \E f, c : x = [r EXCEPT !.fin = f, !.fixing = c, !.step = "finalizeStatus"]
               \/ r.step = "finalize" /\ \E f : x = [r EXCEPT !.fin = f]
        PROVE  x.next = r.next /\ x.state = r.state /\ x.step \in Finalizing
    BY <1>1, <2>7 DEF ProcShape, Finalizing
  <2> HIDE DEF r
  <2> QED BY <2>1, <2>2, <2>3, <2>4, <2>5, <2>6, <2>7, Zenon DEF Finalize
<1>4. /\ proc' = [proc EXCEPT ![p] = q]
      /\ \/ r.step = "finalize" /\ r.next = "idle" /\ q = Idle
         \/ r.step = "finalize" /\ q = [r EXCEPT !.step = r.next]
         \/ q.next = r.next /\ q.state = r.state /\ q.step \in Finalizing
  BY <1>1, <1>3
<1>5. Telling(q) <=> Telling(r)
  BY <1>1, <1>2, <1>4 DEF Telling, Idle, ProcShape, Finalizing
<1>6. Telling(r) => q.state = r.state
  BY <1>1, <1>2, <1>4 DEF Telling, Idle, ProcShape, Finalizing
<1>7. q.step \notin {"reconcileTargets", "reconcileDevices", "reconcileMark"}
  BY <1>1, <1>4 DEF Idle, ProcShape, Finalizing, Nexts
<1>8. Reconciling(proc[p])'
  BY <1>7 DEF Reconciling
<1>9. Others(p)
  BY <1>2 DEF SequentialInv, Finalizing
<1> HIDE DEF r, q
<1>10. QED
  BY <1>1, <1>2, <1>4, <1>5, <1>6, <1>8, <1>9, AloneKeepsExitInv DEF r, q

\* The steps of the requests of administrators are none of a device.
LEMMA RequestsKeepExitInv ==
  ASSUME ExitInv, LifecycleInv, LifecycleInv', SequentialInv, SequentialInv', OneAtATime,
         NEW p \in Admins,
         \/ Request(p) \/ PrepareRead(p)
         \/ \E c \in Ids : Read(p, c) \/ ActivateStart(p, c) \/ StopStart(p, c)
  PROVE  ExitInv'
<1>1. p \in Procs /\ p \notin Devices
  BY LifecycleAssumption DEF Procs
<1>2. proc \in [Procs -> ProcShape] /\ proc' \in [Procs -> ProcShape]
  BY DEF LifecycleInv, ProcsOK
<1>3. UNCHANGED <<app, reported>> /\ \E r : proc' = [proc EXCEPT ![p] = r]
  <2>1. CASE PrepareRead(p) \/ \E c \in Ids : Read(p, c) \/ ActivateStart(p, c) \/ StopStart(p, c)
    BY <2>1, Zenon DEF PrepareRead, Read, ActivateStart, StopStart, Get, devices
  <2>2. CASE Request(p)
    <3>1. UNCHANGED <<app, reported>>
      BY <2>2 DEF Request, PrepareMark, PrepareIssue, PrepareRefused, PrepareRestore, ActivateRead,
         ActivateTargets, ActivateIssue, ActivateMark, StopIssue, StopMark, IssueRefused, devices
    <3>2. \/ \E r : proc' = [proc EXCEPT ![p] = r]
          \/ \E s : proc' = [proc EXCEPT ![p].step = s]
          \/ \E s, x : proc' = [proc EXCEPT ![p].step = s, ![p].devs = x]
      BY <2>2, Zenon DEF Request, PrepareMark, PrepareIssue, PrepareRefused, PrepareRestore,
         ActivateRead, ActivateTargets, ActivateIssue, ActivateMark, StopIssue, StopMark,
         IssueRefused, IssueReturns, Done, Goto
    <3>3. proc' = [proc EXCEPT ![p] = proc'[p]]
      BY <1>1, <1>2, <3>2
    <3>4. QED
      BY <3>1, <3>3
  <2>3. QED
    BY <2>1, <2>2
<1>4. \/ proc[p].step # "idle"
      \/ Quiet
  BY DEF Request, PrepareMark, PrepareIssue, PrepareRefused, PrepareRestore, ActivateRead,
     ActivateTargets, ActivateIssue, ActivateMark, StopIssue, StopMark, IssueRefused, At,
     PrepareRead, Read, ActivateStart, StopStart, MayStart
<1>5. Others(p)
  BY <1>1, <1>4 DEF SequentialInv, Quiet, Others
<1>6. PICK r : proc' = [proc EXCEPT ![p] = r]
  BY <1>3
<1>7. r \in ProcShape
  BY <1>1, <1>2, <1>6
<1>8. QED
  BY <1>1, <1>3, <1>5, <1>6, <1>7, AloneKeepsExitInv

\* What a result came with is recorded.
LEMMA RecordKeepsExitInv ==
  ASSUME ExitInv, LifecycleInv, LifecycleInv', SequentialInv, NEW d \in Devices, RecordState(d)
  PROVE  ExitInv'
<1>1. /\ proc \in [Procs -> ProcShape] /\ d \in Procs /\ reported \in [Devices -> PlayerState]
      /\ proc[d].step = "recordState" /\ UNCHANGED app
      /\ proc' = [proc EXCEPT ![d] = Idle] /\ reported' = [reported EXCEPT ![d] = proc[d].state]
  BY DEF LifecycleInv, ProcsOK, RestOK, RecordState, At, Done, Procs
<1>2. Others(d)
  BY <1>1 DEF SequentialInv
<1>3. /\ proc'[d] = Idle /\ reported'[d] = proc[d].state
      /\ \A e \in Devices : e # d => reported'[e] = reported[e]
      /\ \A q \in Procs : q # d => proc'[q] = proc[q]
  BY <1>1
<1>4. Others(d)'
  BY <1>2, <1>3 DEF Others
<1>5. Shown(d)'
  <2>1. Shown(d) /\ Telling(proc[d])
    BY <1>1 DEF ExitInv, Telling
  <2>2. ~Telling(proc[d])'
    <3>1. ~Telling(proc'[d])
      BY <1>3, IdleTellsNothing
    <3>2. QED
      BY <3>1 DEF Telling
  <2>3. QED
    BY <1>1, <1>3, <2>1, <2>2, Zenon DEF Shown
<1>6. Reconciling(proc[d])'
  BY <1>3, IdleTellsNothing DEF Reconciling
<1>7. ASSUME NEW e \in Devices, e # d PROVE Shown(e)' /\ Reconciling(proc[e])'
  BY <1>1, <1>2, <1>3, <1>4, <1>7, OthersStayTrue
<1>8. QED
  BY <1>5, <1>6, <1>7 DEF ExitInv

\* A reconciliation reads one thing after another, and nothing of it changes meanwhile.
LEMMA ReconcileKeepsExitInv ==
  ASSUME ExitInv, LifecycleInv, LifecycleInv', SequentialInv, NEW d \in Devices, Reconcile(d)
  PROVE  ExitInv'
<1> DEFINE r == proc[d]
           q == proc'[d]
<1>1. /\ proc \in [Procs -> ProcShape] /\ proc' \in [Procs -> ProcShape] /\ d \in Procs
      /\ r \in ProcShape /\ q \in ProcShape
  BY DEF LifecycleInv, ProcsOK, Procs
<1>2. /\ UNCHANGED <<app, reported>>
      /\ r.step \in {"reconcileGet", "reconcileRead", "reconcileActivation",
                     "reconcileTargets", "reconcileDevices", "reconcileMark"}
  BY DEF Reconcile, ReconcileGet, ReconcileRead, ReconcileActivation, ReconcileTargets,
         ReconcileDevices, ReconcileMark, devices, At
<1>3. Others(d) /\ Reconciling(r)
  BY <1>1, <1>2 DEF SequentialInv, ExitInv
<1>4. /\ proc' = [proc EXCEPT ![d] = q]
      /\ ~Telling(q)
      /\ Reconciling(proc[d])'
  <2>1. CASE ReconcileGet(d)
    <3>1. PICK f, c : proc' = [proc EXCEPT ![d] =
             [Idle EXCEPT !.step = "finalize", !.fin = f, !.cmd = c, !.next = "reconcileRead"]]
      BY <2>1 DEF ReconcileGet, Get
    <3>2. q = [Idle EXCEPT !.step = "finalize", !.fin = f, !.cmd = c, !.next = "reconcileRead"]
      BY <1>1, <3>1
    <3>3. q.step = "finalize" /\ q.next = "reconcileRead"
      BY <3>2 DEF Idle
    <3>4. proc' = [proc EXCEPT ![d] = q]
      BY <3>1, <3>2, Zenon
    <3>5. QED
      BY <3>3, <3>4 DEF Telling, Finalizing, Reconciling
  <2>2. CASE proc' = [proc EXCEPT ![d] = Idle]
    <3>1. q = Idle /\ proc' = [proc EXCEPT ![d] = q]
      BY <1>1, <2>2
    <3>2. QED
      BY <3>1, IdleTellsNothing DEF Reconciling
  <2>3. CASE ReconcileRead(d) /\ proc' # [proc EXCEPT ![d] = Idle]
    <3>1. proc' = [proc EXCEPT ![d].step = "reconcileActivation"]
      BY <2>3 DEF ReconcileRead, Goto, Done
    <3>2. q.step = "reconcileActivation" /\ proc' = [proc EXCEPT ![d] = q]
      BY <1>1, <3>1 DEF ProcShape
    <3>3. QED
      BY <3>2 DEF Telling, Finalizing, Reconciling
  <2>4. CASE ReconcileActivation(d) /\ proc' # [proc EXCEPT ![d] = Idle]
    <3>1. /\ UNCHANGED commands
          /\ proc' = [proc EXCEPT ![d].step = "reconcileTargets",
                                  ![d].fixing = latestActivationForDeployment(r.cmd)]
      BY <2>4 DEF ReconcileActivation, Done
    <3>2. /\ q.step = "reconcileTargets" /\ q.cmd = r.cmd
          /\ q.fixing = latestActivationForDeployment(r.cmd) /\ proc' = [proc EXCEPT ![d] = q]
      BY <1>1, <3>1 DEF ProcShape
    <3>3. commands' = commands /\ proc'[d].cmd = r.cmd
      BY <3>1, <3>2
    <3>4. latestActivationForDeployment(proc[d].cmd)' = latestActivationForDeployment(r.cmd)
      BY <3>3 DEF latestActivationForDeployment, Latest, Ids, Kind
    <3>5. QED
      BY <3>2, <3>4 DEF Telling, Finalizing, Reconciling
  <2>5. CASE ReconcileTargets(d) /\ proc' # [proc EXCEPT ![d] = Idle]
    <3>1. /\ UNCHANGED commands /\ r.step = "reconcileTargets"
          /\ proc' = [proc EXCEPT ![d].step = "reconcileDevices", ![d].devs = Succeeded(r.fixing)]
      BY <2>5 DEF ReconcileTargets, Done, At
    <3>2. /\ q.step = "reconcileDevices" /\ q.cmd = r.cmd /\ q.fixing = r.fixing
          /\ q.devs = Succeeded(r.fixing) /\ proc' = [proc EXCEPT ![d] = q]
      BY <1>1, <3>1 DEF ProcShape
    <3>0. commands' = commands /\ proc'[d].cmd = r.cmd /\ proc'[d].fixing = r.fixing
      BY <3>1, <3>2
    <3>3. /\ latestActivationForDeployment(proc[d].cmd)' = latestActivationForDeployment(r.cmd)
          /\ Succeeded(proc[d].fixing)' = Succeeded(r.fixing)
      BY <3>0 DEF latestActivationForDeployment, Latest, Ids, Kind, Succeeded
    <3>4. r.fixing = latestActivationForDeployment(r.cmd)
      BY <1>3, <3>1 DEF Reconciling
    <3>5. QED
      BY <3>2, <3>3, <3>4 DEF Telling, Finalizing, Reconciling
  <2>6. CASE ReconcileDevices(d) /\ proc' # [proc EXCEPT ![d] = Idle]
    <3>1. /\ UNCHANGED <<commands, reported>> /\ r.step = "reconcileDevices"
          /\ AllExited(r.devs, r.cmd) /\ proc' = [proc EXCEPT ![d].step = "reconcileMark"]
      BY <2>6 DEF ReconcileDevices, Done, Goto, At, devices
    <3>2. /\ q.step = "reconcileMark" /\ q.cmd = r.cmd /\ q.fixing = r.fixing /\ q.devs = r.devs
          /\ proc' = [proc EXCEPT ![d] = q]
      BY <1>1, <3>1 DEF ProcShape
    <3>0. commands' = commands /\ proc'[d].cmd = r.cmd /\ proc'[d].fixing = r.fixing
      BY <3>1, <3>2
    <3>3. /\ latestActivationForDeployment(proc[d].cmd)' = latestActivationForDeployment(r.cmd)
          /\ Succeeded(proc[d].fixing)' = Succeeded(r.fixing)
      BY <3>0 DEF latestActivationForDeployment, Latest, Ids, Kind, Succeeded
    <3>4. r.fixing = latestActivationForDeployment(r.cmd) /\ r.devs = Succeeded(r.fixing)
      BY <1>3, <3>1 DEF Reconciling
    <3>5. AllExited(proc[d].devs, proc[d].cmd)'
      BY <3>1, <3>2 DEF AllExited
    <3>6. QED
      BY <3>2, <3>3, <3>4, <3>5 DEF Telling, Finalizing, Reconciling
  <2>7. ReconcileMark(d) => proc' = [proc EXCEPT ![d] = Idle]
    BY DEF ReconcileMark, Done
  <2>8. QED
    BY <2>1, <2>2, <2>3, <2>4, <2>5, <2>6, <2>7 DEF Reconcile
<1>5. ~Telling(r)
  BY <1>2 DEF Telling, Finalizing
<1> HIDE DEF r, q
<1>6. QED
  BY <1>1, <1>2, <1>3, <1>4, <1>5, AloneKeepsExitInv DEF r, q

\* What a reconciliation has read stays so as long as no command and no report changes.
LEMMA SameReading ==
  ASSUME NEW d \in Devices, Reconciling(proc[d]), UNCHANGED <<commands, proc, reported>>
  PROVE  Reconciling(proc[d])'
<1>1. latestActivationForDeployment(proc[d].cmd)' = latestActivationForDeployment(proc[d].cmd)
  BY DEF latestActivationForDeployment, Latest, Ids, Kind
<1>2. Succeeded(proc[d].fixing)' = Succeeded(proc[d].fixing)
  BY DEF Succeeded
<1>3. AllExited(proc[d].devs, proc[d].cmd)' <=> AllExited(proc[d].devs, proc[d].cmd)
  BY DEF AllExited
<1>4. QED
  BY <1>1, <1>2, <1>3 DEF Reconciling

\* A device starts a handler of its own, when no other is under way.
LEMMA StartedKeepsExitInv ==
  ASSUME ExitInv, LifecycleInv, OneAtATime, NEW d \in Devices, MayStart(d),
         NEW r \in ProcShape, proc' = [proc EXCEPT ![d] = r],
         \A e \in Devices : e # d => app'[e] = app[e] /\ reported'[e] = reported[e],
         Shown(d)', Reconciling(proc[d])'
  PROVE  ExitInv'
<1>1. d \in Procs /\ Others(d)
  BY DEF MayStart, Quiet, Others, Procs
<1>2. /\ proc'[d] = r
      /\ \A q \in Procs : q # d => proc'[q] = proc[q]
  BY <1>1 DEF LifecycleInv, ProcsOK
<1>3. Others(d)'
  BY <1>1, <1>2 DEF Others
<1>4. ASSUME NEW e \in Devices, e # d PROVE Shown(e)' /\ Reconciling(proc[e])'
  BY <1>1, <1>3, <1>4, OthersStayTrue
<1>5. QED
  BY <1>4 DEF ExitInv

\* A heartbeat reports what the player says.
LEMMA HeartbeatKeepsExitInv ==
  ASSUME ExitInv, LifecycleInv, LifecycleInv', OneAtATime, NEW d \in Devices, Heartbeat(d)
  PROVE  ExitInv'
<1>1. /\ proc \in [Procs -> ProcShape] /\ proc' \in [Procs -> ProcShape] /\ d \in Procs
      /\ reported \in [Devices -> PlayerState]
      /\ MayStart(d) /\ UNCHANGED app /\ reported' = [reported EXCEPT ![d] = app[d].player]
  BY DEF LifecycleInv, ProcsOK, RestOK, Heartbeat, Procs
<1>2. /\ reported'[d] = app[d].player
      /\ \A e \in Devices : e # d => app'[e] = app[e] /\ reported'[e] = reported[e]
  BY <1>1
<1>3. \/ proc' = proc
      \/ proc' = [proc EXCEPT ![d] = [Idle EXCEPT !.step = "reconcileGet", !.cmd = app[d].player.dep]]
  BY DEF Heartbeat
<1>4. proc'[d].step \in {"idle", "reconcileGet"}
  BY <1>1, <1>3 DEF MayStart, Idle
<1>5. ~Telling(proc[d])' /\ Reconciling(proc[d])'
  BY <1>4 DEF Telling, Finalizing, Reconciling
<1>6. Shown(d)'
  <2>1. Shown(d)
    BY DEF ExitInv
  <2>2. QED
    BY <1>1, <1>2, <1>5, <2>1, Zenon DEF Shown
<1>7. proc' = [proc EXCEPT ![d] = proc'[d]] /\ proc'[d] \in ProcShape
  BY <1>1, <1>3
<1>8. QED
  BY <1>1, <1>2, <1>5, <1>6, <1>7, StartedKeepsExitInv

\* A command that can no longer be executed is closed.
LEMMA RejectionKeepsExitInv ==
  ASSUME ExitInv, LifecycleInv, LifecycleInv', OneAtATime, NEW d \in Devices, NEW c \in Ids,
         CapabilityRejected(d, c)
  PROVE  ExitInv'
<1>1. /\ proc \in [Procs -> ProcShape] /\ proc' \in [Procs -> ProcShape] /\ d \in Procs
      /\ MayStart(d) /\ UNCHANGED <<app, reported>>
      /\ proc' = [proc EXCEPT ![d] = [Idle EXCEPT !.step = "finalize", !.fin = {c} \cap Prepares]]
  BY DEF LifecycleInv, ProcsOK, CapabilityRejected, devices, Procs
<1>2. /\ proc'[d] = [Idle EXCEPT !.step = "finalize", !.fin = {c} \cap Prepares]
      /\ proc'[d] \in ProcShape
  BY <1>1
<1>3. proc'[d].step = "finalize" /\ proc'[d].next = "idle"
  BY <1>2 DEF Idle
<1>4. ~Telling(proc[d])' /\ Reconciling(proc[d])'
  BY <1>3 DEF Telling, Finalizing, Reconciling
<1>5. ~Telling(proc[d]) /\ Shown(d)
  BY <1>1, IdleTellsNothing DEF MayStart, ExitInv
<1>6. Shown(d)'
  BY <1>1, <1>4, <1>5, StillShown
<1>7. proc' = [proc EXCEPT ![d] = proc'[d]]
  BY <1>1, <1>2
<1>8. QED
  BY <1>1, <1>2, <1>4, <1>6, <1>7, StartedKeepsExitInv

\* What the app says after a command that it has executed, or not, is not that it has left
\* what it plays; and the session it plays is that of before or of the command.
Truthful(a) == a.session # 0 => a.player # [status |-> "idle", dep |-> a.session]

LEMMA SaysWhatItPlays ==
  ASSUME LifecycleInv, NEW d \in Devices, NEW c \in Ids, NEW a,
         a = Executed(d, c) \/ a = FailedToExecute(d, c)
  PROVE  /\ a \in AppShape
         /\ a.running = app[d].running /\ a.unaccepted = app[d].unaccepted
         /\ Truthful(app[d]) => Truthful(a)
         /\ a = FailedToExecute(d, c) => a.session = app[d].session
<1> DEFINE b == app[d]
           dep == commands[c].dep
<1>1. b \in AppShape /\ dep \in Nat \ {0} /\ dep \in Prepares
      /\ Kind(c) \in {"prepare", "activate", "stop"}
  <2>1. commands[c] \in CommandShape /\ dep \in Prepares
    BY DEF LifecycleInv, CommandsOK, Ids
  <2>2. app[d] \in AppShape
    BY DEF LifecycleInv, AppsOK
  <2>3. QED
    BY <2>1, <2>2 DEF CommandShape, Kind
<1>3. CASE a = FailedToExecute(d, c)
  <2>1. a = b \/ a = [b EXCEPT !.player = [status |-> "error", dep |-> dep]]
    BY <1>3 DEF FailedToExecute
  <2> HIDE DEF b, dep
  <2>2. a \in AppShape /\ a.session = b.session /\ a.running = b.running
        /\ a.unaccepted = b.unaccepted
    BY <1>1, <2>1 DEF AppShape, PlayerState
  <2>3. a = b \/ a.player.status = "error"
    BY <1>1, <2>1 DEF AppShape, PlayerState
  <2>4. Truthful(b) => Truthful(a)
    BY <2>2, <2>3 DEF Truthful
  <2>5. QED
    BY <2>2, <2>4 DEF b
<1>4. CASE a = Executed(d, c) /\ a # FailedToExecute(d, c)
  <2>1. \/ a = [b EXCEPT !.prepared = b.prepared \cup {dep},
                         !.player = [status |-> "ready", dep |-> dep]]
        \/ a = [b EXCEPT !.session = dep, !.player = [status |-> "playing", dep |-> dep]]
        \/ a = [b EXCEPT !.session = IF b.session = dep THEN 0 ELSE b.session,
                         !.prepared = b.prepared \ {dep},
                         !.player = [status |-> "idle", dep |-> dep]]
    BY <1>1, <1>4 DEF Executed
  <2> HIDE DEF b, dep
  <2>2. \A x \in {"ready", "playing", "idle"} : [status |-> x, dep |-> dep] \in PlayerState
    BY <1>1 DEF PlayerState
  <2>3. /\ a \in AppShape /\ a.running = b.running /\ a.unaccepted = b.unaccepted
        /\ a.player.status \in {"ready", "playing"} \/ (a.player.dep = dep /\ a.session # dep)
    <3> DEFINE ready == [status |-> "ready", dep |-> dep]
               playing == [status |-> "playing", dep |-> dep]
               idle == [status |-> "idle", dep |-> dep]
    <3>1. /\ {ready, playing, idle} \subseteq PlayerState
          /\ ready.status = "ready" /\ playing.status = "playing" /\ idle.dep = dep
      BY <2>2
    <3>2. \/ a = [b EXCEPT !.prepared = b.prepared \cup {dep}, !.player = ready]
          \/ a = [b EXCEPT !.session = dep, !.player = playing]
          \/ a = [b EXCEPT !.session = IF b.session = dep THEN 0 ELSE b.session,
                           !.prepared = b.prepared \ {dep}, !.player = idle]
      BY <2>1
    <3> HIDE DEF ready, playing, idle
    <3>3. CASE a = [b EXCEPT !.prepared = b.prepared \cup {dep}, !.player = ready]
      BY <1>1, <3>1, <3>3 DEF AppShape
    <3>4. CASE a = [b EXCEPT !.session = dep, !.player = playing]
      BY <1>1, <3>1, <3>4 DEF AppShape
    <3>5. CASE a = [b EXCEPT !.session = IF b.session = dep THEN 0 ELSE b.session,
                             !.prepared = b.prepared \ {dep}, !.player = idle]
      BY <1>1, <3>1, <3>5 DEF AppShape
    <3>6. QED
      BY <3>2, <3>3, <3>4, <3>5
  <2>4. Truthful(a)
    BY <2>3 DEF Truthful
  <2>5. QED
    BY <1>4, <2>3, <2>4 DEF b
<1>5. QED
  BY <1>3, <1>4

\* The answer to a command that the device was executing is accepted and will be recorded.
LEMMA AnswerKeepsExitInv ==
  ASSUME ExitInv, LifecycleInv, LifecycleInv', OneAtATime, Undisturbed,
         NEW d \in Devices, NEW c \in Ids, NEW st \in {"succeeded", "failed"},
         AnswerCommand(d, c, st)
  PROVE  ExitInv'
<1>1. PICK done : done = IF st = "succeeded" THEN Executed(d, c) ELSE FailedToExecute(d, c)
  OBVIOUS
<1>2. /\ proc \in [Procs -> ProcShape] /\ proc' \in [Procs -> ProcShape] /\ d \in Procs
      /\ app \in [Devices -> AppShape]
      /\ MayStart(d) /\ UNCHANGED reported
      /\ RecordResult(d, c, st, done.player)
      /\ \E a : /\ app' = [app EXCEPT ![d] = a]
                /\ \/ a = [done EXCEPT !.running = done.running \ {c}]
                   \/ \E k : a = [done EXCEPT !.running = done.running \ {c},
                                              !.unaccepted = done.unaccepted \cup {k}]
  BY <1>1 DEF LifecycleInv, ProcsOK, AppsOK, Procs, AnswerCommand
<1>3. /\ done \in AppShape
      /\ done.session # 0 => done.player # [status |-> "idle", dep |-> done.session]
      /\ st = "failed" => done.session = app[d].session
  <2>1. Truthful(app[d])
    BY DEF ExitInv, Shown, Truthful
  <2>2. done = Executed(d, c) \/ done = FailedToExecute(d, c)
    BY <1>1
  <2>3. QED
    BY <1>1, <2>1, <2>2, SaysWhatItPlays DEF Truthful
<1>4. PICK a : /\ app' = [app EXCEPT ![d] = a]
               /\ \/ a = [done EXCEPT !.running = done.running \ {c}]
                  \/ \E k : a = [done EXCEPT !.running = done.running \ {c},
                                             !.unaccepted = done.unaccepted \cup {k}]
  BY <1>2
<1>5. a.session = done.session /\ a.player = done.player
  BY <1>3, <1>4 DEF AppShape
<1>6. /\ app'[d] = a
      /\ \A e \in Devices : e # d => app'[e] = app[e] /\ reported'[e] = reported[e]
      /\ reported'[d] = reported[d]
  BY <1>2, <1>4
<1> DEFINE go == [Idle EXCEPT !.step = "finalize", !.fin = {c} \cap Prepares,
                              !.state = done.player]
           tell == [go EXCEPT !.next = "recordState"]
<1>7. /\ go.step = "finalize" /\ go.next = "idle" /\ tell.step = "finalize"
      /\ tell.next = "recordState" /\ tell.state = done.player
  BY DEF Idle
<1>8. /\ proc' = [proc EXCEPT ![d] = tell] \/ proc' = [proc EXCEPT ![d] = go] \/ proc' = proc
      /\ st = "succeeded" => proc' = [proc EXCEPT ![d] = tell]
  <2>1. c \in app[d].running => Open(d, c) /\ c \notin lapsed
    BY DEF Undisturbed
  <2>2. st = "succeeded" => Open(d, c) /\ c \notin lapsed
    BY <2>1 DEF AnswerCommand
  <2>3. proc' = [proc EXCEPT ![d] =
                   IF (Open(d, c) /\ c \notin lapsed) \/ commands[c].row[d] = st THEN tell
                   ELSE IF Open(d, c) THEN go ELSE proc[d]]
    BY <1>2 DEF RecordResult
  <2> HIDE DEF go, tell
  <2>4. QED
    BY <1>2, <2>2, <2>3
<1> HIDE DEF go, tell
<1>9. /\ proc'[d] \in ProcShape /\ proc' = [proc EXCEPT ![d] = proc'[d]]
      /\ proc'[d] = tell \/ proc'[d] = go \/ proc'[d] = proc[d]
      /\ st = "succeeded" => proc'[d] = tell
  BY <1>2, <1>8
<1>10. proc'[d].step \in {"idle", "finalize"}
  BY <1>2, <1>7, <1>9 DEF MayStart
<1>11. Reconciling(proc[d])'
  BY <1>10 DEF Reconciling
<1>12. app'[d].session # 0 => app'[d].player # [status |-> "idle", dep |-> app'[d].session]
  BY <1>3, <1>5, <1>6
<1>13. Shown(d)'
  <2>1. CASE proc'[d] = tell
    <3>1. proc'[d].state = app'[d].player /\ Telling(proc[d])'
      BY <1>5, <1>6, <1>7, <2>1 DEF Telling, Finalizing
    <3>2. QED
      BY <1>12, <3>1, Zenon DEF Shown
  <2>2. CASE proc'[d] # tell
    <3>1. ~Telling(proc[d])' /\ ~Telling(proc[d])
      BY <1>2, <1>7, <1>9, <2>2 DEF Telling, Finalizing, MayStart
    <3>2. app'[d].session = app[d].session
      BY <1>3, <1>5, <1>6, <1>9, <2>2
    <3>3. Shown(d)
      BY DEF ExitInv
    <3>4. QED
      BY <1>6, <1>12, <3>1, <3>2, <3>3, Zenon DEF Shown
  <2>3. QED
    BY <2>1, <2>2
<1>14. QED
  BY <1>2, <1>6, <1>9, <1>11, <1>13, StartedKeepsExitInv

\* The app starts a command, its window is closed, or it is restarted.
LEMMA AppsKeepExitInv ==
  ASSUME ExitInv, LifecycleInv, NEW d \in Devices,
         (\E c \in Ids : BeginCommand(d, c)) \/ PlayerExits(d) \/ Restart(d)
  PROVE  ExitInv'
<1>1. UNCHANGED <<commands, proc, reported>> /\ app \in [Devices -> AppShape]
  BY DEF BeginCommand, PlayerExits, Restart, LifecycleInv, AppsOK
<1>2. \E a : /\ app' = [app EXCEPT ![d] = a]
             /\ a.session = 0 \/ (a.session = app[d].session /\ a.player = app[d].player)
  <2>1. app[d] \in AppShape /\ Started.session = 0
    BY <1>1 DEF Started
  <2>2. Closed(d, app[d].session).session = 0
    BY <2>1 DEF Closed, AppShape
  <2>3. CASE PlayerExits(d) \/ Restart(d)
    BY <2>1, <2>2, <2>3 DEF PlayerExits, Restart
  <2>4. CASE \E c \in Ids : BeginCommand(d, c)
    <3>1. PICK c, now : /\ now = Closed(d, app[d].session) \/ now = app[d]
                        /\ app' = [app EXCEPT ![d] = [now EXCEPT !.running = now.running \cup {c}]]
      BY <2>4 DEF BeginCommand
    <3>2. [now EXCEPT !.running = now.running \cup {c}].session = now.session
          /\ [now EXCEPT !.running = now.running \cup {c}].player = now.player
      BY <2>1, <3>1 DEF Closed, AppShape
    <3>3. QED
      BY <2>2, <3>1, <3>2
  <2>5. QED
    BY <2>3, <2>4
<1>3. ASSUME NEW e \in Devices PROVE Shown(e)' /\ Reconciling(proc[e])'
  <2>1. Shown(e) /\ Reconciling(proc[e])
    BY DEF ExitInv
  <2>2. app'[e].session = 0 \/ (app'[e].session = app[e].session /\ app'[e].player = app[e].player)
    BY <1>1, <1>2
  <2>3. Shown(e)'
    BY <1>1, <2>1, <2>2, StillShown DEF Telling
  <2>4. Reconciling(proc[e])'
    BY <1>1, <2>1, SameReading
  <2>5. QED
    BY <2>3, <2>4
<1>4. QED
  BY <1>3 DEF ExitInv

\* Time passes, and transactions on the exam change nothing the devices play.
LEMMA StillKeepsExitInv ==
  ASSUME ExitInv, UNCHANGED <<commands, proc, reported, app>>
  PROVE  ExitInv'
<1>1. ASSUME NEW d \in Devices PROVE Shown(d)' /\ Reconciling(proc[d])'
  <2>1. Shown(d) /\ Reconciling(proc[d])
    BY DEF ExitInv
  <2>2. Shown(d)'
    BY <2>1, StillShown DEF Telling
  <2>3. QED
    BY <2>1, <2>2, SameReading
<1>2. QED
  BY <1>1 DEF ExitInv

LEMMA NextKeepsExitInv ==
  ASSUME OneAtATime, LifecycleInv, LifecycleInv', SequentialInv, SequentialInv',
         Undisturbed, ExitInv, Next
  PROVE  ExitInv'
<1>1. CASE \E p \in Procs : Handler(p)
  BY <1>1, FinalizeKeepsExitInv, RequestsKeepExitInv, RecordKeepsExitInv, ReconcileKeepsExitInv
     DEF Handler
<1>2. CASE \/ \E p \in Admins : PrepareRead(p)
           \/ \E p \in Admins, c \in Ids : Read(p, c) \/ ActivateStart(p, c) \/ StopStart(p, c)
  BY <1>2, RequestsKeepExitInv
<1>3. CASE createVersion \/ updateTargets \/ remove \/ \E c \in Ids : Lapse(c)
  <2>1. UNCHANGED <<commands, proc, reported, app>>
    BY <1>3 DEF createVersion, updateTargets, remove, Lapse, devices
  <2>2. QED
    BY <2>1, StillKeepsExitInv
<1>4. CASE \E d \in Devices, c \in Ids :
             \/ BeginCommand(d, c)
             \/ \E st \in {"succeeded", "failed"} : AnswerCommand(d, c, st)
             \/ CapabilityRejected(d, c)
  BY <1>4, AppsKeepExitInv, AnswerKeepsExitInv, RejectionKeepsExitInv
<1>5. CASE \E d \in Devices : RepeatResult(d) \/ PlayerExits(d) \/ Restart(d) \/ Heartbeat(d)
  <2>1. \A d \in Devices : ~RepeatResult(d)
    BY DEF Undisturbed, RepeatResult
  <2>2. QED
    BY <1>5, <2>1, AppsKeepExitInv, HeartbeatKeepsExitInv
<1>6. QED
  BY <1>1, <1>2, <1>3, <1>4, <1>5 DEF Next

LEMMA InitShowsExits == Init => ExitInv
<1> SUFFICES ASSUME Init PROVE ExitInv
  OBVIOUS
<1>1. ASSUME NEW d \in Devices PROVE Shown(d) /\ Reconciling(proc[d])
  <2>1. app[d].session = 0 /\ proc[d] = Idle
    BY DEF Init, Started, Procs
  <2>2. QED
    BY <2>1, IdleTellsNothing DEF Shown
<1>2. QED
  BY <1>1 DEF ExitInv

\* When a reconciliation is about to complete the exam, nobody who activated it plays it.
LEMMA NobodyPlaysOn ==
  ASSUME LifecycleInv, SequentialInv, ExitInv, NEW d \in Devices,
         proc[d].step = "reconcileMark",
         NEW e \in Succeeded(latestActivationForDeployment(proc[d].cmd))
  PROVE  app[e].session # proc[d].cmd
<1>1. e \in Devices /\ d \in Procs /\ e \in Procs
  BY DEF Succeeded, Procs
<1>2. proc[d].cmd # 0
  <2>1. Knows(proc[d])
    BY <1>1 DEF LifecycleInv, ProcsOK
  <2>2. proc[d].cmd \in Prepares
    BY <2>1 DEF Knows, DeploymentSteps
  <2>3. QED
    BY <2>2 DEF Prepares, Ids, LifecycleInv, CommandsOK
<1>3. reported[e] = [status |-> "idle", dep |-> proc[d].cmd]
  BY DEF ExitInv, Reconciling, AllExited
<1>4. ~Telling(proc[e])
  <2>1. CASE e = d
    BY <2>1 DEF Telling, Finalizing
  <2>2. CASE e # d
    BY <1>1, <2>2, IdleTellsNothing DEF SequentialInv, Others
  <2>3. QED
    BY <2>1, <2>2
<1>5. Shown(e)
  BY <1>1 DEF ExitInv
<1>6. QED
  BY <1>2, <1>3, <1>4, <1>5 DEF Shown

\* While no two handlers overlap and no command is closed or expires while its device
\* executes it, reconcileDeviceState completes an exam only after every client that
\* activated it has exited: what the database says of a device that plays is not older
\* than its last start, whatever is refused, expires and is restarted.
THEOREM CompletionFollowsExits ==
  OneAtATime => (Spec /\ []Undisturbed => CompletedOnlyAfterExit)
<1> SUFFICES ASSUME OneAtATime PROVE Spec /\ []Undisturbed => CompletedOnlyAfterExit
  OBVIOUS
<1>1. LifecycleInv /\ LifecycleInv' /\ SequentialInv /\ [Next]_vars => SequentialInv'
  BY NextKeepsSequentialInv, StillKeepsInv DEF vars
<1>2. LifecycleInv /\ LifecycleInv' /\ SequentialInv /\ SequentialInv' /\ Undisturbed
        /\ ExitInv /\ [Next]_vars => ExitInv'
  BY NextKeepsExitInv, StillKeepsExitInv DEF vars
<1>3. LifecycleInv /\ SequentialInv /\ ExitInv =>
        \A d \in Devices :
          proc[d].step = "reconcileMark" /\ proc'[d].step = "idle" =>
            \A e \in Succeeded(latestActivationForDeployment(proc[d].cmd)) :
              app[e].session # proc[d].cmd
  BY NobodyPlaysOn
<1>4. QED
  BY <1>1, <1>2, <1>3, InvAlways, InitIsSequential, InitShowsExits, PTL
     DEF Spec, CompletedOnlyAfterExit

\* Without mishaps nothing expires, and no handler is disturbed.
Calm == lapsed = {} /\ Undisturbed

LEMMA NoMoreMishaps ==
  ASSUME LifecycleInv, Calm, MaxMishaps = 0
  PROVE  ~(Mishaps < MaxMishaps)
<1>1. Cardinality(lapsed) = 0
  BY FS_EmptySet DEF Calm
<1>2. spent.failures \in Nat /\ spent.repeats \in Nat /\ spent.restarts \in Nat
  BY DEF LifecycleInv, RestOK
<1>3. QED
  BY <1>1, <1>2 DEF Mishaps

\* The commands there are keep their rows, and the apps what they run.
LEMMA CalmStays ==
  ASSUME LifecycleInv, Calm, UNCHANGED lapsed,
         \A c \in Ids : commands'[c].row = commands[c].row,
         \A d \in Devices : app'[d].running = app[d].running /\ app'[d].unaccepted = app[d].unaccepted
  PROVE  Calm'
<1>1. \A d \in Devices : app[d].running \subseteq Ids
  BY DEF LifecycleInv, AppsOK, Plays
<1>2. QED
  BY <1>1 DEF Calm, Undisturbed, Open

\* Reading a command when nothing has expired changes no row.
LEMMA NothingSwept ==
  ASSUME LifecycleInv, Calm, commands' = Swept
  PROVE  \A c \in Ids : commands'[c].row = commands[c].row
BY DEF Calm, Swept

LEMMA OldRowsStay ==
  ASSUME LifecycleInv, NEW kind, NEW dep, NEW of, NEW asOf, NEW targets,
         commands' = Issued(kind, dep, of, asOf, targets)
  PROVE  \A c \in Ids : commands'[c].row = commands[c].row
<1>1. commands \in Seq(CommandShape) /\ Ids = 1..Len(commands)
  BY DEF LifecycleInv, CommandsOK, Ids
<1>2. PICK new : commands' = Append(commands, new)
  BY DEF Issued
<1>3. \A c \in Ids : commands'[c] = commands[c]
  BY <1>1, <1>2
<1>4. QED
  BY <1>3

LEMMA AnswerKeepsCalm ==
  ASSUME LifecycleInv, Calm, MaxMishaps = 0, NEW d \in Devices, NEW c \in Ids,
         NEW st \in {"succeeded", "failed"}, AnswerCommand(d, c, st)
  PROVE  Calm'
<1>1. /\ app \in [Devices -> AppShape] /\ app[d].running \subseteq Ids
      /\ commands \in Seq(CommandShape) /\ Ids = 1..Len(commands)
      /\ \A e \in Devices : app[e].running \subseteq Ids
  BY DEF LifecycleInv, AppsOK, Plays, CommandsOK, Ids
<1>2. PICK done : done = IF st = "succeeded" THEN Executed(d, c) ELSE FailedToExecute(d, c)
  OBVIOUS
<1>3. app' = [app EXCEPT ![d] = [done EXCEPT !.running = done.running \ {c}]]
  BY <1>2, NoMoreMishaps DEF AnswerCommand
<1>4. UNCHANGED lapsed /\ (commands' = commands \/ \E x : commands' = [commands EXCEPT ![c].row[d] = x])
  BY DEF AnswerCommand, RecordResult
<1>5. done \in AppShape /\ done.running = app[d].running /\ done.unaccepted = app[d].unaccepted
  <2>1. done = Executed(d, c) \/ done = FailedToExecute(d, c)
    BY <1>2
  <2>2. QED
    BY <2>1, SaysWhatItPlays
<1>6. /\ app'[d].running = app[d].running \ {c} /\ app'[d].unaccepted = app[d].unaccepted
      /\ \A e \in Devices : e # d => app'[e] = app[e]
  BY <1>1, <1>3, <1>5 DEF AppShape
<1>8. \A e \in Devices, k \in Ids : e # d \/ k # c => commands'[k].row[e] = commands[k].row[e]
  <2>1. CASE commands' = commands
    BY <2>1
  <2>2. CASE commands' # commands
    <3>1. PICK x : commands' = [commands EXCEPT ![c].row[d] = x]
      BY <1>4, <2>2
    <3>2. commands[c] \in CommandShape /\ c \in DOMAIN commands
      BY <1>1
    <3>3. /\ commands'[c] = [commands[c] EXCEPT !.row[d] = x]
          /\ \A k \in Ids : k # c => commands'[k] = commands[k]
      BY <1>1, <3>1, <3>2
    <3>4. \A e \in Devices : e # d => commands'[c].row[e] = commands[c].row[e]
      BY <3>2, <3>3 DEF CommandShape
    <3>5. QED
      BY <3>3, <3>4
  <2>3. QED
    BY <2>1, <2>2
<1>9. ASSUME NEW e \in Devices
      PROVE  /\ \A k \in app'[e].running : commands'[k].row[e] = "open" /\ k \notin lapsed'
             /\ app'[e].unaccepted = {}
  <2>1. app'[e].running \subseteq app[e].running /\ app'[e].unaccepted = app[e].unaccepted
        /\ (e = d => c \notin app'[e].running)
    BY <1>6
  <2>2. QED
    BY <1>1, <1>4, <1>8, <2>1 DEF Calm, Undisturbed, Open
<1>10. QED
  BY <1>4, <1>9 DEF Calm, Undisturbed, Open

LEMMA ClosedShape ==
  ASSUME NEW d \in Devices, app[d] \in AppShape
  PROVE  Closed(d, app[d].session) \in AppShape
<1>1. app[d].session \in Nat
  BY DEF AppShape
<1>2. PICK s \in PlayerState : s = [status |-> "idle", dep |-> app[d].session]
  BY <1>1 DEF PlayerState
<1>3. PICK q : q = app[d].prepared \ {app[d].session}
  OBVIOUS
<1>4. Closed(d, app[d].session) = [app[d] EXCEPT !.session = 0, !.prepared = q, !.player = s]
  BY <1>2, <1>3 DEF Closed
<1>5. q \in SUBSET Nat
  BY <1>3 DEF AppShape
<1>6. [app[d] EXCEPT !.session = 0, !.prepared = q, !.player = s] \in AppShape
  BY <1>2, <1>5 DEF AppShape
<1>7. QED
  BY <1>4, <1>6

LEMMA AppsKeepCalm ==
  ASSUME LifecycleInv, Calm, NEW d \in Devices,
         (\E c \in Ids : BeginCommand(d, c)) \/ PlayerExits(d)
  PROVE  Calm'
<1>1. UNCHANGED <<commands, lapsed>> /\ app \in [Devices -> AppShape]
  BY DEF BeginCommand, PlayerExits, LifecycleInv, AppsOK
<1>2. PICK new, now : /\ now = app[d] \/ now = Closed(d, app[d].session)
                      /\ new \subseteq Ids
                      /\ \A c \in new : Open(d, c) /\ c \notin lapsed
                      /\ app' = [app EXCEPT ![d] = [now EXCEPT !.running = now.running \cup new]]
  <2>1. CASE PlayerExits(d)
    <3>1. PICK now : now = Closed(d, app[d].session) /\ app' = [app EXCEPT ![d] = now]
      BY <2>1 DEF PlayerExits
    <3>2. now.running = app[d].running /\ now \in AppShape
      <4>1. app[d] \in AppShape /\ Closed(d, app[d].session) \in AppShape
        BY <1>1, ClosedShape
      <4>2. QED
        BY <3>1, <4>1 DEF Closed, AppShape
    <3>3. now = [now EXCEPT !.running = now.running \cup {}]
      BY <3>2 DEF AppShape
    <3>4. QED
      BY <3>1, <3>3
  <2>2. CASE \E c \in Ids : BeginCommand(d, c)
    <3>1. PICK c \in Ids : BeginCommand(d, c)
      BY <2>2
    <3>2. Open(d, c) /\ c \notin lapsed /\ {c} \subseteq Ids
      BY <3>1 DEF BeginCommand
    <3>3. PICK now : /\ now = app[d] \/ now = Closed(d, app[d].session)
                     /\ app' = [app EXCEPT ![d] = [now EXCEPT !.running = now.running \cup {c}]]
      BY <3>1 DEF BeginCommand
    <3>4. QED
      BY <3>2, <3>3
  <2>3. QED
    BY <2>1, <2>2
<1>3. now.running = app[d].running /\ now.unaccepted = app[d].unaccepted
      /\ "running" \in DOMAIN now /\ "unaccepted" \in DOMAIN now
  BY <1>1, <1>2 DEF Closed, AppShape
<1>4. /\ app'[d].running = app[d].running \cup new /\ app'[d].unaccepted = app[d].unaccepted
      /\ \A e \in Devices : e # d => app'[e] = app[e]
  BY <1>1, <1>2, <1>3
<1>5. QED
  BY <1>1, <1>2, <1>4 DEF Calm, Undisturbed, Open

LEMMA NextKeepsCalm ==
  ASSUME LifecycleInv, Calm, MaxMishaps = 0, Next
  PROVE  Calm'
<1>1. ~(Mishaps < MaxMishaps)
  BY NoMoreMishaps
<1>2. ASSUME UNCHANGED <<commands, lapsed, app>> PROVE Calm'
  BY <1>2, CalmStays
<1>3. ASSUME UNCHANGED <<lapsed, app>>, commands' = Swept PROVE Calm'
  BY <1>3, NothingSwept, CalmStays
<1>4. ASSUME UNCHANGED <<lapsed, app>>, NEW kind, NEW dep, NEW of, NEW asOf, NEW targets,
             commands' = Issued(kind, dep, of, asOf, targets)
      PROVE  Calm'
  BY <1>4, OldRowsStay, CalmStays
<1>5. ASSUME NEW p \in Procs, Finalize(p) PROVE Calm'
  BY <1>2, <1>5 DEF Finalize, FinalizeLatest, FinalizeStatus, FinalizeTargets, FinalizeMark,
     FinalizeEnd, devices
<1>6. ASSUME NEW p \in Admins, Request(p) PROVE Calm'
  <2>1. CASE PrepareIssue(p)
    BY <1>4, <2>1 DEF PrepareIssue, devices
  <2>2. CASE ActivateIssue(p) \/ StopIssue(p)
    BY <1>4, <2>2 DEF ActivateIssue, StopIssue, devices
  <2>3. QED
    BY <1>2, <1>6, <2>1, <2>2 DEF Request, PrepareMark, PrepareRefused, PrepareRestore,
       ActivateRead, ActivateTargets, ActivateMark, StopMark, IssueRefused, devices
<1>7. ASSUME NEW d \in Devices, RecordState(d) \/ Reconcile(d) PROVE Calm'
  BY <1>2, <1>3, <1>7 DEF RecordState, Reconcile, ReconcileGet, Get, ReconcileRead,
     ReconcileActivation, ReconcileTargets, ReconcileDevices, ReconcileMark, devices
<1>8. ASSUME NEW p \in Admins,
             PrepareRead(p) \/ \E c \in Ids : Read(p, c) \/ ActivateStart(p, c) \/ StopStart(p, c)
      PROVE  Calm'
  BY <1>2, <1>3, <1>8 DEF PrepareRead, Read, ActivateStart, StopStart, Get, devices
<1>9. CASE createVersion \/ updateTargets \/ remove \/ \E c \in Ids : Lapse(c)
  BY <1>1, <1>2, <1>9 DEF createVersion, updateTargets, remove, Lapse, devices
<1>10. ASSUME NEW d \in Devices PROVE ~RepeatResult(d) /\ ~Restart(d)
  BY <1>1 DEF Calm, Undisturbed, RepeatResult, Restart
<1>11. ASSUME NEW d \in Devices, NEW c \in Ids PROVE ~CapabilityRejected(d, c)
  BY <1>1 DEF CapabilityRejected
<1>12. ASSUME NEW d \in Devices, Heartbeat(d) PROVE Calm'
  BY <1>2, <1>12 DEF Heartbeat
<1>13. CASE \E p \in Procs : Handler(p)
  BY <1>5, <1>6, <1>7, <1>13 DEF Handler
<1>14. CASE \/ \E p \in Admins : PrepareRead(p)
            \/ \E p \in Admins, c \in Ids : Read(p, c) \/ ActivateStart(p, c) \/ StopStart(p, c)
  BY <1>8, <1>14
<1>15. CASE \E d \in Devices, c \in Ids :
              \/ BeginCommand(d, c)
              \/ \E st \in {"succeeded", "failed"} : AnswerCommand(d, c, st)
              \/ CapabilityRejected(d, c)
  BY <1>11, <1>15, AnswerKeepsCalm, AppsKeepCalm
<1>16. CASE \E d \in Devices : RepeatResult(d) \/ PlayerExits(d) \/ Restart(d) \/ Heartbeat(d)
  BY <1>10, <1>12, <1>16, AppsKeepCalm
<1>17. QED
  BY <1>9, <1>13, <1>14, <1>15, <1>16 DEF Next

\* With one handler at a time, and nothing refused, repeated, restarted or expired, an exam
\* is completed only after every client that activated it has exited, for any number of
\* devices, deployments, activations and versions.
THEOREM WithoutMishapsExitsComeFirst ==
  OneAtATime /\ MaxMishaps = 0 => (Spec => CompletedOnlyAfterExit)
<1> SUFFICES ASSUME OneAtATime, MaxMishaps = 0 PROVE Spec => CompletedOnlyAfterExit
  OBVIOUS
<1>1. Init => Calm
  BY DEF Init, Calm, Undisturbed, Started
<1>2. LifecycleInv /\ Calm /\ UNCHANGED vars => Calm'
  BY CalmStays DEF vars
<1>3. LifecycleInv /\ Calm /\ [Next]_vars => Calm'
  BY <1>2, NextKeepsCalm
<1>4. Calm => Undisturbed
  BY DEF Calm
<1>5. Spec => []Undisturbed
  BY <1>1, <1>3, <1>4, InvAlways, PTL DEF Spec
<1>6. Spec /\ []Undisturbed => CompletedOnlyAfterExit
  BY CompletionFollowsExits
<1>7. QED
  BY <1>5, <1>6, PTL
=============================================================================
