-------------------------- MODULE PluginHostProofs --------------------------
(***************************************************************************)
(* Proofs about the plugin host (PluginHost): statuses, services and        *)
(* registrations are those of the code that runs, and an uninstallation      *)
(* stops the plugins that need a service before the one that provides it.    *)
(*                                                                         *)
(* Every action of PluginHost makes of the record Host what a composition of *)
(* helpers says, so the invariant, HostInv, is a predicate on such a record. *)
(* A step takes the plugins it changes in hand (Held: everything holds but   *)
(* what is said of them), each helper keeps that, and the step ends by       *)
(* letting go of them where the invariant wants them (Released, EndKeeps).   *)
(***************************************************************************)
EXTENDS PluginHost, TLAPS
-----------------------------------------------------------------------------
(* The invariant, as a predicate on the record Host and on what the helpers *)
(* of PluginHost make of it.                                                 *)

LiveStates == {"activating", "up", "stopping"}
RunStates == LiveStates \union {"down", "failed"}
Pcs == {"saving", "scanning", "loaded", "unloaded", "removing", "importing", "activating",
        "disposing", "done"}

ObjectShape == [enabled : BOOLEAN, status : Statuses, group : Nat, disposer : Nat]
GroupShape == [disposed : BOOLEAN, holds : BOOLEAN]
RunShape == [state : RunStates, provided : BOOLEAN]
PluginShape == [record : Nat, objects : Seq(ObjectShape), groups : Seq(GroupShape),
                runs : Seq(RunShape), provider : Nat, installed : BOOLEAN, disabled : BOOLEAN]
TaskShape ==
    [op : {"enable", "disable", "reload", "uninstall", "install"}, plugin : Plugins,
     on : SUBSET Plugins, rest : SUBSET Plugins, pc : Pcs \union {"begun"},
     held : Nat, cur : Plugins, obj : Nat, run : Nat]
HostShape == [plugins : [Plugins -> PluginShape], tasks : Seq(TaskShape),
              disturbed : SUBSET Plugins]

\* What follows is about the state s of a plugin: its current record, the runs
\* that are alive, and the indices of its records.
Current(s) == s.objects[s.record]
LiveIn(s) == {i \in DOMAIN s.runs : s.runs[i].state \in LiveStates}
InBounds(s) ==
    /\ s.record \in 0..Len(s.objects) /\ s.provider \in 0..Len(s.runs)
    /\ \A o \in 1..Len(s.objects) : /\ s.objects[o].group \in 1..Len(s.groups)
                                    /\ s.objects[o].disposer \in 0..Len(s.runs)

\* What definePlugin made offers a service only while its run, which has
\* provided it, is alive.
Offered(p, s) ==
    p \notin Legacy /\ s.provider # 0 => /\ s.provider \in LiveIn(s)
                                         /\ s.runs[s.provider].provided

\* Only the group of the current record holds anything, and it is not disposed
\* of; the record is enabled as the preferences say.
Tidy(s) ==
    /\ \A g \in 1..Len(s.groups) :
          s.groups[g].holds => s.record # 0 /\ Current(s).group = g
    /\ s.record # 0 => /\ ~s.groups[Current(s).group].disposed
                       /\ Current(s).enabled = ~s.disabled

\* The status of the current record says what runs.
Told(s) ==
    LET r == Current(s) IN
    /\ r.status # "loading"
    /\ IF r.status = "active"
       THEN r.disposer # 0 /\ LiveIn(s) = {r.disposer} /\ s.runs[r.disposer].state = "up"
       ELSE r.disposer = 0 /\ LiveIn(s) = {}
    /\ r.status \in {"idle", "disabled"} => s.provider = 0 /\ ~s.groups[r.group].holds

\* The plugin is at rest, and at rest with nothing to stop or to release.
Rest(s) ==
    /\ Tidy(s)
    /\ s.record = 0 => LiveIn(s) = {} /\ s.provider = 0
    /\ s.record # 0 => Told(s) /\ (~Current(s).enabled => Current(s).status = "disabled")
Emptied(s) == Rest(s) /\ (s.record # 0 => Current(s).status \in {"idle", "disabled"})

\* Where the plugin stands while task k, and no other, works on it.
Saving(k, s) ==
    /\ Tidy(s) /\ Told(s) /\ s.record # 0 /\ k.held = s.record
    /\ Current(s).enabled = (k.op = "enable")
    /\ k.op = "enable" => Current(s).status # "active"
Starting(k, s, live) ==
    /\ Tidy(s) /\ s.record # 0 /\ k.obj = s.record /\ LiveIn(s) = live
    /\ Current(s).enabled /\ Current(s).status = "loading" /\ Current(s).disposer = 0
Stopping(k, s) ==
    Tidy(s) /\ s.record # 0 /\ k.obj = s.record /\ k.run # 0 /\ LiveIn(s) = {k.run}
\* Another plugin of an uninstallation, or one that it is not unloading.
Waits(k, q, s) == Rest(s) /\ (k.pc = "removing" \/ q \notin k.rest => Emptied(s))

InPhase(k, q, s) ==
    IF k.op = "uninstall" /\ ~(k.pc = "disposing" /\ q = k.cur) THEN Waits(k, q, s)
    ELSE /\ k.pc = "saving" => Saving(k, s)
         /\ k.pc = "importing" => Starting(k, s, {})
         /\ k.pc = "activating" => Starting(k, s, {k.run})
         /\ k.pc = "disposing" => Stopping(k, s)

\* The phases of each call, and the plugins it works on in each.
Placed(k) ==
    /\ k.pc \in Pcs
    /\ k.pc = "saving" => k.op \in {"enable", "disable"}
    /\ k.pc \in {"scanning", "loaded"} => k.op = "install" /\ k.on = {}
    /\ k.pc \in {"unloaded", "removing"} => k.op = "uninstall" /\ k.rest \subseteq k.on
    /\ k.pc \in {"importing", "activating"} => k.op \in {"enable", "reload", "install"}
    /\ k.pc = "disposing" => /\ k.op \in {"disable", "reload", "uninstall"} /\ k.cur \in k.on
                             /\ k.op = "uninstall" => k.rest \subseteq k.on \ {k.cur}
    /\ k.pc \in {"saving", "importing", "activating", "disposing"} /\ k.op # "uninstall"
          => k.on = {k.cur} /\ (k.op # "install" => k.cur = k.plugin)

Owned(k) == IF k.pc \in {"activating", "disposing"} /\ k.run # 0
            THEN {<<k.cur, k.run>>} ELSE {}

\* The records and runs a task refers to are there, and the run is in the state
\* the task has left it in.
Refers(h, k) ==
    /\ k.held \in 0..Len(h.plugins[k.plugin].objects)
    /\ k.pc # "done" /\ k.op \in {"enable", "disable"} => k.held # 0
    /\ k.pc \in {"importing", "activating", "disposing"} =>
          k.obj \in 1..Len(h.plugins[k.cur].objects)
    /\ k.pc = "activating" => k.run \in 1..Len(h.plugins[k.cur].runs)
    /\ k.pc = "disposing" => k.run \in 0..Len(h.plugins[k.cur].runs)
    /\ Owned(k) # {} => h.plugins[k.cur].runs[k.run].state =
                           IF k.pc = "activating" THEN "activating" ELSE "stopping"

Works(h, t, p) == p \in WorkedOn(h, t)

\* A plugin nobody has disturbed: one task at most works on it, and it stands
\* where that task has brought it.
Calm(h, p) ==
    /\ \A t, u \in 1..Len(h.tasks) : Works(h, t, p) /\ Works(h, u, p) => t = u
    /\ (\A t \in 1..Len(h.tasks) : ~Works(h, t, p)) => Rest(h.plugins[p])
    /\ \A t \in 1..Len(h.tasks) : Works(h, t, p) => InPhase(h.tasks[t], p, h.plugins[p])

HostInv(h) ==
    /\ h \in HostShape
    /\ \A p \in Plugins : InBounds(h.plugins[p]) /\ Offered(p, h.plugins[p])
    /\ \A t \in 1..Len(h.tasks) : Placed(h.tasks[t]) /\ Refers(h, h.tasks[t])
    /\ \A t, u \in 1..Len(h.tasks) :
          t # u => Owned(h.tasks[t]) \intersect Owned(h.tasks[u]) = {}
    /\ \A p \in Plugins \ h.disturbed : Calm(h, p)

\* Task t has the plugins P in hand: all that the invariant says of the other
\* tasks and of the other plugins holds.
Elsewhere(h, t, P, p) ==
    LET others == 1..Len(h.tasks) \ {t} IN
    /\ \A u, v \in others : Works(h, u, p) /\ Works(h, v, p) => u = v
    /\ p \in h.tasks[t].on => \A u \in others : ~Works(h, u, p)
    /\ p \notin h.tasks[t].on /\ (\A u \in others : ~Works(h, u, p)) => Rest(h.plugins[p])
    /\ \A u \in others : Works(h, u, p) => InPhase(h.tasks[u], p, h.plugins[p])
    /\ p \in h.tasks[t].on \ P => Waits(h.tasks[t], p, h.plugins[p])

Held(h, t, P) ==
    /\ h \in HostShape /\ t \in 1..Len(h.tasks) /\ P \subseteq h.tasks[t].on
    /\ \A p \in Plugins : InBounds(h.plugins[p]) /\ Offered(p, h.plugins[p])
    /\ \A u \in 1..Len(h.tasks) \ {t} : Placed(h.tasks[u]) /\ Refers(h, h.tasks[u])
    /\ \A u, v \in 1..Len(h.tasks) \ {t} :
          u # v => Owned(h.tasks[u]) \intersect Owned(h.tasks[v]) = {}
    /\ h.tasks[t].held \in 0..Len(h.plugins[h.tasks[t].plugin].objects)
    /\ h.tasks[t].op \in {"enable", "disable"} => h.tasks[t].held # 0
    /\ \A p \in Plugins \ h.disturbed : Elsewhere(h, t, P, p)

PutPlugin(h, p, s) == [h EXCEPT !.plugins[p] = s]
PutTask(h, t, k) == [h EXCEPT !.tasks[t] = k]

-----------------------------------------------------------------------------
(* A task takes plugins in hand, changes them, and lets go of them.          *)

\* Lemma: the sequences of a plugin have lengths.
LEMMA Lengths ==
    ASSUME NEW s \in PluginShape
    PROVE  Len(s.objects) \in Nat /\ Len(s.groups) \in Nat /\ Len(s.runs) \in Nat
<1>1. /\ s.objects \in Seq(ObjectShape) /\ s.groups \in Seq(GroupShape)
      /\ s.runs \in Seq(RunShape)
  BY DEF PluginShape
<1> QED BY <1>1

\* Lemma: the indices below a bound are below a larger one.
LEMMA Ranges ==
    ASSUME NEW m \in Nat, NEW n \in Nat, n >= m
    PROVE  0..m \subseteq 0..n /\ 1..m \subseteq 1..n
OBVIOUS

\* Lemma: what the two ways to change the record are, part by part.
LEMMA PutPluginParts ==
    ASSUME NEW h \in HostShape, NEW p \in Plugins, NEW s \in PluginShape
    PROVE  LET g == PutPlugin(h, p, s) IN
           /\ g \in HostShape /\ g.tasks = h.tasks /\ g.disturbed = h.disturbed
           /\ g.plugins[p] = s /\ \A q \in Plugins \ {p} : g.plugins[q] = h.plugins[q]
<1> DEFINE g == PutPlugin(h, p, s)
<1>1. g = [plugins |-> [h.plugins EXCEPT ![p] = s], tasks |-> h.tasks, disturbed |-> h.disturbed]
  BY DEF PutPlugin, HostShape
<1>2. h.plugins \in [Plugins -> PluginShape] BY DEF HostShape
<1>3. [h.plugins EXCEPT ![p] = s] \in [Plugins -> PluginShape] BY <1>2
<1>4. g \in HostShape BY <1>1, <1>3 DEF HostShape
<1> QED BY <1>1, <1>2, <1>4

\* Lemma: a task of the record is put in its place.
LEMMA PutTaskParts ==
    ASSUME NEW h \in HostShape, NEW t \in 1..Len(h.tasks), NEW k \in TaskShape
    PROVE  LET g == PutTask(h, t, k) IN
           /\ g \in HostShape /\ g.plugins = h.plugins /\ g.disturbed = h.disturbed
           /\ Len(g.tasks) = Len(h.tasks) /\ g.tasks[t] = k
           /\ \A u \in 1..Len(h.tasks) \ {t} : g.tasks[u] = h.tasks[u]
<1> DEFINE F == [Plugins -> PluginShape]
           D == SUBSET Plugins
           w == [h.tasks EXCEPT ![t] = k]
<1>1. HostShape = [plugins : F, tasks : Seq(TaskShape), disturbed : D] BY DEF HostShape
<1> HIDE DEF F, D
<1>2. PutTask(h, t, k) = [plugins |-> h.plugins, tasks |-> w, disturbed |-> h.disturbed]
  BY <1>1, SMTT(30) DEF PutTask
<1>3. h.plugins \in F /\ h.tasks \in Seq(TaskShape) /\ h.disturbed \in D BY <1>1
<1>4. /\ w \in Seq(TaskShape) /\ Len(w) = Len(h.tasks) /\ w[t] = k
      /\ \A u \in 1..Len(h.tasks) \ {t} : w[u] = h.tasks[u]
  BY <1>3
<1> HIDE DEF w
<1>5. PutTask(h, t, k) \in HostShape BY <1>1, <1>2, <1>3, <1>4
<1> QED BY <1>2, <1>4, <1>5

\* Lemma: MarkDisturbed changes nothing but the disturbed plugins.
LEMMA MarkParts ==
    ASSUME NEW h \in HostShape, NEW S \in SUBSET Plugins
    PROVE  LET g == MarkDisturbed(h, S) IN
           /\ g \in HostShape /\ g.plugins = h.plugins /\ g.tasks = h.tasks
           /\ g.disturbed = h.disturbed \union S
BY DEF MarkDisturbed, HostShape

\* Lemma: a task may take its plugins in hand; an uninstallation, any of them.
LEMMA TakenInHand ==
    ASSUME NEW h, HostInv(h), NEW t \in 1..Len(h.tasks), h.tasks[t].pc # "done",
           NEW P, P \subseteq h.tasks[t].on,
           \/ h.tasks[t].on \subseteq P
           \/ h.tasks[t].op = "uninstall" /\ (h.tasks[t].pc = "disposing" => h.tasks[t].cur \in P)
    PROVE  Held(h, t, P)
<1> USE DEF HostInv
<1>1. Refers(h, h.tasks[t]) OBVIOUS
<1>2. ASSUME NEW p \in Plugins \ h.disturbed PROVE Elsewhere(h, t, P, p)
  <2>1. Calm(h, p) BY <1>2
  <2>2. Works(h, t, p) <=> p \in h.tasks[t].on BY DEF Works, WorkedOn
  <2>3. p \in h.tasks[t].on \ P => InPhase(h.tasks[t], p, h.plugins[p])
    BY <2>1, <2>2 DEF Calm
  <2>4. p \in h.tasks[t].on \ P => Waits(h.tasks[t], p, h.plugins[p])
    BY <2>3 DEF InPhase
  <2>5. p \in h.tasks[t].on => \A u \in 1..Len(h.tasks) \ {t} : ~Works(h, u, p)
    BY <2>1, <2>2 DEF Calm
  <2>6. p \notin h.tasks[t].on /\ (\A u \in 1..Len(h.tasks) \ {t} : ~Works(h, u, p))
          => Rest(h.plugins[p])
    BY <2>1, <2>2 DEF Calm
  <2> QED BY <2>1, <2>4, <2>5, <2>6 DEF Calm, Elsewhere
<1> QED BY <1>1, <1>2 DEF Held, Refers

\* Lemma: a task may move on with what it has in hand, and let a part of it go
\* where the invariant wants it.
LEMMA HeldTask ==
    ASSUME NEW h, NEW t, NEW P, Held(h, t, P), NEW k \in TaskShape,
           k.op = h.tasks[t].op, k.plugin = h.tasks[t].plugin, k.on = h.tasks[t].on,
           k.held = h.tasks[t].held,
           \A q \in k.on \ P : k.pc = "removing" \/ q \notin k.rest =>
                                   h.tasks[t].pc = "removing" \/ q \notin h.tasks[t].rest
    PROVE  Held(PutTask(h, t, k), t, P)
<1> DEFINE g == PutTask(h, t, k)
<1>1. h \in HostShape /\ t \in 1..Len(h.tasks) BY DEF Held
<1>2. /\ g \in HostShape /\ g.plugins = h.plugins /\ g.disturbed = h.disturbed
      /\ Len(g.tasks) = Len(h.tasks) /\ g.tasks[t] = k
      /\ \A u \in 1..Len(h.tasks) \ {t} : g.tasks[u] = h.tasks[u]
  BY <1>1, PutTaskParts
<1> HIDE DEF g
<1>3. \A u \in 1..Len(h.tasks) \ {t} : \A p \in Plugins : Works(g, u, p) <=> Works(h, u, p)
  BY <1>2 DEF Works, WorkedOn
<1>4. ASSUME NEW p \in Plugins \ g.disturbed PROVE Elsewhere(g, t, P, p)
  <2>1. Elsewhere(h, t, P, p) BY <1>2, <1>4 DEF Held
  <2>2. p \in k.on \ P => Waits(k, p, h.plugins[p]) BY <2>1 DEF Elsewhere, Waits
  <2> QED BY <2>1, <2>2, <1>2, <1>3 DEF Elsewhere
<1>5. \A u \in 1..Len(h.tasks) \ {t} : Placed(g.tasks[u]) /\ Refers(g, g.tasks[u])
  BY <1>2, ZenonT(40) DEF Held, Refers
<1>6. \A u, v \in 1..Len(g.tasks) \ {t} : u # v => Owned(g.tasks[u]) \intersect Owned(g.tasks[v]) = {}
  BY <1>2 DEF Held
<1>7. P \subseteq g.tasks[t].on /\ g.tasks[t].held \in 0..Len(g.plugins[g.tasks[t].plugin].objects)
      /\ (g.tasks[t].op \in {"enable", "disable"} => g.tasks[t].held # 0)
  BY <1>2 DEF Held
<1>8. \A p \in Plugins : InBounds(g.plugins[p]) /\ Offered(p, g.plugins[p])
  BY <1>2 DEF Held
<1> QED BY <1>1, <1>2, <1>4, <1>5, <1>6, <1>7, <1>8 DEF Held, g

\* Lemma: a plugin may be marked as disturbed at any time.
LEMMA HeldMark ==
    ASSUME NEW h, NEW t, NEW P, Held(h, t, P), NEW S \in SUBSET Plugins
    PROVE  Held(MarkDisturbed(h, S), t, P)
<1> DEFINE g == MarkDisturbed(h, S)
<1>1. h \in HostShape BY DEF Held
<1>2. /\ g \in HostShape /\ g.plugins = h.plugins /\ g.tasks = h.tasks
      /\ g.disturbed = h.disturbed \union S
  BY <1>1, MarkParts
<1> HIDE DEF g
<1>3. \A u : \A p : Works(g, u, p) <=> Works(h, u, p) BY <1>2 DEF Works, WorkedOn
<1>4. ASSUME NEW p \in Plugins \ g.disturbed PROVE Elsewhere(g, t, P, p)
  <2>1. Elsewhere(h, t, P, p) BY <1>2, <1>4 DEF Held
  <2> QED BY <2>1, <1>2, <1>3 DEF Elsewhere
<1>5. \A u \in 1..Len(g.tasks) \ {t} : Placed(g.tasks[u]) /\ Refers(g, g.tasks[u])
  BY <1>2 DEF Held, Refers
<1> QED BY <1>2, <1>4, <1>5 DEF Held, g

\* The runs of a plugin that no other task than t has begun or stops.
Others(h, t, p) ==
    {i \in Nat : \E u \in 1..Len(h.tasks) \ {t} : <<p, i>> \in Owned(h.tasks[u])}

\* Lemma: a plugin a task has in hand may change, if its parts stay in their
\* bounds and the runs of other tasks stay as they are.
LEMMA HeldPlugin ==
    ASSUME NEW h, NEW t, NEW P, Held(h, t, P), NEW p \in P, NEW s \in PluginShape,
           InBounds(s), Offered(p, s),
           Len(s.objects) >= Len(h.plugins[p].objects), Len(s.runs) >= Len(h.plugins[p].runs),
           \A i \in Others(h, t, p) : s.runs[i].state = h.plugins[p].runs[i].state
    PROVE  Held(PutPlugin(h, p, s), t, P)
<1> DEFINE g == PutPlugin(h, p, s)
<1>1. h \in HostShape /\ t \in 1..Len(h.tasks) /\ P \subseteq h.tasks[t].on BY DEF Held
<1>1a. h.tasks \in Seq(TaskShape) /\ h.plugins \in [Plugins -> PluginShape] BY <1>1 DEF HostShape
<1>1b. \A u \in 1..Len(h.tasks) : h.tasks[u] \in TaskShape BY <1>1a
<1>1c. p \in Plugins BY <1>1, <1>1b DEF TaskShape
<1>2. /\ g \in HostShape /\ g.tasks = h.tasks /\ g.disturbed = h.disturbed
      /\ g.plugins[p] = s /\ \A q \in Plugins \ {p} : g.plugins[q] = h.plugins[q]
  BY <1>1, <1>1c, PutPluginParts
<1> HIDE DEF g
<1>3. \A u : \A q : Works(g, u, q) <=> Works(h, u, q) BY <1>2 DEF Works, WorkedOn
<1>4. ASSUME NEW q \in Plugins \ g.disturbed PROVE Elsewhere(g, t, P, q)
  <2>1. Elsewhere(h, t, P, q) BY <1>2, <1>4 DEF Held
  <2>2. CASE q = p
    <3>1. q \in h.tasks[t].on /\ q \in P BY <2>2, <1>1
    <3> QED BY <2>1, <3>1, <1>2, <1>3 DEF Elsewhere
  <2>3. CASE q # p
    <3>1. g.plugins[q] = h.plugins[q] BY <1>2, <2>3
    <3> QED BY <2>1, <3>1, <1>2, <1>3 DEF Elsewhere
  <2> QED BY <2>2, <2>3
<1>5. ASSUME NEW q \in Plugins
      PROVE  /\ 0..Len(h.plugins[q].objects) \subseteq 0..Len(g.plugins[q].objects)
             /\ 1..Len(h.plugins[q].objects) \subseteq 1..Len(g.plugins[q].objects)
             /\ 0..Len(h.plugins[q].runs) \subseteq 0..Len(g.plugins[q].runs)
             /\ 1..Len(h.plugins[q].runs) \subseteq 1..Len(g.plugins[q].runs)
             /\ InBounds(g.plugins[q]) /\ Offered(q, g.plugins[q])
  <2>1. h.plugins[q] \in PluginShape /\ g.plugins[q] \in PluginShape
    BY <1>2, <1>1a DEF HostShape
  <2>2. /\ Len(h.plugins[q].objects) \in Nat /\ Len(h.plugins[q].runs) \in Nat
        /\ Len(g.plugins[q].objects) \in Nat /\ Len(g.plugins[q].runs) \in Nat
    BY <2>1, Lengths
  <2>3. InBounds(h.plugins[q]) /\ Offered(q, h.plugins[q]) BY DEF Held
  <2>4. /\ Len(g.plugins[q].objects) >= Len(h.plugins[q].objects)
        /\ Len(g.plugins[q].runs) >= Len(h.plugins[q].runs)
        /\ InBounds(g.plugins[q]) /\ Offered(q, g.plugins[q])
    BY <1>2, <2>2, <2>3
  <2> QED BY <2>2, <2>4, Ranges, Zenon
<1>6. ASSUME NEW u \in 1..Len(h.tasks) \ {t} PROVE Refers(g, h.tasks[u])
  <2> DEFINE k == h.tasks[u]
  <2>1. k \in TaskShape BY <1>1b
  <2>2. Refers(h, k) BY DEF Held
  <2>3. ASSUME Owned(k) # {} PROVE g.plugins[k.cur].runs[k.run].state = h.plugins[k.cur].runs[k.run].state
    <3>1. <<k.cur, k.run>> \in Owned(k) BY <2>3 DEF Owned
    <3>2. CASE k.cur # p BY <3>2, <1>2, <2>1 DEF TaskShape
    <3>3. CASE k.cur = p
      <4>1. k.run \in Nat BY <2>1 DEF TaskShape
      <4>2. k.run \in Others(h, t, p) BY <3>1, <3>3, <4>1 DEF Others
      <4> QED BY <4>2, <3>3, <1>2
    <3> QED BY <3>2, <3>3
  <2>4. k.plugin \in Plugins /\ k.cur \in Plugins /\ k.held \in Nat /\ k.obj \in Nat /\ k.run \in Nat
    BY <2>1 DEF TaskShape
  <2> HIDE DEF k
  <2>5. k.held \in 0..Len(g.plugins[k.plugin].objects)
    BY <2>2, <2>4, <1>5, Zenon DEF Refers
  <2>6. k.pc \in {"importing", "activating", "disposing"} => k.obj \in 1..Len(g.plugins[k.cur].objects)
    BY <2>2, <2>4, <1>5, Zenon DEF Refers
  <2>7. /\ k.pc = "activating" => k.run \in 1..Len(g.plugins[k.cur].runs)
        /\ k.pc = "disposing" => k.run \in 0..Len(g.plugins[k.cur].runs)
    BY <2>2, <2>4, <1>5, Zenon DEF Refers
  <2>8. Refers(g, k) BY <2>2, <2>3, <2>5, <2>6, <2>7 DEF Refers
  <2> QED BY <2>8 DEF k
<1>7. \A u \in 1..Len(g.tasks) \ {t} : Placed(g.tasks[u]) /\ Refers(g, g.tasks[u])
  BY <1>2, <1>6 DEF Held
<1>8. g.tasks[t].held \in 0..Len(g.plugins[g.tasks[t].plugin].objects)
  <2>1. h.tasks[t].plugin \in Plugins BY <1>1, <1>1b DEF TaskShape
  <2>2. h.tasks[t].held \in 0..Len(h.plugins[h.tasks[t].plugin].objects) BY DEF Held
  <2> QED BY <2>1, <2>2, <1>2, <1>5, Zenon
<1>9. \A u, v \in 1..Len(g.tasks) \ {t} : u # v => Owned(g.tasks[u]) \intersect Owned(g.tasks[v]) = {}
  BY <1>2 DEF Held
<1>10. /\ \A q \in Plugins : InBounds(g.plugins[q]) /\ Offered(q, g.plugins[q])
       /\ (g.tasks[t].op \in {"enable", "disable"} => g.tasks[t].held # 0)
  BY <1>2, <1>5 DEF Held
<1> QED BY <1>1, <1>2, <1>4, <1>7, <1>8, <1>9, <1>10 DEF Held, g

\* Lemma: the parts of a record of which a task has plugins in hand.
LEMMA HeldShapes ==
    ASSUME NEW h, NEW t, NEW P, Held(h, t, P)
    PROVE  /\ h \in HostShape /\ t \in 1..Len(h.tasks) /\ P \subseteq h.tasks[t].on
           /\ h.plugins \in [Plugins -> PluginShape] /\ h.tasks \in Seq(TaskShape)
           /\ h.tasks[t] \in TaskShape /\ P \subseteq Plugins
<1>1. h \in HostShape /\ t \in 1..Len(h.tasks) /\ P \subseteq h.tasks[t].on BY DEF Held
<1>2. h.plugins \in [Plugins -> PluginShape] /\ h.tasks \in Seq(TaskShape) BY <1>1 DEF HostShape
<1>3. h.tasks[t] \in TaskShape BY <1>1, <1>2
<1>4. P \subseteq Plugins BY <1>1, <1>3 DEF TaskShape
<1> QED BY <1>1, <1>2, <1>3, <1>4

\* Lemma: what a task refers to is judged from its own plugins.
LEMMA RefersTo ==
    ASSUME NEW h, NEW g, g.plugins = h.plugins, NEW k
    PROVE  Refers(h, k) => Refers(g, k)
BY DEF Refers

\* Lemma: a task that lets go of what it has in hand leaves the invariant, when
\* each of its plugins stands where the task is now, or is at rest.
LEMMA Released ==
    ASSUME NEW h, NEW t, NEW P, Held(h, t, P), NEW k \in TaskShape,
           k.on \subseteq h.tasks[t].on, Placed(k), Refers(h, k),
           \A u \in 1..Len(h.tasks) \ {t} : Owned(k) \intersect Owned(h.tasks[u]) = {},
           \A q \in h.tasks[t].on \ h.disturbed :
              IF k.pc = "done" \/ q \notin k.on THEN Rest(h.plugins[q])
              ELSE InPhase(k, q, h.plugins[q])
    PROVE  HostInv(PutTask(h, t, k))
<1> DEFINE g == PutTask(h, t, k)
<1>1. h \in HostShape /\ t \in 1..Len(h.tasks) BY DEF Held
<1>2. /\ g \in HostShape /\ g.plugins = h.plugins /\ g.disturbed = h.disturbed
      /\ Len(g.tasks) = Len(h.tasks) /\ g.tasks[t] = k
      /\ \A u \in 1..Len(h.tasks) \ {t} : g.tasks[u] = h.tasks[u]
  BY <1>1, PutTaskParts
<1> HIDE DEF g
<1>3. \A u \in 1..Len(h.tasks) \ {t} : \A p \in Plugins : Works(g, u, p) <=> Works(h, u, p)
  BY <1>2 DEF Works, WorkedOn
<1>4. \A p \in Plugins : Works(g, t, p) <=> k.pc # "done" /\ p \in k.on
  BY <1>2 DEF Works, WorkedOn
<1>5. ASSUME NEW p \in Plugins \ g.disturbed PROVE Calm(g, p)
  <2>1. Elsewhere(h, t, P, p) BY <1>2, <1>5 DEF Held
  <2>2. Works(g, t, p) => \A u \in 1..Len(h.tasks) \ {t} : ~Works(g, u, p)
    BY <2>1, <1>3, <1>4 DEF Elsewhere
  <2>3. \A u, v \in 1..Len(h.tasks) \ {t} : Works(g, u, p) /\ Works(g, v, p) => u = v
    BY <2>1, <1>3 DEF Elsewhere
  <2>4. \A u, v \in 1..Len(g.tasks) : Works(g, u, p) /\ Works(g, v, p) => u = v
    BY <2>2, <2>3, <1>2
  <2>5. (\A u \in 1..Len(g.tasks) : ~Works(g, u, p)) => Rest(g.plugins[p])
    <3>1. CASE p \in h.tasks[t].on BY <3>1, <1>1, <1>2, <1>4
    <3>2. CASE p \notin h.tasks[t].on BY <3>2, <2>1, <1>2, <1>3 DEF Elsewhere
    <3> QED BY <3>1, <3>2
  <2>6. ASSUME NEW u \in 1..Len(g.tasks), Works(g, u, p)
        PROVE  InPhase(g.tasks[u], p, g.plugins[p])
    <3>1. CASE u = t BY <2>6, <3>1, <1>2, <1>4
    <3>2. CASE u # t BY <2>6, <3>2, <2>1, <1>2, <1>3 DEF Elsewhere
    <3> QED BY <3>1, <3>2
  <2> QED BY <2>4, <2>5, <2>6 DEF Calm
<1>6. ASSUME NEW u \in 1..Len(g.tasks) PROVE Placed(g.tasks[u]) /\ Refers(g, g.tasks[u])
  <2>1. Placed(g.tasks[u]) /\ Refers(h, g.tasks[u])
    BY <1>2 DEF Held
  <2> QED BY <2>1, <1>2, RefersTo
<1>7. \A u, v \in 1..Len(g.tasks) : u # v => Owned(g.tasks[u]) \intersect Owned(g.tasks[v]) = {}
  BY <1>2, ZenonT(60) DEF Held
<1>8. \A p \in Plugins : InBounds(g.plugins[p]) /\ Offered(p, g.plugins[p])
  BY <1>2 DEF Held
<1> QED BY <1>2, <1>5, <1>6, <1>7, <1>8 DEF HostInv, g

\* Task k is called.
Begins(h, k) == [h EXCEPT !.tasks = Append(@, k)]

\* Lemma: a new task has nothing in hand.
LEMMA Begun ==
    ASSUME NEW h, HostInv(h), NEW k \in TaskShape, k.on = {},
           k.held \in 0..Len(h.plugins[k.plugin].objects),
           k.op \in {"enable", "disable"} => k.held # 0
    PROVE  LET g == Begins(h, k)
               n == Len(h.tasks) + 1
           IN  /\ Held(g, n, {}) /\ g.plugins = h.plugins /\ g.disturbed = h.disturbed
               /\ g.tasks[n] = k /\ Len(g.tasks) = n
<1> DEFINE g == Begins(h, k)
           n == Len(h.tasks) + 1
           w == Append(h.tasks, k)
<1>1. h \in HostShape /\ h.tasks \in Seq(TaskShape) BY DEF HostInv, HostShape
<1>2. /\ w \in Seq(TaskShape) /\ Len(w) = n /\ w[n] = k /\ n \in 1..n
      /\ 1..n \ {n} = 1..Len(h.tasks) /\ \A u \in 1..Len(h.tasks) : w[u] = h.tasks[u]
  BY <1>1
<1>3. g = [plugins |-> h.plugins, tasks |-> w, disturbed |-> h.disturbed]
  <2> DEFINE F == [Plugins -> PluginShape]
             D == SUBSET Plugins
  <2>1. h \in [plugins : F, tasks : Seq(TaskShape), disturbed : D] BY <1>1 DEF HostShape
  <2>2. g = [h EXCEPT !.tasks = w] BY Zenon DEF Begins
  <2> HIDE DEF F, D, w, g
  <2>3. [h EXCEPT !.tasks = w] = [plugins |-> h.plugins, tasks |-> w, disturbed |-> h.disturbed]
    BY <2>1
  <2> QED BY <2>2, <2>3
<1>4. g \in HostShape BY <1>1, <1>2, <1>3 DEF HostShape
<1>5. g.plugins = h.plugins /\ g.disturbed = h.disturbed /\ g.tasks = w BY <1>3
<1> HIDE DEF g, n, w
<1>6. \A u \in 1..Len(h.tasks) : \A p \in Plugins : Works(g, u, p) <=> Works(h, u, p)
  BY <1>2, <1>5 DEF Works, WorkedOn
<1>7. ASSUME NEW p \in Plugins \ g.disturbed PROVE Elsewhere(g, n, {}, p)
  <2>1. Calm(h, p) BY <1>5, <1>7 DEF HostInv
  <2>2. g.tasks[n].on = {} /\ 1..Len(g.tasks) \ {n} = 1..Len(h.tasks) BY <1>2, <1>5
  <2>3. \A u \in 1..Len(h.tasks) : Works(h, u, p) => InPhase(g.tasks[u], p, g.plugins[p])
    BY <2>1, <1>2, <1>5 DEF Calm
  <2> QED BY <2>1, <2>2, <2>3, <1>5, <1>6 DEF Elsewhere, Calm
<1>8. ASSUME NEW u \in 1..Len(g.tasks) \ {n} PROVE Placed(g.tasks[u]) /\ Refers(g, g.tasks[u])
  <2>1. u \in 1..Len(h.tasks) /\ g.tasks[u] = h.tasks[u] BY <1>2, <1>5
  <2>2. Placed(h.tasks[u]) /\ Refers(h, h.tasks[u]) BY <2>1 DEF HostInv
  <2> QED BY <2>1, <2>2, <1>5, RefersTo
<1>9. ASSUME NEW u \in 1..Len(g.tasks) \ {n}, NEW v \in 1..Len(g.tasks) \ {n}, u # v
      PROVE  Owned(g.tasks[u]) \intersect Owned(g.tasks[v]) = {}
  <2>1. u \in 1..Len(h.tasks) /\ g.tasks[u] = h.tasks[u] BY <1>2, <1>5
  <2>2. v \in 1..Len(h.tasks) /\ g.tasks[v] = h.tasks[v] BY <1>2, <1>5
  <2> QED BY <2>1, <2>2, <1>9 DEF HostInv
<1>10. \A p \in Plugins : InBounds(g.plugins[p]) /\ Offered(p, g.plugins[p])
  BY <1>5 DEF HostInv
<1>11. Held(g, n, {}) BY <1>2, <1>4, <1>5, <1>7, <1>8, <1>9, <1>10 DEF Held
<1> QED BY <1>2, <1>5, <1>11 DEF g, n

\* Task k with the plugins S to work on.
Working(k, S) == [k EXCEPT !.on = S]

\* Lemma: plugins a task takes, and nobody has disturbed, were at rest.
LEMMA Taken ==
    ASSUME NEW h, NEW t, Held(h, t, {}), h.tasks[t].on = {}, NEW S \in SUBSET Plugins
    PROVE  LET g == Take(h, t, S) IN
           /\ Held(g, t, S) /\ g.plugins = h.plugins /\ Len(g.tasks) = Len(h.tasks)
           /\ h.disturbed \subseteq g.disturbed
           /\ g.tasks[t] = Working(h.tasks[t], S)
           /\ \A q \in S \ g.disturbed : Rest(g.plugins[q])
<1> DEFINE k == [h.tasks[t] EXCEPT !.on = S]
           m == {p \in S : \E u \in DOMAIN h.tasks \ {t} : p \in WorkedOn(h, u)}
           f == PutTask(h, t, k)
           g == MarkDisturbed(f, m)
<1>1. h \in HostShape /\ t \in 1..Len(h.tasks) /\ h.tasks \in Seq(TaskShape) /\ h.tasks[t] \in TaskShape
  BY HeldShapes
<1>2. k \in TaskShape /\ k.on = S /\ m \in SUBSET Plugins BY <1>1 DEF TaskShape
<1>3. /\ f \in HostShape /\ f.plugins = h.plugins /\ f.disturbed = h.disturbed
      /\ Len(f.tasks) = Len(h.tasks) /\ f.tasks[t] = k
      /\ \A u \in 1..Len(h.tasks) \ {t} : f.tasks[u] = h.tasks[u]
  BY <1>1, <1>2, PutTaskParts, ZenonT(40)
<1>4. [h EXCEPT !.tasks[t].on = S] = f BY DEF PutTask
<1>5. Take(h, t, S) = g BY <1>4 DEF Take
<1>6. DOMAIN h.tasks = 1..Len(h.tasks) BY <1>1
<1>7. m = {p \in S : \E u \in 1..Len(h.tasks) \ {t} : Works(h, u, p)} BY <1>6 DEF Works
<1> HIDE DEF f, k, m
<1>8. /\ g \in HostShape /\ g.plugins = h.plugins /\ g.tasks = f.tasks
      /\ g.disturbed = h.disturbed \union m
  BY <1>2, <1>3, MarkParts
<1> HIDE DEF g
<1>9. \A u \in 1..Len(h.tasks) \ {t} : \A p \in Plugins : Works(g, u, p) <=> Works(h, u, p)
  BY <1>3, <1>8 DEF Works, WorkedOn
<1>10. ASSUME NEW p \in Plugins \ g.disturbed
       PROVE  Elsewhere(g, t, S, p) /\ (p \in S => Rest(g.plugins[p]))
  <2>1. Elsewhere(h, t, {}, p) BY <1>8, <1>10 DEF Held
  <2>2. p \in S => \A u \in 1..Len(h.tasks) \ {t} : ~Works(h, u, p) BY <1>7, <1>8, <1>10
  <2>3. (\A u \in 1..Len(h.tasks) \ {t} : ~Works(h, u, p)) => Rest(h.plugins[p])
    BY <2>1 DEF Elsewhere
  <2>4. g.tasks[t].on = S /\ Len(g.tasks) = Len(h.tasks) BY <1>2, <1>3, <1>8
  <2>5. \A u \in 1..Len(h.tasks) \ {t} : Works(g, u, p) => InPhase(g.tasks[u], p, g.plugins[p])
    BY <2>1, <1>3, <1>8, <1>9 DEF Elsewhere
  <2>6. \A u, v \in 1..Len(h.tasks) \ {t} : Works(g, u, p) /\ Works(g, v, p) => u = v
    BY <2>1, <1>9 DEF Elsewhere
  <2>7. Elsewhere(g, t, S, p)
    BY <2>2, <2>3, <2>4, <2>5, <2>6, <1>8, <1>9 DEF Elsewhere
  <2> QED BY <2>2, <2>3, <2>7, <1>8
<1>11. ASSUME NEW u \in 1..Len(g.tasks) \ {t} PROVE Placed(g.tasks[u]) /\ Refers(g, g.tasks[u])
  <2>1. Placed(g.tasks[u]) /\ Refers(h, g.tasks[u])
    BY <1>3, <1>8 DEF Held
  <2> QED BY <2>1, <1>8, RefersTo
<1>12. \A u, v \in 1..Len(g.tasks) \ {t} : u # v => Owned(g.tasks[u]) \intersect Owned(g.tasks[v]) = {}
  BY <1>3, <1>8 DEF Held
<1>13. k.held = h.tasks[t].held /\ k.plugin = h.tasks[t].plugin /\ k.op = h.tasks[t].op
  BY <1>1 DEF k, TaskShape
<1>14. g.tasks[t].held \in 0..Len(g.plugins[g.tasks[t].plugin].objects)
       /\ (g.tasks[t].op \in {"enable", "disable"} => g.tasks[t].held # 0)
  BY <1>3, <1>8, <1>13 DEF Held
<1>15. \A p \in Plugins : InBounds(g.plugins[p]) /\ Offered(p, g.plugins[p]) BY <1>8 DEF Held
<1>16. Held(g, t, S)
  BY <1>1, <1>2, <1>3, <1>8, <1>10, <1>11, <1>12, <1>14, <1>15 DEF Held
<1> QED BY <1>3, <1>5, <1>8, <1>10, <1>16, HeldShapes DEF k, Working

-----------------------------------------------------------------------------
(* What the helpers of PluginHost make of the record.                        *)

\* Lemma: two records with the same parts are the same.
LEMMA SameHost ==
    ASSUME NEW g \in HostShape, NEW h \in HostShape, g.plugins = h.plugins, g.tasks = h.tasks,
           g.disturbed = h.disturbed
    PROVE  g = h
<1> DEFINE F == [Plugins -> PluginShape]
           W == Seq(TaskShape)
           D == SUBSET Plugins
<1>1. HostShape = [plugins : F, tasks : W, disturbed : D] BY DEF HostShape
<1> HIDE DEF F, W, D
<1> QED BY <1>1

\* Lemma: two changes to the same task are one.
LEMMA PutTaskTwice ==
    ASSUME NEW h \in HostShape, NEW t \in 1..Len(h.tasks), NEW j \in TaskShape, NEW k \in TaskShape
    PROVE  PutTask(PutTask(h, t, j), t, k) = PutTask(h, t, k)
<1> DEFINE f == PutTask(h, t, j)
           a == PutTask(f, t, k)
           b == PutTask(h, t, k)
<1>1. /\ f \in HostShape /\ f.plugins = h.plugins /\ f.disturbed = h.disturbed
      /\ Len(f.tasks) = Len(h.tasks)
      /\ \A u \in 1..Len(h.tasks) \ {t} : f.tasks[u] = h.tasks[u]
  BY PutTaskParts
<1>2. /\ b \in HostShape /\ b.plugins = h.plugins /\ b.disturbed = h.disturbed
      /\ Len(b.tasks) = Len(h.tasks) /\ b.tasks[t] = k
      /\ \A u \in 1..Len(h.tasks) \ {t} : b.tasks[u] = h.tasks[u]
  BY PutTaskParts
<1> HIDE DEF f, b
<1>3. /\ a \in HostShape /\ a.plugins = f.plugins /\ a.disturbed = f.disturbed
      /\ Len(a.tasks) = Len(f.tasks) /\ a.tasks[t] = k
      /\ \A u \in 1..Len(f.tasks) \ {t} : a.tasks[u] = f.tasks[u]
  BY <1>1, PutTaskParts
<1> HIDE DEF a
<1>4. a.tasks \in Seq(TaskShape) /\ b.tasks \in Seq(TaskShape) BY <1>2, <1>3 DEF HostShape
<1>5. Len(a.tasks) = Len(b.tasks) BY <1>1, <1>2, <1>3
<1>6. \A u \in 1..Len(a.tasks) : a.tasks[u] = b.tasks[u] BY <1>1, <1>2, <1>3
<1>7. a.tasks = b.tasks BY <1>4, <1>5, <1>6
<1> QED BY <1>1, <1>2, <1>3, <1>7, SameHost DEF a, b, f

\* Lemma: At, as a change of the task.
LEMMA AtIs ==
    ASSUME NEW h, NEW t, NEW pc
    PROVE  At(h, t, pc) = PutTask(h, t, [h.tasks[t] EXCEPT !.pc = pc])
BY DEF At, PutTask

\* Lemma: SetStatus, as a change of the plugin.
LEMMA SetStatusIs ==
    ASSUME NEW h, NEW p, NEW o, NEW status
    PROVE  SetStatus(h, p, o, status) =
               PutPlugin(h, p, [h.plugins[p] EXCEPT !.objects[o].status = status])
BY DEF SetStatus, PutPlugin

\* Lemma: Withdraw, as a change of the plugin.
LEMMA WithdrawIs ==
    ASSUME NEW h, NEW p
    PROVE  Withdraw(h, p) = PutPlugin(h, p, [h.plugins[p] EXCEPT !.provider = 0])
BY DEF Withdraw, PutPlugin

\* Lemma: a call that ends, or the load of a plugin that is over, leaves the
\* invariant when what the task worked on is at rest.
LEMMA EndKeeps ==
    ASSUME NEW h, NEW t, NEW P, Held(h, t, P),
           \A q \in h.tasks[t].on \ h.disturbed : Rest(h.plugins[q])
    PROVE  HostInv(End(h, t))
<1> DEFINE k == [h.tasks[t] EXCEPT !.pc = "done", !.on = {}, !.held = 0, !.obj = 0, !.run = 0,
                                   !.cur = h.tasks[t].plugin]
<1>1. End(h, t) = PutTask(h, t, k) BY DEF End, PutTask
<1>2. h.tasks[t] \in TaskShape /\ h.plugins \in [Plugins -> PluginShape] BY HeldShapes
<1>3. /\ k \in TaskShape /\ k.pc = "done" /\ k.on = {} /\ k.held = 0
      /\ k.plugin = h.tasks[t].plugin /\ k.plugin \in Plugins
  BY <1>2 DEF TaskShape, Pcs
<1> HIDE DEF k
<1>4. Placed(k) /\ Owned(k) = {} BY <1>3 DEF Placed, Owned, Pcs
<1>5. h.plugins[k.plugin] \in PluginShape BY <1>2, <1>3
<1>6. 0 \in 0..Len(h.plugins[k.plugin].objects)
  <2>1. \A m \in Nat : 0 \in 0..m OBVIOUS
  <2> QED BY <1>5, <2>1, Lengths, Zenon
<1>7. Refers(h, k) BY <1>3, <1>4, <1>6 DEF Refers
<1> QED BY <1>1, <1>3, <1>4, <1>7, Released

\* Lemma: the load of a plugin is over, and all its task worked on is at rest.
LEMMA LoadedKeeps ==
    ASSUME NEW h, NEW t, NEW P, Held(h, t, P),
           \A q \in h.tasks[t].on \ h.disturbed : Rest(h.plugins[q])
    PROVE  HostInv(Loaded(h, t))
<1>1. CASE h.tasks[t].op # "install" BY <1>1, EndKeeps DEF Loaded
<1>2. CASE h.tasks[t].op = "install"
  <2> DEFINE j == [h.tasks[t] EXCEPT !.on = {}]
             k == [j EXCEPT !.pc = "loaded"]
             f == PutTask(h, t, j)
  <2>1. /\ h \in HostShape /\ t \in 1..Len(h.tasks) /\ h.tasks[t] \in TaskShape
        /\ h.plugins \in [Plugins -> PluginShape]
    BY HeldShapes
  <2>2. /\ j \in TaskShape /\ k \in TaskShape /\ k.pc = "loaded" /\ k.on = {} /\ k.op = "install"
        /\ k.plugin = h.tasks[t].plugin /\ k.held = h.tasks[t].held
    BY <2>1, <1>2 DEF TaskShape, Pcs
  <2>3. f \in HostShape /\ f.plugins = h.plugins /\ f.disturbed = h.disturbed /\ f.tasks[t] = j
    BY <2>1, <2>2, PutTaskParts
  <2>4. Take(h, t, {}) = MarkDisturbed(f, {})
    <3>1. [h EXCEPT !.tasks[t].on = {}] = f BY DEF PutTask
    <3>2. {p \in {} : \E u \in DOMAIN h.tasks \ {t} : p \in WorkedOn(h, u)} = {} OBVIOUS
    <3> QED BY <3>1, <3>2 DEF Take
  <2> HIDE DEF f, j
  <2>5. MarkDisturbed(f, {}) = f
    <3> DEFINE g == MarkDisturbed(f, {})
    <3>1. g \in HostShape /\ g.plugins = f.plugins /\ g.tasks = f.tasks /\ g.disturbed = f.disturbed \union {}
      BY <2>3, MarkParts
    <3> HIDE DEF g
    <3>2. g = f BY <3>1, <2>3, SameHost
    <3> QED BY <3>2 DEF g
  <2>6. At(f, t, "loaded") = PutTask(f, t, k) BY <2>3, AtIs
  <2> HIDE DEF k
  <2>7. Loaded(h, t) = PutTask(h, t, k)
    BY <1>2, <2>1, <2>2, <2>4, <2>5, <2>6, PutTaskTwice DEF Loaded, f
  <2>8. Placed(k) /\ Owned(k) = {} BY <2>2 DEF Placed, Owned, Pcs
  <2>9. k.held \in 0..Len(h.plugins[k.plugin].objects) BY <2>2 DEF Held
  <2>10. Refers(h, k) BY <2>2, <2>8, <2>9 DEF Refers
  <2> QED BY <2>2, <2>7, <2>8, <2>10, Released
<1> QED BY <1>1, <1>2

-----------------------------------------------------------------------------
(* What the helpers change of a plugin.                                      *)

\* Lemma: the parts of a plugin are of their kinds.
LEMMA PluginFields ==
    ASSUME NEW s \in PluginShape
    PROVE  /\ s.objects \in Seq(ObjectShape) /\ s.groups \in Seq(GroupShape)
           /\ s.runs \in Seq(RunShape) /\ s.record \in Nat /\ s.provider \in Nat
           /\ s.installed \in BOOLEAN /\ s.disabled \in BOOLEAN
           /\ DOMAIN s.objects = 1..Len(s.objects) /\ DOMAIN s.groups = 1..Len(s.groups)
           /\ DOMAIN s.runs = 1..Len(s.runs)
<1>1. /\ s.objects \in Seq(ObjectShape) /\ s.groups \in Seq(GroupShape)
      /\ s.runs \in Seq(RunShape) /\ s.record \in Nat /\ s.provider \in Nat
      /\ s.installed \in BOOLEAN /\ s.disabled \in BOOLEAN
  BY DEF PluginShape
<1> QED BY <1>1

\* Record o of a plugin is r.
WithObject(s, o, r) == [s EXCEPT !.objects[o] = r]

\* Lemma: a record gets another content.
LEMMA ObjectPut ==
    ASSUME NEW s \in PluginShape, InBounds(s), NEW o \in 1..Len(s.objects),
           NEW r \in ObjectShape, r.group \in 1..Len(s.groups), r.disposer \in 0..Len(s.runs)
    PROVE  LET f == WithObject(s, o, r) IN
           /\ f \in PluginShape /\ InBounds(f) /\ LiveIn(f) = LiveIn(s)
           /\ \A p : Offered(p, s) => Offered(p, f)
           /\ f.record = s.record /\ f.groups = s.groups /\ f.runs = s.runs
           /\ f.provider = s.provider /\ f.installed = s.installed /\ f.disabled = s.disabled
           /\ Len(f.objects) = Len(s.objects) /\ f.objects[o] = r
           /\ \A x \in 1..Len(s.objects) \ {o} : f.objects[x] = s.objects[x]
<1> DEFINE f == WithObject(s, o, r)
           w == [s.objects EXCEPT ![o] = r]
<1>1. /\ s.objects \in Seq(ObjectShape) /\ s.groups \in Seq(GroupShape)
      /\ s.runs \in Seq(RunShape) /\ s.record \in Nat /\ s.provider \in Nat
      /\ s.installed \in BOOLEAN /\ s.disabled \in BOOLEAN
  BY PluginFields
<1>2. f = [s EXCEPT !.objects = w] BY Zenon DEF WithObject
<1>3. /\ w \in Seq(ObjectShape) /\ Len(w) = Len(s.objects) /\ w[o] = r
      /\ \A x \in 1..Len(s.objects) \ {o} : w[x] = s.objects[x]
  BY <1>1
<1> HIDE DEF w, f
<1>4. f \in PluginShape BY <1>2, <1>3 DEF PluginShape
<1>5. /\ f.record = s.record /\ f.groups = s.groups /\ f.runs = s.runs /\ f.objects = w
      /\ f.provider = s.provider /\ f.installed = s.installed /\ f.disabled = s.disabled
  BY <1>2 DEF PluginShape
<1>6. LiveIn(f) = LiveIn(s) BY <1>5 DEF LiveIn
<1>7. \A p : Offered(p, s) => Offered(p, f) BY <1>5, <1>6 DEF Offered
<1>8. ASSUME NEW x \in 1..Len(f.objects)
      PROVE  f.objects[x].group \in 1..Len(f.groups) /\ f.objects[x].disposer \in 0..Len(f.runs)
  <2>1. CASE x = o BY <2>1, <1>3, <1>5
  <2>2. CASE x # o
    <3>1. x \in 1..Len(s.objects) /\ f.objects[x] = s.objects[x] BY <2>2, <1>3, <1>5
    <3> QED BY <3>1, <1>5 DEF InBounds
  <2> QED BY <2>1, <2>2
<1>9. InBounds(f)
  <2>1. f.record \in 0..Len(f.objects) /\ f.provider \in 0..Len(f.runs) BY <1>3, <1>5 DEF InBounds
  <2> QED BY <2>1, <1>8 DEF InBounds
<1> QED BY <1>3, <1>4, <1>5, <1>6, <1>7, <1>9 DEF f

\* g is h but for the status of record o of plugin p.
Restates(h, g, p, o, status) ==
    LET s == h.plugins[p]
        f == g.plugins[p]
    IN  /\ g.tasks = h.tasks /\ g.disturbed = h.disturbed
        /\ f.record = s.record /\ f.groups = s.groups /\ f.runs = s.runs
        /\ f.provider = s.provider /\ f.disabled = s.disabled /\ LiveIn(f) = LiveIn(s)
        /\ Len(f.objects) = Len(s.objects)
        /\ f.objects[o].status = status /\ f.objects[o].enabled = s.objects[o].enabled
        /\ f.objects[o].group = s.objects[o].group
        /\ f.objects[o].disposer = s.objects[o].disposer
        /\ \A x \in 1..Len(s.objects) \ {o} : f.objects[x] = s.objects[x]
        /\ \A q \in Plugins \ {p} : g.plugins[q] = h.plugins[q]

\* Lemma: a task sets the status of a record of a plugin it has in hand.
LEMMA StatusIsSet ==
    ASSUME NEW h, NEW t, NEW P, Held(h, t, P), NEW p \in P,
           NEW o \in 1..Len(h.plugins[p].objects), NEW status \in Statuses
    PROVE  LET g == SetStatus(h, p, o, status) IN Held(g, t, P) /\ Restates(h, g, p, o, status)
<1> DEFINE s == h.plugins[p]
           r == [s.objects[o] EXCEPT !.status = status]
           f == WithObject(s, o, r)
           g == PutPlugin(h, p, f)
<1>1. /\ h \in HostShape /\ t \in 1..Len(h.tasks) /\ p \in Plugins
      /\ h.plugins \in [Plugins -> PluginShape]
  BY HeldShapes
<1>2. s \in PluginShape /\ InBounds(s) /\ Offered(p, s) BY <1>1 DEF Held
<1>3. s.objects[o] \in ObjectShape
  <2>1. s.objects \in Seq(ObjectShape) BY <1>2, PluginFields
  <2> QED BY <2>1
<1>4. s.objects[o].group \in 1..Len(s.groups) /\ s.objects[o].disposer \in 0..Len(s.runs)
  BY <1>2 DEF InBounds
<1>5. SetStatus(h, p, o, status) = g
  <2>1. f = [s EXCEPT !.objects[o].status = status] BY Zenon DEF WithObject
  <2> QED BY <2>1, SetStatusIs
<1> HIDE DEF s
<1>6. r \in ObjectShape /\ r.group = s.objects[o].group /\ r.disposer = s.objects[o].disposer
  BY <1>3 DEF ObjectShape
<1> HIDE DEF r
<1>7. /\ f \in PluginShape /\ InBounds(f) /\ LiveIn(f) = LiveIn(s)
      /\ \A q : Offered(q, s) => Offered(q, f)
      /\ f.record = s.record /\ f.groups = s.groups /\ f.runs = s.runs
      /\ f.provider = s.provider /\ f.installed = s.installed /\ f.disabled = s.disabled
      /\ Len(f.objects) = Len(s.objects) /\ f.objects[o] = r
      /\ \A x \in 1..Len(s.objects) \ {o} : f.objects[x] = s.objects[x]
  BY <1>2, <1>4, <1>6, ObjectPut DEF s
<1> HIDE DEF f
<1>8. Len(s.objects) \in Nat /\ Len(s.runs) \in Nat BY <1>2, Lengths
<1>9. Held(g, t, P)
  <2>1. Len(f.objects) >= Len(s.objects) /\ Len(f.runs) >= Len(s.runs) BY <1>7, <1>8
  <2>2. \A i \in Others(h, t, p) : f.runs[i].state = s.runs[i].state BY <1>7
  <2> QED BY <1>2, <1>7, <2>1, <2>2, HeldPlugin DEF s
<1>10. /\ g.tasks = h.tasks /\ g.disturbed = h.disturbed
       /\ g.plugins[p] = f /\ \A q \in Plugins \ {p} : g.plugins[q] = h.plugins[q]
  BY <1>1, <1>7, PutPluginParts
<1> HIDE DEF g
<1>11. /\ Held(g, t, P) /\ g.tasks = h.tasks /\ g.disturbed = h.disturbed
       /\ g.plugins[p].record = s.record /\ g.plugins[p].groups = s.groups
       /\ g.plugins[p].runs = s.runs /\ g.plugins[p].provider = s.provider
       /\ g.plugins[p].disabled = s.disabled /\ LiveIn(g.plugins[p]) = LiveIn(s)
       /\ Len(g.plugins[p].objects) = Len(s.objects) /\ g.plugins[p].objects[o] = r
       /\ \A x \in 1..Len(s.objects) \ {o} : g.plugins[p].objects[x] = s.objects[x]
       /\ \A q \in Plugins \ {p} : g.plugins[q] = h.plugins[q]
  BY <1>7, <1>9, <1>10
<1>12. /\ r.status = status /\ r.enabled = s.objects[o].enabled
       /\ r.group = s.objects[o].group /\ r.disposer = s.objects[o].disposer
  BY <1>3 DEF r, ObjectShape
<1>13. Restates(h, g, p, o, status) BY <1>11, <1>12 DEF s, Restates
<1> QED BY <1>5, <1>11, <1>13

\* Lemma: the service of a plugin in hand is withdrawn.
LEMMA IsWithdrawn ==
    ASSUME NEW h, NEW t, NEW P, Held(h, t, P), NEW p \in P
    PROVE  LET g == Withdraw(h, p)
               s == h.plugins[p]
               f == g.plugins[p]
           IN  /\ Held(g, t, P) /\ g.tasks = h.tasks /\ g.disturbed = h.disturbed
               /\ f.record = s.record /\ f.groups = s.groups /\ f.runs = s.runs
               /\ f.provider = 0 /\ f.disabled = s.disabled /\ LiveIn(f) = LiveIn(s)
               /\ f.objects = s.objects
               /\ \A q \in Plugins \ {p} : g.plugins[q] = h.plugins[q]
<1> DEFINE s == h.plugins[p]
           f == [s EXCEPT !.provider = 0]
           g == PutPlugin(h, p, f)
<1>1. /\ h \in HostShape /\ t \in 1..Len(h.tasks) /\ p \in Plugins
      /\ h.plugins \in [Plugins -> PluginShape]
  BY HeldShapes
<1>2. s \in PluginShape /\ InBounds(s) /\ Offered(p, s) BY <1>1 DEF Held
<1>3. Withdraw(h, p) = g BY WithdrawIs
<1> HIDE DEF s
<1>4. /\ s.objects \in Seq(ObjectShape) /\ s.groups \in Seq(GroupShape)
      /\ s.runs \in Seq(RunShape) /\ s.record \in Nat /\ s.provider \in Nat
      /\ s.installed \in BOOLEAN /\ s.disabled \in BOOLEAN
  BY <1>2, PluginFields
<1>5. f = [record |-> s.record, objects |-> s.objects, groups |-> s.groups, runs |-> s.runs,
           provider |-> 0, installed |-> s.installed, disabled |-> s.disabled]
  BY <1>2 DEF PluginShape
<1>6. f \in PluginShape BY <1>2, <1>4 DEF PluginShape
<1>7. /\ f.record = s.record /\ f.groups = s.groups /\ f.runs = s.runs /\ f.objects = s.objects
      /\ f.provider = 0 /\ f.disabled = s.disabled
  BY <1>5
<1> HIDE DEF f
<1>8. LiveIn(f) = LiveIn(s) BY <1>7 DEF LiveIn
<1>9. Len(s.objects) \in Nat /\ Len(s.runs) \in Nat BY <1>2, Lengths
<1>10. InBounds(f) /\ Offered(p, f) BY <1>2, <1>7, <1>9 DEF InBounds, Offered
<1>11. Held(g, t, P)
  <2>1. Len(f.objects) >= Len(s.objects) /\ Len(f.runs) >= Len(s.runs) BY <1>7, <1>9
  <2>2. \A i \in Others(h, t, p) : f.runs[i].state = s.runs[i].state BY <1>7
  <2> QED BY <1>6, <1>10, <2>1, <2>2, HeldPlugin DEF s
<1>12. /\ g.tasks = h.tasks /\ g.disturbed = h.disturbed
       /\ g.plugins[p] = f /\ \A q \in Plugins \ {p} : g.plugins[q] = h.plugins[q]
  BY <1>1, <1>6, PutPluginParts
<1> HIDE DEF g
<1> QED BY <1>3, <1>7, <1>8, <1>11, <1>12 DEF s

\* Task t is at record o of plugin p.
Pointed(h, t, p, o) == [h EXCEPT !.tasks[t].cur = p, !.tasks[t].obj = o]

\* Lemma: a task gets hold of a record.
LEMMA Points ==
    ASSUME NEW h, NEW t, NEW P, Held(h, t, P), NEW p \in Plugins, NEW o \in Nat
    PROVE  LET g == Pointed(h, t, p, o) IN
           /\ Held(g, t, P) /\ g.plugins = h.plugins /\ g.disturbed = h.disturbed
           /\ g.tasks[t].cur = p /\ g.tasks[t].obj = o
           /\ \A x \in {"op", "plugin", "on", "rest", "pc", "held", "run"} : g.tasks[t][x] = h.tasks[t][x]
           /\ Len(g.tasks) = Len(h.tasks)
           /\ \A u \in 1..Len(h.tasks) \ {t} : g.tasks[u] = h.tasks[u]
<1> DEFINE j == [h.tasks[t] EXCEPT !.cur = p]
           f == PutTask(h, t, j)
           k == [f.tasks[t] EXCEPT !.obj = o]
           g == PutTask(f, t, k)
<1>1. h \in HostShape /\ t \in 1..Len(h.tasks) /\ h.tasks[t] \in TaskShape BY HeldShapes
<1>2. Pointed(h, t, p, o) = g BY DEF Pointed, PutTask
<1>3. j \in TaskShape /\ \A x \in {"op", "plugin", "on", "rest", "pc", "held", "obj", "run"} : j[x] = h.tasks[t][x]
  BY <1>1 DEF TaskShape
<1>4. /\ j.op = h.tasks[t].op /\ j.plugin = h.tasks[t].plugin /\ j.on = h.tasks[t].on
      /\ j.held = h.tasks[t].held /\ j.rest = h.tasks[t].rest /\ j.pc = h.tasks[t].pc
  BY <1>3
<1>5. /\ f \in HostShape /\ f.plugins = h.plugins /\ f.disturbed = h.disturbed
      /\ Len(f.tasks) = Len(h.tasks) /\ f.tasks[t] = j
      /\ \A u \in 1..Len(h.tasks) \ {t} : f.tasks[u] = h.tasks[u]
  BY <1>1, <1>3, PutTaskParts
<1>6. Held(f, t, P)
  <2> HIDE DEF j
  <2> QED BY <1>3, <1>4, HeldTask
<1> HIDE DEF f
<1>7. k \in TaskShape /\ k.op = f.tasks[t].op /\ k.plugin = f.tasks[t].plugin /\ k.on = f.tasks[t].on
      /\ k.held = f.tasks[t].held /\ k.rest = f.tasks[t].rest /\ k.pc = f.tasks[t].pc
  <2> HIDE DEF j
  <2>1. f.tasks[t] \in TaskShape BY <1>3, <1>5
  <2> QED BY <2>1 DEF TaskShape
<1>8. /\ k.cur = p /\ k.obj = o
      /\ \A x \in {"op", "plugin", "on", "rest", "pc", "held", "run"} : k[x] = h.tasks[t][x]
  BY <1>1, <1>5 DEF TaskShape
<1> HIDE DEF k
<1>9. Held(g, t, P) BY <1>6, <1>7, HeldTask
<1>10. /\ g.plugins = f.plugins /\ g.disturbed = f.disturbed
       /\ Len(g.tasks) = Len(f.tasks) /\ g.tasks[t] = k
       /\ \A u \in 1..Len(f.tasks) \ {t} : g.tasks[u] = f.tasks[u]
  BY <1>1, <1>5, <1>7, PutTaskParts
<1> HIDE DEF g
<1> QED BY <1>2, <1>5, <1>8, <1>9, <1>10

\* Lemma: a new status leaves the rest of the current record.
LEMMA Restated ==
    ASSUME NEW s, NEW f, f.record = s.record, f.groups = s.groups, f.disabled = s.disabled,
           f.objects[s.record].enabled = s.objects[s.record].enabled,
           f.objects[s.record].group = s.objects[s.record].group, Tidy(s)
    PROVE  Tidy(f)
BY DEF Tidy, Current

\* Lemma: loadPlugin, up to the import, of a plugin in hand.
LEMMA LoadKeeps ==
    ASSUME NEW h, NEW t, NEW p, Held(h, t, {p}), h.tasks[t].on = {p},
           h.tasks[t].op \in {"enable", "reload", "install"},
           h.tasks[t].op # "install" => h.tasks[t].plugin = p,
           NEW o \in 1..Len(h.plugins[p].objects),
           p \notin h.disturbed =>
               LET s == h.plugins[p] IN
               /\ o = s.record /\ Tidy(s) /\ Current(s).enabled
               /\ IF Current(s).status = "active" THEN Rest(s)
                  ELSE LiveIn(s) = {} /\ Current(s).disposer = 0
    PROVE  HostInv(Load(h, t, p, o))
<1> DEFINE s == h.plugins[p]
           j == Pointed(h, t, p, o)
<1>1. /\ h \in HostShape /\ t \in 1..Len(h.tasks) /\ p \in Plugins
      /\ h.plugins \in [Plugins -> PluginShape] /\ h.tasks[t] \in TaskShape
  BY HeldShapes
<1>2. s \in PluginShape /\ InBounds(s) BY <1>1 DEF Held
<1>3. o \in Nat /\ o # 0
  <2>1. \A m \in Nat : \A i \in 1..m : i \in Nat /\ i # 0 OBVIOUS
  <2> QED BY <1>2, <2>1, Lengths, Zenon
<1>4. /\ Held(j, t, {p}) /\ j.plugins = h.plugins /\ j.disturbed = h.disturbed
      /\ j.tasks[t].cur = p /\ j.tasks[t].obj = o
      /\ \A x \in {"op", "plugin", "on", "rest", "pc", "held", "run"} : j.tasks[t][x] = h.tasks[t][x]
      /\ Len(j.tasks) = Len(h.tasks)
  BY <1>1, <1>3, Points
<1> DEFINE a == s.objects[o].enabled
           b == s.objects[o].status
<1>5. Load(h, t, p, o) = CASE ~a -> Loaded(SetStatus(j, p, o, "disabled"), t)
                           [] a /\ b = "active" -> Loaded(j, t)
                           [] OTHER -> At(SetStatus(j, p, o, "loading"), t, "importing")
  BY DEF Load, Pointed
<1> HIDE DEF j
<1>6. /\ j.tasks[t].on = {p} /\ j.tasks[t].op = h.tasks[t].op /\ j.tasks[t].cur = p
      /\ j.tasks[t].obj = o /\ j.tasks[t].plugin = h.tasks[t].plugin
      /\ j.tasks[t] \in TaskShape
  BY <1>4, HeldShapes
<1>6a. o \in 1..Len(j.plugins[p].objects) /\ p \in {p} /\ {"disabled", "loading"} \subseteq Statuses
  BY <1>4 DEF Statuses
<1>7. s.objects[o] \in ObjectShape /\ a \in BOOLEAN
  <2>1. s.objects \in Seq(ObjectShape) BY <1>2, PluginFields
  <2>2. s.objects[o] \in ObjectShape BY <2>1
  <2> QED BY <2>2 DEF ObjectShape
<1>8. CASE ~a
  <2> DEFINE g == SetStatus(j, p, o, "disabled")
  <2>1. /\ Held(g, t, {p}) /\ g.tasks = j.tasks /\ g.disturbed = j.disturbed
    BY <1>4, <1>6a, StatusIsSet DEF Restates
  <2> HIDE DEF g
  <2>2. p \in g.disturbed
    <3>1. p \notin h.disturbed => a BY DEF Current
    <3> QED BY <3>1, <2>1, <1>4, <1>8
  <2>3. HostInv(Loaded(g, t)) BY <1>6, <2>1, <2>2, LoadedKeeps
  <2> QED BY <1>5, <1>8, <2>3 DEF g
<1>9. CASE a /\ b = "active"
  <2>1. p \notin j.disturbed => Rest(j.plugins[p]) BY <1>4, <1>9 DEF Current
  <2>2. HostInv(Loaded(j, t)) BY <1>4, <1>6, <2>1, LoadedKeeps
  <2> QED BY <1>5, <1>9, <2>2
<1>10. CASE a /\ b # "active"
  <2> DEFINE g == SetStatus(j, p, o, "loading")
             f == g.plugins[p]
             k == [g.tasks[t] EXCEPT !.pc = "importing"]
  <2>1. Load(h, t, p, o) = PutTask(g, t, k) BY <1>5, <1>10, AtIs
  <2>1a. Held(g, t, {p}) /\ Restates(j, g, p, o, "loading") BY <1>4, <1>6a, StatusIsSet
  <2> HIDE DEF g
  <2>2. /\ Held(g, t, {p}) /\ g.tasks = j.tasks /\ g.disturbed = j.disturbed
        /\ f.record = s.record /\ f.groups = s.groups /\ f.runs = s.runs
        /\ f.provider = s.provider /\ f.disabled = s.disabled /\ LiveIn(f) = LiveIn(s)
        /\ Len(f.objects) = Len(s.objects)
        /\ f.objects[o].status = "loading" /\ f.objects[o].enabled = s.objects[o].enabled
        /\ f.objects[o].group = s.objects[o].group /\ f.objects[o].disposer = s.objects[o].disposer
    BY <1>4, <2>1a DEF Restates
  <2>3. /\ k \in TaskShape /\ k.pc = "importing" /\ k.on = {p} /\ k.cur = p /\ k.obj = o
        /\ k.op = h.tasks[t].op /\ k.plugin = h.tasks[t].plugin /\ k.held = g.tasks[t].held
        /\ k.plugin = g.tasks[t].plugin /\ k.op = g.tasks[t].op
    BY <1>6, <2>2 DEF TaskShape, Pcs
  <2> HIDE DEF k
  <2>4. Placed(k) /\ Owned(k) = {} BY <2>3 DEF Placed, Owned, Pcs
  <2>5. Refers(g, k)
    <3>1. k.held \in 0..Len(g.plugins[k.plugin].objects) /\ (k.op \in {"enable", "disable"} => k.held # 0)
      BY <2>2, <2>3 DEF Held
    <3>2. k.obj \in 1..Len(g.plugins[k.cur].objects) BY <2>2, <2>3
    <3> QED BY <2>3, <2>4, <3>1, <3>2 DEF Refers
  <2>6. p \notin g.disturbed => InPhase(k, p, f)
    <3> SUFFICES ASSUME p \notin g.disturbed PROVE InPhase(k, p, f) OBVIOUS
    <3>1. /\ o = s.record /\ Tidy(s) /\ Current(s).enabled /\ LiveIn(s) = {} /\ Current(s).disposer = 0
      BY <1>4, <1>10, <2>2, SMTT(30) DEF Current
    <3>2. /\ Tidy(f) /\ Current(f).status = "loading" /\ Current(f).enabled = Current(s).enabled
          /\ Current(f).disposer = Current(s).disposer
      BY <2>2, <3>1, Restated DEF Current
    <3>3. Starting(k, f, {}) BY <1>3, <2>2, <2>3, <3>1, <3>2 DEF Starting
    <3> QED BY <2>3, <3>3 DEF InPhase
  <2>7. g.tasks[t].on = {p} BY <1>6, <2>2
  <2>8. HostInv(PutTask(g, t, k)) BY <2>2, <2>3, <2>4, <2>5, <2>6, <2>7, Released
  <2> QED BY <2>1, <2>8
<1> QED BY <1>7, <1>8, <1>9, <1>10

\* Lemma: a load that fails.
LEMMA FailsKeeps ==
    ASSUME NEW h, NEW t, NEW p, Held(h, t, {p}), h.tasks[t].on = {p}, h.tasks[t].cur = p,
           h.tasks[t].obj \in 1..Len(h.plugins[p].objects),
           p \notin h.disturbed => Starting(h.tasks[t], h.plugins[p], {})
    PROVE  HostInv(Fails(h, t))
<1> DEFINE s == h.plugins[p]
           o == h.tasks[t].obj
           g == SetStatus(h, p, o, "error")
           f == g.plugins[p]
<1>1. p \in Plugins /\ h.plugins \in [Plugins -> PluginShape] BY HeldShapes
<1>2. s \in PluginShape /\ InBounds(s) BY <1>1 DEF Held
<1>3. Fails(h, t) = Loaded(g, t) BY DEF Fails
<1>3a. Held(g, t, {p}) /\ Restates(h, g, p, o, "error")
  <2>1. "error" \in Statuses /\ p \in {p} BY DEF Statuses
  <2> QED BY <2>1, StatusIsSet
<1> HIDE DEF g
<1>4. /\ Held(g, t, {p}) /\ g.tasks = h.tasks /\ g.disturbed = h.disturbed
      /\ f.record = s.record /\ f.groups = s.groups /\ f.runs = s.runs
      /\ f.provider = s.provider /\ f.disabled = s.disabled /\ LiveIn(f) = LiveIn(s)
      /\ f.objects[o].status = "error" /\ f.objects[o].enabled = s.objects[o].enabled
      /\ f.objects[o].group = s.objects[o].group /\ f.objects[o].disposer = s.objects[o].disposer
  BY <1>3a DEF Restates
<1>5. p \notin g.disturbed => Rest(f)
  <2> SUFFICES ASSUME p \notin g.disturbed PROVE Rest(f) OBVIOUS
  <2>1. Starting(h.tasks[t], s, {}) BY <1>4
  <2>2. o = s.record /\ s.record # 0 BY <2>1 DEF Starting
  <2>2a. /\ f.objects[s.record].status = "error"
         /\ f.objects[s.record].enabled = s.objects[s.record].enabled
         /\ f.objects[s.record].group = s.objects[s.record].group
         /\ f.objects[s.record].disposer = s.objects[s.record].disposer
    BY <1>4, <2>2, Zenon
  <2>3. /\ Tidy(f) /\ Current(f).status = "error" /\ Current(f).enabled = Current(s).enabled
        /\ Current(f).disposer = Current(s).disposer
    BY <1>4, <2>1, <2>2a, Restated, ZenonT(60) DEF Starting, Current
  <2>4. LiveIn(f) = {} /\ Current(f).disposer = 0 /\ Current(f).enabled
    BY <1>4, <2>1, <2>3 DEF Starting
  <2>5. Told(f) BY <2>3, <2>4 DEF Told
  <2> QED BY <1>4, <2>2, <2>3, <2>4, <2>5 DEF Rest
<1>6. HostInv(Loaded(g, t)) BY <1>4, <1>5, LoadedKeeps
<1> QED BY <1>3, <1>6

\* Lemma: two changes to the same plugin are one.
LEMMA PutPluginTwice ==
    ASSUME NEW h \in HostShape, NEW p \in Plugins, NEW r \in PluginShape, NEW s \in PluginShape
    PROVE  PutPlugin(PutPlugin(h, p, r), p, s) = PutPlugin(h, p, s)
<1> DEFINE f == PutPlugin(h, p, r)
           a == PutPlugin(f, p, s)
           b == PutPlugin(h, p, s)
<1>1. /\ f \in HostShape /\ f.tasks = h.tasks /\ f.disturbed = h.disturbed
      /\ \A q \in Plugins \ {p} : f.plugins[q] = h.plugins[q]
  BY PutPluginParts
<1>2. /\ b \in HostShape /\ b.tasks = h.tasks /\ b.disturbed = h.disturbed
      /\ b.plugins[p] = s /\ \A q \in Plugins \ {p} : b.plugins[q] = h.plugins[q]
  BY PutPluginParts
<1> HIDE DEF f, b
<1>3. /\ a \in HostShape /\ a.tasks = f.tasks /\ a.disturbed = f.disturbed
      /\ a.plugins[p] = s /\ \A q \in Plugins \ {p} : a.plugins[q] = f.plugins[q]
  BY <1>1, PutPluginParts
<1> HIDE DEF a
<1>4. a.plugins \in [Plugins -> PluginShape] /\ b.plugins \in [Plugins -> PluginShape]
  BY <1>2, <1>3 DEF HostShape
<1>5. \A q \in Plugins : a.plugins[q] = b.plugins[q] BY <1>1, <1>2, <1>3
<1>6. a.plugins = b.plugins BY <1>4, <1>5
<1> QED BY <1>1, <1>2, <1>3, <1>6, SameHost DEF a, b, f

\* The run i of p is over, and with it the scope definePlugin has made for it.
RunEnds(h, p, i, state) ==
    LET g == [h EXCEPT !.plugins[p].runs[i].state = state]
    IN  IF h.plugins[p].runs[i].provided /\ p \notin Legacy THEN Withdraw(g, p) ELSE g

RunIsOver(h, g, p, i) ==
    LET s == h.plugins[p]
        f == g.plugins[p]
    IN  /\ g.tasks = h.tasks /\ g.disturbed = h.disturbed
        /\ f.record = s.record /\ f.objects = s.objects /\ f.groups = s.groups
        /\ f.disabled = s.disabled /\ Len(f.runs) = Len(s.runs)
        /\ LiveIn(f) = LiveIn(s) \ {i}
        /\ \A q \in Plugins \ {p} : g.plugins[q] = h.plugins[q]

RunSet(s, i, state) == [s EXCEPT !.runs[i].state = state]

\* Lemma: a run that ends, or is stopped, leaves the parts of its plugin right.
LEMMA RunPut ==
    ASSUME NEW s \in PluginShape, InBounds(s), NEW i \in 1..Len(s.runs), NEW state \in RunStates
    PROVE  LET f == RunSet(s, i, state) IN
           /\ f \in PluginShape /\ InBounds(f)
           /\ f.record = s.record /\ f.objects = s.objects /\ f.groups = s.groups
           /\ f.disabled = s.disabled /\ f.provider = s.provider
           /\ Len(f.runs) = Len(s.runs) /\ f.runs[i].state = state
           /\ f.runs[i].provided = s.runs[i].provided
           /\ \A x \in 1..Len(s.runs) \ {i} : f.runs[x] = s.runs[x]
           /\ LiveIn(f) = IF state \in LiveStates THEN LiveIn(s) \union {i} ELSE LiveIn(s) \ {i}
<1> DEFINE r == [s.runs[i] EXCEPT !.state = state]
           w == [s.runs EXCEPT ![i] = r]
           f == RunSet(s, i, state)
<1>1. s.runs \in Seq(RunShape) BY PluginFields
<1>2. s.runs[i] \in RunShape BY <1>1
<1>3. r \in RunShape /\ r.state = state /\ r.provided = s.runs[i].provided BY <1>2 DEF RunShape
<1>4. f = [s EXCEPT !.runs = w] BY Zenon DEF RunSet
<1> HIDE DEF r
<1>5. /\ w \in Seq(RunShape) /\ Len(w) = Len(s.runs) /\ w[i] = r
      /\ \A x \in 1..Len(s.runs) \ {i} : w[x] = s.runs[x]
  BY <1>1, <1>3
<1> HIDE DEF w, f
<1>6. f \in PluginShape BY <1>4, <1>5 DEF PluginShape
<1>7. /\ f.record = s.record /\ f.groups = s.groups /\ f.objects = s.objects /\ f.runs = w
      /\ f.provider = s.provider /\ f.disabled = s.disabled
  BY <1>4 DEF PluginShape
<1>8. InBounds(f) BY <1>5, <1>7 DEF InBounds
<1>9. DOMAIN f.runs = 1..Len(s.runs) /\ DOMAIN s.runs = 1..Len(s.runs) BY <1>1, <1>5, <1>7
<1>10. LiveIn(f) = IF state \in LiveStates THEN LiveIn(s) \union {i} ELSE LiveIn(s) \ {i}
  <2>1. \A x \in 1..Len(s.runs) \ {i} : f.runs[x].state = s.runs[x].state BY <1>5, <1>7
  <2>2. f.runs[i].state = state BY <1>3, <1>5, <1>7
  <2> QED BY <2>1, <2>2, <1>9 DEF LiveIn
<1> QED BY <1>3, <1>5, <1>6, <1>7, <1>8, <1>10 DEF f

\* Lemma: a run of a plugin in hand is over.
LEMMA RunEndsIs ==
    ASSUME NEW h, NEW t, NEW P, Held(h, t, P), NEW p \in P, NEW i \in 1..Len(h.plugins[p].runs),
           i \notin Others(h, t, p), NEW state \in {"failed", "down"}
    PROVE  LET g == RunEnds(h, p, i, state) IN Held(g, t, P) /\ RunIsOver(h, g, p, i)
<1> DEFINE s == h.plugins[p]
           e == RunSet(s, i, state)
           c == s.runs[i].provided /\ p \notin Legacy
           f == IF c THEN [e EXCEPT !.provider = 0] ELSE e
           g == PutPlugin(h, p, f)
<1>1. /\ h \in HostShape /\ t \in 1..Len(h.tasks) /\ p \in Plugins
      /\ h.plugins \in [Plugins -> PluginShape]
  BY HeldShapes
<1>2. s \in PluginShape /\ InBounds(s) /\ Offered(p, s) BY <1>1 DEF Held
<1>3. PutPlugin(h, p, e) = [h EXCEPT !.plugins[p].runs[i].state = state] BY Zenon DEF PutPlugin, RunSet
<1>4. RunEnds(h, p, i, state) = IF c THEN Withdraw(PutPlugin(h, p, e), p) ELSE PutPlugin(h, p, e)
  BY <1>3 DEF RunEnds
<1>5. state \in RunStates /\ state \notin LiveStates BY DEF RunStates, LiveStates
<1> HIDE DEF s
<1>6. /\ e \in PluginShape /\ InBounds(e)
      /\ e.record = s.record /\ e.objects = s.objects /\ e.groups = s.groups
      /\ e.disabled = s.disabled /\ e.provider = s.provider
      /\ Len(e.runs) = Len(s.runs) /\ e.runs[i].state = state
      /\ e.runs[i].provided = s.runs[i].provided
      /\ \A x \in 1..Len(s.runs) \ {i} : e.runs[x] = s.runs[x]
      /\ LiveIn(e) = LiveIn(s) \ {i}
  BY <1>2, <1>5, RunPut DEF s
<1> HIDE DEF e
<1>7. /\ f \in PluginShape /\ f.record = e.record /\ f.objects = e.objects /\ f.groups = e.groups
      /\ f.disabled = e.disabled /\ f.runs = e.runs
      /\ f.provider = IF c THEN 0 ELSE e.provider
  BY <1>6 DEF PluginShape
<1>8. RunEnds(h, p, i, state) = g
  <2>1. CASE c
    <3>1. (PutPlugin(h, p, e)).plugins[p] = e BY <1>1, <1>6, PutPluginParts
    <3>2. Withdraw(PutPlugin(h, p, e), p) = PutPlugin(PutPlugin(h, p, e), p, f)
      BY <2>1, <3>1, WithdrawIs
    <3> QED BY <2>1, <3>2, <1>1, <1>4, <1>6, <1>7, PutPluginTwice
  <2>2. CASE ~c BY <2>2, <1>4
  <2> QED BY <2>1, <2>2
<1> HIDE DEF f
<1>9. LiveIn(f) = LiveIn(s) \ {i} BY <1>6, <1>7 DEF LiveIn
<1>10. Len(s.objects) \in Nat /\ Len(s.runs) \in Nat BY <1>2, Lengths
<1>11. InBounds(f) BY <1>6, <1>7, <1>10 DEF InBounds
<1>12. Offered(p, f)
  <2> SUFFICES ASSUME p \notin Legacy, f.provider # 0
               PROVE  f.provider \in LiveIn(f) /\ f.runs[f.provider].provided
    BY DEF Offered
  <2>1. ~c /\ f.provider = s.provider BY <1>6, <1>7
  <2>2. s.provider \in LiveIn(s) /\ s.runs[s.provider].provided BY <1>2, <2>1 DEF Offered
  <2>3. s.provider # i BY <2>1, <2>2
  <2>4. s.provider \in 1..Len(s.runs)
    <3>1. DOMAIN s.runs = 1..Len(s.runs) BY <1>2, PluginFields
    <3> QED BY <2>2, <3>1 DEF LiveIn
  <2>5. f.runs[s.provider] = s.runs[s.provider] BY <1>6, <1>7, <2>3, <2>4
  <2> QED BY <1>9, <2>1, <2>2, <2>3, <2>5
<1>13. Held(g, t, P)
  <2>1. Len(f.objects) >= Len(s.objects) /\ Len(f.runs) >= Len(s.runs) BY <1>6, <1>7, <1>10
  <2>2. \A x \in Others(h, t, p) : f.runs[x].state = s.runs[x].state
    <3> TAKE x \in Others(h, t, p)
    <3>1. x # i OBVIOUS
    <3>2. CASE x \in 1..Len(s.runs) BY <3>1, <3>2, <1>6, <1>7
    <3>3. x \in 1..Len(s.runs)
      <4>1. PICK u \in 1..Len(h.tasks) \ {t} : <<p, x>> \in Owned(h.tasks[u]) BY DEF Others
      <4>2. Refers(h, h.tasks[u]) BY DEF Held
      <4>3. /\ h.tasks[u].cur = p /\ h.tasks[u].run = x /\ x # 0
            /\ h.tasks[u].pc \in {"activating", "disposing"}
        BY <4>1 DEF Owned
      <4>4. x \in 1..Len(h.plugins[p].runs) \/ x \in 0..Len(h.plugins[p].runs)
        BY <4>2, <4>3, Zenon DEF Refers
      <4>5. \A m \in Nat : x \in 0..m => x \in 1..m BY <4>3
      <4> QED BY <4>4, <4>5, <1>10 DEF s
    <3> QED BY <3>2, <3>3
  <2> QED BY <1>2, <1>7, <1>11, <1>12, <2>1, <2>2, HeldPlugin DEF s
<1>14. /\ g.tasks = h.tasks /\ g.disturbed = h.disturbed
       /\ g.plugins[p] = f /\ \A q \in Plugins \ {p} : g.plugins[q] = h.plugins[q]
  BY <1>1, <1>7, PutPluginParts
<1> HIDE DEF g
<1>15. RunIsOver(h, g, p, i) BY <1>6, <1>7, <1>9, <1>14 DEF RunIsOver, s
<1> QED BY <1>8, <1>13, <1>15

\* Lemma: the entry of a plugin that is being activated throws.
LEMMA ThrowsKeeps ==
    ASSUME NEW h, NEW t, NEW p, Held(h, t, {p}), h.tasks[t].on = {p}, h.tasks[t].cur = p,
           h.tasks[t].obj \in 1..Len(h.plugins[p].objects),
           h.tasks[t].run \in 1..Len(h.plugins[p].runs), h.tasks[t].run \notin Others(h, t, p),
           p \notin h.disturbed => Starting(h.tasks[t], h.plugins[p], {h.tasks[t].run})
    PROVE  HostInv(Throws(h, t))
<1> PICK i : i = h.tasks[t].run OBVIOUS
<1> DEFINE g == RunEnds(h, p, i, "failed")
<1>1. Throws(h, t) = Fails(g, t) BY Zenon DEF Throws, RunEnds
<1>2. Held(g, t, {p}) /\ RunIsOver(h, g, p, i)
  <2>1. i \in 1..Len(h.plugins[p].runs) /\ i \notin Others(h, t, p) /\ p \in {p} OBVIOUS
  <2> QED BY <2>1, RunEndsIs
<1> HIDE DEF g
<1>3. p \notin g.disturbed => Starting(g.tasks[t], g.plugins[p], {})
  <2> SUFFICES ASSUME p \notin g.disturbed PROVE Starting(g.tasks[t], g.plugins[p], {}) OBVIOUS
  <2> PICK s, f : s = h.plugins[p] /\ f = g.plugins[p] OBVIOUS
  <2>1. Starting(h.tasks[t], s, {i}) /\ g.tasks = h.tasks BY <1>2 DEF RunIsOver
  <2>2. /\ f.record = s.record /\ f.objects = s.objects /\ f.groups = s.groups
        /\ f.disabled = s.disabled /\ LiveIn(f) = LiveIn(s) \ {i}
    BY <1>2 DEF RunIsOver
  <2>3. Tidy(f)
    <3>1. Tidy(s) BY <2>1 DEF Starting
    <3>2. /\ f.objects[s.record].enabled = s.objects[s.record].enabled
          /\ f.objects[s.record].group = s.objects[s.record].group
      BY <2>2
    <3> QED BY <2>2, <3>1, <3>2, Restated
  <2>4. LiveIn(f) = {} BY <2>1, <2>2 DEF Starting
  <2> QED BY <2>1, <2>2, <2>3, <2>4 DEF Starting, Current
<1>4. g.tasks = h.tasks /\ g.plugins[p].objects = h.plugins[p].objects BY <1>2 DEF RunIsOver
<1>5. HostInv(Fails(g, t)) BY <1>2, <1>3, <1>4, FailsKeeps
<1> QED BY <1>1, <1>5

-----------------------------------------------------------------------------
(* unloadPlugin.                                                             *)

\* Task k may unload p: it has p in hand, and p is not left for later.
Unloads(k, p) ==
    /\ k.op \in {"disable", "reload", "uninstall"} /\ k.pc # "removing"
    /\ k.op # "uninstall" => k.on = {p} /\ k.plugin = p
    /\ k.op = "uninstall" => k.rest \subseteq k.on /\ p \notin k.rest

\* Lemma: the task goes on with a plugin that is stopped.
LEMMA AfterUnloadKeeps ==
    ASSUME NEW h, NEW t, NEW p, Held(h, t, {p}), Unloads(h.tasks[t], p),
           p \notin h.disturbed => Emptied(h.plugins[p])
    PROVE  HostInv(AfterUnload(h, t))
<1> DEFINE s == h.plugins[p]
<1>1. /\ h \in HostShape /\ t \in 1..Len(h.tasks) /\ p \in Plugins
      /\ h.plugins \in [Plugins -> PluginShape] /\ h.tasks[t] \in TaskShape /\ p \in h.tasks[t].on
  BY HeldShapes
<1>2. s \in PluginShape /\ InBounds(s) BY <1>1 DEF Held
<1>3. CASE h.tasks[t].op = "disable"
  <2> PICK o : o = h.tasks[t].held OBVIOUS
  <2> DEFINE g == SetStatus(h, p, o, "disabled")
             f == g.plugins[p]
  <2>1. h.tasks[t].on = {p} /\ h.tasks[t].plugin = p BY <1>3 DEF Unloads
  <2>2. AfterUnload(h, t) = End(g, t) BY <1>3, <2>1 DEF AfterUnload
  <2>3. o \in 1..Len(s.objects)
    <3>1. o \in 0..Len(s.objects) /\ o # 0 BY <1>3, <2>1 DEF Held
    <3>2. \A m \in Nat : \A i \in 0..m : i # 0 => i \in 1..m OBVIOUS
    <3> QED BY <1>2, <3>1, <3>2, Lengths, Zenon
  <2>4. Held(g, t, {p}) /\ Restates(h, g, p, o, "disabled")
    <3>1. "disabled" \in Statuses /\ p \in {p} BY DEF Statuses
    <3> QED BY <2>3, <3>1, StatusIsSet
  <2> HIDE DEF g, s
  <2>5. p \notin g.disturbed => Rest(f)
    <3> SUFFICES ASSUME p \notin g.disturbed PROVE Rest(f) OBVIOUS
    <3>1. Emptied(s) BY <2>4 DEF Restates, s
    <3>2. /\ g.tasks = h.tasks /\ f.record = s.record /\ f.groups = s.groups /\ f.runs = s.runs
          /\ f.provider = s.provider /\ f.disabled = s.disabled /\ LiveIn(f) = LiveIn(s)
      BY <2>4 DEF Restates, s
    <3>3. s.record # 0 => /\ f.objects[s.record].enabled = s.objects[s.record].enabled
                          /\ f.objects[s.record].group = s.objects[s.record].group
                          /\ f.objects[s.record].disposer = s.objects[s.record].disposer
                          /\ f.objects[s.record].status \in {s.objects[s.record].status, "disabled"}
      <4>1. CASE s.record = o BY <4>1, <2>4 DEF Restates, s
      <4>2. CASE s.record # o
        <5>1. s.record # 0 => s.record \in 1..Len(s.objects)
          <6>1. \A m \in Nat : \A i \in 0..m : i # 0 => i \in 1..m OBVIOUS
          <6>2. s.record \in 0..Len(s.objects) BY <1>2 DEF InBounds
          <6> QED BY <1>2, <6>1, <6>2, Lengths, Zenon
        <5> QED BY <4>2, <5>1, <2>4 DEF Restates, s
      <4> QED BY <4>1, <4>2
    <3>4. Rest(s) /\ Tidy(s) BY <3>1 DEF Emptied, Rest
    <3>5. Tidy(f)
      <4>1. CASE s.record = 0 BY <3>2, <3>4, <4>1 DEF Tidy
      <4>2. CASE s.record # 0 BY <3>2, <3>3, <3>4, <4>2, Restated
      <4> QED BY <4>1, <4>2
    <3>6. s.record # 0 => Told(f) /\ (~Current(f).enabled => Current(f).status = "disabled")
      BY <3>1, <3>2, <3>3 DEF Emptied, Rest, Told, Current
    <3> QED BY <3>2, <3>4, <3>5, <3>6 DEF Rest
  <2>6. g.tasks[t].on = {p} BY <2>1, <2>4 DEF Restates
  <2>7. HostInv(End(g, t)) BY <2>4, <2>5, <2>6, EndKeeps
  <2> QED BY <2>2, <2>7
<1>4. CASE h.tasks[t].op = "reload"
  <2> DEFINE loads == p \in Known(h) /\ RecordOf(h, p).enabled
  <2>1. h.tasks[t].on = {p} /\ h.tasks[t].plugin = p BY <1>4 DEF Unloads
  <2>2. CASE loads
    <3>1. AfterUnload(h, t) = Load(h, t, p, s.record) BY <1>4, <2>1, <2>2 DEF AfterUnload
    <3>2. s.record # 0 BY <2>2 DEF Known
    <3>3. s.record \in 1..Len(s.objects)
      <4>1. \A m \in Nat : \A i \in 0..m : i # 0 => i \in 1..m OBVIOUS
      <4>2. s.record \in 0..Len(s.objects) BY <1>2 DEF InBounds
      <4> QED BY <1>2, <3>2, <4>1, <4>2, Lengths, Zenon
    <3>4. p \notin h.disturbed => /\ Tidy(s) /\ Current(s).enabled /\ Current(s).status # "active"
                                  /\ LiveIn(s) = {} /\ Current(s).disposer = 0
      BY <2>2, <3>2 DEF Emptied, Rest, Told, Current, RecordOf
    <3>5. PICK o \in 1..Len(h.plugins[p].objects) : o = h.plugins[p].record BY <3>3
    <3>6. HostInv(Load(h, t, p, o))
      <4>1. p \notin h.disturbed =>
              LET r == h.plugins[p] IN
              /\ o = r.record /\ Tidy(r) /\ Current(r).enabled
              /\ IF Current(r).status = "active" THEN Rest(r)
                 ELSE LiveIn(r) = {} /\ Current(r).disposer = 0
        BY <3>4, <3>5
      <4> QED BY <1>4, <2>1, <4>1, LoadKeeps
    <3> QED BY <3>1, <3>5, <3>6
  <2>3. CASE ~loads
    <3>1. AfterUnload(h, t) = End(h, t) BY <1>4, <2>1, <2>3 DEF AfterUnload
    <3> QED BY <2>1, <3>1, EndKeeps DEF Emptied
  <2> QED BY <2>2, <2>3
<1>5. CASE h.tasks[t].op = "uninstall"
  <2> DEFINE k == [h.tasks[t] EXCEPT !.pc = "unloaded"]
  <2>1. AfterUnload(h, t) = PutTask(h, t, k) BY <1>5, AtIs DEF AfterUnload
  <2>2. /\ k \in TaskShape /\ k.pc = "unloaded" /\ k.op = "uninstall" /\ k.on = h.tasks[t].on
        /\ k.rest = h.tasks[t].rest /\ k.plugin = h.tasks[t].plugin /\ k.held = h.tasks[t].held
    BY <1>1, <1>5 DEF TaskShape, Pcs
  <2> HIDE DEF k
  <2>3. h.tasks[t].rest \subseteq h.tasks[t].on /\ p \notin h.tasks[t].rest /\ h.tasks[t].pc # "removing"
    BY <1>5 DEF Unloads
  <2>4. Placed(k) /\ Owned(k) = {} BY <2>2, <2>3 DEF Placed, Owned, Pcs
  <2>5. Refers(h, k)
    <3>1. k.held \in 0..Len(h.plugins[k.plugin].objects) BY <2>2 DEF Held
    <3> QED BY <2>2, <2>4, <3>1 DEF Refers
  <2>6. ASSUME NEW q \in h.tasks[t].on \ h.disturbed PROVE InPhase(k, q, h.plugins[q])
    <3>0. q \in Plugins BY <1>1 DEF TaskShape
    <3>1. Waits(k, q, h.plugins[q])
      <4>1. CASE q = p BY <4>1, <2>2, <2>3 DEF Waits, Emptied
      <4>2. CASE q # p
        <5>1. Elsewhere(h, t, {p}, q) BY <2>6, <3>0 DEF Held
        <5>2. Waits(h.tasks[t], q, h.plugins[q]) BY <5>1, <4>2 DEF Elsewhere
        <5> QED BY <5>2, <2>2 DEF Waits
      <4> QED BY <4>1, <4>2
    <3> QED BY <3>1, <2>2 DEF InPhase
  <2>7. HostInv(PutTask(h, t, k)) BY <2>2, <2>4, <2>5, <2>6, Released
  <2> QED BY <2>1, <2>7
<1> QED BY <1>3, <1>4, <1>5 DEF Unloads

\* g is h but for record o of plugin p, which is r, and for the groups of p.
ObjectSet(h, p, o, r) == [h EXCEPT !.plugins[p].objects[o] = r]
ObjectChanges(h, g, p, o, r) ==
    LET s == h.plugins[p]
        f == g.plugins[p]
    IN  /\ g.tasks = h.tasks /\ g.disturbed = h.disturbed
        /\ f.record = s.record /\ f.groups = s.groups /\ f.runs = s.runs
        /\ f.provider = s.provider /\ f.disabled = s.disabled /\ LiveIn(f) = LiveIn(s)
        /\ Len(f.objects) = Len(s.objects) /\ f.objects[o] = r
        /\ \A q \in Plugins \ {p} : g.plugins[q] = h.plugins[q]

\* Lemma: a record is set, and the rest stays.
LEMMA ObjectIsSet ==
    ASSUME NEW h, NEW t, NEW P, Held(h, t, P), NEW p \in P,
           NEW o \in 1..Len(h.plugins[p].objects), NEW r \in ObjectShape,
           r.group \in 1..Len(h.plugins[p].groups), r.disposer \in 0..Len(h.plugins[p].runs)
    PROVE  LET g == ObjectSet(h, p, o, r) IN Held(g, t, P) /\ ObjectChanges(h, g, p, o, r)
<1> DEFINE s == h.plugins[p]
           f == WithObject(s, o, r)
           g == PutPlugin(h, p, f)
<1>1. /\ h \in HostShape /\ t \in 1..Len(h.tasks) /\ p \in Plugins
      /\ h.plugins \in [Plugins -> PluginShape]
  BY HeldShapes
<1>2. s \in PluginShape /\ InBounds(s) /\ Offered(p, s) BY <1>1 DEF Held
<1>3. ObjectSet(h, p, o, r) = g BY Zenon DEF ObjectSet, PutPlugin, WithObject
<1> HIDE DEF s
<1>4. /\ f \in PluginShape /\ InBounds(f) /\ LiveIn(f) = LiveIn(s)
      /\ \A q : Offered(q, s) => Offered(q, f)
      /\ f.record = s.record /\ f.groups = s.groups /\ f.runs = s.runs
      /\ f.provider = s.provider /\ f.installed = s.installed /\ f.disabled = s.disabled
      /\ Len(f.objects) = Len(s.objects) /\ f.objects[o] = r
  BY <1>2, ObjectPut DEF s
<1> HIDE DEF f
<1>5. Len(s.objects) \in Nat /\ Len(s.runs) \in Nat BY <1>2, Lengths
<1>6. Held(g, t, P)
  <2>1. Len(f.objects) >= Len(s.objects) /\ Len(f.runs) >= Len(s.runs) BY <1>4, <1>5
  <2>2. \A i \in Others(h, t, p) : f.runs[i].state = s.runs[i].state BY <1>4
  <2> QED BY <1>2, <1>4, <2>1, <2>2, HeldPlugin DEF s
<1>7. /\ g.tasks = h.tasks /\ g.disturbed = h.disturbed
      /\ g.plugins[p] = f /\ \A q \in Plugins \ {p} : g.plugins[q] = h.plugins[q]
  BY <1>1, <1>4, PutPluginParts
<1> HIDE DEF g
<1>8. ObjectChanges(h, g, p, o, r) BY <1>4, <1>7 DEF ObjectChanges, s
<1> QED BY <1>3, <1>6, <1>8

GroupsChange(h, g, p, gs) ==
    LET s == h.plugins[p]
        f == g.plugins[p]
    IN  /\ g.tasks = h.tasks /\ g.disturbed = h.disturbed
        /\ f.record = s.record /\ f.objects = s.objects /\ f.runs = s.runs
        /\ f.provider = s.provider /\ f.disabled = s.disabled /\ LiveIn(f) = LiveIn(s)
        /\ f.groups = gs
        /\ \A q \in Plugins \ {p} : g.plugins[q] = h.plugins[q]

GroupsSet(h, p, gs) == [h EXCEPT !.plugins[p].groups = gs]

\* Lemma: the groups of a plugin are set, and the rest stays.
LEMMA GroupsAreSet ==
    ASSUME NEW h, NEW t, NEW P, Held(h, t, P), NEW p \in P,
           NEW gs \in Seq(GroupShape), Len(gs) >= Len(h.plugins[p].groups)
    PROVE  LET g == GroupsSet(h, p, gs) IN Held(g, t, P) /\ GroupsChange(h, g, p, gs)
<1> DEFINE s == h.plugins[p]
           f == [s EXCEPT !.groups = gs]
           g == PutPlugin(h, p, f)
<1>1. /\ h \in HostShape /\ t \in 1..Len(h.tasks) /\ p \in Plugins
      /\ h.plugins \in [Plugins -> PluginShape]
  BY HeldShapes
<1>2. s \in PluginShape /\ InBounds(s) /\ Offered(p, s) BY <1>1 DEF Held
<1>3. GroupsSet(h, p, gs) = g BY Zenon DEF GroupsSet, PutPlugin
<1>4. Len(gs) \in Nat /\ Len(gs) >= Len(s.groups) OBVIOUS
<1> HIDE DEF s
<1>5. /\ f \in PluginShape /\ f.record = s.record /\ f.objects = s.objects /\ f.runs = s.runs
      /\ f.provider = s.provider /\ f.disabled = s.disabled /\ f.groups = gs
  BY <1>2 DEF PluginShape
<1> HIDE DEF f
<1>6. /\ Len(s.objects) \in Nat /\ Len(s.runs) \in Nat /\ Len(s.groups) \in Nat
  BY <1>2, Lengths
<1>7. InBounds(f)
  <2>1. 1..Len(s.groups) \subseteq 1..Len(gs) BY <1>4, <1>6, Ranges
  <2> QED BY <1>2, <1>5, <2>1 DEF InBounds
<1>8. LiveIn(f) = LiveIn(s) /\ Offered(p, f) BY <1>2, <1>5 DEF LiveIn, Offered
<1>9. Held(g, t, P)
  <2>1. Len(f.objects) >= Len(s.objects) /\ Len(f.runs) >= Len(s.runs) BY <1>5, <1>6
  <2>2. \A i \in Others(h, t, p) : f.runs[i].state = s.runs[i].state BY <1>5
  <2> QED BY <1>5, <1>7, <1>8, <2>1, <2>2, HeldPlugin DEF s
<1>10. /\ g.tasks = h.tasks /\ g.disturbed = h.disturbed
       /\ g.plugins[p] = f /\ \A q \in Plugins \ {p} : g.plugins[q] = h.plugins[q]
  BY <1>1, <1>5, PutPluginParts
<1> HIDE DEF g
<1>11. GroupsChange(h, g, p, gs) BY <1>5, <1>8, <1>10 DEF GroupsChange, s
<1> QED BY <1>3, <1>9, <1>11

\* Lemma: the record of a plugin that runs nothing becomes idle or disabled.
LEMMA IdleKeeps ==
    ASSUME NEW h, NEW t, NEW p, Held(h, t, {p}), Unloads(h.tasks[t], p),
           NEW o \in 1..Len(h.plugins[p].objects),
           p \notin h.disturbed =>
               LET s == h.plugins[p] IN
               /\ o = s.record /\ s.record # 0 /\ Tidy(s) /\ LiveIn(s) = {} /\ s.provider = 0
               /\ Current(s).disposer = 0 /\ ~s.groups[Current(s).group].holds
    PROVE  HostInv(AfterUnload(Idle(h, p, o), t))
<1> DEFINE s == h.plugins[p]
           status == IF s.objects[o].enabled THEN "idle" ELSE "disabled"
           g == SetStatus(h, p, o, status)
           f == g.plugins[p]
<1>1. Idle(h, p, o) = g BY DEF Idle
<1>2. Held(g, t, {p}) /\ Restates(h, g, p, o, status)
  <2>1. status \in Statuses /\ p \in {p} BY DEF Statuses
  <2> HIDE DEF status
  <2> QED BY <2>1, StatusIsSet
<1> HIDE DEF g
<1>3. p \notin g.disturbed => Emptied(f)
  <2> SUFFICES ASSUME p \notin g.disturbed PROVE Emptied(f) OBVIOUS
  <2>1. /\ g.disturbed = h.disturbed
        /\ f.record = s.record /\ f.groups = s.groups /\ f.runs = s.runs
        /\ f.provider = s.provider /\ f.disabled = s.disabled /\ LiveIn(f) = LiveIn(s)
        /\ f.objects[o].status = status /\ f.objects[o].enabled = s.objects[o].enabled
        /\ f.objects[o].group = s.objects[o].group
        /\ f.objects[o].disposer = s.objects[o].disposer
    BY <1>2 DEF Restates
  <2>2. /\ o = s.record /\ s.record # 0 /\ Tidy(s) /\ LiveIn(s) = {} /\ s.provider = 0
        /\ Current(s).disposer = 0 /\ ~s.groups[Current(s).group].holds
    BY <2>1
  <2> HIDE DEF s, f
  <2>3. Tidy(f) BY <2>1, <2>2, Restated
  <2>4. /\ Current(f).status = status /\ Current(f).enabled = s.objects[o].enabled
        /\ Current(f).disposer = 0 /\ Current(f).group = Current(s).group
    BY <2>1, <2>2 DEF Current
  <2>5. Told(f) /\ Current(f).status \in {"idle", "disabled"} BY <2>1, <2>2, <2>4 DEF Told
  <2>6. ~Current(f).enabled => Current(f).status = "disabled" BY <2>4
  <2> QED BY <2>1, <2>2, <2>3, <2>5, <2>6 DEF Emptied, Rest
<1>4. g.tasks = h.tasks BY <1>2 DEF Restates
<1>5. HostInv(AfterUnload(g, t)) BY <1>2, <1>3, <1>4, AfterUnloadKeeps
<1> QED BY <1>1, <1>5

\* Lemma: what follows the disposer of the record a task unloads.
LEMMA UnloadedKeeps ==
    ASSUME NEW h, NEW t, NEW p, Held(h, t, {p}), Unloads(h.tasks[t], p), h.tasks[t].cur = p,
           NEW o \in 1..Len(h.plugins[p].objects), h.tasks[t].obj = o, NEW threw \in BOOLEAN,
           p \notin h.disturbed =>
               LET s == h.plugins[p] IN
               o = s.record /\ s.record # 0 /\ Tidy(s) /\ LiveIn(s) = {}
    PROVE  HostInv(Unloaded(h, t, threw))
<1> DEFINE s == h.plugins[p]
           G == s.objects[o].group
           n == Len(s.groups) + 1
           clean == [s.groups EXCEPT ![G] = [disposed |-> TRUE, holds |-> FALSE]]
           d == IF threw THEN MarkDisturbed(h, {p}) ELSE GroupsSet(h, p, clean)
           more == Append(d.plugins[p].groups, NewGroup)
           e == GroupsSet(d, p, more)
           r1 == [e.plugins[p].objects[o] EXCEPT !.group = n]
           x == ObjectSet(e, p, o, r1)
           r2 == [x.plugins[p].objects[o] EXCEPT !.disposer = 0]
           y == ObjectSet(x, p, o, r2)
           w == Withdraw(y, p)
<1>1. /\ h \in HostShape /\ p \in Plugins /\ h.plugins \in [Plugins -> PluginShape] /\ p \in {p}
  BY HeldShapes
<1>2. s \in PluginShape /\ InBounds(s) BY <1>1 DEF Held
<1>3. Unloaded(h, t, threw) = AfterUnload(Idle(w, p, o), t)
  <2>1. GroupOf(h, t) = G BY DEF GroupOf
  <2>2. [h EXCEPT !.plugins[p].groups[G] = [disposed |-> TRUE, holds |-> FALSE]] = GroupsSet(h, p, clean)
    BY Zenon DEF GroupsSet
  <2>3. d = IF threw THEN MarkDisturbed(h, {p})
            ELSE [h EXCEPT !.plugins[p].groups[GroupOf(h, t)] = [disposed |-> TRUE, holds |-> FALSE]]
    BY <2>1, <2>2
  <2> HIDE DEF d
  <2>4. y = [d EXCEPT !.plugins[p].groups = Append(@, NewGroup), !.plugins[p].objects[o].group = n,
                      !.plugins[p].objects[o].disposer = 0]
    BY Zenon DEF GroupsSet, ObjectSet
  <2> HIDE DEF y
  <2> QED BY <2>3, <2>4, Zenon DEF Unloaded
<1> HIDE DEF s
<1>4. /\ s.objects \in Seq(ObjectShape) /\ s.groups \in Seq(GroupShape) /\ Len(s.groups) \in Nat
      /\ Len(s.runs) \in Nat /\ G \in 1..Len(s.groups)
  <2>1. o \in 1..Len(s.objects) BY DEF s
  <2> QED BY <1>2, <2>1, PluginFields, Lengths DEF InBounds
<1>5. NewGroup \in GroupShape /\ [disposed |-> TRUE, holds |-> FALSE] \in GroupShape
  BY DEF NewGroup, GroupShape
<1>6. clean \in Seq(GroupShape) /\ Len(clean) = Len(s.groups)
      /\ clean[G].holds = FALSE /\ \A g \in 1..Len(s.groups) \ {G} : clean[g] = s.groups[g]
  BY <1>4, <1>5
<1> HIDE DEF clean, G
<1>7. /\ Held(d, t, {p}) /\ d.tasks = h.tasks
      /\ d.disturbed = IF threw THEN h.disturbed \union {p} ELSE h.disturbed
      /\ d.plugins[p].record = s.record /\ d.plugins[p].objects = s.objects
      /\ d.plugins[p].runs = s.runs /\ d.plugins[p].disabled = s.disabled
      /\ LiveIn(d.plugins[p]) = LiveIn(s)
      /\ d.plugins[p].groups = IF threw THEN s.groups ELSE clean
  <2>1. CASE threw
    <3> DEFINE m == MarkDisturbed(h, {p})
    <3>1. Held(m, t, {p}) BY <1>1, HeldMark
    <3>2. m.plugins = h.plugins /\ m.tasks = h.tasks /\ m.disturbed = h.disturbed \union {p}
      BY <1>1, MarkParts
    <3> HIDE DEF m
    <3>3. d = m BY <2>1 DEF m
    <3> HIDE DEF d
    <3> QED BY <2>1, <3>1, <3>2, <3>3 DEF s
  <2>2. CASE ~threw
    <3> DEFINE m == GroupsSet(h, p, clean)
    <3>1. Len(clean) >= Len(s.groups) BY <1>4, <1>6
    <3>2. Held(m, t, {p}) /\ GroupsChange(h, m, p, clean) BY <1>1, <1>6, <3>1, GroupsAreSet DEF s
    <3> HIDE DEF m
    <3>3. d = m BY <2>2 DEF m
    <3> HIDE DEF d
    <3> QED BY <2>2, <3>2, <3>3 DEF GroupsChange, s
  <2> QED BY <2>1, <2>2
<1> HIDE DEF d
<1>8. /\ more \in Seq(GroupShape) /\ Len(more) = n /\ more[n] = NewGroup /\ n \in Nat
      /\ Len(more) >= Len(d.plugins[p].groups) /\ n \in 1..n /\ n # 0
      /\ ~threw => \A g \in 1..Len(s.groups) : more[g] = clean[g]
  <2>1. /\ d.plugins[p].groups \in Seq(GroupShape) /\ Len(d.plugins[p].groups) = Len(s.groups)
        /\ ~threw => d.plugins[p].groups = clean
    BY <1>4, <1>6, <1>7
  <2> PICK gs \in Seq(GroupShape) : gs = d.plugins[p].groups BY <2>1
  <2>2. /\ Append(gs, NewGroup) \in Seq(GroupShape) /\ Len(Append(gs, NewGroup)) = Len(gs) + 1
        /\ Append(gs, NewGroup)[Len(gs) + 1] = NewGroup
        /\ \A g \in 1..Len(gs) : Append(gs, NewGroup)[g] = gs[g]
    BY <1>5
  <2>3. Len(gs) = Len(s.groups) /\ more = Append(gs, NewGroup) /\ (~threw => gs = clean) BY <2>1
  <2> HIDE DEF more
  <2> QED BY <1>4, <2>2, <2>3
<1> HIDE DEF more, n
<1>9. Held(e, t, {p}) /\ GroupsChange(d, e, p, more) BY <1>1, <1>7, <1>8, GroupsAreSet
<1> HIDE DEF e
<1>10. /\ e.plugins[p].objects = s.objects /\ e.plugins[p].groups = more
       /\ e.plugins[p].runs = s.runs /\ s.objects[o] \in ObjectShape /\ o \in 1..Len(s.objects)
       /\ s.objects[o].disposer \in 0..Len(s.runs)
  BY <1>2, <1>4, <1>7, <1>9, SMTT(30) DEF GroupsChange, InBounds, s
<1>11. /\ r1 \in ObjectShape /\ r1.group = n /\ r1.disposer = s.objects[o].disposer
       /\ r1.status = s.objects[o].status /\ r1.enabled = s.objects[o].enabled
  BY <1>8, <1>10 DEF ObjectShape
<1> HIDE DEF r1
<1>12. Held(x, t, {p}) /\ ObjectChanges(e, x, p, o, r1)
  <2>1. /\ o \in 1..Len(e.plugins[p].objects) /\ r1.group \in 1..Len(e.plugins[p].groups)
        /\ r1.disposer \in 0..Len(e.plugins[p].runs)
    BY <1>8, <1>10, <1>11
  <2> QED BY <1>1, <1>9, <1>11, <2>1, ObjectIsSet
<1> HIDE DEF x
<1>13. /\ x.plugins[p].objects[o] = r1 /\ Len(x.plugins[p].objects) = Len(s.objects)
       /\ x.plugins[p].groups = more /\ x.plugins[p].runs = s.runs
  BY <1>10, <1>12 DEF ObjectChanges
<1>14. /\ r2 \in ObjectShape /\ r2.group = n /\ r2.disposer = 0
       /\ r2.enabled = s.objects[o].enabled
  BY <1>11, <1>13 DEF ObjectShape
<1> HIDE DEF r2
<1>15. Held(y, t, {p}) /\ ObjectChanges(x, y, p, o, r2)
  <2>1. /\ o \in 1..Len(x.plugins[p].objects) /\ r2.group \in 1..Len(x.plugins[p].groups)
        /\ r2.disposer \in 0..Len(x.plugins[p].runs)
    BY <1>4, <1>8, <1>10, <1>13, <1>14
  <2> QED BY <1>1, <1>12, <1>14, <2>1, ObjectIsSet
<1> HIDE DEF y
<1>16. LET f == w.plugins[p] IN
       /\ Held(w, t, {p}) /\ w.tasks = y.tasks /\ w.disturbed = y.disturbed
       /\ f.record = y.plugins[p].record /\ f.groups = y.plugins[p].groups
       /\ f.provider = 0 /\ f.disabled = y.plugins[p].disabled
       /\ LiveIn(f) = LiveIn(y.plugins[p]) /\ f.objects = y.plugins[p].objects
  BY <1>1, <1>15, IsWithdrawn
<1> HIDE DEF w
<1>17. /\ w.tasks = h.tasks
       /\ w.disturbed = IF threw THEN h.disturbed \union {p} ELSE h.disturbed
       /\ w.plugins[p].record = s.record /\ w.plugins[p].disabled = s.disabled
       /\ LiveIn(w.plugins[p]) = LiveIn(s) /\ w.plugins[p].groups = more
       /\ w.plugins[p].objects[o] = r2 /\ o \in 1..Len(w.plugins[p].objects)
  BY <1>7, <1>9, <1>10, <1>12, <1>13, <1>15, <1>16 DEF GroupsChange, ObjectChanges
<1>18. p \notin w.disturbed =>
           LET f == w.plugins[p] IN
           /\ o = f.record /\ f.record # 0 /\ Tidy(f) /\ LiveIn(f) = {} /\ f.provider = 0
           /\ Current(f).disposer = 0 /\ ~f.groups[Current(f).group].holds
  <2> SUFFICES ASSUME p \notin w.disturbed
               PROVE LET f == w.plugins[p] IN
           /\ o = f.record /\ f.record # 0 /\ Tidy(f) /\ LiveIn(f) = {} /\ f.provider = 0
           /\ Current(f).disposer = 0 /\ ~f.groups[Current(f).group].holds
    OBVIOUS
  <2> PICK f : f = w.plugins[p] OBVIOUS
  <2>1. ~threw /\ p \notin h.disturbed BY <1>17
  <2>2. o = s.record /\ s.record # 0 /\ Tidy(s) /\ LiveIn(s) = {} BY <2>1 DEF s
  <2>3. f.record = o /\ LiveIn(f) = {} /\ f.provider = 0 /\ f.groups = more BY <1>16, <1>17, <2>2
  <2>4. Current(f) = r2 BY <1>17, <2>3 DEF Current
  <2>5. ~more[n].holds /\ ~more[n].disposed BY <1>8 DEF NewGroup
  <2>6. \A g \in 1..Len(s.groups) : ~more[g].holds
    <3> TAKE g \in 1..Len(s.groups)
    <3>1. more[g] = clean[g] BY <1>8, <2>1
    <3>2. CASE g = G BY <3>1, <3>2, <1>6
    <3>3. CASE g # G
      <4>1. clean[g] = s.groups[g] BY <3>3, <1>6
      <4>2. Current(s).group = G BY <2>2 DEF Current, G
      <4>3. ~s.groups[g].holds BY <2>2, <3>3, <4>2 DEF Tidy
      <4> QED BY <3>1, <4>1, <4>3
    <3> QED BY <3>2, <3>3
  <2>7. \A g \in 1..n : g = n \/ g \in 1..Len(s.groups)
    <3>1. \A m \in Nat : \A g \in 1..(m + 1) : g = m + 1 \/ g \in 1..m OBVIOUS
    <3> QED BY <1>4, <3>1, Zenon DEF n
  <2>8. Current(f).enabled = ~f.disabled
    <3>1. Current(s).enabled = ~s.disabled BY <2>2 DEF Tidy
    <3> QED BY <1>14, <1>17, <2>2, <2>4, <3>1 DEF Current
  <2>9. Tidy(f)
    <3>1. \A g \in 1..Len(f.groups) : ~f.groups[g].holds BY <1>8, <2>3, <2>5, <2>6, <2>7
    <3> QED BY <3>1, <1>14, <2>3, <2>4, <2>5, <2>8 DEF Tidy
  <2> QED BY <1>14, <2>2, <2>3, <2>4, <2>5, <2>9
<1>19. HostInv(AfterUnload(Idle(w, p, o), t)) BY <1>16, <1>17, <1>18, IdleKeeps
<1> QED BY <1>3, <1>19

\* Lemma: unloadPlugin of a plugin in hand.
LEMMA UnloadKeeps ==
    ASSUME NEW h, NEW t, NEW p, Held(h, t, {p}), Unloads(h.tasks[t], p),
           p \notin h.disturbed =>
               LET s == h.plugins[p] IN
               Tidy(s) /\ (s.record = 0 => Rest(s)) /\ (s.record # 0 => Told(s))
    PROVE  HostInv(Unload(h, t, p))
<1> DEFINE s == h.plugins[p]
<1>1. /\ h \in HostShape /\ p \in Plugins /\ h.plugins \in [Plugins -> PluginShape] /\ p \in {p}
      /\ t \in 1..Len(h.tasks) /\ h.tasks[t] \in TaskShape /\ p \in h.tasks[t].on
  BY HeldShapes
<1>2. s \in PluginShape /\ InBounds(s) BY <1>1 DEF Held
<1>3. PICK o : o = s.record OBVIOUS
<1> DEFINE i == s.objects[o].disposer
           st == s.objects[o].status
           first == s.runs[i].state = "up"
           works == st \in {"active", "error", "loading"}
           j == Pointed(h, t, p, o)
           l == [j EXCEPT !.tasks[t].run = IF first THEN i ELSE 0]
           m == [l EXCEPT !.plugins[p].runs[i].state = IF first THEN "stopping" ELSE @]
<1>4. Unload(h, t, p) = CASE o = 0                      -> AfterUnload(h, t)
                          [] o # 0 /\ ~works            -> AfterUnload(Idle(h, p, o), t)
                          [] o # 0 /\ works /\ i = 0    -> Unloaded(j, t, FALSE)
                          [] OTHER                      -> At(m, t, "disposing")
  <2>1. ASSUME o = 0 PROVE Unload(h, t, p) = AfterUnload(h, t)
    BY <1>3, <2>1 DEF Unload
  <2>2. ASSUME o # 0, ~works PROVE Unload(h, t, p) = AfterUnload(Idle(h, p, o), t)
    BY <1>3, <2>2, ZenonT(30) DEF Unload
  <2>3. ASSUME o # 0, works, i = 0 PROVE Unload(h, t, p) = Unloaded(j, t, FALSE)
    BY <1>3, <2>3 DEF Unload, Pointed
  <2>4. ASSUME o # 0, works, i # 0 PROVE Unload(h, t, p) = At(m, t, "disposing")
    BY <1>3, <2>4, ZenonT(150) DEF Unload, Pointed
  <2> QED BY <2>1, <2>2, <2>3, <2>4, ZenonT(30)
<1> HIDE DEF s
<1>5. CASE o = 0
  <2>1. p \notin h.disturbed => Emptied(s) BY <1>3, <1>5 DEF Emptied, s
  <2>2. HostInv(AfterUnload(h, t)) BY <2>1, AfterUnloadKeeps DEF s
  <2> QED BY <1>4, <1>5, <2>2
<1>6. ASSUME o # 0
      PROVE  /\ o \in 1..Len(s.objects) /\ o \in Nat /\ s.objects[o] \in ObjectShape
             /\ i \in 0..Len(s.runs) /\ st \in Statuses /\ i \in Nat /\ (i # 0 => i \in 1..Len(s.runs))
  <2>1. o \in 0..Len(s.objects) BY <1>2, <1>3 DEF InBounds
  <2>2. \A n \in Nat : \A x \in 0..n : x \in Nat /\ (x # 0 => x \in 1..n) OBVIOUS
  <2>3. Len(s.objects) \in Nat /\ Len(s.runs) \in Nat /\ s.objects \in Seq(ObjectShape)
    BY <1>2, Lengths, PluginFields
  <2>4. o \in 1..Len(s.objects) /\ o \in Nat BY <1>6, <2>1, <2>2, <2>3, Zenon
  <2>5. s.objects[o] \in ObjectShape BY <2>3, <2>4
  <2>6. i \in 0..Len(s.runs) BY <1>2, <2>4 DEF InBounds
  <2>7. i \in Nat /\ (i # 0 => i \in 1..Len(s.runs)) BY <2>2, <2>3, <2>6, Zenon
  <2> QED BY <2>4, <2>5, <2>6, <2>7 DEF ObjectShape
<1>7. CASE o # 0 /\ ~works
  <2>1. p \notin h.disturbed =>
            /\ o = s.record /\ s.record # 0 /\ Tidy(s) /\ LiveIn(s) = {} /\ s.provider = 0
            /\ Current(s).disposer = 0 /\ ~s.groups[Current(s).group].holds
    <3> SUFFICES ASSUME p \notin h.disturbed
                 PROVE  /\ o = s.record /\ s.record # 0 /\ Tidy(s) /\ LiveIn(s) = {} /\ s.provider = 0
                        /\ Current(s).disposer = 0 /\ ~s.groups[Current(s).group].holds
      OBVIOUS
    <3>1. Tidy(s) /\ Told(s) BY <1>3, <1>7 DEF s
    <3>2. Current(s).status = st /\ st \in {"idle", "disabled"} BY <1>3, <1>6, <1>7 DEF Current, Statuses
    <3> QED BY <1>3, <1>7, <3>1, <3>2 DEF Told
  <2>2. o \in 1..Len(h.plugins[p].objects) BY <1>6, <1>7 DEF s
  <2>3. HostInv(AfterUnload(Idle(h, p, o), t)) BY <2>1, <2>2, IdleKeeps DEF s
  <2> QED BY <1>4, <1>7, <2>3
<1>8. ASSUME o # 0
      PROVE  /\ Held(j, t, {p}) /\ j.plugins = h.plugins /\ j.disturbed = h.disturbed
             /\ j.tasks[t].cur = p /\ j.tasks[t].obj = o
             /\ j.tasks[t].op = h.tasks[t].op /\ j.tasks[t].on = h.tasks[t].on
             /\ j.tasks[t].rest = h.tasks[t].rest /\ j.tasks[t].pc = h.tasks[t].pc
             /\ j.tasks[t].plugin = h.tasks[t].plugin /\ Unloads(j.tasks[t], p)
             /\ Len(j.tasks) = Len(h.tasks)
             /\ \A u \in 1..Len(h.tasks) \ {t} : j.tasks[u] = h.tasks[u]
  <2> HIDE DEF i, st, first, works
  <2>1. /\ Held(j, t, {p}) /\ j.plugins = h.plugins /\ j.disturbed = h.disturbed
        /\ j.tasks[t].cur = p /\ j.tasks[t].obj = o
        /\ \A x \in {"op", "plugin", "on", "rest", "pc", "held", "run"} : j.tasks[t][x] = h.tasks[t][x]
        /\ Len(j.tasks) = Len(h.tasks)
        /\ \A u \in 1..Len(h.tasks) \ {t} : j.tasks[u] = h.tasks[u]
    BY <1>1, <1>6, <1>8, Points
  <2> HIDE DEF j
  <2>2. /\ j.tasks[t].op = h.tasks[t].op /\ j.tasks[t].on = h.tasks[t].on
        /\ j.tasks[t].rest = h.tasks[t].rest /\ j.tasks[t].pc = h.tasks[t].pc
        /\ j.tasks[t].plugin = h.tasks[t].plugin
    BY <2>1
  <2>3. Unloads(j.tasks[t], p) BY <2>2 DEF Unloads
  <2> QED BY <2>1, <2>2, <2>3
<1> HIDE DEF j
<1>9. CASE o # 0 /\ works /\ i = 0
  <2>1. p \notin j.disturbed =>
            LET r == j.plugins[p] IN o = r.record /\ r.record # 0 /\ Tidy(r) /\ LiveIn(r) = {}
    <3>1. j.plugins[p] = s /\ j.disturbed = h.disturbed BY <1>8, <1>9 DEF s
    <3>2. p \notin h.disturbed => Tidy(s) /\ Told(s) BY <1>3, <1>9 DEF s
    <3>3. Told(s) => LiveIn(s) = {} BY <1>3, <1>9 DEF Told, Current
    <3> QED BY <1>3, <1>9, <3>1, <3>2, <3>3
  <2>2. o \in 1..Len(j.plugins[p].objects) BY <1>6, <1>8, <1>9 DEF s
  <2>3. HostInv(Unloaded(j, t, FALSE)) BY <1>8, <1>9, <2>1, <2>2, UnloadedKeeps
  <2> QED BY <1>4, <1>9, <2>3
<1>10. CASE o # 0 /\ works /\ i # 0
  <2> DEFINE k1 == [j.tasks[t] EXCEPT !.run = IF first THEN i ELSE 0]
             state == IF first THEN "stopping" ELSE s.runs[i].state
             f == RunSet(s, i, state)
             k == [k1 EXCEPT !.pc = "disposing"]
  <2>1. j.plugins[p] = s /\ j.tasks[t] \in TaskShape BY <1>8, <1>10, HeldShapes DEF s
  <2>2. /\ k1 \in TaskShape /\ k1.run = (IF first THEN i ELSE 0) /\ k1.cur = p /\ k1.obj = o
        /\ k1.op = j.tasks[t].op /\ k1.plugin = j.tasks[t].plugin /\ k1.on = j.tasks[t].on
        /\ k1.held = j.tasks[t].held /\ k1.rest = j.tasks[t].rest /\ k1.pc = j.tasks[t].pc
    <3> HIDE DEF i, first, st, works
    <3>1. (IF first THEN i ELSE 0) \in Nat BY <1>6, <1>10
    <3> QED BY <1>8, <1>10, <2>1, <3>1 DEF TaskShape
  <2>3. l = PutTask(j, t, k1) BY Zenon DEF PutTask
  <2> HIDE DEF k1
  <2>4. Held(l, t, {p}) BY <1>8, <1>10, <2>2, <2>3, HeldTask
  <2>5. /\ l.plugins = j.plugins /\ l.disturbed = j.disturbed
        /\ Len(l.tasks) = Len(h.tasks) /\ l.tasks[t] = k1
        /\ \A u \in 1..Len(h.tasks) \ {t} : l.tasks[u] = h.tasks[u]
    <3>1. j \in HostShape /\ t \in 1..Len(j.tasks) BY <1>8, <1>10, HeldShapes
    <3>2. /\ l.plugins = j.plugins /\ l.disturbed = j.disturbed
          /\ Len(l.tasks) = Len(j.tasks) /\ l.tasks[t] = k1
          /\ \A u \in 1..Len(j.tasks) \ {t} : l.tasks[u] = j.tasks[u]
      <4> HIDE DEF l, first, i
      <4> QED BY <2>2, <2>3, <3>1, PutTaskParts
    <3> HIDE DEF l, first, i
    <3>3. Len(j.tasks) = Len(h.tasks) /\ \A u \in 1..Len(h.tasks) \ {t} : j.tasks[u] = h.tasks[u]
      BY <1>8, <1>10
    <3> QED BY <3>2, <3>3
  <2>6. l.plugins[p] = s BY <2>1, <2>5
  <2>7. m = PutPlugin(l, p, f)
    <3> HIDE DEF l, i, first
    <3>1. m = [l EXCEPT !.plugins[p].runs[i].state = state] BY <2>6
    <3> QED BY <2>6, <3>1, Zenon DEF PutPlugin, RunSet
  <2> HIDE DEF l, m
  <2>8. i \in 1..Len(s.runs) /\ i \in Nat BY <1>6, <1>10
  <2>9. s.runs[i] \in RunShape /\ state \in RunStates
    <3>1. s.runs \in Seq(RunShape) BY <1>2, PluginFields
    <3>2. s.runs[i] \in RunShape BY <2>8, <3>1
    <3> QED BY <3>2 DEF RunShape, RunStates, LiveStates
  <2> HIDE DEF i, state
  <2>10. /\ f \in PluginShape /\ InBounds(f)
         /\ f.record = s.record /\ f.objects = s.objects /\ f.groups = s.groups
         /\ f.disabled = s.disabled /\ f.provider = s.provider
         /\ Len(f.runs) = Len(s.runs) /\ f.runs[i].state = state
         /\ f.runs[i].provided = s.runs[i].provided
         /\ \A x \in 1..Len(s.runs) \ {i} : f.runs[x] = s.runs[x]
         /\ LiveIn(f) = IF state \in LiveStates THEN LiveIn(s) \union {i} ELSE LiveIn(s) \ {i}
    BY <1>2, <2>8, <2>9, RunPut
  <2> HIDE DEF f
  <2>11. LiveIn(f) = LiveIn(s)
    <3>1. i \in LiveIn(s) <=> s.runs[i].state \in LiveStates
      <4>1. DOMAIN s.runs = 1..Len(s.runs) BY <1>2, PluginFields
      <4> QED BY <2>8, <4>1 DEF LiveIn
    <3>2. state \in LiveStates <=> s.runs[i].state \in LiveStates BY DEF state, LiveStates
    <3> QED BY <2>10, <3>1, <3>2
  <2>12. Offered(p, f)
    <3>1. Offered(p, s) BY <1>1 DEF Held, s
    <3>2. s.provider \in LiveIn(s) => f.runs[s.provider].provided = s.runs[s.provider].provided
      <4>1. DOMAIN s.runs = 1..Len(s.runs) BY <1>2, PluginFields
      <4> QED BY <2>10, <4>1 DEF LiveIn
    <3> QED BY <2>10, <2>11, <3>1, <3>2 DEF Offered
  <2>13. ASSUME first, NEW u \in 1..Len(h.tasks) \ {t} PROVE <<p, i>> \notin Owned(h.tasks[u])
    <3> SUFFICES ASSUME <<p, i>> \in Owned(h.tasks[u]) PROVE FALSE OBVIOUS
    <3>1. Refers(h, h.tasks[u]) BY DEF Held
    <3>2. h.tasks[u].cur = p /\ h.tasks[u].run = i /\ Owned(h.tasks[u]) # {} BY DEF Owned
    <3>3. h.plugins[p].runs[i].state \in {"activating", "stopping"} BY <3>1, <3>2, Zenon DEF Refers
    <3> QED BY <2>13, <3>3 DEF s, i
  <2>14. Held(m, t, {p})
    <3>1. Len(f.objects) >= Len(s.objects) /\ Len(f.runs) >= Len(s.runs)
      <4>1. Len(s.objects) \in Nat /\ Len(s.runs) \in Nat BY <1>2, Lengths
      <4> QED BY <2>10, <4>1
    <3>2. ASSUME NEW x \in Others(l, t, p) PROVE f.runs[x].state = s.runs[x].state
      <4>1. PICK u \in 1..Len(h.tasks) \ {t} : <<p, x>> \in Owned(h.tasks[u])
        BY <2>5 DEF Others
      <4>2. CASE x = i
        <5>1. ~first BY <2>13, <4>1, <4>2
        <5> QED BY <2>10, <4>2, <5>1 DEF state
      <4>3. CASE x # i
        <5>1. Refers(h, h.tasks[u]) BY DEF Held
        <5>2. /\ h.tasks[u].cur = p /\ h.tasks[u].run = x /\ x # 0
              /\ h.tasks[u].pc \in {"activating", "disposing"}
          BY <4>1 DEF Owned
        <5>3. x \in 1..Len(h.plugins[p].runs) \/ x \in 0..Len(h.plugins[p].runs)
          BY <5>1, <5>2, Zenon DEF Refers
        <5>4. \A n \in Nat : x \in 0..n => x \in 1..n BY <5>2
        <5>5. x \in 1..Len(s.runs)
          <6>1. Len(s.runs) \in Nat BY <1>2, Lengths
          <6> QED BY <5>3, <5>4, <6>1 DEF s
        <5> QED BY <2>10, <4>3, <5>5
      <4> QED BY <4>2, <4>3
    <3> QED BY <1>1, <2>4, <2>6, <2>7, <2>10, <2>12, <3>1, <3>2, HeldPlugin
  <2>15. /\ m.tasks = l.tasks /\ m.disturbed = h.disturbed /\ m.plugins[p] = f
         /\ \A q \in Plugins \ {p} : m.plugins[q] = h.plugins[q]
    <3>1. l \in HostShape BY <2>4, HeldShapes
    <3>2. f \in PluginShape BY <2>10
    <3>3. /\ m.tasks = l.tasks /\ m.disturbed = l.disturbed /\ m.plugins[p] = f
          /\ \A q \in Plugins \ {p} : m.plugins[q] = l.plugins[q]
      BY <1>1, <2>7, <3>1, <3>2, PutPluginParts, ZenonT(30)
    <3>4. l.plugins = h.plugins /\ l.disturbed = h.disturbed BY <1>8, <1>10, <2>5
    <3> QED BY <3>3, <3>4
  <2>16. Unload(h, t, p) = PutTask(m, t, k)
    <3>1. Unload(h, t, p) = At(m, t, "disposing") BY <1>4, <1>10 DEF l, m, i
    <3> QED BY <2>5, <2>15, <3>1, AtIs
  <2>17. /\ k \in TaskShape /\ k.pc = "disposing" /\ k.run = (IF first THEN i ELSE 0)
         /\ k.cur = p /\ k.obj = o /\ k.op = h.tasks[t].op /\ k.plugin = h.tasks[t].plugin
         /\ k.on = h.tasks[t].on /\ k.held = m.tasks[t].held /\ k.rest = h.tasks[t].rest
         /\ k.plugin = m.tasks[t].plugin /\ k.on = m.tasks[t].on /\ k.op = m.tasks[t].op
    BY <1>8, <1>10, <2>2, <2>5, <2>15, SMTT(30) DEF TaskShape, Pcs
  <2> HIDE DEF k
  <2>18. Placed(k)
    <3>1. /\ k.op \in {"disable", "reload", "uninstall"}
          /\ k.op # "uninstall" => k.on = {p} /\ k.plugin = p
          /\ k.op = "uninstall" => k.rest \subseteq k.on /\ p \notin k.rest
      BY <2>17 DEF Unloads
    <3>2. k.cur \in k.on BY <1>1, <2>17
    <3>3. k.cur = p /\ k.pc = "disposing" BY <2>17
    <3> HIDE DEF i, first, st, works
    <3> QED BY <3>1, <3>2, <3>3 DEF Placed, Pcs
  <2>19. Refers(m, k)
    <3>1. k.held \in 0..Len(m.plugins[k.plugin].objects) /\ (k.op \in {"enable", "disable"} => k.held # 0)
      BY <2>14, <2>17 DEF Held
    <3>2. k.obj \in 1..Len(m.plugins[k.cur].objects) BY <1>6, <1>10, <2>10, <2>15, <2>17
    <3>3. k.run \in 0..Len(m.plugins[k.cur].runs)
      <4>1. \A n \in Nat : 0 \in 0..n /\ \A x \in 1..n : x \in 0..n OBVIOUS
      <4>2. Len(s.runs) \in Nat /\ m.plugins[k.cur] = f BY <1>2, <2>15, <2>17, Lengths
      <4>3. k.run = i \/ k.run = 0 BY <2>17
      <4> QED BY <2>8, <2>10, <4>1, <4>2, <4>3, Zenon
    <3>4. Owned(k) # {} => m.plugins[k.cur].runs[k.run].state = "stopping"
      <4>1. Owned(k) # {} => k.run = i /\ first BY <2>17 DEF Owned
      <4>2. m.plugins[k.cur] = f BY <2>15, <2>17
      <4> QED BY <2>10, <4>1, <4>2 DEF state
    <3> QED BY <2>17, <3>1, <3>2, <3>3, <3>4 DEF Refers
  <2>20. \A u \in 1..Len(m.tasks) \ {t} : Owned(k) \intersect Owned(m.tasks[u]) = {}
    <3> TAKE u \in 1..Len(m.tasks) \ {t}
    <3>1. u \in 1..Len(h.tasks) \ {t} /\ m.tasks[u] = h.tasks[u] BY <2>5, <2>15
    <3>2. CASE first
      <4>1. Owned(k) \subseteq {<<p, i>>} BY <2>17, <3>2 DEF Owned
      <4> QED BY <2>13, <3>1, <3>2, <4>1
    <3>3. CASE ~first BY <2>17, <3>3 DEF Owned
    <3> QED BY <3>2, <3>3
  <2>21. ASSUME NEW q \in m.tasks[t].on \ m.disturbed PROVE InPhase(k, q, m.plugins[q])
    <3>0. q \in Plugins /\ q \in h.tasks[t].on BY <1>1, <2>21, <2>17 DEF TaskShape
    <3>1. CASE q = p
      <4>1. Tidy(s) /\ Told(s) BY <1>3, <1>10, <2>15, <2>21, <3>1 DEF s
      <4>2. Current(s).disposer = i BY <1>3 DEF Current, i
      <4>3. LiveIn(s) = {i} /\ first BY <1>10, <4>1, <4>2 DEF Told
      <4>4. k.run = i BY <2>17, <4>3
      <4>5. Tidy(f) BY <2>10, <4>1, Restated
      <4>6. Stopping(k, f) BY <1>3, <1>10, <2>10, <2>11, <2>17, <4>3, <4>4, <4>5 DEF Stopping
      <4> QED BY <2>15, <2>17, <3>1, <4>6 DEF InPhase
    <3>2. CASE q # p
      <4>1. Elsewhere(h, t, {p}, q) BY <2>15, <2>21, <3>0 DEF Held
      <4>2. Waits(h.tasks[t], q, h.plugins[q]) BY <3>0, <3>2, <4>1 DEF Elsewhere
      <4>3. k.op = "uninstall" BY <2>17, <3>0, <3>2 DEF Unloads
      <4>4. h.tasks[t].pc # "removing" BY DEF Unloads
      <4>5. Waits(k, q, m.plugins[q]) BY <2>15, <2>17, <3>0, <3>2, <4>2, <4>4 DEF Waits
      <4> QED BY <2>17, <3>2, <4>3, <4>5 DEF InPhase
    <3> QED BY <3>1, <3>2
  <2>22. HostInv(PutTask(m, t, k))
    <3>1. k.on \subseteq m.tasks[t].on /\ k.pc # "done" BY <2>17
    <3>2. \A q \in m.tasks[t].on \ m.disturbed :
             IF k.pc = "done" \/ q \notin k.on THEN Rest(m.plugins[q]) ELSE InPhase(k, q, m.plugins[q])
      BY <2>17, <2>21
    <3> QED BY <2>14, <2>17, <2>18, <2>19, <2>20, <3>1, <3>2, Released
  <2> QED BY <2>16, <2>22
<1> QED BY <1>5, <1>7, <1>9, <1>10

-----------------------------------------------------------------------------
(* The calls of the host.                                                    *)

\* Lemma: an action makes of the record what SetHost is given.
LEMMA Becomes ==
    ASSUME NEW h, HostInv(h), SetHost(h)
    PROVE  HostInv(Host')
<1>1. h \in HostShape BY DEF HostInv
<1>2. h = [plugins |-> h.plugins, tasks |-> h.tasks, disturbed |-> h.disturbed]
  BY <1>1 DEF HostShape
<1>3. Host' = h BY <1>2 DEF Host, SetHost
<1> QED BY <1>3

\* Lemma: a new call takes the plugins S, which were at rest if nobody has
\* disturbed them.
LEMMA CalledInHand ==
    ASSUME HostInv(Host), NEW p \in Plugins, NEW S \in SUBSET Plugins,
           NEW op \in {"enable", "disable", "reload", "uninstall", "install"},
           op \in {"enable", "disable"} => plugins[p].record # 0
    PROVE  LET h == Called(op, p, S)
               k == h.tasks[New]
           IN  /\ Held(h, New, S) /\ h.plugins = plugins
               /\ k.op = op /\ k.plugin = p /\ k.on = S /\ k.rest = {} /\ k.cur = p /\ k.pc = "begun"
               /\ k.held = plugins[p].record /\ k.run = 0
               /\ \A q \in S \ h.disturbed : Rest(plugins[q])
<1> DEFINE k == NewTask(op, p)
           g == Begins(Host, k)
           h == Take(g, New, S)
<1>1. /\ Host \in HostShape /\ Host.plugins = plugins /\ Host.tasks = tasks
      /\ plugins \in [Plugins -> PluginShape]
  <2>1. Host \in HostShape BY DEF HostInv
  <2>2. Host.plugins = plugins /\ Host.tasks = tasks BY DEF Host
  <2> QED BY <2>1, <2>2 DEF HostShape
<1>2. plugins[p] \in PluginShape /\ InBounds(plugins[p]) BY <1>1 DEF HostInv
<1>3. plugins[p].record \in Nat BY <1>2, PluginFields
<1>4. k \in TaskShape BY <1>3 DEF NewTask, TaskShape
<1>5. /\ k.op = op /\ k.plugin = p /\ k.on = {} /\ k.rest = {} /\ k.cur = p /\ k.pc = "begun"
      /\ k.held = plugins[p].record /\ k.run = 0
  BY DEF NewTask
<1>6. k.held \in 0..Len(Host.plugins[k.plugin].objects)
  BY <1>1, <1>2, <1>5 DEF InBounds
<1>7. k.op \in {"enable", "disable"} => k.held # 0 BY <1>5
<1> HIDE DEF k
<1>8. /\ Held(g, New, {}) /\ g.plugins = plugins /\ g.tasks[New] = k
  <2>1. New = Len(Host.tasks) + 1 BY <1>1 DEF New
  <2> QED BY <1>1, <1>4, <1>5, <1>6, <1>7, <2>1, Begun
<1>9. Called(op, p, S) = h BY DEF Called, Begins, k
<1> HIDE DEF g
<1>10. /\ Held(h, New, S) /\ h.plugins = plugins /\ h.tasks[New] = Working(k, S)
       /\ \A q \in S \ h.disturbed : Rest(plugins[q])
  BY <1>5, <1>8, Taken
<1> HIDE DEF h
<1> QED BY <1>4, <1>5, <1>9, <1>10 DEF TaskShape, Working

\* Record o is enabled or disabled, and the preference says so too.
EnabledSet(s, o, on) == [s EXCEPT !.objects[o].enabled = on, !.disabled = ~on]

\* Lemma: a record is enabled or disabled, and the preference with it.
LEMMA EnabledPut ==
    ASSUME NEW s \in PluginShape, InBounds(s), NEW o \in 1..Len(s.objects), NEW on \in BOOLEAN
    PROVE  LET f == EnabledSet(s, o, on) IN
           /\ f \in PluginShape /\ InBounds(f) /\ LiveIn(f) = LiveIn(s)
           /\ \A p : Offered(p, s) => Offered(p, f)
           /\ f.record = s.record /\ f.groups = s.groups /\ f.runs = s.runs
           /\ f.provider = s.provider /\ f.disabled = ~on /\ Len(f.objects) = Len(s.objects)
           /\ f.objects[o].enabled = on /\ f.objects[o].status = s.objects[o].status
           /\ f.objects[o].group = s.objects[o].group
           /\ f.objects[o].disposer = s.objects[o].disposer
<1> DEFINE r == [s.objects[o] EXCEPT !.enabled = on]
           e == WithObject(s, o, r)
           f == [e EXCEPT !.disabled = ~on]
<1>1. s.objects[o] \in ObjectShape
  <2>1. s.objects \in Seq(ObjectShape) BY PluginFields
  <2> QED BY <2>1
<1>2. /\ r \in ObjectShape /\ r.enabled = on /\ r.status = s.objects[o].status
      /\ r.group = s.objects[o].group /\ r.disposer = s.objects[o].disposer
  BY <1>1 DEF ObjectShape
<1>3. r.group \in 1..Len(s.groups) /\ r.disposer \in 0..Len(s.runs) BY <1>2 DEF InBounds
<1>4. EnabledSet(s, o, on) = f BY Zenon DEF EnabledSet, WithObject
<1> HIDE DEF r
<1>5. /\ e \in PluginShape /\ InBounds(e) /\ LiveIn(e) = LiveIn(s)
      /\ \A p : Offered(p, s) => Offered(p, e)
      /\ e.record = s.record /\ e.groups = s.groups /\ e.runs = s.runs
      /\ e.provider = s.provider /\ Len(e.objects) = Len(s.objects) /\ e.objects[o] = r
  BY <1>2, <1>3, ObjectPut
<1> HIDE DEF e
<1>6. /\ f \in PluginShape /\ f.record = e.record /\ f.groups = e.groups /\ f.runs = e.runs
      /\ f.provider = e.provider /\ f.disabled = ~on /\ f.objects = e.objects
  BY <1>5 DEF PluginShape
<1> HIDE DEF f
<1>7. InBounds(f) /\ LiveIn(f) = LiveIn(e) BY <1>5, <1>6 DEF InBounds, LiveIn
<1>8. \A p : Offered(p, e) => Offered(p, f) BY <1>6, <1>7 DEF Offered
<1> QED BY <1>2, <1>4, <1>5, <1>6, <1>7, <1>8

\* Lemma: setEnabled, up to the save of the preference.
LEMMA SetEnabledKeeps ==
    ASSUME HostInv(Host), NEW p \in Plugins, NEW on \in BOOLEAN, setEnabled(p, on)
    PROVE  HostInv(Host')
<1> DEFINE op == IF on THEN "enable" ELSE "disable"
           s == plugins[p]
           h == Called(op, p, {p})
<1>0. PICK o : o = plugins[p].record OBVIOUS
<1> DEFINE f == EnabledSet(s, o, on)
           g == PutPlugin(h, p, f)
           again == on /\ RecordOf(Host, p).status = "active"
           marked == IF again THEN {p} ELSE {}
           m == MarkDisturbed(g, marked)
           k == [m.tasks[New] EXCEPT !.pc = "saving"]
<1>1. /\ Host.plugins = plugins /\ plugins \in [Plugins -> PluginShape] /\ s \in PluginShape
      /\ InBounds(s) /\ Offered(p, s)
  <2>1. Host.plugins = plugins BY DEF Host
  <2>2. Host.plugins \in [Plugins -> PluginShape] BY DEF HostInv, HostShape
  <2> QED BY <2>1, <2>2 DEF HostInv
<1>2. o # 0 /\ o \in 1..Len(s.objects)
  <2>1. o # 0 BY <1>0, <1>1 DEF setEnabled, Known
  <2>2. o \in 0..Len(s.objects) BY <1>0, <1>1 DEF InBounds
  <2>3. Len(s.objects) \in Nat BY <1>1, Lengths
  <2>4. \A n \in Nat : \A x \in 0..n : x # 0 => x \in 1..n OBVIOUS
  <2> QED BY <2>1, <2>2, <2>3, <2>4, Zenon
<1>3. /\ Held(h, New, {p}) /\ h.plugins = plugins
      /\ h.tasks[New].op = op /\ h.tasks[New].plugin = p /\ h.tasks[New].on = {p}
      /\ h.tasks[New].cur = p /\ h.tasks[New].held = o /\ h.tasks[New].run = 0
      /\ (p \notin h.disturbed => Rest(s))
  BY <1>0, <1>2, CalledInHand
<1>4. SetHost(At(m, New, "saving"))
  <2>1. h.plugins[p] = s BY <1>3
  <2> HIDE DEF h
  <2>2. [h EXCEPT !.plugins[p].objects[plugins[p].record].enabled = on,
                  !.plugins[p].disabled = ~on] = g
    BY <1>0, <2>1, Zenon DEF PutPlugin, EnabledSet
  <2> QED BY <2>2, Zenon DEF setEnabled, h
<1> HIDE DEF h, s, op
<1>5. /\ f \in PluginShape /\ InBounds(f) /\ LiveIn(f) = LiveIn(s) /\ Offered(p, f)
      /\ f.record = s.record /\ f.groups = s.groups /\ f.runs = s.runs
      /\ f.provider = s.provider /\ f.disabled = ~on /\ Len(f.objects) = Len(s.objects)
      /\ f.objects[o].enabled = on /\ f.objects[o].status = s.objects[o].status
      /\ f.objects[o].group = s.objects[o].group
      /\ f.objects[o].disposer = s.objects[o].disposer
  BY <1>1, <1>2, EnabledPut
<1> HIDE DEF f
<1>6. Held(g, New, {p})
  <2>1. Len(s.objects) \in Nat /\ Len(s.runs) \in Nat BY <1>1, Lengths
  <2>2. Len(f.objects) >= Len(s.objects) /\ Len(f.runs) >= Len(s.runs) BY <1>5, <2>1
  <2>3. \A i \in Others(h, New, p) : f.runs[i].state = s.runs[i].state BY <1>5
  <2>4. h.plugins[p] = s /\ p \in {p} BY <1>3 DEF s
  <2> QED BY <1>3, <1>5, <2>2, <2>3, <2>4, HeldPlugin
<1>7. g.tasks = h.tasks /\ g.disturbed = h.disturbed /\ g.plugins[p] = f
  <2>1. h \in HostShape BY <1>3, HeldShapes
  <2> QED BY <1>5, <2>1, PutPluginParts
<1> HIDE DEF g
<1>8. /\ Held(m, New, {p}) /\ m.plugins = g.plugins /\ m.tasks = g.tasks
      /\ m.disturbed = g.disturbed \union marked
  <2>1. g \in HostShape /\ marked \in SUBSET Plugins BY <1>6, HeldShapes
  <2> QED BY <1>6, <2>1, HeldMark, MarkParts
<1> HIDE DEF m
<1>9. /\ m.tasks[New].op = op /\ m.tasks[New].plugin = p /\ m.tasks[New].on = {p}
      /\ m.tasks[New].cur = p /\ m.tasks[New].held = o /\ m.tasks[New].run = 0
      /\ m.plugins[p] = f
  BY <1>3, <1>7, <1>8
<1>10. /\ k \in TaskShape /\ k.op = op /\ k.plugin = p /\ k.on = {p} /\ k.cur = p /\ k.held = o
       /\ k.pc = "saving"
  <2>1. m.tasks[New] \in TaskShape BY <1>8, HeldShapes
  <2> QED BY <1>9, <2>1 DEF TaskShape, Pcs
<1>11. At(m, New, "saving") = PutTask(m, New, k) BY AtIs
<1> HIDE DEF k
<1>12. op \in {"enable", "disable"} /\ (on <=> op = "enable") BY DEF op
<1>13. Placed(k) /\ Owned(k) = {} BY <1>10, <1>12 DEF Placed, Owned, Pcs
<1>14. Refers(m, k)
  <2>1. m.tasks[New].held \in 0..Len(m.plugins[m.tasks[New].plugin].objects) BY <1>8 DEF Held
  <2>2. k.held \in 0..Len(m.plugins[k.plugin].objects) BY <1>9, <1>10, <2>1
  <2> QED BY <1>2, <1>10, <1>13, <2>2 DEF Refers
<1>15. ASSUME p \notin m.disturbed PROVE InPhase(k, p, f)
  <2>1. Rest(s) /\ ~again BY <1>3, <1>7, <1>8, <1>15
  <2>2. s.record = o BY <1>0 DEF s
  <2>3. Tidy(s) /\ Told(s) BY <1>2, <2>1, <2>2 DEF Rest
  <2>4. Tidy(f) BY <1>2, <1>5, <2>2, <2>3 DEF Tidy, Current
  <2>5. Told(f) BY <1>5, <2>2, <2>3 DEF Told, Current
  <2>6. on => s.objects[o].status # "active" BY <1>1, <2>1, <2>2 DEF RecordOf, s
  <2>7. Saving(k, f) BY <1>2, <1>5, <1>10, <1>12, <2>2, <2>4, <2>5, <2>6 DEF Saving, Current
  <2> QED BY <1>10, <1>12, <2>7 DEF InPhase
<1>16. HostInv(PutTask(m, New, k))
  <2>1. k.on \subseteq m.tasks[New].on BY <1>9, <1>10
  <2>2. \A q \in m.tasks[New].on \ m.disturbed :
           IF k.pc = "done" \/ q \notin k.on THEN Rest(m.plugins[q]) ELSE InPhase(k, q, m.plugins[q])
    BY <1>9, <1>10, <1>15
  <2> QED BY <1>8, <1>10, <1>13, <1>14, <2>1, <2>2, Released
<1> QED BY <1>4, <1>11, <1>16, Becomes

\* Lemma: reloadPlugin, up to the await of the plugin's own disposer.
LEMMA ReloadKeeps ==
    ASSUME HostInv(Host), NEW p \in Plugins, reloadPlugin(p)
    PROVE  HostInv(Host')
<1> DEFINE h == Called("reload", p, {p})
<1>1. SetHost(Unload(h, New, p)) BY DEF reloadPlugin
<1>2. /\ Held(h, New, {p}) /\ h.plugins = plugins
      /\ h.tasks[New].op = "reload" /\ h.tasks[New].plugin = p /\ h.tasks[New].on = {p}
      /\ p \notin h.disturbed => Rest(plugins[p])
      /\ h.tasks[New].pc = "begun"
  BY CalledInHand
<1> HIDE DEF h
<1>3. Unloads(h.tasks[New], p) BY <1>2 DEF Unloads
<1>4. p \notin h.disturbed =>
          LET s == h.plugins[p] IN
          Tidy(s) /\ (s.record = 0 => Rest(s)) /\ (s.record # 0 => Told(s))
  BY <1>2 DEF Rest
<1>5. HostInv(Unload(h, New, p)) BY <1>2, <1>3, <1>4, UnloadKeeps
<1> QED BY <1>1, <1>5, Becomes

\* Lemma: uninstallPlugin, up to its first unload.
LEMMA UninstallKeeps ==
    ASSUME HostInv(Host), NEW p \in Plugins, uninstallPlugin(p)
    PROVE  HostInv(Host')
<1> DEFINE S == {p} \union Dependents(p)
           h == Called("uninstall", p, S)
           j == [h.tasks[New] EXCEPT !.rest = S]
           g == PutTask(h, New, j)
           k == [g.tasks[New] EXCEPT !.pc = "unloaded"]
<1>1. SetHost(At(g, New, "unloaded"))
  <2>1. [h EXCEPT !.tasks[New].rest = S] = g BY DEF PutTask
  <2> QED BY <2>1, Zenon DEF uninstallPlugin
<1>2. S \in SUBSET Plugins BY DEF Dependents, Known
<1> HIDE DEF S
<1>3. /\ Held(h, New, S) /\ h.plugins = plugins
      /\ h.tasks[New].op = "uninstall" /\ h.tasks[New].on = S /\ h.tasks[New].pc = "begun"
      /\ \A q \in S \ h.disturbed : Rest(plugins[q])
  BY <1>2, CalledInHand
<1> HIDE DEF h
<1>4. h \in HostShape /\ New \in 1..Len(h.tasks) /\ h.tasks[New] \in TaskShape BY <1>3, HeldShapes
<1>5. /\ j \in TaskShape /\ j.op = h.tasks[New].op /\ j.plugin = h.tasks[New].plugin
      /\ j.on = h.tasks[New].on /\ j.held = h.tasks[New].held /\ j.rest = S
      /\ j.pc = h.tasks[New].pc
  BY <1>2, <1>4 DEF TaskShape
<1> HIDE DEF j
<1>6. Held(g, New, S)
  <2>1. \A q \in j.on \ S : j.pc = "removing" \/ q \notin j.rest =>
                                h.tasks[New].pc = "removing" \/ q \notin h.tasks[New].rest
    BY <1>3, <1>5
  <2> QED BY <1>3, <1>5, <2>1, HeldTask
<1>7. g.plugins = h.plugins /\ g.disturbed = h.disturbed /\ g.tasks[New] = j
  BY <1>4, <1>5, PutTaskParts
<1> HIDE DEF g
<1>8. /\ k \in TaskShape /\ k.op = "uninstall" /\ k.on = S /\ k.rest = S /\ k.pc = "unloaded"
      /\ k.plugin = j.plugin /\ k.held = j.held
  BY <1>3, <1>5, <1>7 DEF TaskShape, Pcs
<1>9. At(g, New, "unloaded") = PutTask(g, New, k) BY AtIs
<1> HIDE DEF k
<1>10. Placed(k) /\ Owned(k) = {} BY <1>8 DEF Placed, Owned, Pcs
<1>11. Refers(g, k)
  <2>1. k.held \in 0..Len(g.plugins[k.plugin].objects) BY <1>6, <1>7, <1>8 DEF Held
  <2> QED BY <1>8, <1>10, <2>1 DEF Refers
<1>12. HostInv(PutTask(g, New, k))
  <2>1. k.on \subseteq g.tasks[New].on BY <1>3, <1>5, <1>7, <1>8
  <2>2. ASSUME NEW q \in g.tasks[New].on \ g.disturbed
        PROVE  q \in k.on /\ InPhase(k, q, g.plugins[q])
    <3>1. q \in S /\ Rest(g.plugins[q]) BY <1>3, <1>5, <1>7
    <3> QED BY <1>8, <3>1 DEF InPhase, Waits
  <2>3. k.pc # "done" BY <1>8
  <2> QED BY <1>6, <1>8, <1>10, <1>11, <2>1, <2>2, <2>3, Released
<1> QED BY <1>1, <1>9, <1>12, Becomes

\* Lemma: an installation, up to the end of its scan.
LEMMA InstallKeeps ==
    ASSUME HostInv(Host), NEW p \in Plugins, install(p)
    PROVE  HostInv(Host')
<1> DEFINE h == Called("install", p, {})
           k == [h.tasks[New] EXCEPT !.pc = "scanning"]
<1>1. SetHost(At(h, New, "scanning")) BY DEF install
<1>2. /\ Held(h, New, {}) /\ h.tasks[New].op = "install" /\ h.tasks[New].on = {}
  BY CalledInHand
<1> HIDE DEF h
<1>3. /\ k \in TaskShape /\ k.op = "install" /\ k.on = {} /\ k.pc = "scanning"
      /\ k.plugin = h.tasks[New].plugin /\ k.held = h.tasks[New].held
  <2>1. h.tasks[New] \in TaskShape BY <1>2, HeldShapes
  <2> QED BY <1>2, <2>1 DEF TaskShape, Pcs
<1>4. At(h, New, "scanning") = PutTask(h, New, k) BY AtIs
<1> HIDE DEF k
<1>5. Placed(k) /\ Owned(k) = {} BY <1>3 DEF Placed, Owned, Pcs
<1>6. Refers(h, k)
  <2>1. k.held \in 0..Len(h.plugins[k.plugin].objects) BY <1>2, <1>3 DEF Held
  <2> QED BY <1>3, <1>5, <2>1 DEF Refers
<1>7. HostInv(PutTask(h, New, k)) BY <1>2, <1>3, <1>5, <1>6, Released
<1> QED BY <1>1, <1>4, <1>7, Becomes

-----------------------------------------------------------------------------
(* The steps of a task.                                                      *)

\* Lemma: what the invariant says of the task that takes a step.
LEMMA InTurn ==
    ASSUME HostInv(Host), NEW t \in DOMAIN tasks
    PROVE  /\ Host \in HostShape /\ t \in 1..Len(Host.tasks)
           /\ Host.plugins = plugins /\ Host.tasks = tasks /\ Host.disturbed = disturbed
           /\ plugins \in [Plugins -> PluginShape] /\ tasks[t] \in TaskShape
           /\ Placed(tasks[t]) /\ Refers(Host, tasks[t])
           /\ \A q \in tasks[t].on \ disturbed :
                 tasks[t].pc # "done" => InPhase(tasks[t], q, plugins[q])
<1>1. Host.plugins = plugins /\ Host.tasks = tasks /\ Host.disturbed = disturbed BY DEF Host
<1>2. Host \in HostShape BY DEF HostInv
<1>3. Host.plugins \in [Plugins -> PluginShape] /\ Host.tasks \in Seq(TaskShape)
  BY <1>2 DEF HostShape
<1>4. t \in 1..Len(Host.tasks) /\ tasks[t] \in TaskShape BY <1>1, <1>3
<1>5. Placed(tasks[t]) /\ Refers(Host, tasks[t]) BY <1>1, <1>4 DEF HostInv
<1>6. ASSUME NEW q \in tasks[t].on \ disturbed, tasks[t].pc # "done"
      PROVE  InPhase(tasks[t], q, plugins[q])
  <2>1. q \in Plugins \ Host.disturbed BY <1>1, <1>4 DEF TaskShape
  <2>2. Works(Host, t, q) BY <1>1, <1>6 DEF Works, WorkedOn
  <2> QED BY <1>1, <1>4, <2>1, <2>2 DEF HostInv, Calm
<1> QED BY <1>1, <1>2, <1>3, <1>4, <1>5, <1>6

\* Lemma: a task takes in hand the plugin it loads, unloads or saves.
LEMMA InWork ==
    ASSUME HostInv(Host), NEW t \in DOMAIN tasks, NEW p, p = tasks[t].cur,
           tasks[t].pc \in {"saving", "importing", "activating", "disposing"}
    PROVE  /\ p \in Plugins /\ Held(Host, t, {p})
           /\ tasks[t].op # "uninstall" => tasks[t].on = {p}
           /\ p \notin disturbed => InPhase(tasks[t], p, plugins[p])
           /\ tasks[t].pc \in {"activating", "disposing"} /\ tasks[t].run # 0 =>
                 tasks[t].run \notin Others(Host, t, p)
<1>1. /\ Host \in HostShape /\ t \in 1..Len(Host.tasks)
      /\ Host.plugins = plugins /\ Host.tasks = tasks /\ Host.disturbed = disturbed
      /\ plugins \in [Plugins -> PluginShape] /\ tasks[t] \in TaskShape
      /\ Placed(tasks[t]) /\ Refers(Host, tasks[t])
      /\ \A q \in tasks[t].on \ disturbed :
            tasks[t].pc # "done" => InPhase(tasks[t], q, plugins[q])
  BY InTurn
<1>2. p \in Plugins BY <1>1 DEF TaskShape
<1>3. tasks[t].op # "uninstall" => tasks[t].on = {p} BY <1>1 DEF Placed
<1>4. tasks[t].op = "uninstall" => tasks[t].pc = "disposing" BY <1>1 DEF Placed
<1>5. p \in tasks[t].on BY <1>1, <1>3, <1>4 DEF Placed
<1>6. Held(Host, t, {p})
  <2>1. {p} \subseteq Host.tasks[t].on /\ Host.tasks[t].pc # "done" BY <1>1, <1>5
  <2>2. \/ Host.tasks[t].on \subseteq {p}
        \/ Host.tasks[t].op = "uninstall" /\ (Host.tasks[t].pc = "disposing" => Host.tasks[t].cur \in {p})
    BY <1>1, <1>3
  <2> QED BY <1>1, <2>1, <2>2, TakenInHand
<1>7. ASSUME tasks[t].pc \in {"activating", "disposing"}, tasks[t].run # 0
      PROVE  tasks[t].run \notin Others(Host, t, p)
  <2>1. <<p, tasks[t].run>> \in Owned(tasks[t]) BY <1>7 DEF Owned
  <2>2. \A u \in 1..Len(Host.tasks) \ {t} : Owned(tasks[t]) \intersect Owned(Host.tasks[u]) = {}
    BY <1>1 DEF HostInv
  <2> QED BY <2>1, <2>2 DEF Others
<1> QED BY <1>1, <1>2, <1>3, <1>5, <1>6, <1>7

\* Lemma: a task that goes on where it stands.
LEMMA GoesOn ==
    ASSUME NEW h, NEW t, NEW P, Held(h, t, P), Placed(h.tasks[t]), Refers(h, h.tasks[t]),
           h.tasks[t].pc # "done",
           \A u \in 1..Len(h.tasks) \ {t} : Owned(h.tasks[t]) \intersect Owned(h.tasks[u]) = {},
           \A q \in h.tasks[t].on \ h.disturbed : InPhase(h.tasks[t], q, h.plugins[q])
    PROVE  HostInv(h)
<1> DEFINE k == h.tasks[t]
           g == PutTask(h, t, k)
<1>1. h \in HostShape /\ t \in 1..Len(h.tasks) /\ k \in TaskShape /\ h.tasks \in Seq(TaskShape)
  BY HeldShapes
<1>2. HostInv(g) BY <1>1, Released
<1>3. /\ g \in HostShape /\ g.plugins = h.plugins /\ g.disturbed = h.disturbed
      /\ Len(g.tasks) = Len(h.tasks) /\ g.tasks[t] = k
      /\ \A u \in 1..Len(h.tasks) \ {t} : g.tasks[u] = h.tasks[u]
  BY <1>1, PutTaskParts
<1> HIDE DEF g
<1>4. g.tasks \in Seq(TaskShape) BY <1>3 DEF HostShape
<1>5. \A u \in 1..Len(h.tasks) : g.tasks[u] = h.tasks[u] BY <1>3
<1>6. g.tasks = h.tasks BY <1>1, <1>3, <1>4, <1>5
<1>7. g = h BY <1>1, <1>3, <1>6, SameHost
<1> QED BY <1>2, <1>7

\* Lemma: setEnabled goes on when the preference is saved.
LEMMA SavedKeeps ==
    ASSUME HostInv(Host), NEW t \in DOMAIN tasks, Saved(t)
    PROVE  HostInv(Host')
<1>1. PICK p : p = tasks[t].cur OBVIOUS
<1>2. PICK o : o = tasks[t].held OBVIOUS
<1> DEFINE s == plugins[p]
           g == SetStatus(Host, p, o, "idle")
<1>3. /\ Host \in HostShape /\ t \in 1..Len(Host.tasks)
      /\ Host.plugins = plugins /\ Host.tasks = tasks /\ Host.disturbed = disturbed
      /\ plugins \in [Plugins -> PluginShape] /\ tasks[t] \in TaskShape
      /\ Placed(tasks[t]) /\ Refers(Host, tasks[t])
  BY InTurn
<1>4. tasks[t].op \in {"enable", "disable"} /\ tasks[t].pc = "saving" BY DEF Saved, Task
<1>5. /\ p \in Plugins /\ Held(Host, t, {p}) /\ tasks[t].on = {p}
      /\ p \notin disturbed => InPhase(tasks[t], p, s)
  BY <1>1, <1>4, InWork
<1>6. tasks[t].plugin = p BY <1>1, <1>3, <1>4 DEF Placed
<1>7. o \in 1..Len(s.objects)
  <2>1. o \in 0..Len(s.objects) /\ o # 0 BY <1>2, <1>3, <1>4, <1>6 DEF Refers
  <2>2. \A n \in Nat : \A x \in 0..n : x # 0 => x \in 1..n OBVIOUS
  <2>3. Len(s.objects) \in Nat BY <1>3, <1>5, Lengths
  <2> QED BY <2>1, <2>2, <2>3, Zenon
<1>8. p \notin disturbed => Saving(tasks[t], s) BY <1>4, <1>5 DEF InPhase
<1>9. SetHost(IF tasks[t].op = "disable" THEN Unload(Host, t, p) ELSE Load(g, t, p, o))
  BY <1>2, <1>6, Zenon DEF Saved
<1>10. CASE tasks[t].op = "disable"
  <2>1. Unloads(Host.tasks[t], p) BY <1>3, <1>4, <1>5, <1>6, <1>10 DEF Unloads
  <2>2. p \notin Host.disturbed =>
            LET r == Host.plugins[p] IN
            Tidy(r) /\ (r.record = 0 => Rest(r)) /\ (r.record # 0 => Told(r))
    BY <1>3, <1>8 DEF Saving
  <2>3. HostInv(Unload(Host, t, p)) BY <1>5, <2>1, <2>2, UnloadKeeps
  <2> QED BY <1>9, <1>10, <2>3, Becomes
<1>11. CASE tasks[t].op = "enable"
  <2>1. Held(g, t, {p}) /\ Restates(Host, g, p, o, "idle")
    <3>1. "idle" \in Statuses /\ p \in {p} BY DEF Statuses
    <3>2. o \in 1..Len(Host.plugins[p].objects) BY <1>3, <1>7
    <3> QED BY <1>5, <3>1, <3>2, StatusIsSet
  <2> HIDE DEF g
  <2>2. g.tasks = tasks /\ g.disturbed = disturbed BY <1>3, <2>1 DEF Restates
  <2>3. o \in 1..Len(g.plugins[p].objects) BY <1>3, <1>7, <2>1 DEF Restates
  <2>4. ASSUME p \notin g.disturbed
        PROVE  LET f == g.plugins[p] IN
               /\ o = f.record /\ Tidy(f) /\ Current(f).enabled
               /\ IF Current(f).status = "active" THEN Rest(f)
                  ELSE LiveIn(f) = {} /\ Current(f).disposer = 0
    <3> PICK f : f = g.plugins[p] OBVIOUS
    <3>1. /\ Tidy(s) /\ Told(s) /\ o = s.record
          /\ s.objects[o].enabled /\ s.objects[o].status # "active"
      BY <1>2, <1>8, <1>11, <2>2, <2>4 DEF Saving, Current
    <3>2. /\ f.record = s.record /\ f.groups = s.groups /\ f.disabled = s.disabled
          /\ LiveIn(f) = LiveIn(s)
          /\ f.objects[o].status = "idle" /\ f.objects[o].enabled = s.objects[o].enabled
          /\ f.objects[o].group = s.objects[o].group
          /\ f.objects[o].disposer = s.objects[o].disposer
      BY <1>3, <2>1 DEF Restates
    <3>3. Tidy(f) BY <3>1, <3>2, Restated
    <3>4. LiveIn(s) = {} /\ s.objects[o].disposer = 0 BY <3>1 DEF Told, Current
    <3> QED BY <3>1, <3>2, <3>3, <3>4 DEF Current
  <2>5. HostInv(Load(g, t, p, o)) BY <1>5, <1>6, <1>11, <2>1, <2>2, <2>3, <2>4, LoadKeeps
  <2> QED BY <1>9, <1>11, <2>5, Becomes
<1> QED BY <1>4, <1>10, <1>11

\* Lemma: what disturbs a plugin may be noted before a call ends or after.
LEMMA EndMarked ==
    ASSUME NEW h, NEW t, NEW P, Held(h, t, P), NEW S \in SUBSET Plugins
    PROVE  MarkDisturbed(End(h, t), S) = End(MarkDisturbed(h, S), t)
<1> DEFINE g == MarkDisturbed(h, S)
           k == [h.tasks[t] EXCEPT !.pc = "done", !.on = {}, !.held = 0, !.obj = 0, !.run = 0,
                                   !.cur = h.tasks[t].plugin]
           a == MarkDisturbed(PutTask(h, t, k), S)
           b == PutTask(g, t, k)
<1>1. h \in HostShape /\ t \in 1..Len(h.tasks) /\ h.tasks[t] \in TaskShape BY HeldShapes
<1>2. g \in HostShape /\ g.plugins = h.plugins /\ g.tasks = h.tasks
      /\ g.disturbed = h.disturbed \union S
  BY <1>1, MarkParts
<1>3. End(h, t) = PutTask(h, t, k) BY DEF End, PutTask
<1> HIDE DEF g
<1>4. End(g, t) = PutTask(g, t, k) BY <1>2 DEF End, PutTask
<1>5. k \in TaskShape BY <1>1 DEF TaskShape, Pcs
<1> HIDE DEF k
<1>6. PICK f : f = PutTask(h, t, k) OBVIOUS
<1>7. /\ f \in HostShape /\ f.plugins = h.plugins /\ f.disturbed = h.disturbed
      /\ Len(f.tasks) = Len(h.tasks) /\ f.tasks[t] = k
      /\ \A u \in 1..Len(h.tasks) \ {t} : f.tasks[u] = h.tasks[u]
  BY <1>1, <1>5, <1>6, PutTaskParts
<1>8. /\ a \in HostShape /\ a.plugins = f.plugins /\ a.tasks = f.tasks
      /\ a.disturbed = f.disturbed \union S
  BY <1>6, <1>7, MarkParts
<1>9. /\ b \in HostShape /\ b.plugins = g.plugins /\ b.disturbed = g.disturbed
      /\ Len(b.tasks) = Len(g.tasks) /\ b.tasks[t] = k
      /\ \A u \in 1..Len(g.tasks) \ {t} : b.tasks[u] = g.tasks[u]
  BY <1>1, <1>2, <1>5, PutTaskParts
<1> HIDE DEF a, b
<1>10. a.tasks \in Seq(TaskShape) /\ b.tasks \in Seq(TaskShape) BY <1>8, <1>9 DEF HostShape
<1>11. Len(a.tasks) = Len(b.tasks) BY <1>2, <1>7, <1>8, <1>9
<1>12. \A u \in 1..Len(a.tasks) : a.tasks[u] = b.tasks[u] BY <1>2, <1>7, <1>8, <1>9
<1>13. a.tasks = b.tasks BY <1>10, <1>11, <1>12
<1>14. a.plugins = b.plugins /\ a.disturbed = b.disturbed BY <1>2, <1>7, <1>8, <1>9
<1>15. a \in HostShape /\ b \in HostShape BY <1>8, <1>9
<1>16. a = b BY <1>13, <1>14, <1>15, SameHost
<1> QED BY <1>3, <1>4, <1>16 DEF a, b, g

\* Lemma: setEnabled ends when the preference cannot be saved.
LEMMA SaveFailsKeeps ==
    ASSUME HostInv(Host), NEW t \in DOMAIN tasks, SaveFails(t)
    PROVE  HostInv(Host')
<1>1. PICK p : p = tasks[t].cur OBVIOUS
<1> DEFINE g == MarkDisturbed(Host, {p})
<1>2. tasks[t].op \in {"enable", "disable"} /\ tasks[t].pc = "saving" BY DEF SaveFails, Task
<1>3. p \in Plugins /\ Held(Host, t, {p}) /\ tasks[t].on = {p} BY <1>1, <1>2, InWork
<1>4. Host \in HostShape /\ Host.tasks = tasks /\ tasks[t].plugin = p
  <2>1. Host \in HostShape /\ Host.tasks = tasks /\ Placed(tasks[t]) BY InTurn
  <2> QED BY <1>1, <1>2, <2>1 DEF Placed
<1>5. SetHost(End(g, t)) BY <1>3, <1>4, EndMarked DEF SaveFails
<1>6. Held(g, t, {p}) /\ g.tasks = tasks /\ g.disturbed = Host.disturbed \union {p}
  BY <1>3, <1>4, HeldMark, MarkParts
<1> HIDE DEF g
<1>7. HostInv(End(g, t)) BY <1>3, <1>6, EndKeeps
<1> QED BY <1>5, <1>7, Becomes

\* Lemma: loadAll takes the next plugin.
LEMMA LoadNextKeeps ==
    ASSUME HostInv(Host), NEW t \in DOMAIN tasks, LoadNext(t)
    PROVE  HostInv(Host')
<1>1. /\ Host \in HostShape /\ t \in 1..Len(Host.tasks)
      /\ Host.plugins = plugins /\ Host.tasks = tasks /\ Host.disturbed = disturbed
      /\ plugins \in [Plugins -> PluginShape] /\ tasks[t] \in TaskShape
      /\ Placed(tasks[t]) /\ Refers(Host, tasks[t])
  BY InTurn
<1>2. tasks[t].op = "install" /\ tasks[t].pc = "loaded" BY DEF LoadNext, Task
<1>3. PICK p \in tasks[t].rest :
         LET h == [Host EXCEPT !.tasks[t].rest = @ \ {p}]
         IN  SetHost(IF p \notin Known(Host) \/ ~RecordOf(Host, p).enabled THEN h
                     ELSE Load(Take(h, t, {p}), t, p, plugins[p].record))
  BY Zenon DEF LoadNext
<1> DEFINE j == [tasks[t] EXCEPT !.rest = @ \ {p}]
           h == PutTask(Host, t, j)
           g == Take(h, t, {p})
           s == plugins[p]
<1>4. PICK o : o = plugins[p].record OBVIOUS
<1>5. [Host EXCEPT !.tasks[t].rest = @ \ {p}] = h
  <2> PICK k : k = tasks[t] OBVIOUS
  <2>1. Host.tasks[t] = k BY <1>1
  <2> HIDE DEF Host
  <2> QED BY <2>1, Zenon DEF PutTask
<1>6. SetHost(IF p \notin Known(Host) \/ ~RecordOf(Host, p).enabled THEN h ELSE Load(g, t, p, o))
  BY <1>3, <1>4, <1>5, Zenon
<1>7. p \in Plugins BY <1>1 DEF TaskShape
<1>8. /\ j \in TaskShape /\ j.op = "install" /\ j.pc = "loaded" /\ j.on = {}
      /\ j.plugin = tasks[t].plugin /\ j.held = tasks[t].held
  BY <1>1, <1>2 DEF TaskShape, Placed
<1> HIDE DEF j
<1>9. Held(Host, t, {}) /\ tasks[t].on = {}
  <2>1. tasks[t].on = {} BY <1>1, <1>2 DEF Placed
  <2>2. Host.tasks[t].pc # "done" BY <1>1, <1>2
  <2>3. {} \subseteq Host.tasks[t].on /\ Host.tasks[t].on \subseteq {} BY <1>1, <2>1
  <2> QED BY <1>1, <2>1, <2>2, <2>3, TakenInHand
<1>10. HostInv(h)
  <2>1. Placed(j) /\ Owned(j) = {} BY <1>8 DEF Placed, Owned, Pcs
  <2>2. j.held \in 0..Len(Host.plugins[j.plugin].objects) BY <1>1, <1>8 DEF Refers
  <2>3. Refers(Host, j) BY <1>8, <2>1, <2>2 DEF Refers
  <2>4. j.on \subseteq Host.tasks[t].on /\ Host.tasks[t].on = {} BY <1>1, <1>8, <1>9
  <2> QED BY <1>8, <1>9, <2>1, <2>3, <2>4, Released
<1>11. Held(h, t, {})
  <2>1. j.op = Host.tasks[t].op /\ j.plugin = Host.tasks[t].plugin
        /\ j.on = Host.tasks[t].on /\ j.held = Host.tasks[t].held
    BY <1>1, <1>2, <1>8, <1>9
  <2> QED BY <1>8, <1>9, <2>1, HeldTask
<1>12. h.plugins = plugins /\ h.tasks[t] = j BY <1>1, <1>8, PutTaskParts
<1> HIDE DEF h
<1>13. CASE p \notin Known(Host) \/ ~RecordOf(Host, p).enabled BY <1>6, <1>10, <1>13, Becomes
<1>14. CASE ~(p \notin Known(Host) \/ ~RecordOf(Host, p).enabled)
  <2>1. /\ Held(g, t, {p}) /\ g.plugins = plugins /\ g.tasks[t] = [j EXCEPT !.on = {p}]
        /\ \A q \in {p} \ g.disturbed : Rest(plugins[q])
    <3>1. {p} \in SUBSET Plugins /\ h.tasks[t].on = {} BY <1>7, <1>8, <1>12
    <3> PICK S : S = {p} OBVIOUS
    <3>2. S \in SUBSET Plugins BY <3>1
    <3> HIDE DEF g
    <3>3. /\ Held(Take(h, t, S), t, S) /\ (Take(h, t, S)).plugins = h.plugins
          /\ (Take(h, t, S)).tasks[t] = Working(h.tasks[t], S)
          /\ \A q \in S \ (Take(h, t, S)).disturbed : Rest((Take(h, t, S)).plugins[q])
      BY <1>11, <3>1, <3>2, Taken
    <3>4. g = Take(h, t, S) BY DEF g
    <3>5. Working(h.tasks[t], S) = [j EXCEPT !.on = {p}] BY <1>12 DEF Working
    <3> QED BY <1>12, <3>3, <3>4, <3>5
  <2> HIDE DEF g
  <2>2. g.tasks[t].on = {p} /\ g.tasks[t].op = "install" BY <1>8, <2>1 DEF TaskShape
  <2>3. s \in PluginShape /\ InBounds(s) BY <1>1, <1>7 DEF HostInv
  <2>4. o # 0 /\ s.objects[o].enabled BY <1>1, <1>4, <1>7, <1>14 DEF Known, RecordOf
  <2>5. o \in 1..Len(s.objects)
    <3>1. o \in 0..Len(s.objects) BY <1>4, <2>3 DEF InBounds
    <3>2. \A n \in Nat : \A x \in 0..n : x # 0 => x \in 1..n OBVIOUS
    <3>3. Len(s.objects) \in Nat BY <2>3, Lengths
    <3> QED BY <2>4, <3>1, <3>2, <3>3, Zenon
  <2>6. ASSUME p \notin g.disturbed
        PROVE  LET r == g.plugins[p] IN
               /\ o = r.record /\ Tidy(r) /\ Current(r).enabled
               /\ IF Current(r).status = "active" THEN Rest(r)
                  ELSE LiveIn(r) = {} /\ Current(r).disposer = 0
    <3>1. Rest(s) /\ g.plugins[p] = s BY <2>1, <2>6
    <3>2. Tidy(s) /\ Told(s) BY <1>4, <2>4, <3>1 DEF Rest
    <3>3. Current(s).enabled BY <1>4, <2>4 DEF Current
    <3> QED BY <1>4, <3>1, <3>2, <3>3 DEF Told
  <2>7. HostInv(Load(g, t, p, o))
    <3>1. o \in 1..Len(g.plugins[p].objects) BY <2>1, <2>5
    <3> QED BY <2>1, <2>2, <2>6, <3>1, LoadKeeps
  <2> QED BY <1>6, <1>14, <2>7, Becomes
<1> QED BY <1>13, <1>14

\* Lemma: uninstallPlugin unloads the next plugin.
LEMMA UnloadNextKeeps ==
    ASSUME HostInv(Host), NEW t \in DOMAIN tasks, UnloadNext(t)
    PROVE  HostInv(Host')
<1>1. /\ Host \in HostShape /\ t \in 1..Len(Host.tasks)
      /\ Host.plugins = plugins /\ Host.tasks = tasks /\ Host.disturbed = disturbed
      /\ plugins \in [Plugins -> PluginShape] /\ tasks[t] \in TaskShape
      /\ Placed(tasks[t])
      /\ \A q \in tasks[t].on \ disturbed :
            tasks[t].pc # "done" => InPhase(tasks[t], q, plugins[q])
  BY InTurn
<1>2. tasks[t].op = "uninstall" /\ tasks[t].pc = "unloaded" BY DEF UnloadNext, Task
<1>3. PICK p \in tasks[t].rest : SetHost(Unload([Host EXCEPT !.tasks[t].rest = @ \ {p}], t, p))
  BY Zenon DEF UnloadNext
<1> DEFINE j == [tasks[t] EXCEPT !.rest = @ \ {p}]
           h == PutTask(Host, t, j)
           s == plugins[p]
<1>4. [Host EXCEPT !.tasks[t].rest = @ \ {p}] = h
  <2> PICK k : k = tasks[t] OBVIOUS
  <2>1. Host.tasks[t] = k BY <1>1
  <2> HIDE DEF Host
  <2> QED BY <2>1, Zenon DEF PutTask
<1>5. p \in tasks[t].on /\ tasks[t].rest \subseteq tasks[t].on BY <1>1, <1>2 DEF Placed
<1>6. /\ j \in TaskShape /\ j.op = "uninstall" /\ j.pc = "unloaded" /\ j.on = tasks[t].on
      /\ j.plugin = tasks[t].plugin /\ j.held = tasks[t].held /\ j.rest = tasks[t].rest \ {p}
  BY <1>1, <1>2 DEF TaskShape
<1> HIDE DEF j
<1>7. Held(Host, t, {p})
  <2>1. {p} \subseteq Host.tasks[t].on /\ Host.tasks[t].pc # "done" BY <1>1, <1>2, <1>5
  <2>2. Host.tasks[t].op = "uninstall" /\ (Host.tasks[t].pc = "disposing" => Host.tasks[t].cur \in {p})
    BY <1>1, <1>2
  <2> QED BY <1>1, <2>1, <2>2, TakenInHand
<1>8. Held(h, t, {p})
  <2>1. j.op = Host.tasks[t].op /\ j.plugin = Host.tasks[t].plugin
        /\ j.on = Host.tasks[t].on /\ j.held = Host.tasks[t].held
    BY <1>1, <1>2, <1>6
  <2>2. \A q \in j.on \ {p} : j.pc = "removing" \/ q \notin j.rest =>
                                Host.tasks[t].pc = "removing" \/ q \notin Host.tasks[t].rest
    BY <1>1, <1>6
  <2> QED BY <1>6, <1>7, <2>1, <2>2, HeldTask
<1>9. h.plugins = plugins /\ h.disturbed = disturbed /\ h.tasks[t] = j
  BY <1>1, <1>6, PutTaskParts
<1> HIDE DEF h
<1>10. Unloads(h.tasks[t], p) BY <1>5, <1>6, <1>9 DEF Unloads
<1>11. ASSUME p \notin h.disturbed
       PROVE  LET r == h.plugins[p] IN
              Tidy(r) /\ (r.record = 0 => Rest(r)) /\ (r.record # 0 => Told(r))
  <2>1. InPhase(tasks[t], p, s) BY <1>1, <1>2, <1>5, <1>9, <1>11
  <2>2. Rest(s) BY <1>2, <2>1 DEF InPhase, Waits
  <2> QED BY <1>9, <2>2 DEF Rest
<1>12. HostInv(Unload(h, t, p)) BY <1>8, <1>10, <1>11, UnloadKeeps
<1> QED BY <1>3, <1>4, <1>12, Becomes

\* Lemma: loadAll is over, or uninstallPlugin has unloaded every plugin.
LEMMA FinishKeeps ==
    ASSUME HostInv(Host), NEW t \in DOMAIN tasks, Finish(t)
    PROVE  HostInv(Host')
<1>1. /\ Host \in HostShape /\ t \in 1..Len(Host.tasks)
      /\ Host.plugins = plugins /\ Host.tasks = tasks /\ Host.disturbed = disturbed
      /\ plugins \in [Plugins -> PluginShape] /\ tasks[t] \in TaskShape
      /\ Placed(tasks[t]) /\ Refers(Host, tasks[t])
      /\ \A q \in tasks[t].on \ disturbed :
            tasks[t].pc # "done" => InPhase(tasks[t], q, plugins[q])
  BY InTurn
<1>2. CASE Task(t, {"install"}, "loaded") /\ SetHost(End(Host, t))
  <2>1. tasks[t].on = {} /\ tasks[t].pc # "done" BY <1>1, <1>2 DEF Placed, Task
  <2>2. Held(Host, t, {}) BY <1>1, <2>1, TakenInHand
  <2>3. HostInv(End(Host, t)) BY <1>1, <2>1, <2>2, EndKeeps
  <2> QED BY <1>2, <2>3, Becomes
<1>3. CASE /\ Task(t, {"uninstall"}, "unloaded")
           /\ SetHost(At([Host EXCEPT !.tasks[t].rest = tasks[t].on], t, "removing"))
  <2> DEFINE j == [tasks[t] EXCEPT !.rest = tasks[t].on]
             h == PutTask(Host, t, j)
             k == [j EXCEPT !.pc = "removing"]
  <2>1. [Host EXCEPT !.tasks[t].rest = tasks[t].on] = h
    <3> PICK e : e = tasks[t] OBVIOUS
    <3>1. Host.tasks[t] = e BY <1>1
    <3> HIDE DEF Host
    <3> QED BY <3>1, Zenon DEF PutTask
  <2>2. tasks[t].op = "uninstall" /\ tasks[t].pc = "unloaded" /\ tasks[t].rest = {}
    BY <1>3 DEF Task, Finish
  <2>3. /\ j \in TaskShape /\ k \in TaskShape /\ k.op = "uninstall" /\ k.pc = "removing"
        /\ k.on = tasks[t].on /\ k.rest = tasks[t].on
        /\ k.plugin = tasks[t].plugin /\ k.held = tasks[t].held
    BY <1>1, <2>2 DEF TaskShape, Pcs
  <2> HIDE DEF j
  <2>4. At(h, t, "removing") = PutTask(Host, t, k)
    <3>1. h.tasks[t] = j BY <1>1, <2>3, PutTaskParts
    <3>2. At(h, t, "removing") = PutTask(h, t, k) BY <3>1, AtIs
    <3> QED BY <1>1, <2>3, <3>2, PutTaskTwice
  <2> HIDE DEF k
  <2>5. Held(Host, t, {})
    <3>1. Host.tasks[t].pc # "done" /\ {} \subseteq Host.tasks[t].on BY <1>1, <2>2
    <3>2. Host.tasks[t].op = "uninstall" /\ Host.tasks[t].pc # "disposing" BY <1>1, <2>2
    <3> QED BY <1>1, <3>1, <3>2, TakenInHand
  <2>6. Placed(k) /\ Owned(k) = {} BY <2>3 DEF Placed, Owned, Pcs
  <2>7. Refers(Host, k)
    <3>1. k.held \in 0..Len(Host.plugins[k.plugin].objects) BY <1>1, <2>3 DEF Refers
    <3> QED BY <2>3, <2>6, <3>1 DEF Refers
  <2>8. ASSUME NEW q \in tasks[t].on \ disturbed PROVE InPhase(k, q, plugins[q])
    <3>1. InPhase(tasks[t], q, plugins[q]) BY <1>1, <2>2, <2>8
    <3>2. Waits(tasks[t], q, plugins[q]) BY <2>2, <3>1 DEF InPhase
    <3>3. Rest(plugins[q]) /\ Emptied(plugins[q]) BY <2>2, <3>2 DEF Waits
    <3> QED BY <2>3, <3>3 DEF InPhase, Waits
  <2>9. HostInv(PutTask(Host, t, k))
    <3>1. k.on \subseteq Host.tasks[t].on /\ k.pc # "done" BY <1>1, <2>3
    <3>2. \A q \in Host.tasks[t].on \ Host.disturbed :
             IF k.pc = "done" \/ q \notin k.on THEN Rest(Host.plugins[q])
             ELSE InPhase(k, q, Host.plugins[q])
      BY <1>1, <2>3, <2>8
    <3> QED BY <2>3, <2>5, <2>6, <2>7, <3>1, <3>2, Released
  <2> QED BY <1>3, <2>1, <2>4, <2>9, Becomes
<1> QED BY <1>2, <1>3 DEF Finish

\* The plugin has no record and no preference any more.
Uninstalled(s) == [s EXCEPT !.record = 0, !.installed = FALSE, !.disabled = FALSE]

\* Lemma: the record of a plugin is removed, with its preference.
LEMMA GoneIs ==
    ASSUME NEW p, NEW s \in PluginShape, InBounds(s), Offered(p, s)
    PROVE  LET f == Uninstalled(s) IN
           /\ f \in PluginShape /\ InBounds(f) /\ Offered(p, f) /\ LiveIn(f) = LiveIn(s)
           /\ f.record = 0 /\ f.objects = s.objects /\ f.groups = s.groups /\ f.runs = s.runs
           /\ f.provider = s.provider
<1> DEFINE f == Uninstalled(s)
<1>1. /\ f \in PluginShape /\ f.record = 0 /\ f.objects = s.objects /\ f.groups = s.groups
      /\ f.runs = s.runs /\ f.provider = s.provider
  BY DEF PluginShape, Uninstalled
<1> HIDE DEF f
<1>2. InBounds(f)
  <2>1. \A n \in Nat : 0 \in 0..n OBVIOUS
  <2>2. Len(s.objects) \in Nat BY Lengths
  <2>3. 0 \in 0..Len(s.objects) BY <2>1, <2>2, Zenon
  <2> QED BY <1>1, <2>3 DEF InBounds
<1>3. LiveIn(f) = LiveIn(s) BY <1>1 DEF LiveIn
<1>4. Offered(p, f) BY <1>1, <1>3 DEF Offered
<1> QED BY <1>1, <1>2, <1>3, <1>4 DEF f

\* Lemma: uninstallPlugin removes the next plugin.
LEMMA RemovedKeeps ==
    ASSUME HostInv(Host), NEW t \in DOMAIN tasks, Removed(t)
    PROVE  HostInv(Host')
<1>1. /\ Host \in HostShape /\ t \in 1..Len(Host.tasks)
      /\ Host.plugins = plugins /\ Host.tasks = tasks /\ Host.disturbed = disturbed
      /\ plugins \in [Plugins -> PluginShape] /\ tasks[t] \in TaskShape
      /\ Placed(tasks[t]) /\ Refers(Host, tasks[t])
      /\ \A q \in tasks[t].on \ disturbed :
            tasks[t].pc # "done" => InPhase(tasks[t], q, plugins[q])
  BY InTurn
<1>2. tasks[t].op = "uninstall" /\ tasks[t].pc = "removing" BY DEF Removed, Task
<1>3. PICK p \in tasks[t].rest :
         LET left == [Host EXCEPT !.tasks[t].rest = @ \ {p}]
             h    == IF p \notin Known(Host) THEN left
                     ELSE [left EXCEPT !.plugins[p].record = 0,
                                       !.plugins[p].installed = FALSE,
                                       !.plugins[p].disabled = FALSE]
         IN  SetHost(IF tasks[t].rest = {p} THEN End(h, t) ELSE h)
  BY Zenon DEF Removed
<1>4. p \in tasks[t].on /\ p \in Plugins BY <1>1, <1>2 DEF Placed, TaskShape
<1> DEFINE j == [tasks[t] EXCEPT !.rest = @ \ {p}]
           l == PutTask(Host, t, j)
           s == plugins[p]
           f == Uninstalled(s)
           m == PutPlugin(l, p, f)
           h == IF p \notin Known(Host) THEN l ELSE m
<1>5. [Host EXCEPT !.tasks[t].rest = @ \ {p}] = l
  <2> PICK k : k = tasks[t] OBVIOUS
  <2>1. Host.tasks[t] = k BY <1>1
  <2> HIDE DEF Host
  <2> QED BY <2>1, Zenon DEF PutTask
<1>6. /\ j \in TaskShape /\ j.op = "uninstall" /\ j.pc = "removing" /\ j.on = tasks[t].on
      /\ j.plugin = tasks[t].plugin /\ j.held = tasks[t].held /\ j.rest = tasks[t].rest \ {p}
  BY <1>1, <1>2 DEF TaskShape
<1> HIDE DEF j
<1>7. /\ l.plugins = plugins /\ l.disturbed = disturbed /\ l.tasks[t] = j
      /\ Len(l.tasks) = Len(Host.tasks)
  BY <1>1, <1>6, PutTaskParts
<1>8. Held(l, t, {p})
  <2>1. {p} \subseteq Host.tasks[t].on /\ Host.tasks[t].pc # "done" BY <1>1, <1>2, <1>4
  <2>2. Host.tasks[t].op = "uninstall" /\ (Host.tasks[t].pc = "disposing" => Host.tasks[t].cur \in {p})
    BY <1>1, <1>2
  <2>3. Held(Host, t, {p}) BY <1>1, <2>1, <2>2, TakenInHand
  <2>4. /\ j.op = Host.tasks[t].op /\ j.plugin = Host.tasks[t].plugin
        /\ j.on = Host.tasks[t].on /\ j.held = Host.tasks[t].held
        /\ Host.tasks[t].pc = "removing"
    BY <1>1, <1>2, <1>6
  <2> QED BY <1>6, <2>3, <2>4, HeldTask
<1> HIDE DEF l
<1>9. [l EXCEPT !.plugins[p].record = 0, !.plugins[p].installed = FALSE,
                !.plugins[p].disabled = FALSE] = m
  <2>1. l.plugins[p] = s BY <1>7
  <2> QED BY <2>1, Zenon DEF PutPlugin, Uninstalled
<1>10. SetHost(IF tasks[t].rest = {p} THEN End(h, t) ELSE h)
  <2> PICK e : e = [l EXCEPT !.plugins[p].record = 0, !.plugins[p].installed = FALSE,
                             !.plugins[p].disabled = FALSE] OBVIOUS
  <2>1. SetHost(IF tasks[t].rest = {p} THEN End(IF p \notin Known(Host) THEN l ELSE e, t)
                ELSE IF p \notin Known(Host) THEN l ELSE e)
    BY <1>3, <1>5, Zenon
  <2>2. e = m BY <1>9
  <2> QED BY <2>1, <2>2, Zenon
<1>11. s \in PluginShape /\ InBounds(s) /\ Offered(p, s) BY <1>1, <1>4 DEF HostInv
<1> HIDE DEF s
<1>12. /\ f \in PluginShape /\ InBounds(f) /\ Offered(p, f) /\ LiveIn(f) = LiveIn(s)
       /\ f.record = 0 /\ f.objects = s.objects /\ f.groups = s.groups /\ f.runs = s.runs
       /\ f.provider = s.provider
  BY <1>11, GoneIs
<1> HIDE DEF f
<1>13. Held(m, t, {p})
  <2>1. Len(s.objects) \in Nat /\ Len(s.runs) \in Nat BY <1>11, Lengths
  <2>2. Len(f.objects) >= Len(s.objects) /\ Len(f.runs) >= Len(s.runs) BY <1>12, <2>1
  <2>3. \A i \in Others(l, t, p) : f.runs[i].state = s.runs[i].state BY <1>12
  <2>4. l.plugins[p] = s /\ p \in {p} BY <1>7 DEF s
  <2> QED BY <1>8, <1>12, <2>2, <2>3, <2>4, HeldPlugin
<1>14. /\ m.tasks = l.tasks /\ m.disturbed = l.disturbed /\ m.plugins[p] = f
       /\ \A q \in Plugins \ {p} : m.plugins[q] = l.plugins[q]
  <2>1. l \in HostShape BY <1>8, HeldShapes
  <2> QED BY <1>4, <1>12, <2>1, PutPluginParts
<1> HIDE DEF m
<1>15. /\ Held(h, t, {p}) /\ h.tasks = l.tasks /\ h.disturbed = disturbed
       /\ \A q \in Plugins \ {p} : h.plugins[q] = plugins[q]
       /\ h.plugins[p] = IF p \notin Known(Host) THEN s ELSE f
  BY <1>7, <1>8, <1>13, <1>14 DEF s
<1> HIDE DEF h
<1>16. ASSUME NEW q \in tasks[t].on \ disturbed PROVE Emptied(h.plugins[q])
  <2>1. InPhase(tasks[t], q, plugins[q]) BY <1>1, <1>2, <1>16
  <2>2. Emptied(plugins[q]) BY <1>2, <2>1 DEF InPhase, Waits
  <2>3. q \in Plugins BY <1>1 DEF TaskShape
  <2>4. CASE q # p BY <1>15, <2>2, <2>3, <2>4
  <2>5. CASE q = p /\ p \notin Known(Host) BY <1>15, <2>2, <2>5 DEF s
  <2>6. CASE q = p /\ p \in Known(Host)
    <3>1. s.record # 0 BY <1>1, <2>6 DEF Known, s
    <3>2. Emptied(s) BY <2>2, <2>6 DEF s
    <3>3. Tidy(s) /\ Told(s) /\ Current(s).status \in {"idle", "disabled"} BY <3>1, <3>2 DEF Emptied, Rest
    <3>4. LiveIn(s) = {} /\ s.provider = 0 /\ ~s.groups[Current(s).group].holds BY <3>3 DEF Told
    <3>5. Tidy(f) BY <1>12, <3>3, <3>4 DEF Tidy
    <3>6. Emptied(f) BY <1>12, <3>4, <3>5 DEF Emptied, Rest
    <3> QED BY <1>15, <2>6, <3>6
  <2> QED BY <2>4, <2>5, <2>6
<1>17. h.tasks[t] = j BY <1>7, <1>15
<1>18. HostInv(End(h, t))
  <2>1. \A q \in h.tasks[t].on \ h.disturbed : Rest(h.plugins[q])
    BY <1>6, <1>15, <1>16, <1>17 DEF Emptied
  <2> QED BY <1>15, <2>1, EndKeeps
<1>19. HostInv(h)
  <2>1. j.rest \subseteq j.on BY <1>1, <1>2, <1>6 DEF Placed
  <2>2. Placed(j) /\ Owned(j) = {} BY <1>6, <2>1 DEF Placed, Owned, Pcs
  <2>3. Refers(h, j)
    <3>1. j.held \in 0..Len(h.plugins[j.plugin].objects) BY <1>15, <1>17 DEF Held
    <3> QED BY <1>6, <2>2, <3>1 DEF Refers
  <2>4. \A q \in j.on \ h.disturbed : InPhase(j, q, h.plugins[q])
    BY <1>6, <1>15, <1>16 DEF InPhase, Waits, Emptied
  <2>5. j.pc # "done" BY <1>6
  <2> QED BY <1>15, <1>17, <2>2, <2>3, <2>4, <2>5, GoesOn
<1> QED BY <1>10, <1>18, <1>19, Becomes

\* Lemma: the import fails, or the entry throws.
LEMMA ImportFailsKeeps ==
    ASSUME HostInv(Host), NEW t \in DOMAIN tasks, ImportFails(t)
    PROVE  HostInv(Host')
<1>1. PICK p : p = tasks[t].cur OBVIOUS
<1>2. tasks[t].pc = "importing" /\ SetHost(Fails(Host, t)) BY DEF ImportFails
<1>3. /\ Host.plugins = plugins /\ Host.tasks = tasks /\ Host.disturbed = disturbed
      /\ Placed(tasks[t]) /\ Refers(Host, tasks[t])
  BY InTurn
<1>4. tasks[t].op # "uninstall" BY <1>2, <1>3 DEF Placed
<1>5. Held(Host, t, {p}) /\ tasks[t].on = {p} /\ (p \notin disturbed => InPhase(tasks[t], p, plugins[p]))
  BY <1>1, <1>2, <1>4, InWork
<1>6. p \notin disturbed => Starting(tasks[t], plugins[p], {}) BY <1>2, <1>4, <1>5 DEF InPhase
<1>7. tasks[t].obj \in 1..Len(plugins[p].objects) BY <1>1, <1>2, <1>3 DEF Refers
<1>8. HostInv(Fails(Host, t)) BY <1>1, <1>3, <1>5, <1>6, <1>7, FailsKeeps
<1> QED BY <1>2, <1>8, Becomes

\* Lemma: the entry of the plugin throws.
LEMMA EntryThrowsKeeps ==
    ASSUME HostInv(Host), NEW t \in DOMAIN tasks, tasks[t].pc = "activating",
           SetHost(Throws(Host, t))
    PROVE  HostInv(Host')
<1>1. PICK p : p = tasks[t].cur OBVIOUS
<1>2. /\ Host.plugins = plugins /\ Host.tasks = tasks /\ Host.disturbed = disturbed
      /\ Placed(tasks[t]) /\ Refers(Host, tasks[t]) /\ plugins \in [Plugins -> PluginShape]
  BY InTurn
<1>3. tasks[t].op # "uninstall" BY <1>2 DEF Placed
<1>4. /\ Held(Host, t, {p}) /\ tasks[t].on = {p} /\ p \in Plugins
      /\ p \notin disturbed => InPhase(tasks[t], p, plugins[p])
      /\ tasks[t].run # 0 => tasks[t].run \notin Others(Host, t, p)
  BY <1>1, <1>3, InWork
<1>5. p \notin disturbed => Starting(tasks[t], plugins[p], {tasks[t].run})
  BY <1>3, <1>4 DEF InPhase
<1>6. tasks[t].obj \in 1..Len(plugins[p].objects) /\ tasks[t].run \in 1..Len(plugins[p].runs)
  BY <1>1, <1>2 DEF Refers
<1>7. tasks[t].run # 0
  <2>1. \A n \in Nat : \A x \in 1..n : x # 0 OBVIOUS
  <2>2. Len(plugins[p].runs) \in Nat BY <1>2, <1>4, Lengths
  <2> QED BY <1>6, <2>1, <2>2, Zenon
<1>8. HostInv(Throws(Host, t)) BY <1>1, <1>2, <1>4, <1>5, <1>6, <1>7, ThrowsKeeps
<1> QED BY <1>8, Becomes

\* Lemma: a group holds something, unless it is disposed of.
LEMMA GroupHolds ==
    ASSUME NEW h, NEW t, NEW P, Held(h, t, P), NEW p \in P,
           NEW g \in 1..Len(h.plugins[p].groups)
    PROVE  LET j == HoldInGroup(h, p, g)
               s == h.plugins[p]
               f == j.plugins[p]
           IN  /\ Held(j, t, P) /\ j.tasks = h.tasks /\ j.disturbed = h.disturbed
               /\ f.record = s.record /\ f.objects = s.objects /\ f.runs = s.runs
               /\ f.provider = s.provider /\ f.disabled = s.disabled /\ LiveIn(f) = LiveIn(s)
               /\ Len(f.groups) = Len(s.groups)
               /\ \A x \in 1..Len(s.groups) :
                     /\ f.groups[x].disposed = s.groups[x].disposed
                     /\ f.groups[x].holds => s.groups[x].holds \/ x = g
               /\ \A q \in Plugins \ {p} : j.plugins[q] = h.plugins[q]
<1> DEFINE s == h.plugins[p]
           r == [s.groups[g] EXCEPT !.holds = TRUE]
           gs == [s.groups EXCEPT ![g] = r]
           j == GroupsSet(h, p, gs)
<1>1. /\ h \in HostShape /\ p \in Plugins /\ h.plugins \in [Plugins -> PluginShape]
  BY HeldShapes
<1>2. CASE s.groups[g].disposed
  <2>1. HoldInGroup(h, p, g) = h BY <1>2 DEF HoldInGroup
  <2> QED BY <2>1
<1>3. CASE ~s.groups[g].disposed
  <2>1. HoldInGroup(h, p, g) = j
    <3>1. [h EXCEPT !.plugins[p].groups[g].holds = TRUE] = j BY Zenon DEF GroupsSet
    <3> QED BY <1>3, <3>1 DEF HoldInGroup
  <2>2. s \in PluginShape BY <1>1
  <2>3. s.groups \in Seq(GroupShape) BY <2>2, PluginFields
  <2> HIDE DEF s
  <2>4. g \in 1..Len(s.groups) BY DEF s
  <2>5. s.groups[g] \in GroupShape BY <2>3, <2>4
  <2>6. r \in GroupShape /\ r.disposed = s.groups[g].disposed BY <2>5 DEF GroupShape
  <2> HIDE DEF r
  <2>7. /\ gs \in Seq(GroupShape) /\ Len(gs) = Len(s.groups) /\ gs[g] = r
        /\ \A x \in 1..Len(s.groups) \ {g} : gs[x] = s.groups[x]
    BY <2>3, <2>4, <2>6
  <2> HIDE DEF gs
  <2>8. Len(gs) >= Len(s.groups)
    <3>1. Len(s.groups) \in Nat BY <2>2, Lengths
    <3> QED BY <2>7, <3>1
  <2>9. Held(j, t, P) /\ GroupsChange(h, j, p, gs) BY <2>7, <2>8, GroupsAreSet DEF s
  <2> HIDE DEF j
  <2>10. /\ j.tasks = h.tasks /\ j.disturbed = h.disturbed
         /\ j.plugins[p].record = s.record /\ j.plugins[p].objects = s.objects
         /\ j.plugins[p].runs = s.runs /\ j.plugins[p].provider = s.provider
         /\ j.plugins[p].disabled = s.disabled /\ LiveIn(j.plugins[p]) = LiveIn(s)
         /\ j.plugins[p].groups = gs
         /\ \A q \in Plugins \ {p} : j.plugins[q] = h.plugins[q]
    BY <2>9 DEF GroupsChange, s
  <2>11. ASSUME NEW x \in 1..Len(s.groups)
         PROVE  /\ gs[x].disposed = s.groups[x].disposed
                /\ gs[x].holds => s.groups[x].holds \/ x = g
    <3>1. CASE x = g BY <2>6, <2>7, <3>1
    <3>2. CASE x # g BY <2>7, <3>2
    <3> QED BY <3>1, <3>2
  <2> QED BY <2>1, <2>7, <2>9, <2>10, <2>11 DEF s
<1> QED BY <1>2, <1>3

\* The plugin with a further run, r.
Runs(s, r) == [s EXCEPT !.runs = Append(@, r)]

\* Lemma: a run begins.
LEMMA RunBegins ==
    ASSUME NEW p, NEW s \in PluginShape, InBounds(s), Offered(p, s), NEW r \in RunShape,
           r.state \in LiveStates
    PROVE  LET f == Runs(s, r)
               n == Len(s.runs) + 1
           IN  /\ f \in PluginShape /\ InBounds(f) /\ Offered(p, f)
               /\ f.record = s.record /\ f.objects = s.objects /\ f.groups = s.groups
               /\ f.disabled = s.disabled /\ f.provider = s.provider
               /\ Len(f.runs) = n /\ f.runs[n] = r
               /\ \A x \in 1..Len(s.runs) : f.runs[x] = s.runs[x]
               /\ LiveIn(f) = LiveIn(s) \union {n}
<1> DEFINE w == Append(s.runs, r)
           f == Runs(s, r)
           n == Len(s.runs) + 1
<1>1. s.runs \in Seq(RunShape) /\ Len(s.runs) \in Nat BY PluginFields
<1>2. f = [s EXCEPT !.runs = w] BY Zenon DEF Runs
<1>3. /\ w \in Seq(RunShape) /\ Len(w) = n /\ w[n] = r
      /\ \A x \in 1..Len(s.runs) : w[x] = s.runs[x]
  BY <1>1
<1> HIDE DEF w, f
<1>4. f \in PluginShape BY <1>2, <1>3 DEF PluginShape
<1>5. /\ f.record = s.record /\ f.groups = s.groups /\ f.objects = s.objects /\ f.runs = w
      /\ f.provider = s.provider /\ f.disabled = s.disabled
  BY <1>2 DEF PluginShape
<1>6. 0..Len(s.runs) \subseteq 0..Len(f.runs)
  <2>1. Len(f.runs) = n /\ n \in Nat /\ n >= Len(s.runs) BY <1>1, <1>3, <1>5
  <2> QED BY <1>1, <2>1, Ranges
<1>7. InBounds(f) BY <1>5, <1>6 DEF InBounds
<1>8. DOMAIN f.runs = 1..n /\ DOMAIN s.runs = 1..Len(s.runs) /\ 1..n = 1..Len(s.runs) \union {n}
      /\ n \notin 1..Len(s.runs)
  BY <1>1, <1>3, <1>5
<1>9. LiveIn(f) = LiveIn(s) \union {n}
  <2>1. \A x \in 1..Len(s.runs) : f.runs[x].state = s.runs[x].state BY <1>3, <1>5
  <2>2. f.runs[n].state \in LiveStates BY <1>3, <1>5
  <2> HIDE DEF n
  <2> QED BY <2>1, <2>2, <1>8 DEF LiveIn
<1>10. Offered(p, f)
  <2> SUFFICES ASSUME p \notin Legacy, f.provider # 0
               PROVE  f.provider \in LiveIn(f) /\ f.runs[f.provider].provided
    BY DEF Offered
  <2>1. s.provider \in LiveIn(s) /\ s.runs[s.provider].provided BY <1>5 DEF Offered
  <2>2. s.provider \in 1..Len(s.runs) BY <1>8, <2>1 DEF LiveIn
  <2>3. f.runs[s.provider] = s.runs[s.provider] BY <1>3, <1>5, <2>2
  <2> QED BY <1>5, <1>9, <2>1, <2>3
<1> QED BY <1>3, <1>4, <1>5, <1>7, <1>9, <1>10 DEF f

\* Lemma: no task holds a run that has not begun.
LEMMA OthersHaveBegun ==
    ASSUME NEW h, NEW t, NEW P, Held(h, t, P), NEW p \in Plugins, NEW x \in Others(h, t, p)
    PROVE  x \in 1..Len(h.plugins[p].runs)
<1>1. PICK u \in 1..Len(h.tasks) \ {t} : <<p, x>> \in Owned(h.tasks[u]) BY DEF Others
<1>2. Refers(h, h.tasks[u]) BY DEF Held
<1>3. /\ h.tasks[u].cur = p /\ h.tasks[u].run = x /\ x # 0
      /\ h.tasks[u].pc \in {"activating", "disposing"}
  BY <1>1 DEF Owned
<1>4. x \in 1..Len(h.plugins[p].runs) \/ x \in 0..Len(h.plugins[p].runs)
  BY <1>2, <1>3, Zenon DEF Refers
<1>5. \A n \in Nat : x \in 0..n => x \in 1..n BY <1>3
<1>6. Len(h.plugins[p].runs) \in Nat
  <2>1. h.plugins[p] \in PluginShape BY HeldShapes
  <2> QED BY <2>1, Lengths
<1> QED BY <1>4, <1>5, <1>6

\* Lemma: what a task that loads a plugin has in hand.
LEMMA Loads ==
    ASSUME HostInv(Host), NEW t \in DOMAIN tasks, tasks[t].pc \in {"importing", "activating"},
           NEW p, p = tasks[t].cur, NEW o, o = tasks[t].obj
    PROVE  /\ Host \in HostShape /\ t \in 1..Len(Host.tasks)
           /\ Host.plugins = plugins /\ Host.tasks = tasks /\ Host.disturbed = disturbed
           /\ tasks[t] \in TaskShape /\ Placed(tasks[t]) /\ Refers(Host, tasks[t])
           /\ p \in Plugins /\ plugins[p] \in PluginShape
           /\ InBounds(plugins[p]) /\ Offered(p, plugins[p])
           /\ Held(Host, t, {p}) /\ tasks[t].on = {p} /\ tasks[t].op # "uninstall"
           /\ o \in 1..Len(plugins[p].objects) /\ plugins[p].objects[o] \in ObjectShape
           /\ plugins[p].objects[o].group \in 1..Len(plugins[p].groups)
           /\ p \notin disturbed =>
                 Starting(tasks[t], plugins[p],
                          IF tasks[t].pc = "importing" THEN {} ELSE {tasks[t].run})
           /\ tasks[t].pc = "activating" =>
                 /\ tasks[t].run \in 1..Len(plugins[p].runs) /\ tasks[t].run # 0
                 /\ tasks[t].run \notin Others(Host, t, p)
                 /\ plugins[p].runs[tasks[t].run].state = "activating"
<1> DEFINE s == plugins[p]
<1>1. /\ Host \in HostShape /\ t \in 1..Len(Host.tasks)
      /\ Host.plugins = plugins /\ Host.tasks = tasks /\ Host.disturbed = disturbed
      /\ plugins \in [Plugins -> PluginShape] /\ tasks[t] \in TaskShape
      /\ Placed(tasks[t]) /\ Refers(Host, tasks[t])
  BY InTurn
<1>2. tasks[t].op # "uninstall" BY <1>1 DEF Placed
<1>3. /\ p \in Plugins /\ Held(Host, t, {p}) /\ tasks[t].on = {p}
      /\ p \notin disturbed => InPhase(tasks[t], p, s)
      /\ tasks[t].pc = "activating" /\ tasks[t].run # 0 => tasks[t].run \notin Others(Host, t, p)
  BY <1>2, InWork
<1>4. s \in PluginShape /\ InBounds(s) /\ Offered(p, s) BY <1>1, <1>3 DEF HostInv
<1>5. o \in 1..Len(s.objects) BY <1>1 DEF Refers
<1>6. s.objects[o] \in ObjectShape
  <2>1. s.objects \in Seq(ObjectShape) BY <1>4, PluginFields
  <2> QED BY <1>5, <2>1
<1>7. s.objects[o].group \in 1..Len(s.groups) BY <1>4, <1>5 DEF InBounds
<1>8. p \notin disturbed =>
          Starting(tasks[t], s, IF tasks[t].pc = "importing" THEN {} ELSE {tasks[t].run})
  BY <1>2, <1>3 DEF InPhase
<1>9. ASSUME tasks[t].pc = "activating"
      PROVE  /\ tasks[t].run \in 1..Len(s.runs) /\ tasks[t].run # 0
             /\ s.runs[tasks[t].run].state = "activating"
  <2>1. tasks[t].run \in 1..Len(s.runs) BY <1>1, <1>9 DEF Refers
  <2>2. tasks[t].run # 0
    <3>1. \A n \in Nat : \A x \in 1..n : x # 0 OBVIOUS
    <3>2. Len(s.runs) \in Nat BY <1>4, Lengths
    <3> QED BY <2>1, <3>1, <3>2, Zenon
  <2>3. Owned(tasks[t]) # {} BY <1>9, <2>2 DEF Owned
  <2>4. s.runs[tasks[t].run].state = "activating" BY <1>1, <1>9, <2>3, Zenon DEF Refers
  <2> QED BY <2>1, <2>2, <2>4
<1> QED BY <1>1, <1>2, <1>3, <1>4, <1>5, <1>6, <1>7, <1>8, <1>9

\* Lemma: the main entry is imported, and begins to run.
LEMMA ImportedKeeps ==
    ASSUME HostInv(Host), NEW t \in DOMAIN tasks, Imported(t)
    PROVE  HostInv(Host')
<1>1. PICK p, o : p = tasks[t].cur /\ o = tasks[t].obj OBVIOUS
<1>2. PICK s : s = plugins[p] OBVIOUS
<1>3. PICK g : g = s.objects[o].group OBVIOUS
<1> DEFINE r == [state |-> "activating", provided |-> FALSE]
           h == HoldInGroup(Host, p, g)
           e == h.plugins[p]
           f == Runs(e, r)
           n == Len(s.runs) + 1
           m == PutPlugin(h, p, f)
           j == [tasks[t] EXCEPT !.run = n]
           k == [j EXCEPT !.pc = "activating"]
<1>4. tasks[t].pc = "importing" BY DEF Imported
<1>5. /\ Host \in HostShape /\ t \in 1..Len(Host.tasks)
      /\ Host.plugins = plugins /\ Host.tasks = tasks /\ Host.disturbed = disturbed
      /\ tasks[t] \in TaskShape /\ Placed(tasks[t]) /\ Refers(Host, tasks[t])
      /\ p \in Plugins /\ s \in PluginShape
      /\ Held(Host, t, {p}) /\ tasks[t].on = {p} /\ tasks[t].op # "uninstall"
      /\ o \in 1..Len(s.objects) /\ g \in 1..Len(s.groups)
      /\ p \notin disturbed => Starting(tasks[t], s, {})
  BY <1>1, <1>2, <1>3, <1>4, Loads
<1>6. /\ Held(h, t, {p}) /\ h.tasks = tasks /\ h.disturbed = disturbed
      /\ e.record = s.record /\ e.objects = s.objects /\ e.runs = s.runs
      /\ e.disabled = s.disabled /\ LiveIn(e) = LiveIn(s)
      /\ Len(e.groups) = Len(s.groups)
      /\ \A x \in 1..Len(s.groups) :
            /\ e.groups[x].disposed = s.groups[x].disposed
            /\ e.groups[x].holds => s.groups[x].holds \/ x = g
      /\ \A q \in Plugins \ {p} : h.plugins[q] = plugins[q]
  <2>1. g \in 1..Len(Host.plugins[p].groups) /\ p \in {p} BY <1>2, <1>5
  <2> QED BY <1>2, <1>5, <2>1, GroupHolds, SMTT(30)
<1>7. SetHost(At([h EXCEPT
               !.plugins[p].runs = Append(@, [state |-> "activating", provided |-> FALSE]),
               !.tasks[t].run = Len(plugins[p].runs) + 1], t, "activating"))
  <2>1. GroupOf(Host, t) = g BY <1>1, <1>2, <1>3, <1>5 DEF GroupOf
  <2> QED BY <1>1, <2>1, Zenon DEF Imported
<1> HIDE DEF h, n
<1>8. [h EXCEPT !.plugins[p].runs = Append(@, [state |-> "activating", provided |-> FALSE]),
                !.tasks[t].run = Len(plugins[p].runs) + 1] = PutTask(m, t, j)
  <2>1. Len(plugins[p].runs) + 1 = n BY <1>2 DEF n
  <2>2. PICK w : w = tasks[t] OBVIOUS
  <2>3. h.tasks[t] = w BY <1>6, <2>2
  <2> QED BY <2>1, <2>2, <2>3, Zenon DEF PutTask, PutPlugin, Runs
<1>9. h \in HostShape /\ h.plugins \in [Plugins -> PluginShape] BY <1>6, HeldShapes
<1>10. e \in PluginShape /\ InBounds(e) /\ Offered(p, e) BY <1>5, <1>6, <1>9 DEF Held
<1> HIDE DEF e
<1>11. r \in RunShape /\ r.state = "activating" /\ r.state \in LiveStates
  BY DEF RunShape, RunStates, LiveStates
<1> HIDE DEF r
<1>12. /\ f \in PluginShape /\ InBounds(f) /\ Offered(p, f)
       /\ f.record = e.record /\ f.objects = e.objects /\ f.groups = e.groups
       /\ f.disabled = e.disabled /\ Len(f.runs) = n /\ f.runs[n] = r
       /\ \A x \in 1..Len(s.runs) : f.runs[x] = s.runs[x]
       /\ LiveIn(f) = LiveIn(e) \union {n}
  BY <1>6, <1>10, <1>11, RunBegins DEF n
<1> HIDE DEF f
<1>13. n \in Nat /\ n # 0 /\ n \notin 1..Len(s.runs) /\ n \in 1..n /\ n >= Len(s.runs)
       /\ Len(s.objects) \in Nat
  <2>1. Len(s.runs) \in Nat /\ Len(s.objects) \in Nat BY <1>5, Lengths
  <2> QED BY <2>1 DEF n
<1>14. ASSUME NEW x \in Others(h, t, p) PROVE x \in 1..Len(s.runs)
  BY <1>5, <1>6, OthersHaveBegun DEF e
<1>15. Held(m, t, {p})
  <2>1. Len(f.objects) >= Len(e.objects) /\ Len(f.runs) >= Len(e.runs) BY <1>6, <1>12, <1>13
  <2>2. \A x \in Others(h, t, p) : f.runs[x].state = e.runs[x].state BY <1>6, <1>12, <1>14
  <2>3. p \in {p} OBVIOUS
  <2> QED BY <1>6, <1>12, <2>1, <2>2, <2>3, HeldPlugin DEF e
<1>16. m \in HostShape /\ m.tasks = tasks /\ m.disturbed = disturbed /\ m.plugins[p] = f
  BY <1>5, <1>6, <1>9, <1>12, PutPluginParts
<1> HIDE DEF m
<1>17. /\ j \in TaskShape /\ k \in TaskShape /\ k.pc = "activating" /\ k.run = n /\ k.cur = p
       /\ k.obj = o /\ k.op = tasks[t].op /\ k.plugin = tasks[t].plugin /\ k.on = {p}
       /\ k.held = tasks[t].held
  BY <1>1, <1>5, <1>13 DEF TaskShape, Pcs
<1> HIDE DEF j
<1>18. At(PutTask(m, t, j), t, "activating") = PutTask(m, t, k)
  <2>1. t \in 1..Len(m.tasks) BY <1>5, <1>16
  <2>2. (PutTask(m, t, j)).tasks[t] = j BY <1>16, <1>17, <2>1, PutTaskParts
  <2>3. At(PutTask(m, t, j), t, "activating") = PutTask(PutTask(m, t, j), t, k) BY <2>2, AtIs
  <2> QED BY <1>16, <1>17, <2>1, <2>3, PutTaskTwice
<1> HIDE DEF k
<1>19. Placed(k) BY <1>4, <1>5, <1>17 DEF Placed, Pcs
<1>20. Refers(m, k)
  <2>1. k.held \in 0..Len(m.plugins[k.plugin].objects) /\ (k.op \in {"enable", "disable"} => k.held # 0)
    BY <1>15, <1>16, <1>17 DEF Held
  <2>2. m.plugins[k.cur] = f BY <1>16, <1>17
  <2>3. k.obj \in 1..Len(f.objects) /\ k.run \in 1..Len(f.runs)
    BY <1>5, <1>6, <1>12, <1>13, <1>17
  <2>4. f.runs[k.run].state = "activating" BY <1>11, <1>12, <1>17
  <2> QED BY <1>17, <2>1, <2>2, <2>3, <2>4 DEF Refers
<1>21. ASSUME NEW u \in 1..Len(m.tasks) \ {t} PROVE Owned(k) \intersect Owned(m.tasks[u]) = {}
  <2>1. Owned(k) \subseteq {<<p, n>>} BY <1>17 DEF Owned
  <2>2. <<p, n>> \notin Owned(m.tasks[u])
    <3> SUFFICES ASSUME <<p, n>> \in Owned(m.tasks[u]) PROVE FALSE OBVIOUS
    <3>1. n \in Others(h, t, p) BY <1>6, <1>13, <1>16 DEF Others
    <3> QED BY <1>13, <1>14, <3>1
  <2> QED BY <2>1, <2>2
<1>22. ASSUME p \notin disturbed PROVE InPhase(k, p, f)
  <2>1. /\ Tidy(s) /\ s.record # 0 /\ o = s.record /\ LiveIn(s) = {}
        /\ Current(s).enabled /\ Current(s).status = "loading" /\ Current(s).disposer = 0
    BY <1>1, <1>5, <1>22 DEF Starting
  <2>2. Current(s).group = g BY <1>3, <2>1 DEF Current
  <2>3. Current(f) = Current(s) BY <1>6, <1>12 DEF Current
  <2>4. ASSUME NEW x \in 1..Len(f.groups), f.groups[x].holds PROVE f.record # 0 /\ Current(f).group = x
    <3>1. x \in 1..Len(s.groups) /\ (s.groups[x].holds \/ x = g) BY <1>6, <1>12, <2>4
    <3> QED BY <1>6, <1>12, <2>1, <2>2, <2>3, <3>1 DEF Tidy
  <2>5. ~f.groups[g].disposed
    <3>1. ~s.groups[Current(s).group].disposed BY <2>1 DEF Tidy
    <3>2. ~s.groups[g].disposed BY <2>2, <3>1, Zenon
    <3>3. e.groups[g].disposed = s.groups[g].disposed BY <1>5, <1>6
    <3>4. f.groups = e.groups BY <1>12
    <3> QED BY <3>2, <3>3, <3>4, Zenon
  <2>6. Current(f).enabled = ~f.disabled BY <1>6, <1>12, <2>1, <2>3 DEF Tidy
  <2>7. Tidy(f) BY <2>2, <2>3, <2>4, <2>5, <2>6 DEF Tidy
  <2>8. LiveIn(f) = {k.run} BY <1>6, <1>12, <1>17, <2>1
  <2>9. Starting(k, f, {k.run}) BY <1>6, <1>12, <1>17, <2>1, <2>3, <2>7, <2>8 DEF Starting
  <2> QED BY <1>5, <1>17, <2>9 DEF InPhase
<1>23. HostInv(PutTask(m, t, k))
  <2>1. k.on \subseteq m.tasks[t].on /\ k.pc # "done" BY <1>5, <1>16, <1>17
  <2>2. \A q \in m.tasks[t].on \ m.disturbed :
           IF k.pc = "done" \/ q \notin k.on THEN Rest(m.plugins[q]) ELSE InPhase(k, q, m.plugins[q])
    BY <1>5, <1>16, <1>17, <1>22
  <2> QED BY <1>15, <1>17, <1>19, <1>20, <1>21, <2>1, <2>2, Released
<1> QED BY <1>7, <1>8, <1>18, <1>23, Becomes

\* Lemma: the disposer of the record is over.
LEMMA DisposedKeeps ==
    ASSUME HostInv(Host), NEW t \in DOMAIN tasks, Disposed(t)
    PROVE  HostInv(Host')
<1>1. PICK p, o, i : p = tasks[t].cur /\ o = tasks[t].obj /\ i = tasks[t].run OBVIOUS
<1>2. PICK s : s = plugins[p] OBVIOUS
<1> DEFINE h == IF i = 0 THEN Host ELSE RunEnds(Host, p, i, "down")
<1>3. tasks[t].pc = "disposing" BY DEF Disposed
<1>4. PICK threw \in BOOLEAN : SetHost(Unloaded(h, t, threw))
  <2> DEFINE down == [Host EXCEPT !.plugins[p].runs[i].state = "down"]
             e == CASE i = 0 -> Host
                    [] i # 0 /\ plugins[p].runs[i].provided /\ p \notin Legacy -> Withdraw(down, p)
                    [] OTHER -> down
  <2>1. \E threw \in BOOLEAN : SetHost(Unloaded(e, t, threw)) BY <1>1, Zenon DEF Disposed
  <2>2. e = h
    <3>1. Host.plugins = plugins BY InTurn
    <3> HIDE DEF Host
    <3> QED BY <3>1 DEF RunEnds
  <2> HIDE DEF e, h
  <2> QED BY <2>1, <2>2
<1>5. /\ Host \in HostShape /\ t \in 1..Len(Host.tasks)
      /\ Host.plugins = plugins /\ Host.tasks = tasks /\ Host.disturbed = disturbed
      /\ plugins \in [Plugins -> PluginShape] /\ tasks[t] \in TaskShape
      /\ Placed(tasks[t]) /\ Refers(Host, tasks[t])
  BY InTurn
<1>6. /\ p \in Plugins /\ Held(Host, t, {p})
      /\ tasks[t].op # "uninstall" => tasks[t].on = {p}
      /\ p \notin disturbed => InPhase(tasks[t], p, s)
      /\ i # 0 => i \notin Others(Host, t, p)
  BY <1>1, <1>2, <1>3, InWork
<1>7. Stopping(tasks[t], s) \/ p \in disturbed BY <1>1, <1>3, <1>6 DEF InPhase
<1>8. o \in 1..Len(s.objects) /\ i \in 0..Len(s.runs) BY <1>1, <1>2, <1>3, <1>5 DEF Refers
<1>9. /\ Held(h, t, {p}) /\ h.tasks = tasks /\ h.disturbed = disturbed
      /\ h.plugins[p].record = s.record /\ h.plugins[p].objects = s.objects
      /\ h.plugins[p].groups = s.groups /\ h.plugins[p].disabled = s.disabled
      /\ i # 0 => LiveIn(h.plugins[p]) = LiveIn(s) \ {i}
  <2>1. CASE i = 0 BY <1>2, <1>5, <1>6, <2>1
  <2>2. CASE i # 0
    <3>1. i \in 1..Len(s.runs)
      <4>1. \A n \in Nat : \A x \in 0..n : x # 0 => x \in 1..n OBVIOUS
      <4>2. Len(s.runs) \in Nat BY <1>2, <1>5, <1>6, Lengths
      <4> QED BY <1>8, <2>2, <4>1, <4>2, Zenon
    <3> PICK g : g = RunEnds(Host, p, i, "down") OBVIOUS
    <3>2. Held(g, t, {p}) /\ RunIsOver(Host, g, p, i)
      <4>1. i \in 1..Len(Host.plugins[p].runs) /\ i \notin Others(Host, t, p) /\ p \in {p}
        BY <1>2, <1>5, <1>6, <2>2, <3>1
      <4> QED BY <1>6, <4>1, RunEndsIs
    <3>3. g = h BY <2>2
    <3> HIDE DEF h
    <3> QED BY <1>2, <1>5, <3>2, <3>3 DEF RunIsOver
  <2> QED BY <2>1, <2>2
<1> HIDE DEF h
<1>10. Unloads(h.tasks[t], p)
  <2>1. tasks[t].op = "uninstall" => tasks[t].rest \subseteq tasks[t].on \ {p}
    BY <1>1, <1>3, <1>5 DEF Placed
  <2>2. tasks[t].op # "uninstall" => tasks[t].plugin = p BY <1>1, <1>3, <1>5 DEF Placed
  <2>3. tasks[t].op \in {"disable", "reload", "uninstall"} BY <1>3, <1>5 DEF Placed
  <2> QED BY <1>3, <1>6, <1>9, <2>1, <2>2, <2>3 DEF Unloads
<1>11. ASSUME p \notin h.disturbed
       PROVE  LET f == h.plugins[p] IN o = f.record /\ f.record # 0 /\ Tidy(f) /\ LiveIn(f) = {}
  <2> PICK f : f = h.plugins[p] OBVIOUS
  <2>1. Tidy(s) /\ s.record # 0 /\ o = s.record /\ i # 0 /\ LiveIn(s) = {i}
    BY <1>1, <1>7, <1>9, <1>11 DEF Stopping
  <2>2. /\ f.record = s.record /\ f.objects = s.objects /\ f.groups = s.groups
        /\ f.disabled = s.disabled /\ LiveIn(f) = {}
    BY <1>9, <2>1
  <2>3. Tidy(f) BY <2>1, <2>2 DEF Tidy, Current
  <2> QED BY <2>1, <2>2, <2>3
<1>12. HostInv(Unloaded(h, t, threw))
  <2>1. h.tasks[t].cur = p /\ h.tasks[t].obj = o /\ o \in 1..Len(h.plugins[p].objects)
    BY <1>1, <1>8, <1>9
  <2> QED BY <1>9, <1>10, <1>11, <2>1, UnloadedKeeps
<1> QED BY <1>4, <1>12, Becomes

\* Run i of the plugin has provided its service.
Provides(s, i) == [s EXCEPT !.runs[i].provided = TRUE, !.provider = i]

\* Lemma: the entry has provided its service.
LEMMA ProvidedPut ==
    ASSUME NEW p, NEW s \in PluginShape, InBounds(s), NEW i \in 1..Len(s.runs),
           s.runs[i].state \in LiveStates
    PROVE  LET f == Provides(s, i) IN
           /\ f \in PluginShape /\ InBounds(f) /\ Offered(p, f) /\ LiveIn(f) = LiveIn(s)
           /\ f.record = s.record /\ f.objects = s.objects /\ f.groups = s.groups
           /\ f.disabled = s.disabled /\ Len(f.runs) = Len(s.runs)
           /\ \A x \in 1..Len(s.runs) : f.runs[x].state = s.runs[x].state
<1> DEFINE r == [s.runs[i] EXCEPT !.provided = TRUE]
           w == [s.runs EXCEPT ![i] = r]
           f == Provides(s, i)
<1>1. s.runs \in Seq(RunShape) BY PluginFields
<1>2. s.runs[i] \in RunShape BY <1>1
<1>3. r \in RunShape /\ r.state = s.runs[i].state /\ r.provided = TRUE BY <1>2 DEF RunShape
<1>4. f = [s EXCEPT !.runs = w, !.provider = i] BY Zenon DEF Provides
<1> HIDE DEF r
<1>5. /\ w \in Seq(RunShape) /\ Len(w) = Len(s.runs) /\ w[i] = r
      /\ \A x \in 1..Len(s.runs) \ {i} : w[x] = s.runs[x]
  BY <1>1, <1>3
<1> HIDE DEF w, f
<1>6. i \in Nat /\ i \in 0..Len(s.runs)
  <2>1. Len(s.runs) \in Nat BY Lengths
  <2> QED BY <2>1
<1>7. f \in PluginShape BY <1>4, <1>5, <1>6 DEF PluginShape
<1>8. /\ f.record = s.record /\ f.groups = s.groups /\ f.objects = s.objects /\ f.runs = w
      /\ f.provider = i /\ f.disabled = s.disabled
  BY <1>4 DEF PluginShape
<1>9. InBounds(f) BY <1>5, <1>6, <1>8 DEF InBounds
<1>10. DOMAIN f.runs = 1..Len(s.runs) /\ DOMAIN s.runs = 1..Len(s.runs) BY <1>1, <1>5, <1>8
<1>11. \A x \in 1..Len(s.runs) : f.runs[x].state = s.runs[x].state
  <2> TAKE x \in 1..Len(s.runs)
  <2>1. CASE x = i BY <1>3, <1>5, <1>8, <2>1
  <2>2. CASE x # i BY <1>5, <1>8, <2>2
  <2> QED BY <2>1, <2>2
<1>12. LiveIn(f) = LiveIn(s) BY <1>10, <1>11 DEF LiveIn
<1>13. i \in LiveIn(s) BY <1>10 DEF LiveIn
<1>14. Offered(p, f) BY <1>3, <1>5, <1>8, <1>12, <1>13 DEF Offered
<1> QED BY <1>5, <1>7, <1>8, <1>9, <1>11, <1>12, <1>14 DEF f

\* Lemma: the entry provides its service.
LEMMA ProvideKeeps ==
    ASSUME HostInv(Host), NEW t \in DOMAIN tasks, Provide(t)
    PROVE  HostInv(Host')
<1>1. PICK p, o, i : p = tasks[t].cur /\ o = tasks[t].obj /\ i = tasks[t].run OBVIOUS
<1>2. PICK s : s = plugins[p] OBVIOUS
<1>3. PICK g : g = s.objects[o].group OBVIOUS
<1> DEFINE f == Provides(s, i)
           l == PutPlugin(Host, p, f)
           h == HoldInGroup(l, p, g)
<1>4. tasks[t].pc = "activating" BY DEF Provide
<1>5. /\ Host \in HostShape /\ t \in 1..Len(Host.tasks)
      /\ Host.plugins = plugins /\ Host.tasks = tasks /\ Host.disturbed = disturbed
      /\ tasks[t] \in TaskShape /\ Placed(tasks[t]) /\ Refers(Host, tasks[t])
      /\ p \in Plugins /\ s \in PluginShape /\ InBounds(s)
      /\ Held(Host, t, {p}) /\ tasks[t].on = {p} /\ tasks[t].op # "uninstall"
      /\ o \in 1..Len(s.objects) /\ g \in 1..Len(s.groups)
      /\ p \notin disturbed => Starting(tasks[t], s, {i})
      /\ i \in 1..Len(s.runs) /\ i \notin Others(Host, t, p) /\ s.runs[i].state = "activating"
  BY <1>1, <1>2, <1>3, <1>4, Loads
<1>6. SetHost(CASE s.provider # 0 -> Throws(Host, t)
                [] s.provider = 0 /\ s.groups[g].disposed -> Withdraw(h, p)
                [] OTHER -> h)
  <2>1. GroupOf(Host, t) = g BY <1>1, <1>2, <1>3, <1>5 DEF GroupOf
  <2>2. [Host EXCEPT !.plugins[p].runs[i].provided = TRUE, !.plugins[p].provider = i] = l
    <3>1. Host.plugins[p] = s BY <1>2, <1>5
    <3> HIDE DEF Host
    <3> QED BY <3>1, Zenon DEF PutPlugin, Provides
  <2> HIDE DEF l
  <2> QED BY <1>1, <1>2, <2>1, <2>2, Zenon DEF Provide
<1>7. CASE s.provider # 0 BY <1>4, <1>6, <1>7, EntryThrowsKeeps
<1>8. CASE s.provider = 0
  <2>1. s.runs[i].state \in LiveStates BY <1>5 DEF LiveStates
  <2>2. /\ f \in PluginShape /\ InBounds(f) /\ Offered(p, f) /\ LiveIn(f) = LiveIn(s)
        /\ f.record = s.record /\ f.objects = s.objects /\ f.groups = s.groups
        /\ f.disabled = s.disabled /\ Len(f.runs) = Len(s.runs)
        /\ \A x \in 1..Len(s.runs) : f.runs[x].state = s.runs[x].state
    BY <1>5, <2>1, ProvidedPut
  <2> HIDE DEF f
  <2>3. Held(l, t, {p})
    <3>1. Len(s.objects) \in Nat /\ Len(s.runs) \in Nat BY <1>5, Lengths
    <3>2. Len(f.objects) >= Len(s.objects) /\ Len(f.runs) >= Len(s.runs) BY <2>2, <3>1
    <3>3. \A x \in Others(Host, t, p) : x \in 1..Len(s.runs) BY <1>2, <1>5, OthersHaveBegun
    <3>4. \A x \in Others(Host, t, p) : f.runs[x].state = s.runs[x].state BY <2>2, <3>3
    <3>5. Host.plugins[p] = s /\ p \in {p} BY <1>2, <1>5
    <3> QED BY <1>5, <2>2, <3>2, <3>4, <3>5, HeldPlugin
  <2>4. l.tasks = tasks /\ l.disturbed = disturbed /\ l.plugins[p] = f
    BY <1>5, <2>2, PutPluginParts
  <2> HIDE DEF l
  <2>5. /\ Held(h, t, {p}) /\ h.tasks = tasks /\ h.disturbed = disturbed
        /\ h.plugins[p].record = f.record /\ h.plugins[p].objects = f.objects
        /\ h.plugins[p].runs = f.runs /\ h.plugins[p].disabled = f.disabled
        /\ LiveIn(h.plugins[p]) = LiveIn(f)
        /\ Len(h.plugins[p].groups) = Len(f.groups)
        /\ \A x \in 1..Len(f.groups) :
              /\ h.plugins[p].groups[x].disposed = f.groups[x].disposed
              /\ h.plugins[p].groups[x].holds => f.groups[x].holds \/ x = g
    <3>1. g \in 1..Len(l.plugins[p].groups) /\ p \in {p} BY <1>5, <2>2, <2>4
    <3> QED BY <2>3, <2>4, <3>1, GroupHolds
  <2> HIDE DEF h
  <2> DEFINE w == IF s.groups[g].disposed THEN Withdraw(h, p) ELSE h
  <2>6. /\ Held(w, t, {p}) /\ w.tasks = tasks /\ w.disturbed = disturbed
        /\ w.plugins[p].record = s.record /\ w.plugins[p].objects = s.objects
        /\ w.plugins[p].runs = f.runs /\ w.plugins[p].disabled = s.disabled
        /\ LiveIn(w.plugins[p]) = LiveIn(s)
        /\ w.plugins[p].groups = h.plugins[p].groups
    <3>1. CASE ~s.groups[g].disposed BY <2>2, <2>5, <3>1
    <3>2. CASE s.groups[g].disposed
      <4> PICK c : c = Withdraw(h, p) OBVIOUS
      <4>1. /\ Held(c, t, {p}) /\ c.tasks = h.tasks /\ c.disturbed = h.disturbed
            /\ c.plugins[p].record = h.plugins[p].record
            /\ c.plugins[p].objects = h.plugins[p].objects
            /\ c.plugins[p].groups = h.plugins[p].groups
            /\ c.plugins[p].runs = h.plugins[p].runs
            /\ c.plugins[p].disabled = h.plugins[p].disabled
            /\ LiveIn(c.plugins[p]) = LiveIn(h.plugins[p])
        <5>1. p \in {p} OBVIOUS
        <5> QED BY <2>5, <5>1, IsWithdrawn
      <4>2. w = c BY <3>2
      <4> HIDE DEF w
      <4> QED BY <2>2, <2>5, <4>1, <4>2
    <3> QED BY <3>1, <3>2
  <2>7. SetHost(w) BY <1>6, <1>8
  <2> HIDE DEF w
  <2> PICK e : e = w.plugins[p] OBVIOUS
  <2>8. Refers(w, tasks[t])
    <3> PICK k : k = tasks[t] OBVIOUS
    <3>1. k.held \in 0..Len(w.plugins[k.plugin].objects) /\ (k.op \in {"enable", "disable"} => k.held # 0)
      BY <2>6 DEF Held
    <3>2. w.plugins[k.cur] = e BY <1>1
    <3>3. k.obj \in 1..Len(e.objects) /\ k.run \in 1..Len(e.runs) BY <1>1, <1>5, <2>2, <2>6
    <3>4. e.runs[k.run].state = "activating" BY <1>1, <1>5, <2>2, <2>6
    <3> QED BY <1>4, <3>1, <3>2, <3>3, <3>4 DEF Refers
  <2>9. ASSUME p \notin disturbed PROVE InPhase(tasks[t], p, e)
    <3>1. /\ Tidy(s) /\ s.record # 0 /\ o = s.record /\ LiveIn(s) = {i}
          /\ Current(s).enabled /\ Current(s).status = "loading" /\ Current(s).disposer = 0
      BY <1>1, <1>5, <2>9 DEF Starting
    <3>2. Current(s).group = g BY <1>3, <3>1 DEF Current
    <3>3. Current(e) = Current(s) /\ e.record = s.record /\ e.disabled = s.disabled
      BY <2>6 DEF Current
    <3>4. /\ Len(e.groups) = Len(s.groups)
          /\ \A x \in 1..Len(s.groups) : /\ e.groups[x].disposed = s.groups[x].disposed
                                         /\ e.groups[x].holds => s.groups[x].holds \/ x = g
      BY <2>2, <2>5, <2>6
    <3>5. ASSUME NEW x \in 1..Len(e.groups), e.groups[x].holds
          PROVE  e.record # 0 /\ Current(e).group = x
      BY <3>1, <3>2, <3>3, <3>4, <3>5 DEF Tidy
    <3>6. ~e.groups[g].disposed
      <4>1. ~s.groups[Current(s).group].disposed BY <3>1 DEF Tidy
      <4>2. ~s.groups[g].disposed BY <3>2, <4>1, Zenon
      <4>3. e.groups[g].disposed = s.groups[g].disposed BY <1>5, <3>4
      <4> QED BY <4>2, <4>3, Zenon
    <3>7. Current(e).enabled = ~e.disabled BY <3>1, <3>3 DEF Tidy
    <3>8. Tidy(e) BY <3>2, <3>3, <3>5, <3>6, <3>7 DEF Tidy
    <3>9. Starting(tasks[t], e, {i}) BY <1>1, <2>6, <3>1, <3>3, <3>8 DEF Starting
    <3> QED BY <1>1, <1>4, <1>5, <3>9 DEF InPhase
  <2>10. HostInv(w)
    <3>1. \A u \in 1..Len(w.tasks) \ {t} : Owned(w.tasks[t]) \intersect Owned(w.tasks[u]) = {}
      BY <1>5, <2>6 DEF HostInv
    <3>2. \A q \in w.tasks[t].on \ w.disturbed : InPhase(w.tasks[t], q, w.plugins[q])
      BY <1>5, <2>6, <2>9
    <3>3. w.tasks[t].pc # "done" /\ Placed(w.tasks[t]) /\ Refers(w, w.tasks[t])
      BY <1>4, <1>5, <2>6, <2>8
    <3> QED BY <2>6, <3>1, <3>2, <3>3, GoesOn
  <2> QED BY <2>7, <2>10, Becomes
<1> QED BY <1>7, <1>8

\* Lemma: the entry returns its cleanup.
LEMMA EntryReturnsKeeps ==
    ASSUME HostInv(Host), NEW t \in DOMAIN tasks, EntryReturns(t)
    PROVE  HostInv(Host')
<1>1. PICK p, o, i : p = tasks[t].cur /\ o = tasks[t].obj /\ i = tasks[t].run OBVIOUS
<1>2. PICK s : s = plugins[p] OBVIOUS
<1> DEFINE e == RunSet(s, i, "up")
           r == [s.objects[o] EXCEPT !.disposer = i]
           f == WithObject(e, o, r)
           l == PutPlugin(Host, p, f)
           h == SetStatus(l, p, o, "active")
<1>3. tasks[t].pc = "activating" BY DEF EntryReturns
<1>4. /\ Host \in HostShape /\ t \in 1..Len(Host.tasks)
      /\ Host.plugins = plugins /\ Host.tasks = tasks /\ Host.disturbed = disturbed
      /\ tasks[t] \in TaskShape
      /\ p \in Plugins /\ s \in PluginShape /\ InBounds(s) /\ Offered(p, s)
      /\ Held(Host, t, {p}) /\ tasks[t].on = {p} /\ tasks[t].op # "uninstall"
      /\ o \in 1..Len(s.objects) /\ s.objects[o] \in ObjectShape
      /\ s.objects[o].group \in 1..Len(s.groups)
      /\ p \notin disturbed => Starting(tasks[t], s, {i})
      /\ i \in 1..Len(s.runs) /\ i # 0 /\ i \notin Others(Host, t, p)
      /\ s.runs[i].state = "activating"
  BY <1>1, <1>2, <1>3, Loads
<1>5. "up" \in RunStates /\ "up" \in LiveStates /\ "activating" \in LiveStates
  BY DEF RunStates, LiveStates
<1>6. /\ e \in PluginShape /\ InBounds(e)
      /\ e.record = s.record /\ e.objects = s.objects /\ e.groups = s.groups
      /\ e.disabled = s.disabled /\ e.provider = s.provider
      /\ Len(e.runs) = Len(s.runs) /\ e.runs[i].state = "up"
      /\ e.runs[i].provided = s.runs[i].provided
      /\ \A x \in 1..Len(s.runs) \ {i} : e.runs[x] = s.runs[x]
      /\ LiveIn(e) = LiveIn(s) \union {i}
  <2>1. s \in PluginShape /\ InBounds(s) /\ i \in 1..Len(s.runs) BY <1>4
  <2>2. "up" \in RunStates /\ "up" \in LiveStates BY <1>5
  <2> QED BY <2>1, <2>2, RunPut
<1>7. i \in LiveIn(s)
  <2>1. DOMAIN s.runs = 1..Len(s.runs) BY <1>4, PluginFields
  <2> QED BY <1>4, <1>5, <2>1 DEF LiveIn
<1>8. LiveIn(e) = LiveIn(s) BY <1>6, <1>7
<1>9. Offered(p, e)
  <2> SUFFICES ASSUME p \notin Legacy, e.provider # 0
               PROVE  e.provider \in LiveIn(e) /\ e.runs[e.provider].provided
    BY DEF Offered
  <2>1. s.provider \in LiveIn(s) /\ s.runs[s.provider].provided BY <1>4, <1>6 DEF Offered
  <2>2. s.provider \in 1..Len(s.runs)
    <3>1. DOMAIN s.runs = 1..Len(s.runs) BY <1>4, PluginFields
    <3> QED BY <2>1, <3>1 DEF LiveIn
  <2>3. e.runs[s.provider].provided = s.runs[s.provider].provided
    <3>1. CASE s.provider = i BY <1>6, <3>1
    <3>2. CASE s.provider # i BY <1>6, <2>2, <3>2
    <3> QED BY <3>1, <3>2
  <2> QED BY <1>6, <1>8, <2>1, <2>3, Zenon
<1> HIDE DEF e
<1>11. /\ r \in ObjectShape /\ r.enabled = s.objects[o].enabled
       /\ r.group = s.objects[o].group /\ r.disposer = i
  <2>1. i \in Nat
    <3>1. Len(s.runs) \in Nat BY <1>4, Lengths
    <3> QED BY <1>4, <3>1
  <2> QED BY <1>4, <2>1 DEF ObjectShape
<1> HIDE DEF r
<1>12. /\ f \in PluginShape /\ InBounds(f) /\ LiveIn(f) = LiveIn(e) /\ Offered(p, f)
       /\ f.record = e.record /\ f.groups = e.groups /\ f.runs = e.runs
       /\ f.provider = e.provider /\ f.disabled = e.disabled
       /\ Len(f.objects) = Len(e.objects) /\ f.objects[o] = r
  <2>1. r.group \in 1..Len(e.groups) /\ o \in 1..Len(e.objects) BY <1>4, <1>6, <1>11
  <2>2. r.disposer \in 0..Len(e.runs)
    <3>1. Len(s.runs) \in Nat BY <1>4, Lengths
    <3>2. i \in 0..Len(s.runs) BY <1>4, <3>1
    <3> QED BY <1>6, <1>11, <3>2
  <2> QED BY <1>6, <1>9, <1>11, <2>1, <2>2, ObjectPut
<1>10. SetHost(Loaded(h, t))
  <2>1. [Host EXCEPT !.plugins[p].runs[i].state = "up", !.plugins[p].objects[o].disposer = i] = l
    <3> DEFINE c == [Host EXCEPT !.plugins[p].runs[i].state = "up"]
               d == [c EXCEPT !.plugins[p].objects[o].disposer = i]
    <3>1. Host.plugins[p] = s /\ e.objects[o] = s.objects[o] BY <1>2, <1>4, <1>6
    <3>2. [Host EXCEPT !.plugins[p].runs[i].state = "up", !.plugins[p].objects[o].disposer = i] = d
      BY Zenon
    <3>3. c = PutPlugin(Host, p, e)
      <4> HIDE DEF Host
      <4> QED BY <3>1, Zenon DEF PutPlugin, RunSet, e
    <3> HIDE DEF c, Host, e
    <3>4. c \in HostShape /\ c.plugins[p] = e BY <1>4, <1>6, <3>3, PutPluginParts
    <3>5. d = PutPlugin(c, p, f)
      <4>1. [e EXCEPT !.objects[o].disposer = i] = f BY <3>1, Zenon DEF WithObject, r
      <4>2. d = PutPlugin(c, p, [e EXCEPT !.objects[o].disposer = i]) BY <3>4, Zenon DEF PutPlugin
      <4> HIDE DEF d, f
      <4> QED BY <4>1, <4>2, Zenon
    <3> HIDE DEF d
    <3>6. f \in PluginShape
      <4> HIDE DEF f
      <4> QED BY <1>12
    <3> HIDE DEF f
    <3>7. PutPlugin(PutPlugin(Host, p, e), p, f) = PutPlugin(Host, p, f)
      BY <1>4, <1>6, <3>6, PutPluginTwice
    <3> QED BY <3>2, <3>3, <3>5, <3>7, Zenon
  <2> HIDE DEF l
  <2> QED BY <1>1, <2>1, Zenon DEF EntryReturns
<1> HIDE DEF f
<1>13. Held(l, t, {p})
  <2>1. Len(s.objects) \in Nat /\ Len(s.runs) \in Nat BY <1>4, Lengths
  <2>2. Len(f.objects) >= Len(s.objects) /\ Len(f.runs) >= Len(s.runs) BY <1>6, <1>12, <2>1
  <2>3. ASSUME NEW x \in Others(Host, t, p) PROVE f.runs[x].state = s.runs[x].state
    <3>1. x \in 1..Len(s.runs) BY <1>2, <1>4, OthersHaveBegun
    <3>2. x # i BY <1>4
    <3> QED BY <1>6, <1>12, <3>1, <3>2
  <2>4. Host.plugins[p] = s /\ p \in {p} BY <1>2, <1>4
  <2> QED BY <1>4, <1>12, <2>2, <2>3, <2>4, HeldPlugin
<1>14. l.tasks = tasks /\ l.disturbed = disturbed /\ l.plugins[p] = f
  BY <1>4, <1>12, PutPluginParts
<1> HIDE DEF l
<1>15. Held(h, t, {p}) /\ Restates(l, h, p, o, "active")
  <2>1. "active" \in Statuses /\ p \in {p} BY DEF Statuses
  <2>2. o \in 1..Len(l.plugins[p].objects) BY <1>4, <1>6, <1>12, <1>14
  <2> QED BY <1>13, <2>1, <2>2, StatusIsSet
<1> HIDE DEF h
<1>16. h.tasks = tasks /\ h.disturbed = disturbed BY <1>14, <1>15 DEF Restates
<1>17. ASSUME p \notin disturbed PROVE Rest(h.plugins[p])
  <2> PICK c : c = h.plugins[p] OBVIOUS
  <2>1. /\ Tidy(s) /\ s.record # 0 /\ o = s.record /\ LiveIn(s) = {i}
        /\ Current(s).enabled /\ Current(s).status = "loading"
    BY <1>1, <1>4, <1>17 DEF Starting
  <2>2. /\ c.record = f.record /\ c.groups = f.groups /\ c.runs = f.runs
        /\ c.provider = f.provider /\ c.disabled = f.disabled /\ LiveIn(c) = LiveIn(f)
        /\ c.objects[o].status = "active" /\ c.objects[o].enabled = f.objects[o].enabled
        /\ c.objects[o].group = f.objects[o].group
        /\ c.objects[o].disposer = f.objects[o].disposer
    BY <1>14, <1>15 DEF Restates
  <2>3. /\ c.record = s.record /\ c.groups = s.groups /\ c.disabled = s.disabled
        /\ LiveIn(c) = {i} /\ c.objects[o].enabled = s.objects[o].enabled
        /\ c.objects[o].group = s.objects[o].group /\ c.objects[o].disposer = i
        /\ c.runs[i].state = "up"
    BY <1>6, <1>8, <1>11, <1>12, <2>1, <2>2
  <2>4. Tidy(c) BY <2>1, <2>3, Restated
  <2>5. Told(c)
    <3>1. Current(c).status = "active" /\ Current(c).disposer = i BY <2>1, <2>2, <2>3 DEF Current
    <3>2. c.runs[Current(c).disposer].state = "up" BY <2>3, <3>1, Zenon
    <3>3. LiveIn(c) = {Current(c).disposer} /\ Current(c).disposer # 0 BY <1>4, <2>3, <3>1
    <3> QED BY <3>1, <3>2, <3>3, Zenon DEF Told
  <2> QED BY <2>1, <2>3, <2>4, <2>5 DEF Rest, Current
<1>18. HostInv(Loaded(h, t))
  <2>1. \A q \in h.tasks[t].on \ h.disturbed : Rest(h.plugins[q]) BY <1>4, <1>16, <1>17
  <2> QED BY <1>15, <2>1, LoadedKeeps
<1> QED BY <1>10, <1>18, Becomes

\* What a scan makes of a plugin it knew.
Rescanned(s, e, status) ==
    [s EXCEPT !.record = Len(s.objects) + 1,
              !.objects = Append(@, [Current(s) EXCEPT !.enabled = e, !.status = status])]

\* Lemma: a scan makes a new record of a plugin that is known.
LEMMA RescanKeeps ==
    ASSUME NEW p, NEW s \in PluginShape, InBounds(s), Offered(p, s), s.record # 0,
           NEW e \in BOOLEAN, NEW status \in Statuses
    PROVE  LET f == Rescanned(s, e, status) IN
           /\ f \in PluginShape /\ InBounds(f) /\ Offered(p, f) /\ f.runs = s.runs
           /\ Len(f.objects) = Len(s.objects) + 1
           /\ Rest(s) /\ e = ~s.disabled /\ status # "loading" /\ (~e => status = "disabled")
                /\ (status \in {"active", "idle"} => status = Current(s).status)
                /\ (status = "disabled" => ~e \/ Current(s).status = "disabled")
                /\ (Current(s).status = "active" => status = "active")
              => Rest(f)
<1> DEFINE n == Len(s.objects) + 1
           r == [Current(s) EXCEPT !.enabled = e, !.status = status]
           w == Append(s.objects, r)
           f == Rescanned(s, e, status)
<1>1. s.objects \in Seq(ObjectShape) /\ Len(s.objects) \in Nat BY PluginFields
<1>2. s.record \in 1..Len(s.objects)
  <2>1. \A m \in Nat : \A x \in 0..m : x # 0 => x \in 1..m OBVIOUS
  <2> QED BY <1>1, <2>1, Zenon DEF InBounds
<1>3. Current(s) \in ObjectShape BY <1>1, <1>2 DEF Current
<1>4. Current(s).group \in 1..Len(s.groups) /\ Current(s).disposer \in 0..Len(s.runs)
  BY <1>2 DEF InBounds, Current
<1> PICK c : c = Current(s) OBVIOUS
<1>5. /\ r \in ObjectShape /\ r.enabled = e /\ r.status = status /\ r.group = c.group
      /\ r.disposer = c.disposer
  BY <1>3 DEF ObjectShape
<1>6. f = [s EXCEPT !.record = n, !.objects = w] BY Zenon DEF Rescanned
<1> HIDE DEF r
<1>7. /\ w \in Seq(ObjectShape) /\ Len(w) = n /\ w[n] = r /\ n \in Nat /\ n # 0
      /\ \A x \in 1..Len(s.objects) : w[x] = s.objects[x]
      /\ n \in 0..n /\ 1..n = 1..Len(s.objects) \union {n}
  BY <1>1, <1>5
<1> HIDE DEF w, f, n
<1>8. f \in PluginShape BY <1>6, <1>7 DEF PluginShape
<1>9. /\ f.record = n /\ f.groups = s.groups /\ f.objects = w /\ f.runs = s.runs
      /\ f.provider = s.provider /\ f.disabled = s.disabled
  BY <1>6 DEF PluginShape
<1>10. InBounds(f)
  <2>1. ASSUME NEW x \in 1..Len(f.objects)
        PROVE  f.objects[x].group \in 1..Len(f.groups) /\ f.objects[x].disposer \in 0..Len(f.runs)
    <3>1. CASE x = n BY <1>4, <1>5, <1>7, <1>9, <3>1
    <3>2. CASE x # n
      <4>1. x \in 1..Len(s.objects) /\ f.objects[x] = s.objects[x] BY <1>7, <1>9, <3>2
      <4> QED BY <1>9, <4>1 DEF InBounds
    <3> QED BY <3>1, <3>2
  <2>2. f.record \in 0..Len(f.objects) /\ f.provider \in 0..Len(f.runs) BY <1>7, <1>9 DEF InBounds
  <2> QED BY <2>1, <2>2 DEF InBounds
<1>11. LiveIn(f) = LiveIn(s) BY <1>9 DEF LiveIn
<1>12. Offered(p, f) BY <1>9, <1>11 DEF Offered
<1>13. ASSUME Rest(s), e = ~s.disabled, status # "loading", ~e => status = "disabled",
              status \in {"active", "idle"} => status = Current(s).status,
              status = "disabled" => ~e \/ Current(s).status = "disabled", Current(s).status = "active" => status = "active"
       PROVE  Rest(f)
  <2>1. Tidy(s) /\ Told(s) /\ (~c.enabled => c.status = "disabled") BY <1>13 DEF Rest
  <2>2. Current(f) = r BY <1>7, <1>9 DEF Current
  <2>3. f.record # 0 BY <1>7, <1>9
  <2>4. Tidy(f) BY <1>5, <1>9, <1>13, <2>1, <2>2, <2>3 DEF Tidy
  <2>5. CASE status = "active"
    <3>1. c.status = "active" BY <1>13, <2>5
    <3>2. c.disposer # 0 /\ LiveIn(s) = {c.disposer} /\ s.runs[c.disposer].state = "up"
      BY <2>1, <3>1 DEF Told
    <3>3. r.disposer # 0 /\ LiveIn(f) = {r.disposer} BY <1>5, <1>11, <3>2
    <3>4. f.runs[r.disposer].state = "up" BY <1>5, <1>9, <3>2, Zenon
    <3>5. r.status = "active" BY <1>5, <2>5
    <3> QED BY <1>5, <1>13, <2>2, <2>3, <2>4, <2>5, <3>3, <3>4, <3>5, Zenon DEF Rest, Told
  <2>6. CASE status # "active"
    <3>1. c.disposer = 0 /\ LiveIn(s) = {} BY <1>13, <2>1, <2>6 DEF Told
    <3>2. r.disposer = 0 /\ LiveIn(f) = {} BY <1>5, <1>11, <3>1
    <3>3. ASSUME status \in {"idle", "disabled"} PROVE f.provider = 0 /\ ~f.groups[r.group].holds
      <4>1. c.status \in {"idle", "disabled"}
        <5>1. CASE status = "idle" BY <1>13, <5>1
        <5>2. CASE status = "disabled"
          <6>1. CASE c.status = "disabled" BY <6>1
          <6>2. CASE ~e
            <7>1. c.enabled = ~s.disabled BY <1>13, <2>1 DEF Tidy
            <7> QED BY <1>13, <2>1, <6>2, <7>1
          <6> QED BY <1>13, <5>2, <6>1, <6>2
        <5> QED BY <3>3, <5>1, <5>2
      <4>2. s.provider = 0 /\ ~s.groups[c.group].holds BY <2>1, <4>1 DEF Told
      <4> QED BY <1>5, <1>9, <4>2
    <3>4. Told(f) BY <1>5, <1>13, <2>2, <2>6, <3>2, <3>3 DEF Told
    <3> QED BY <1>5, <1>13, <2>2, <2>3, <2>4, <3>4 DEF Rest
  <2> QED BY <2>5, <2>6
<1> QED BY <1>7, <1>8, <1>9, <1>10, <1>12, <1>13 DEF f, n

\* What a scan makes of a plugin that is new on the disk.
Found(s, e, status) ==
    [s EXCEPT !.record = Len(s.objects) + 1, !.installed = TRUE,
              !.groups = Append(@, NewGroup),
              !.objects = Append(@, [enabled |-> e, status |-> status,
                                     group |-> Len(s.groups) + 1, disposer |-> 0])]

\* Lemma: a scan makes a record of a plugin that is new on the disk.
LEMMA FoundKeeps ==
    ASSUME NEW p, NEW s \in PluginShape, InBounds(s), Offered(p, s), s.record = 0,
           NEW e \in BOOLEAN, NEW status \in Statuses
    PROVE  LET f == Found(s, e, status) IN
           /\ f \in PluginShape /\ InBounds(f) /\ Offered(p, f) /\ f.runs = s.runs
           /\ Len(f.objects) = Len(s.objects) + 1
           /\ Rest(s) /\ e = ~s.disabled /\ status \notin {"loading", "active"}
                /\ (~e => status = "disabled")
              => Rest(f)
<1> DEFINE n == Len(s.objects) + 1
           m == Len(s.groups) + 1
           r == [enabled |-> e, status |-> status, group |-> Len(s.groups) + 1, disposer |-> 0]
           w == Append(s.objects, r)
           gs == Append(s.groups, NewGroup)
           f == Found(s, e, status)
<1>1. /\ s.objects \in Seq(ObjectShape) /\ Len(s.objects) \in Nat
      /\ s.groups \in Seq(GroupShape) /\ Len(s.groups) \in Nat /\ Len(s.runs) \in Nat
  BY PluginFields, Lengths
<1>2. m \in Nat /\ m \in 1..m /\ 0 \in 0..Len(s.runs) BY <1>1
<1>3. /\ r \in ObjectShape /\ r.enabled = e /\ r.status = status /\ r.group = m
      /\ r.disposer = 0
  BY <1>2 DEF ObjectShape
<1>4. NewGroup \in GroupShape /\ ~NewGroup.disposed /\ ~NewGroup.holds
  BY DEF NewGroup, GroupShape
<1>5. f = [s EXCEPT !.record = n, !.installed = TRUE, !.groups = gs, !.objects = w]
  BY Zenon DEF Found
<1> HIDE DEF r
<1>6. /\ w \in Seq(ObjectShape) /\ Len(w) = n /\ w[n] = r /\ n \in Nat /\ n # 0
      /\ \A x \in 1..Len(s.objects) : w[x] = s.objects[x]
      /\ n \in 0..n /\ 1..n = 1..Len(s.objects) \union {n}
  BY <1>1, <1>3
<1>7. /\ gs \in Seq(GroupShape) /\ Len(gs) = m /\ gs[m] = NewGroup
      /\ \A x \in 1..Len(s.groups) : gs[x] = s.groups[x]
      /\ 1..m = 1..Len(s.groups) \union {m} /\ 1..Len(s.groups) \subseteq 1..m
  BY <1>1, <1>4
<1> HIDE DEF w, gs, f, n, m
<1>8. f \in PluginShape BY <1>5, <1>6, <1>7 DEF PluginShape
<1>9. /\ f.record = n /\ f.groups = gs /\ f.objects = w /\ f.runs = s.runs
      /\ f.provider = s.provider /\ f.disabled = s.disabled
  BY <1>5 DEF PluginShape
<1>10. InBounds(f)
  <2>1. ASSUME NEW x \in 1..Len(f.objects)
        PROVE  f.objects[x].group \in 1..Len(f.groups) /\ f.objects[x].disposer \in 0..Len(f.runs)
    <3>1. CASE x = n BY <1>2, <1>3, <1>6, <1>7, <1>9, <3>1
    <3>2. CASE x # n
      <4>1. x \in 1..Len(s.objects) /\ f.objects[x] = s.objects[x] BY <1>6, <1>9, <3>2
      <4>2. s.objects[x].group \in 1..Len(s.groups) /\ s.objects[x].disposer \in 0..Len(s.runs)
        BY <4>1 DEF InBounds
      <4> QED BY <1>7, <1>9, <4>1, <4>2
    <3> QED BY <3>1, <3>2
  <2>2. f.record \in 0..Len(f.objects) /\ f.provider \in 0..Len(f.runs) BY <1>6, <1>9 DEF InBounds
  <2> QED BY <2>1, <2>2 DEF InBounds
<1>11. LiveIn(f) = LiveIn(s) BY <1>9 DEF LiveIn
<1>12. Offered(p, f) BY <1>9, <1>11 DEF Offered
<1>13. ASSUME Rest(s), e = ~s.disabled, status \notin {"loading", "active"},
              ~e => status = "disabled"
       PROVE  Rest(f)
  <2>1. Tidy(s) /\ LiveIn(s) = {} /\ s.provider = 0 BY <1>13 DEF Rest
  <2>2. Current(f) = r /\ f.record # 0 BY <1>6, <1>9 DEF Current
  <2>3. \A x \in 1..Len(s.groups) : ~s.groups[x].holds BY <2>1 DEF Tidy
  <2>4. \A x \in 1..Len(f.groups) : ~f.groups[x].holds BY <1>4, <1>7, <1>9, <2>3
  <2>5. f.groups[r.group] = NewGroup BY <1>3, <1>7, <1>9
  <2>6. Tidy(f) BY <1>3, <1>4, <1>9, <1>13, <2>2, <2>4, <2>5 DEF Tidy
  <2>7. Told(f) BY <1>3, <1>4, <1>9, <1>11, <1>13, <2>1, <2>2, <2>5 DEF Told
  <2> QED BY <1>3, <1>13, <2>2, <2>6, <2>7 DEF Rest
<1> QED BY <1>6, <1>8, <1>9, <1>10, <1>12, <1>13 DEF f, n

\* Lemma: the end of a scan.
LEMMA ScannedKeeps ==
    ASSUME HostInv(Host), NEW t \in DOMAIN tasks, Scanned(t)
    PROVE  HostInv(Host')
<1> DEFINE onDisk == {p \in Plugins : plugins[p].installed} \union {tasks[t].plugin}
           on == {p \in onDisk : ~plugins[p].disabled}
           status(p, was) == CASE p \notin on              -> "disabled"
                               [] p \in on /\ ~(Needs[p] \subseteq on) -> "error"
                               [] OTHER                    -> was
           scanned(p) ==
               LET s == plugins[p]
                   n == Len(s.objects) + 1
               IN  IF p \in Known(Host)
                   THEN [s EXCEPT !.record = n, !.objects = Append(@,
                           [RecordOf(Host, p) EXCEPT !.enabled = p \in on,
                                                     !.status = status(p, @)])]
                   ELSE [s EXCEPT !.record = n, !.installed = TRUE,
                           !.groups = Append(@, NewGroup),
                           !.objects = Append(@,
                             [enabled |-> p \in on, status |-> status(p, "idle"),
                              group |-> Len(s.groups) + 1, disposer |-> 0])]
           busy == UNION {WorkedOn(Host, u) : u \in DOMAIN tasks}
           lost == {p \in Known(Host) : RecordOf(Host, p).status = "active"
                                            /\ status(p, "active") # "active"}
           N == [p \in Plugins |-> IF p \in onDisk THEN scanned(p) ELSE plugins[p]]
           h == [Host EXCEPT !.plugins = N]
           j == [tasks[t] EXCEPT !.rest = on]
           g == PutTask(h, t, j)
           m == MarkDisturbed(g, busy \union lost)
           k == [j EXCEPT !.pc = "loaded"]
<1>1. /\ Host \in HostShape /\ t \in 1..Len(Host.tasks)
      /\ Host.plugins = plugins /\ Host.tasks = tasks /\ Host.disturbed = disturbed
      /\ plugins \in [Plugins -> PluginShape] /\ tasks[t] \in TaskShape
      /\ Placed(tasks[t]) /\ Refers(Host, tasks[t])
  BY InTurn
<1>2. tasks[t].op = "install" /\ tasks[t].pc = "scanning" BY DEF Scanned, Task
<1>3. SetHost(At(MarkDisturbed([Host EXCEPT !.plugins = N, !.tasks[t].rest = on],
                               busy \union lost), t, "loaded"))
  BY Zenon DEF Scanned
<1>4. on \subseteq Plugins /\ onDisk \subseteq Plugins BY <1>1 DEF TaskShape
<1>5. ASSUME NEW p \in Plugins
      PROVE  /\ N[p] \in PluginShape /\ InBounds(N[p]) /\ Offered(p, N[p])
             /\ N[p].runs = plugins[p].runs /\ Len(N[p].objects) >= Len(plugins[p].objects)
             /\ Rest(plugins[p]) /\ p \notin lost => Rest(N[p])
  <2> PICK s : s = plugins[p] OBVIOUS
  <2> PICK e \in BOOLEAN : e <=> p \in on OBVIOUS
  <2>1. s \in PluginShape /\ InBounds(s) /\ Offered(p, s) BY <1>1 DEF HostInv
  <2>2. Len(s.objects) \in Nat /\ s.disabled \in BOOLEAN BY <2>1, Lengths, PluginFields
  <2>3. Len(s.objects) + 1 >= Len(s.objects) BY <2>2
  <2>4. p \in Known(Host) <=> s.record # 0 BY <1>1 DEF Known
  <2>5. RecordOf(Host, p) = Current(s) BY <1>1 DEF RecordOf, Current
  <2>6. e = (p \in on) BY Zenon
  <2>7. p \in onDisk => e = ~s.disabled BY <2>2
  <2>8. CASE p \notin onDisk
    <3>1. N[p] = s BY <2>8
    <3> HIDE DEF N
    <3> QED BY <2>1, <2>2, <3>1
  <2>9. CASE p \in onDisk /\ s.record # 0
    <3> DEFINE c == Current(s)
    <3> PICK st : st = status(p, c.status) OBVIOUS
    <3>1. c \in ObjectShape
      <4>1. s.objects \in Seq(ObjectShape) BY <2>1, PluginFields
      <4>2. \A n \in Nat : \A x \in 0..n : x # 0 => x \in 1..n OBVIOUS
      <4>3. s.record \in 1..Len(s.objects) BY <2>1, <2>2, <2>9, <4>2, Zenon DEF InBounds
      <4> QED BY <4>1, <4>3 DEF Current
    <3>2. st \in Statuses BY <3>1 DEF Statuses, ObjectShape
    <3>3. N[p] = Rescanned(s, e, st)
      <4>1. N[p] = scanned(p) BY <2>9
      <4>2. scanned(p) = [s EXCEPT !.record = Len(s.objects) + 1, !.objects = Append(@,
                            [RecordOf(Host, p) EXCEPT !.enabled = p \in on,
                                                      !.status = status(p, @)])]
        BY <2>4, <2>9
      <4> HIDE DEF N, on, scanned, status
      <4>3. PICK b : b = RecordOf(Host, p) OBVIOUS
      <4>4. b = Current(s) BY <2>5, <4>3
      <4>5. [b EXCEPT !.enabled = p \in on, !.status = status(p, @)]
               = [Current(s) EXCEPT !.enabled = e, !.status = st]
        BY <2>6, <4>4, Zenon
      <4> QED BY <4>1, <4>2, <4>3, <4>5, Zenon DEF Rescanned
    <3>4. LET f == Rescanned(s, e, st) IN
          /\ f \in PluginShape /\ InBounds(f) /\ Offered(p, f) /\ f.runs = s.runs
          /\ Len(f.objects) = Len(s.objects) + 1
          /\ Rest(s) /\ e = ~s.disabled /\ st # "loading" /\ (~e => st = "disabled")
                /\ (st \in {"active", "idle"} => st = c.status)
                /\ (st = "disabled" => ~e \/ c.status = "disabled")
                /\ (c.status = "active" => st = "active")
              => Rest(f)
      BY <2>1, <2>9, <3>2, RescanKeeps
    <3>5. ASSUME Rest(s), p \notin lost
          PROVE  /\ st # "loading" /\ (~e => st = "disabled")
                 /\ (st \in {"active", "idle"} => st = c.status)
                 /\ (st = "disabled" => ~e \/ c.status = "disabled")
                 /\ (c.status = "active" => st = "active")
      <4>1. c.status # "loading" BY <2>9, <3>5 DEF Rest, Told
      <4>2. c.status = "active" => status(p, "active") = "active" BY <2>4, <2>5, <2>9, <3>5
      <4> QED BY <4>1, <4>2
    <3> HIDE DEF N, on, onDisk, lost, status, scanned
    <3> QED BY <2>3, <2>7, <2>9, <3>3, <3>4, <3>5
  <2>10. CASE p \in onDisk /\ s.record = 0
    <3> PICK st : st = status(p, "idle") OBVIOUS
    <3>1. st \in Statuses /\ st \notin {"loading", "active"} /\ (~e => st = "disabled")
      BY DEF Statuses
    <3>2. N[p] = Found(s, e, st)
      <4>1. N[p] = scanned(p) BY <2>10
      <4>2. scanned(p) = [s EXCEPT !.record = Len(s.objects) + 1, !.installed = TRUE,
                           !.groups = Append(@, NewGroup),
                           !.objects = Append(@,
                             [enabled |-> p \in on, status |-> status(p, "idle"),
                              group |-> Len(s.groups) + 1, disposer |-> 0])]
        BY <2>4, <2>10
      <4> HIDE DEF N, on, scanned, status
      <4> QED BY <2>6, <4>1, <4>2, Zenon DEF Found
    <3>3. LET f == Found(s, e, st) IN
          /\ f \in PluginShape /\ InBounds(f) /\ Offered(p, f) /\ f.runs = s.runs
          /\ Len(f.objects) = Len(s.objects) + 1
          /\ Rest(s) /\ e = ~s.disabled /\ st \notin {"loading", "active"}
               /\ (~e => st = "disabled")
              => Rest(f)
      BY <2>1, <2>10, <3>1, FoundKeeps
    <3> HIDE DEF N, on, onDisk, lost, status, scanned
    <3> QED BY <2>3, <2>7, <2>10, <3>1, <3>2, <3>3
  <2> QED BY <2>8, <2>9, <2>10
<1>6. N \in [Plugins -> PluginShape]
  <2>1. DOMAIN N = Plugins OBVIOUS
  <2>2. N = [p \in Plugins |-> N[p]] OBVIOUS
  <2> HIDE DEF N
  <2> QED BY <1>5, <2>2
<1>7. busy \subseteq Plugins /\ lost \subseteq Plugins
  <2>1. lost \subseteq Plugins BY DEF Known
  <2>2. ASSUME NEW u \in DOMAIN tasks PROVE WorkedOn(Host, u) \subseteq Plugins
    <3>1. tasks \in Seq(TaskShape) BY <1>1 DEF HostShape
    <3>2. tasks[u] \in TaskShape BY <3>1
    <3> QED BY <1>1, <3>2 DEF WorkedOn, TaskShape
  <2> QED BY <2>1, <2>2
<1>8. \A u \in 1..Len(Host.tasks) : \A q \in Plugins \ busy : ~Works(Host, u, q)
  <2>1. DOMAIN tasks = 1..Len(Host.tasks)
    <3>1. Host.tasks \in Seq(TaskShape) BY <1>1 DEF HostShape
    <3> QED BY <1>1, <3>1
  <2> QED BY <2>1 DEF Works
<1> HIDE DEF N, lost, scanned, status, onDisk, on, busy
<1>9. /\ h \in HostShape /\ h.plugins = N /\ h.tasks = tasks /\ h.disturbed = disturbed
  <2>1. h = [plugins |-> N, tasks |-> tasks, disturbed |-> disturbed] BY DEF Host
  <2>2. tasks \in Seq(TaskShape) /\ disturbed \in SUBSET Plugins BY <1>1 DEF HostShape
  <2> QED BY <1>6, <2>1, <2>2 DEF HostShape
<1>10. [Host EXCEPT !.plugins = N, !.tasks[t].rest = on] = g
  <2>1. [Host EXCEPT !.plugins = N, !.tasks[t].rest = on] = [h EXCEPT !.tasks[t].rest = on]
    BY Zenon
  <2> HIDE DEF h
  <2> PICK b : b = tasks[t] OBVIOUS
  <2>2. h.tasks[t] = b BY <1>9
  <2>3. [h EXCEPT !.tasks[t].rest = on] = PutTask(h, t, [b EXCEPT !.rest = on])
    BY <2>2, Zenon DEF PutTask
  <2> QED BY <2>1, <2>3
<1> HIDE DEF h
<1>11. /\ j \in TaskShape /\ k \in TaskShape /\ k.op = "install" /\ k.pc = "loaded" /\ k.on = {}
       /\ k.plugin = tasks[t].plugin /\ k.held = tasks[t].held
       /\ j.op = k.op /\ j.plugin = k.plugin /\ j.on = {} /\ j.held = k.held
  BY <1>1, <1>2, <1>4 DEF TaskShape, Placed, Pcs
<1> HIDE DEF j
<1>12. /\ g \in HostShape /\ g.plugins = N /\ g.disturbed = disturbed
       /\ Len(g.tasks) = Len(Host.tasks) /\ g.tasks[t] = j
       /\ \A u \in 1..Len(Host.tasks) \ {t} : g.tasks[u] = Host.tasks[u]
  BY <1>1, <1>9, <1>11, PutTaskParts
<1> HIDE DEF g, k
<1>13. /\ m \in HostShape /\ m.plugins = N /\ m.tasks = g.tasks
       /\ m.disturbed = disturbed \union (busy \union lost)
  BY <1>7, <1>12, MarkParts
<1>14. SetHost(At(m, t, "loaded")) BY <1>3, <1>10
<1> HIDE DEF m
<1>15. At(m, t, "loaded") = PutTask(m, t, k) BY <1>12, <1>13, AtIs DEF k
<1>16. \A u \in 1..Len(Host.tasks) \ {t} : m.tasks[u] = Host.tasks[u] /\ ~(u = t)
  BY <1>12, <1>13
<1>17. ASSUME NEW b, NEW q \in Plugins, b \in 0..Len(plugins[q].objects) \/ b \in 1..Len(plugins[q].objects)
       PROVE  /\ b \in 0..Len(plugins[q].objects) => b \in 0..Len(N[q].objects)
              /\ b \in 1..Len(plugins[q].objects) => b \in 1..Len(N[q].objects)
  <2>1. Len(plugins[q].objects) \in Nat /\ Len(N[q].objects) \in Nat BY <1>1, <1>5, Lengths
  <2>2. Len(N[q].objects) >= Len(plugins[q].objects) BY <1>5
  <2> QED BY <2>1, <2>2, Ranges
<1>18. ASSUME NEW b \in TaskShape, Refers(Host, b) PROVE Refers(m, b)
  <2> PICK q, c : q = b.plugin /\ c = b.cur OBVIOUS
  <2>1. q \in Plugins /\ c \in Plugins BY DEF TaskShape
  <2>2. b.held \in 0..Len(m.plugins[q].objects) BY <1>1, <1>13, <1>17, <1>18, <2>1 DEF Refers
  <2>3. b.pc \in {"importing", "activating", "disposing"} => b.obj \in 1..Len(m.plugins[c].objects)
    BY <1>1, <1>13, <1>17, <1>18, <2>1 DEF Refers
  <2>4. m.plugins[c].runs = plugins[c].runs BY <1>5, <1>13, <2>1
  <2> QED BY <1>1, <1>18, <2>2, <2>3, <2>4 DEF Refers
<1>19. Held(m, t, {})
  <2>1. ASSUME NEW u \in 1..Len(m.tasks) \ {t} PROVE Placed(m.tasks[u]) /\ Refers(m, m.tasks[u])
    <3>1. u \in 1..Len(Host.tasks) /\ m.tasks[u] = Host.tasks[u] BY <1>12, <1>13, <1>16
    <3>2. Placed(Host.tasks[u]) /\ Refers(Host, Host.tasks[u]) BY <3>1 DEF HostInv
    <3>3. Host.tasks[u] \in TaskShape
      <4>1. Host.tasks \in Seq(TaskShape) BY <1>1 DEF HostShape
      <4> QED BY <3>1, <4>1
    <3> QED BY <1>18, <3>1, <3>2, <3>3
  <2>2. ASSUME NEW u \in 1..Len(m.tasks) \ {t}, NEW v \in 1..Len(m.tasks) \ {t}, u # v
        PROVE  Owned(m.tasks[u]) \intersect Owned(m.tasks[v]) = {}
    <3>1. u \in 1..Len(Host.tasks) /\ m.tasks[u] = Host.tasks[u] BY <1>12, <1>13, <1>16
    <3>2. v \in 1..Len(Host.tasks) /\ m.tasks[v] = Host.tasks[v] BY <1>12, <1>13, <1>16
    <3> QED BY <2>2, <3>1, <3>2 DEF HostInv
  <2>3. m.tasks[t] = j /\ t \in 1..Len(m.tasks) BY <1>1, <1>12, <1>13
  <2>4. /\ m.tasks[t].held \in 0..Len(m.plugins[m.tasks[t].plugin].objects)
        /\ m.tasks[t].op \in {"enable", "disable"} => m.tasks[t].held # 0
    <3>1. tasks[t].plugin \in Plugins BY <1>1 DEF TaskShape
    <3>2. tasks[t].held \in 0..Len(plugins[tasks[t].plugin].objects) BY <1>1 DEF Refers
    <3>3. tasks[t].held \in 0..Len(N[tasks[t].plugin].objects) BY <1>17, <3>1, <3>2
    <3> QED BY <1>11, <1>13, <2>3, <3>3
  <2>5. ASSUME NEW q \in Plugins \ m.disturbed PROVE Elsewhere(m, t, {}, q)
    <3>1. \A u \in 1..Len(Host.tasks) : ~Works(Host, u, q) BY <1>8, <1>13, <2>5
    <3>2. Calm(Host, q) BY <1>1, <1>13, <2>5 DEF HostInv
    <3>3. Rest(plugins[q]) BY <1>1, <3>1, <3>2 DEF Calm
    <3>4. Rest(m.plugins[q]) BY <1>5, <1>13, <2>5, <3>3
    <3>5. ASSUME NEW u \in 1..Len(m.tasks) \ {t} PROVE ~Works(m, u, q)
      <4>1. u \in 1..Len(Host.tasks) /\ m.tasks[u] = Host.tasks[u] BY <1>12, <1>13, <1>16
      <4> QED BY <3>1, <4>1 DEF Works, WorkedOn
    <3>6. m.tasks[t].on = {} BY <1>11, <2>3
    <3> QED BY <3>4, <3>5, <3>6 DEF Elsewhere
  <2>6. \A q \in Plugins : InBounds(m.plugins[q]) /\ Offered(q, m.plugins[q]) BY <1>5, <1>13
  <2> QED BY <1>13, <2>1, <2>2, <2>3, <2>4, <2>5, <2>6 DEF Held
<1>20. Placed(k) /\ Owned(k) = {} BY <1>11 DEF Placed, Owned, Pcs
<1>21. Refers(m, k)
  <2>1. tasks[t].plugin \in Plugins BY <1>1 DEF TaskShape
  <2>2. tasks[t].held \in 0..Len(plugins[tasks[t].plugin].objects) BY <1>1 DEF Refers
  <2>3. k.held \in 0..Len(m.plugins[k.plugin].objects) BY <1>11, <1>13, <1>17, <2>1, <2>2
  <2> QED BY <1>11, <1>20, <2>3 DEF Refers
<1>22. HostInv(PutTask(m, t, k))
  <2>1. m.tasks[t].on = {} /\ k.on = {} BY <1>11, <1>12, <1>13
  <2> QED BY <1>11, <1>19, <1>20, <1>21, <2>1, Released
<1> QED BY <1>14, <1>15, <1>22, Becomes

-----------------------------------------------------------------------------
(* The theorems.                                                             *)

\* Lemma: the invariant holds at first.
LEMMA HostInvInit == HostInit => HostInv(Host)
<1> SUFFICES ASSUME HostInit PROVE HostInv(Host)
  OBVIOUS
<1> DEFINE s == [record |-> 0, objects |-> <<>>, groups |-> <<>>, runs |-> <<>>,
                 provider |-> 0, installed |-> FALSE, disabled |-> FALSE]
<1>1. /\ Host.plugins = [p \in Plugins |-> s] /\ Host.tasks = <<>> /\ Host.disturbed = {}
      /\ Host = [plugins |-> Host.plugins, tasks |-> Host.tasks, disturbed |-> Host.disturbed]
  BY DEF HostInit, Host
<1>2. /\ s.record = 0 /\ s.provider = 0 /\ s.objects = <<>> /\ s.groups = <<>> /\ s.runs = <<>>
      /\ Len(s.objects) = 0 /\ Len(s.groups) = 0 /\ DOMAIN s.runs = {}
  OBVIOUS
<1>3. s \in PluginShape BY DEF PluginShape
<1> HIDE DEF s
<1>4. LiveIn(s) = {} BY <1>2 DEF LiveIn
<1>5. InBounds(s)
  <2>1. \A o \in 1..Len(s.objects) : FALSE BY <1>2
  <2>2. Len(s.runs) = 0 BY <1>2
  <2> QED BY <1>2, <2>1, <2>2 DEF InBounds
<1>6. \A p \in Plugins : Offered(p, s) BY <1>2 DEF Offered
<1>7. Rest(s)
  <2>1. \A g \in 1..Len(s.groups) : FALSE BY <1>2
  <2>2. Tidy(s) BY <1>2, <2>1 DEF Tidy
  <2> QED BY <1>2, <1>4, <2>2 DEF Rest
<1>8. Host \in HostShape
  <2>1. Host.plugins \in [Plugins -> PluginShape] BY <1>1, <1>3
  <2>2. Host.tasks \in Seq(TaskShape) /\ Host.disturbed \in SUBSET Plugins BY <1>1
  <2> HIDE DEF Host
  <2> QED BY <1>1, <2>1, <2>2 DEF HostShape
<1>9. \A t \in 1..Len(Host.tasks) : FALSE BY <1>1
<1>10. \A p \in Plugins : Host.plugins[p] = s BY <1>1
<1>11. \A p \in Plugins : Calm(Host, p) BY <1>7, <1>9, <1>10 DEF Calm
<1> HIDE DEF Host
<1> QED BY <1>5, <1>6, <1>8, <1>9, <1>10, <1>11 DEF HostInv

\* Lemma: every step keeps the invariant.
LEMMA HostInvNext == HostInv(Host) /\ [HostNext]_hostVars => HostInv(Host')
<1> SUFFICES ASSUME HostInv(Host), [HostNext]_hostVars PROVE HostInv(Host')
  OBVIOUS
<1>1. ASSUME NEW p \in Plugins, NEW on \in BOOLEAN, setEnabled(p, on) PROVE HostInv(Host')
  BY <1>1, SetEnabledKeeps
<1>2. ASSUME NEW p \in Plugins, reloadPlugin(p) PROVE HostInv(Host') BY <1>2, ReloadKeeps
<1>3. ASSUME NEW p \in Plugins, uninstallPlugin(p) PROVE HostInv(Host') BY <1>3, UninstallKeeps
<1>4. ASSUME NEW p \in Plugins, install(p) PROVE HostInv(Host') BY <1>4, InstallKeeps
<1>5. ASSUME NEW t \in DOMAIN tasks, Saved(t) PROVE HostInv(Host') BY <1>5, SavedKeeps
<1>6. ASSUME NEW t \in DOMAIN tasks, SaveFails(t) PROVE HostInv(Host') BY <1>6, SaveFailsKeeps
<1>7. ASSUME NEW t \in DOMAIN tasks, Scanned(t) PROVE HostInv(Host') BY <1>7, ScannedKeeps
<1>8. ASSUME NEW t \in DOMAIN tasks, LoadNext(t) PROVE HostInv(Host') BY <1>8, LoadNextKeeps
<1>9. ASSUME NEW t \in DOMAIN tasks, UnloadNext(t) PROVE HostInv(Host') BY <1>9, UnloadNextKeeps
<1>10. ASSUME NEW t \in DOMAIN tasks, Finish(t) PROVE HostInv(Host') BY <1>10, FinishKeeps
<1>11. ASSUME NEW t \in DOMAIN tasks, Removed(t) PROVE HostInv(Host') BY <1>11, RemovedKeeps
<1>12. ASSUME NEW t \in DOMAIN tasks, Imported(t) PROVE HostInv(Host') BY <1>12, ImportedKeeps
<1>13. ASSUME NEW t \in DOMAIN tasks, ImportFails(t) PROVE HostInv(Host')
  BY <1>13, ImportFailsKeeps
<1>14. ASSUME NEW t \in DOMAIN tasks, Provide(t) PROVE HostInv(Host') BY <1>14, ProvideKeeps
<1>15. ASSUME NEW t \in DOMAIN tasks, EntryThrows(t) PROVE HostInv(Host')
  BY <1>15, EntryThrowsKeeps DEF EntryThrows
<1>16. ASSUME NEW t \in DOMAIN tasks, EntryReturns(t) PROVE HostInv(Host')
  BY <1>16, EntryReturnsKeeps
<1>17. ASSUME NEW t \in DOMAIN tasks, Disposed(t) PROVE HostInv(Host') BY <1>17, DisposedKeeps
<1>18. CASE UNCHANGED hostVars
  <2>1. Host' = Host BY <1>18 DEF hostVars, Host
  <2> QED BY <2>1
<1> QED
  BY <1>1, <1>2, <1>3, <1>4, <1>5, <1>6, <1>7, <1>8, <1>9, <1>10, <1>11, <1>12, <1>13, <1>14,
     <1>15, <1>16, <1>17, <1>18 DEF HostNext

\* Lemma: what the invariant says of a plugin nobody works on.
LEMMA QuietIsAtRest ==
    ASSUME HostInv(Host), NEW p \in Plugins
    PROVE  /\ plugins[p] \in PluginShape /\ InBounds(plugins[p]) /\ Offered(p, plugins[p])
           /\ Live(p) = LiveIn(plugins[p])
           /\ p \in Known(Host) <=> plugins[p].record # 0
           /\ RecordOf(Host, p) = Current(plugins[p])
           /\ Quiet(p) => Rest(plugins[p])
<1>1. /\ Host.plugins = plugins /\ Host.tasks = tasks /\ Host.disturbed = disturbed
  BY DEF Host
<1>2. /\ Host.plugins \in [Plugins -> PluginShape] /\ Host.tasks \in Seq(TaskShape)
  BY DEF HostInv, HostShape
<1>3. plugins[p] \in PluginShape /\ InBounds(plugins[p]) /\ Offered(p, plugins[p])
  BY <1>1, <1>2 DEF HostInv
<1>4. Live(p) = LiveIn(plugins[p]) BY DEF Live, LiveIn, LiveStates
<1>5. /\ p \in Known(Host) <=> plugins[p].record # 0
      /\ RecordOf(Host, p) = Current(plugins[p])
  BY <1>1 DEF Known, RecordOf, Current
<1>6. ASSUME Quiet(p) PROVE Rest(plugins[p])
  <2>1. p \in Plugins \ Host.disturbed BY <1>1, <1>6 DEF Quiet
  <2>2. DOMAIN tasks = 1..Len(Host.tasks) BY <1>1, <1>2
  <2>3. \A t \in 1..Len(Host.tasks) : ~Works(Host, t, p) BY <1>6, <2>2 DEF Quiet, Works
  <2>4. Calm(Host, p) BY <2>1 DEF HostInv
  <2> QED BY <1>1, <2>3, <2>4 DEF Calm
<1> QED BY <1>3, <1>4, <1>5, <1>6

\* Theorem: for any plugins, dependencies and number of calls, statuses,
\* services and registrations are those of the code that runs: a plugin no two
\* tasks meddled with has the runs its status says, no stopped code offers a
\* service, and nothing that was registered outlives its record.
THEOREM HostIsAlwaysTrue == HostSpec => []HostIsTrue
<1>1. HostInit => HostInv(Host) BY HostInvInit
<1>2. HostInv(Host) /\ [HostNext]_hostVars => HostInv(Host)' BY HostInvNext
<1>3. HostInv(Host) => HostIsTrue
  <2> SUFFICES ASSUME HostInv(Host) PROVE HostIsTrue
    OBVIOUS
  <2>1. ASSUME NEW p \in Plugins, Quiet(p)
        PROVE  IF p \notin Known(Host) THEN Live(p) = {} /\ plugins[p].provider = 0
               ELSE LET r == RecordOf(Host, p) IN
                    /\ r.status # "loading"
                    /\ Live(p) = IF r.status = "active" THEN {r.disposer} ELSE {}
                    /\ r.status \in {"idle", "disabled"} => plugins[p].provider = 0
    <3> PICK s : s = plugins[p] OBVIOUS
    <3>1. Rest(s) /\ Live(p) = LiveIn(s) /\ RecordOf(Host, p) = Current(s)
      BY <2>1, QuietIsAtRest
    <3>2. p \in Known(Host) <=> s.record # 0 BY QuietIsAtRest
    <3>3. CASE s.record = 0 BY <3>1, <3>2, <3>3 DEF Rest
    <3>4. CASE s.record # 0
      <4>1. Told(s) BY <3>1, <3>4 DEF Rest
      <4>2. /\ Current(s).status # "loading"
            /\ LiveIn(s) = IF Current(s).status = "active" THEN {Current(s).disposer} ELSE {}
            /\ Current(s).status \in {"idle", "disabled"} => s.provider = 0
        BY <4>1 DEF Told
      <4> QED BY <3>1, <3>2, <3>4, <4>2
    <3> QED BY <3>3, <3>4
  <2>2. ASSUME NEW p \in Plugins \ Legacy, plugins[p].provider # 0
        PROVE  plugins[p].provider \in Live(p)
    <3>1. Offered(p, plugins[p]) /\ Live(p) = LiveIn(plugins[p]) BY QuietIsAtRest
    <3> QED BY <2>2, <3>1 DEF Offered
  <2>3. ASSUME NEW p \in Plugins, Quiet(p), NEW g \in DOMAIN plugins[p].groups,
               plugins[p].groups[g].holds
        PROVE  p \in Known(Host) /\ RecordOf(Host, p).group = g
    <3>1. /\ plugins[p] \in PluginShape /\ Rest(plugins[p])
          /\ RecordOf(Host, p) = Current(plugins[p])
      BY <2>3, QuietIsAtRest
    <3>2. Tidy(plugins[p]) BY <3>1 DEF Rest
    <3>3. g \in 1..Len(plugins[p].groups) BY <3>1, PluginFields
    <3>4. plugins[p].record # 0 /\ Current(plugins[p]).group = g BY <2>3, <3>2, <3>3 DEF Tidy
    <3>5. p \in Known(Host) BY <3>4, QuietIsAtRest
    <3> QED BY <3>1, <3>4, <3>5
  <2> QED BY <2>1, <2>2, <2>3 DEF HostIsTrue, StatusIsTrue, OfferedByTheLiving, NothingLeaks
<1> QED BY <1>1, <1>2, <1>3, PTL DEF HostSpec

\* Lemma: a sequence whose elements are in B is a sequence over B.
LEMMA SeqWithin ==
    ASSUME NEW A, NEW B, NEW w \in Seq(A), \A i \in 1..Len(w) : w[i] \in B
    PROVE  w \in Seq(B)
<1>1. PICK n \in Nat : Len(w) = n OBVIOUS
<1>2. w \in [1..n -> A] BY <1>1
<1>3. w \in [1..n -> B] BY <1>1, <1>2
<1>4. \A v \in [1..n -> B] : v \in Seq(B) BY <1>1
<1> QED BY <1>3, <1>4

\* Theorem: records refer to groups and runs of their plugin, and the group of a
\* record that can be loaded again is not disposed of.
THEOREM HostTypesHold == HostSpec => []HostTypeOK
<1>1. HostInit => HostInv(Host) BY HostInvInit
<1>2. HostInv(Host) /\ [HostNext]_hostVars => HostInv(Host)' BY HostInvNext
<1>3. HostInv(Host) => HostTypeOK
  <2> SUFFICES ASSUME HostInv(Host) PROVE HostTypeOK
    OBVIOUS
  <2>1. ASSUME NEW p \in Plugins, NEW s, s = plugins[p]
        PROVE  /\ s.record \in 0..Len(s.objects)
               /\ s.provider \in 0..Len(s.runs)
               /\ s.installed \in BOOLEAN /\ s.disabled \in BOOLEAN
               /\ s.objects \in Seq([enabled : BOOLEAN, status : Statuses,
                                     group : 1..Len(s.groups), disposer : 0..Len(s.runs)])
               /\ s.groups \in Seq([disposed : BOOLEAN, holds : BOOLEAN])
               /\ s.runs \in Seq([state : {"activating", "up", "stopping", "down", "failed"},
                                  provided : BOOLEAN])
    <3>1. s \in PluginShape /\ InBounds(s) BY <2>1, QuietIsAtRest
    <3>2. /\ s.objects \in Seq(ObjectShape) /\ s.groups \in Seq(GroupShape)
          /\ s.runs \in Seq(RunShape) /\ s.installed \in BOOLEAN /\ s.disabled \in BOOLEAN
      BY <3>1, PluginFields
    <3>3. s.record \in 0..Len(s.objects) /\ s.provider \in 0..Len(s.runs) BY <3>1 DEF InBounds
    <3> DEFINE G == 1..Len(s.groups)
               D == 0..Len(s.runs)
    <3>4. ASSUME NEW o \in 1..Len(s.objects)
          PROVE  s.objects[o] \in [enabled : BOOLEAN, status : Statuses, group : G, disposer : D]
      <4>1. s.objects[o] \in ObjectShape BY <3>2
      <4>2. s.objects[o].group \in G /\ s.objects[o].disposer \in D BY <3>1 DEF InBounds
      <4> HIDE DEF G, D
      <4> QED BY <4>1, <4>2 DEF ObjectShape
    <3>5. s.objects \in Seq([enabled : BOOLEAN, status : Statuses, group : G, disposer : D])
      <4> HIDE DEF G, D
      <4>1. PICK W : W = [enabled : BOOLEAN, status : Statuses, group : G, disposer : D]
        OBVIOUS
      <4>2. PICK w \in Seq(ObjectShape) : w = s.objects BY <3>2
      <4>3. \A o \in 1..Len(w) : w[o] \in W BY <3>4, <4>1, <4>2, Zenon
      <4>4. w \in Seq(W) BY <4>3, SeqWithin
      <4> QED BY <4>1, <4>2, <4>4, Zenon
    <3>6. RunStates = {"activating", "up", "stopping", "down", "failed"}
      BY DEF RunStates, LiveStates
    <3>7. s.runs \in Seq([state : {"activating", "up", "stopping", "down", "failed"},
                          provided : BOOLEAN])
      BY <3>2, <3>6 DEF RunShape
    <3> QED BY <3>2, <3>3, <3>5, <3>7 DEF GroupShape
  <2>2. ASSUME NEW t \in DOMAIN tasks
        PROVE  /\ tasks[t].op \in {"enable", "disable", "reload", "uninstall", "install"}
               /\ tasks[t].plugin \in Plugins /\ tasks[t].cur \in Plugins
               /\ tasks[t].on \subseteq Plugins /\ tasks[t].rest \subseteq Plugins
               /\ tasks[t].pc \in {"saving", "scanning", "loaded", "unloaded", "removing",
                                   "importing", "activating", "disposing", "done"}
    <3>1. tasks[t] \in TaskShape /\ Placed(tasks[t]) BY InTurn
    <3> QED BY <3>1 DEF TaskShape, Placed, Pcs
  <2>3. disturbed \subseteq Plugins
    <3>1. Host.disturbed = disturbed BY DEF Host
    <3> QED BY <3>1 DEF HostInv, HostShape
  <2>4. ASSUME NEW p \in Known(Host), Quiet(p)
        PROVE  ~plugins[p].groups[RecordOf(Host, p).group].disposed
    <3>1. p \in Plugins BY DEF Known
    <3>2. Rest(plugins[p]) /\ plugins[p].record # 0 /\ RecordOf(Host, p) = Current(plugins[p])
      BY <2>4, <3>1, QuietIsAtRest
    <3>3. ~plugins[p].groups[Current(plugins[p]).group].disposed BY <3>2 DEF Rest, Tidy
    <3> QED BY <3>2, <3>3, Zenon
  <2> QED BY <2>1, <2>2, <2>3, <2>4 DEF HostTypeOK
<1> QED BY <1>1, <1>2, <1>3, PTL DEF HostSpec

-----------------------------------------------------------------------------
(* An uninstallation stops the plugins in their order.                       *)

\* What helpers need of a record like Host: its parts, and those of its tasks.
IsHost(h) ==
    /\ h = [plugins |-> h.plugins, tasks |-> h.tasks, disturbed |-> h.disturbed]
    /\ DOMAIN h.plugins = Plugins
    /\ \A u \in DOMAIN h.tasks :
          DOMAIN h.tasks[u] = {"op", "plugin", "on", "rest", "pc", "held", "cur", "obj", "run"}

\* Task k serves the call of j, with the same plugins left.
SameCall(j, k) ==
    DOMAIN k = DOMAIN j /\ k.op = j.op /\ k.plugin = j.plugin /\ k.rest = j.rest

\* g is h but for plugin p, for task t, which has the same call to serve, and
\* for plugins that are disturbed.
Moves(h, g, t, p) ==
    /\ IsHost(g) /\ h.disturbed \subseteq g.disturbed
    /\ \A q \in Plugins \ {p} : g.plugins[q] = h.plugins[q]
    /\ DOMAIN g.tasks = DOMAIN h.tasks
    /\ \A u \in DOMAIN h.tasks \ {t} : g.tasks[u] = h.tasks[u]
    /\ SameCall(h.tasks[t], g.tasks[t])

\* Lemma: the record of a state the invariant holds in has its parts.
LEMMA ShapeIsHost == ASSUME NEW h \in HostShape PROVE IsHost(h)
<1>1. h = [plugins |-> h.plugins, tasks |-> h.tasks, disturbed |-> h.disturbed]
  BY DEF HostShape
<1>2. h.plugins \in [Plugins -> PluginShape] /\ h.tasks \in Seq(TaskShape) BY DEF HostShape
<1>3. \A u \in DOMAIN h.tasks : h.tasks[u] \in TaskShape BY <1>2
<1>4. \A k \in TaskShape :
          DOMAIN k = {"op", "plugin", "on", "rest", "pc", "held", "cur", "obj", "run"}
  BY DEF TaskShape
<1> QED BY <1>1, <1>2, <1>3, <1>4 DEF IsHost

\* Lemma: a plugin is put in its place.
LEMMA PluginMoves ==
    ASSUME NEW h, IsHost(h), NEW t \in DOMAIN h.tasks, NEW p \in Plugins, NEW s
    PROVE  /\ Moves(h, PutPlugin(h, p, s), t, p) /\ PutPlugin(h, p, s).tasks = h.tasks
           /\ PutPlugin(h, p, s).plugins[p] = s
<1> DEFINE g == PutPlugin(h, p, s)
<1>1. g = [plugins |-> [h.plugins EXCEPT ![p] = s], tasks |-> h.tasks, disturbed |-> h.disturbed]
  BY DEF PutPlugin, IsHost
<1> HIDE DEF g
<1>2. g.plugins = [h.plugins EXCEPT ![p] = s] /\ g.tasks = h.tasks /\ g.disturbed = h.disturbed
  BY <1>1
<1>3. DOMAIN g.plugins = Plugins /\ g.plugins[p] = s
      /\ \A q \in Plugins \ {p} : g.plugins[q] = h.plugins[q]
  BY <1>2 DEF IsHost
<1>4. IsHost(g) BY <1>1, <1>2, <1>3 DEF IsHost
<1> QED BY <1>2, <1>3, <1>4 DEF Moves, SameCall, g

\* Lemma: a task is put in its place.
LEMMA TaskMoves ==
    ASSUME NEW h, IsHost(h), NEW t \in DOMAIN h.tasks, NEW p, NEW k,
           SameCall(h.tasks[t], k)
    PROVE  LET g == PutTask(h, t, k) IN
           Moves(h, g, t, p) /\ g.tasks[t] = k /\ g.plugins = h.plugins /\ g.disturbed = h.disturbed
<1> DEFINE g == PutTask(h, t, k)
<1>1. g = [plugins |-> h.plugins, tasks |-> [h.tasks EXCEPT ![t] = k], disturbed |-> h.disturbed]
  BY DEF PutTask, IsHost
<1> HIDE DEF g
<1>2. g.plugins = h.plugins /\ g.tasks = [h.tasks EXCEPT ![t] = k] /\ g.disturbed = h.disturbed
  BY <1>1
<1>3. /\ DOMAIN g.tasks = DOMAIN h.tasks /\ g.tasks[t] = k
      /\ \A u \in DOMAIN h.tasks \ {t} : g.tasks[u] = h.tasks[u]
  BY <1>2
<1>4. IsHost(g) BY <1>1, <1>2, <1>3 DEF IsHost, SameCall
<1> QED BY <1>2, <1>3, <1>4 DEF Moves, g

\* Lemma: plugins are marked as disturbed.
LEMMA MarkMoves ==
    ASSUME NEW h, IsHost(h), NEW t \in DOMAIN h.tasks, NEW p, NEW S
    PROVE  LET g == MarkDisturbed(h, S) IN
           /\ Moves(h, g, t, p) /\ g.tasks = h.tasks /\ g.plugins = h.plugins
           /\ g.disturbed = h.disturbed \union S
<1> DEFINE g == MarkDisturbed(h, S)
<1>1. g = [plugins |-> h.plugins, tasks |-> h.tasks, disturbed |-> h.disturbed \union S]
  <2>1. ASSUME NEW a, NEW b, NEW c, NEW d
        PROVE  [[plugins |-> a, tasks |-> b, disturbed |-> c] EXCEPT !.disturbed = d]
                   = [plugins |-> a, tasks |-> b, disturbed |-> d]
    OBVIOUS
  <2>2. g = [h EXCEPT !.disturbed = h.disturbed \union S] BY DEF MarkDisturbed
  <2>3. h = [plugins |-> h.plugins, tasks |-> h.tasks, disturbed |-> h.disturbed] BY DEF IsHost
  <2> HIDE DEF g
  <2> QED BY <2>1, <2>2, <2>3, Zenon
<1> HIDE DEF g
<1>2. g.plugins = h.plugins /\ g.tasks = h.tasks /\ g.disturbed = h.disturbed \union S
  BY <1>1
<1>3. IsHost(g) BY <1>1, <1>2 DEF IsHost
<1> QED BY <1>2, <1>3 DEF Moves, SameCall, g

\* Lemma: one move after another is a move.
LEMMA MovesOn ==
    ASSUME NEW f, NEW h, NEW g, NEW t \in DOMAIN f.tasks, NEW p, Moves(f, h, t, p), Moves(h, g, t, p)
    PROVE  Moves(f, g, t, p)
BY DEF Moves, SameCall


\* Task t has ended with nothing in hand, or unloads p, or does neither.
Settled(g, t, p) ==
    /\ g.tasks[t].pc = "done" => g.tasks[t].on = {}
    /\ g.tasks[t].pc = "disposing" => g.tasks[t].cur = p

\* Lemma: a task gets to another phase.
LEMMA AtMoves ==
    ASSUME NEW h, IsHost(h), NEW t \in DOMAIN h.tasks, NEW p, NEW pc
    PROVE  LET g == At(h, t, pc) IN
           /\ Moves(h, g, t, p) /\ g.plugins = h.plugins /\ g.disturbed = h.disturbed
           /\ g.tasks[t].pc = pc
           /\ g.tasks[t].on = h.tasks[t].on /\ g.tasks[t].cur = h.tasks[t].cur
<1> PICK k : k = [h.tasks[t] EXCEPT !.pc = pc] OBVIOUS
<1>1. DOMAIN h.tasks[t] = {"op", "plugin", "on", "rest", "pc", "held", "cur", "obj", "run"}
  BY DEF IsHost
<1>2. /\ SameCall(h.tasks[t], k) /\ k.pc = pc
      /\ k.on = h.tasks[t].on /\ k.cur = h.tasks[t].cur
  BY <1>1 DEF SameCall
<1> PICK g : g = PutTask(h, t, k) OBVIOUS
<1>3. At(h, t, pc) = g BY AtIs
<1>4. Moves(h, g, t, p) /\ g.tasks[t] = k /\ g.plugins = h.plugins /\ g.disturbed = h.disturbed
  BY <1>2, TaskMoves
<1> QED BY <1>2, <1>3, <1>4

\* Lemma: a call ends.
LEMMA EndMoves ==
    ASSUME NEW h, IsHost(h), NEW t \in DOMAIN h.tasks, NEW p
    PROVE  LET g == End(h, t) IN Moves(h, g, t, p) /\ Settled(g, t, p) /\ g.plugins = h.plugins
<1> PICK k : k = [h.tasks[t] EXCEPT !.pc = "done", !.on = {}, !.held = 0, !.obj = 0, !.run = 0,
                                    !.cur = h.tasks[t].plugin]
  OBVIOUS
<1>1. DOMAIN h.tasks[t] = {"op", "plugin", "on", "rest", "pc", "held", "cur", "obj", "run"}
  BY DEF IsHost
<1>2. SameCall(h.tasks[t], k) /\ k.pc = "done" /\ k.on = {}
  BY <1>1 DEF SameCall
<1> PICK g : g = PutTask(h, t, k) OBVIOUS
<1>3. End(h, t) = g BY DEF End, PutTask
<1>4. Moves(h, g, t, p) /\ g.tasks[t] = k /\ g.plugins = h.plugins BY <1>2, TaskMoves
<1> QED BY <1>2, <1>3, <1>4 DEF Settled

\* Task t has the plugins S in hand, those another has too are disturbed.
Takes(h, g, t, S) ==
    /\ g.plugins = h.plugins /\ g.tasks[t].on = S
    /\ g.tasks[t].pc = h.tasks[t].pc /\ g.tasks[t].cur = h.tasks[t].cur
    /\ \A q \in S : (\E u \in DOMAIN h.tasks \ {t} : q \in WorkedOn(h, u)) => q \in g.disturbed

\* Lemma: a task takes plugins in hand.
LEMMA TakeMoves ==
    ASSUME NEW h, IsHost(h), NEW t \in DOMAIN h.tasks, NEW p, NEW S
    PROVE  Moves(h, Take(h, t, S), t, p) /\ Takes(h, Take(h, t, S), t, S)
<1>1. PICK k : k = [h.tasks[t] EXCEPT !.on = S] OBVIOUS
<1>2. PICK D : D = {q \in S : \E u \in DOMAIN h.tasks \ {t} : q \in WorkedOn(h, u)} OBVIOUS
<1>3. DOMAIN h.tasks[t] = {"op", "plugin", "on", "rest", "pc", "held", "cur", "obj", "run"}
  BY DEF IsHost
<1>4. /\ SameCall(h.tasks[t], k) /\ k.on = S
      /\ k.pc = h.tasks[t].pc /\ k.cur = h.tasks[t].cur
  BY <1>1, <1>3 DEF SameCall
<1>5. PICK f : f = PutTask(h, t, k) OBVIOUS
<1>6. /\ Moves(h, f, t, p) /\ f.tasks[t] = k /\ f.plugins = h.plugins
      /\ f.disturbed = h.disturbed
  BY <1>4, <1>5, TaskMoves
<1>7. IsHost(f) /\ t \in DOMAIN f.tasks BY <1>6 DEF Moves
<1>8. PICK g : g = MarkDisturbed(f, D) OBVIOUS
<1>9. /\ Moves(f, g, t, p) /\ g.tasks = f.tasks /\ g.plugins = f.plugins
      /\ g.disturbed = f.disturbed \union D
  BY <1>7, <1>8, MarkMoves
<1>10. Take(h, t, S) = g BY <1>1, <1>2, <1>5, <1>8 DEF Take, PutTask
<1>11. Moves(h, g, t, p) BY <1>6, <1>9, MovesOn
<1> QED BY <1>2, <1>4, <1>6, <1>9, <1>10, <1>11 DEF Takes

\* Lemma: the status of a record is set, or a service withdrawn.
LEMMA StatusMoves ==
    ASSUME NEW h, IsHost(h), NEW t \in DOMAIN h.tasks, NEW p \in Plugins, NEW o, NEW status
    PROVE  /\ Moves(h, SetStatus(h, p, o, status), t, p)
           /\ SetStatus(h, p, o, status).tasks = h.tasks
           /\ Moves(h, Withdraw(h, p), t, p) /\ Withdraw(h, p).tasks = h.tasks
<1>1. \A s : Moves(h, PutPlugin(h, p, s), t, p) /\ PutPlugin(h, p, s).tasks = h.tasks
  BY PluginMoves
<1>2. PICK r : SetStatus(h, p, o, status) = PutPlugin(h, p, r) BY SetStatusIs
<1>3. PICK s : Withdraw(h, p) = PutPlugin(h, p, s) BY WithdrawIs
<1> QED BY <1>1, <1>2, <1>3

\* Lemma: the load of a plugin is over.
LEMMA LoadedMoves ==
    ASSUME NEW h, IsHost(h), NEW t \in DOMAIN h.tasks, NEW p
    PROVE  Moves(h, Loaded(h, t), t, p) /\ Settled(Loaded(h, t), t, p)
<1>1. CASE h.tasks[t].op = "install"
  <2>1. PICK f : f = Take(h, t, {}) OBVIOUS
  <2>2. Moves(h, f, t, p) BY <2>1, TakeMoves
  <2>3. IsHost(f) /\ t \in DOMAIN f.tasks BY <2>2 DEF Moves
  <2>4. PICK g : g = At(f, t, "loaded") OBVIOUS
  <2>5. Moves(f, g, t, p) /\ g.tasks[t].pc = "loaded" BY <2>3, <2>4, AtMoves
  <2>6. Loaded(h, t) = g BY <1>1, <2>1, <2>4 DEF Loaded
  <2> QED BY <2>2, <2>5, <2>6, MovesOn DEF Settled
<1>2. CASE h.tasks[t].op # "install" BY <1>2, EndMoves DEF Loaded
<1> QED BY <1>1, <1>2

\* Lemma: a load that goes on where another helper has left it.
LEMMA LoadedAfter ==
    ASSUME NEW h, NEW f, NEW t \in DOMAIN h.tasks, NEW p, Moves(h, f, t, p)
    PROVE  Moves(h, Loaded(f, t), t, p) /\ Settled(Loaded(f, t), t, p)
<1>1. IsHost(f) /\ t \in DOMAIN f.tasks BY DEF Moves
<1> QED BY <1>1, LoadedMoves, MovesOn

\* Lemma: a task gets hold of a record.
LEMMA PointedMoves ==
    ASSUME NEW h, IsHost(h), NEW t \in DOMAIN h.tasks, NEW p, NEW o
    PROVE  LET g == Pointed(h, t, p, o) IN
           /\ Moves(h, g, t, p) /\ g.plugins = h.plugins /\ g.disturbed = h.disturbed
           /\ g.tasks[t].cur = p /\ g.tasks[t].on = h.tasks[t].on
<1> PICK k : k = [h.tasks[t] EXCEPT !.cur = p, !.obj = o] OBVIOUS
<1>1. DOMAIN h.tasks[t] = {"op", "plugin", "on", "rest", "pc", "held", "cur", "obj", "run"}
  BY DEF IsHost
<1>2. SameCall(h.tasks[t], k) /\ k.cur = p /\ k.on = h.tasks[t].on
  BY <1>1 DEF SameCall
<1>3. Pointed(h, t, p, o) = PutTask(h, t, k)
  <2> PICK T : T = h.tasks OBVIOUS
  <2>1. [[T EXCEPT ![t].cur = p] EXCEPT ![t].obj = o] = [T EXCEPT ![t] = [@ EXCEPT !.cur = p, !.obj = o]]
    OBVIOUS
  <2> QED BY <2>1 DEF Pointed, PutTask
<1> PICK g : g = PutTask(h, t, k) OBVIOUS
<1>4. /\ Moves(h, g, t, p) /\ g.tasks[t] = k /\ g.plugins = h.plugins
      /\ g.disturbed = h.disturbed
  BY <1>2, TaskMoves
<1> QED BY <1>2, <1>3, <1>4

\* Lemma: loadPlugin, up to the import.
LEMMA LoadMoves ==
    ASSUME NEW h, IsHost(h), NEW t \in DOMAIN h.tasks, NEW p \in Plugins, NEW o
    PROVE  Moves(h, Load(h, t, p, o), t, p) /\ Settled(Load(h, t, p, o), t, p)
<1> DEFINE object == h.plugins[p].objects[o]
<1> PICK f : f = Pointed(h, t, p, o) OBVIOUS
<1>1. Moves(h, f, t, p) BY PointedMoves
<1>2. IsHost(f) /\ t \in DOMAIN f.tasks BY <1>1 DEF Moves
<1>3. Load(h, t, p, o) = CASE ~object.enabled -> Loaded(SetStatus(f, p, o, "disabled"), t)
          [] object.enabled /\ object.status = "active" -> Loaded(f, t)
          [] OTHER -> At(SetStatus(f, p, o, "loading"), t, "importing")
  BY DEF Load, Pointed
<1>4. \A status : Moves(h, SetStatus(f, p, o, status), t, p)
  BY <1>1, <1>2, StatusMoves, MovesOn
<1> HIDE DEF object
<1>5. CASE ~object.enabled
  <2>1. Load(h, t, p, o) = Loaded(SetStatus(f, p, o, "disabled"), t) BY <1>3, <1>5
  <2> QED BY <2>1, <1>4, LoadedAfter
<1>6. CASE object.enabled /\ object.status = "active"
  <2>1. Load(h, t, p, o) = Loaded(f, t) BY <1>3, <1>6
  <2> QED BY <2>1, <1>1, LoadedAfter
<1>7. CASE ~(~object.enabled) /\ ~(object.enabled /\ object.status = "active")
  <2>1. Load(h, t, p, o) = At(SetStatus(f, p, o, "loading"), t, "importing") BY <1>3, <1>7
  <2> PICK e : e = SetStatus(f, p, o, "loading") OBVIOUS
  <2>2. Moves(h, e, t, p) BY <1>4
  <2>3. IsHost(e) /\ t \in DOMAIN e.tasks BY <2>2 DEF Moves
  <2> PICK g : g = At(e, t, "importing") OBVIOUS
  <2>4. Moves(e, g, t, p) /\ g.tasks[t].pc = "importing" BY <2>3, AtMoves
  <2> QED BY <2>1, <2>2, <2>4, MovesOn DEF Settled
<1> QED BY <1>5, <1>6, <1>7

\* Lemma: a load that fails, or whose entry throws.
LEMMA ThrowsMoves ==
    ASSUME NEW h, IsHost(h), NEW t \in DOMAIN h.tasks, NEW p \in Plugins, h.tasks[t].cur = p
    PROVE  /\ Moves(h, Fails(h, t), t, p) /\ Settled(Fails(h, t), t, p)
           /\ Moves(h, Throws(h, t), t, p) /\ Settled(Throws(h, t), t, p)
<1>1. ASSUME NEW f, IsHost(f), t \in DOMAIN f.tasks, f.tasks[t].cur = p
      PROVE  Moves(f, Fails(f, t), t, p) /\ Settled(Fails(f, t), t, p)
  <2>1. Moves(f, SetStatus(f, p, f.tasks[t].obj, "error"), t, p) BY <1>1, StatusMoves
  <2> QED BY <1>1, <2>1, LoadedAfter DEF Fails
<1>2. PICK i : i = h.tasks[t].run OBVIOUS
<1>3. PICK s : s = [h.plugins[p] EXCEPT !.runs[i].state = "failed"] OBVIOUS
<1>4. PICK e : e = PutPlugin(h, p, s) OBVIOUS
<1>5. Moves(h, e, t, p) /\ e.tasks = h.tasks BY <1>4, PluginMoves
<1>6. IsHost(e) /\ t \in DOMAIN e.tasks BY <1>5 DEF Moves
<1>7. PICK w : w = Withdraw(e, p) OBVIOUS
<1>8. Moves(e, w, t, p) /\ w.tasks = e.tasks BY <1>6, <1>7, StatusMoves
<1>9. Moves(h, w, t, p) BY <1>5, <1>8, MovesOn
<1>10. PICK f : f = IF h.plugins[p].runs[i].provided /\ p \notin Legacy THEN w ELSE e
  OBVIOUS
<1>11. Moves(h, f, t, p) /\ f.tasks = h.tasks BY <1>5, <1>8, <1>9, <1>10
<1>12. Throws(h, t) = Fails(f, t)
  BY <1>2, <1>3, <1>4, <1>7, <1>10 DEF Throws, PutPlugin
<1>13. IsHost(f) /\ t \in DOMAIN f.tasks /\ f.tasks[t].cur = p BY <1>11 DEF Moves
<1>14. Moves(f, Fails(f, t), t, p) /\ Settled(Fails(f, t), t, p) BY <1>1, <1>13
<1>15. Moves(h, Fails(f, t), t, p) BY <1>11, <1>14, MovesOn
<1>16. Moves(h, Fails(h, t), t, p) /\ Settled(Fails(h, t), t, p) BY <1>1
<1> QED BY <1>12, <1>14, <1>15, <1>16

\* Lemma: the task goes on when its plugin is unloaded.
LEMMA AfterUnloadMoves ==
    ASSUME NEW h, IsHost(h), NEW t \in DOMAIN h.tasks, NEW p \in Plugins,
           h.tasks[t].op \in {"disable", "reload", "uninstall"},
           h.tasks[t].op # "uninstall" => h.tasks[t].plugin = p
    PROVE  Moves(h, AfterUnload(h, t), t, p) /\ Settled(AfterUnload(h, t), t, p)
<1>1. CASE h.tasks[t].op = "disable"
  <2>1. PICK f : f = SetStatus(h, p, h.tasks[t].held, "disabled") OBVIOUS
  <2>2. Moves(h, f, t, p) BY <2>1, StatusMoves
  <2>3. IsHost(f) /\ t \in DOMAIN f.tasks BY <2>2 DEF Moves
  <2>4. Moves(f, End(f, t), t, p) /\ Settled(End(f, t), t, p) BY <2>3, EndMoves
  <2>5. AfterUnload(h, t) = End(f, t) BY <1>1, <2>1 DEF AfterUnload
  <2> QED BY <2>2, <2>4, <2>5, MovesOn
<1>2. CASE h.tasks[t].op = "reload"
  <2>1. \/ AfterUnload(h, t) = Load(h, t, p, h.plugins[p].record)
        \/ AfterUnload(h, t) = End(h, t)
    BY <1>2 DEF AfterUnload
  <2> QED BY <2>1, LoadMoves, EndMoves
<1>3. CASE h.tasks[t].op = "uninstall"
  <2>1. PICK g : g = At(h, t, "unloaded") OBVIOUS
  <2>2. Moves(h, g, t, p) /\ g.tasks[t].pc = "unloaded" BY <2>1, AtMoves
  <2>3. AfterUnload(h, t) = g BY <1>3, <2>1 DEF AfterUnload
  <2> QED BY <2>2, <2>3 DEF Settled
<1> QED BY <1>1, <1>2, <1>3

\* Task t may unload p where h has brought it.
Unloading(h, t, p) ==
    /\ h.tasks[t].op \in {"disable", "reload", "uninstall"}
    /\ h.tasks[t].op # "uninstall" => h.tasks[t].plugin = p

\* Lemma: an unload that goes on where another helper has left it.
LEMMA UnloadedAfter ==
    ASSUME NEW h, NEW f, NEW t \in DOMAIN h.tasks, NEW p \in Plugins, Moves(h, f, t, p),
           Unloading(h, t, p)
    PROVE  /\ IsHost(f) /\ t \in DOMAIN f.tasks /\ Unloading(f, t, p)
           /\ Moves(h, AfterUnload(f, t), t, p) /\ Settled(AfterUnload(f, t), t, p)
<1>1. IsHost(f) /\ t \in DOMAIN f.tasks BY DEF Moves
<1>2. Unloading(f, t, p) BY DEF Moves, SameCall, Unloading
<1>3. Moves(f, AfterUnload(f, t), t, p) /\ Settled(AfterUnload(f, t), t, p)
  BY <1>1, <1>2, AfterUnloadMoves DEF Unloading
<1> QED BY <1>1, <1>2, <1>3, MovesOn

\* Lemma: a record that runs nothing becomes idle, and the task goes on.
LEMMA IdleMoves ==
    ASSUME NEW h, IsHost(h), NEW t \in DOMAIN h.tasks, NEW p \in Plugins, NEW o,
           Unloading(h, t, p)
    PROVE  /\ Moves(h, AfterUnload(Idle(h, p, o), t), t, p)
           /\ Settled(AfterUnload(Idle(h, p, o), t), t, p)
<1>1. PICK status : Idle(h, p, o) = SetStatus(h, p, o, status) BY DEF Idle
<1>2. Moves(h, Idle(h, p, o), t, p) BY <1>1, StatusMoves
<1> QED BY <1>2, UnloadedAfter

\* Lemma: what follows the disposer of a record.
LEMMA UnloadedMoves ==
    ASSUME NEW h, IsHost(h), NEW t \in DOMAIN h.tasks, NEW p \in Plugins,
           h.tasks[t].cur = p, Unloading(h, t, p), NEW threw \in BOOLEAN
    PROVE  Moves(h, Unloaded(h, t, threw), t, p) /\ Settled(Unloaded(h, t, threw), t, p)
<1>1. PICK o : o = h.tasks[t].obj OBVIOUS
<1>2. PICK n : n = Len(h.plugins[p].groups) + 1 OBVIOUS
<1>3. PICK c : c = [h.plugins[p] EXCEPT !.groups[GroupOf(h, t)] = [disposed |-> TRUE, holds |-> FALSE]]
  OBVIOUS
<1>4. PICK d : d = IF threw THEN MarkDisturbed(h, {p}) ELSE PutPlugin(h, p, c) OBVIOUS
<1>5. Moves(h, d, t, p)
  <2>1. Moves(h, MarkDisturbed(h, {p}), t, p) BY MarkMoves
  <2>2. Moves(h, PutPlugin(h, p, c), t, p) BY PluginMoves
  <2> QED BY <1>4, <2>1, <2>2
<1>6. IsHost(d) /\ t \in DOMAIN d.tasks BY <1>5 DEF Moves
<1>7. PICK e : e = PutPlugin(d, p, [d.plugins[p] EXCEPT !.groups = Append(@, NewGroup)])
  OBVIOUS
<1>8. PICK f : f = PutPlugin(e, p, [e.plugins[p] EXCEPT !.objects[o].group = n]) OBVIOUS
<1>9. PICK r : r = PutPlugin(f, p, [f.plugins[p] EXCEPT !.objects[o].disposer = 0]) OBVIOUS
<1>10. IsHost(r) /\ t \in DOMAIN r.tasks /\ Moves(h, r, t, p)
  <2>1. ASSUME NEW x, NEW y, NEW s, Moves(h, x, t, p), y = PutPlugin(x, p, s)
        PROVE  Moves(h, y, t, p)
    <3>1. IsHost(x) /\ t \in DOMAIN x.tasks BY <2>1 DEF Moves
    <3>2. Moves(x, y, t, p) BY <2>1, <3>1, PluginMoves
    <3> QED BY <2>1, <3>2, MovesOn
  <2>2. Moves(h, e, t, p) BY <1>5, <1>7, <2>1
  <2>3. Moves(h, f, t, p) BY <1>8, <2>2, <2>1
  <2>4. Moves(h, r, t, p) BY <1>9, <2>3, <2>1
  <2> QED BY <2>4 DEF Moves
<1>11. PICK w : w = Withdraw(r, p) OBVIOUS
<1>12. Moves(r, w, t, p) BY <1>10, <1>11, StatusMoves
<1>13. IsHost(w) /\ t \in DOMAIN w.tasks /\ Moves(h, w, t, p) BY <1>10, <1>12, MovesOn DEF Moves
<1>14. Unloading(w, t, p) BY <1>13 DEF Moves, SameCall, Unloading
<1>15. /\ Moves(w, AfterUnload(Idle(w, p, o), t), t, p)
       /\ Settled(AfterUnload(Idle(w, p, o), t), t, p)
  BY <1>13, <1>14, IdleMoves
<1>16. Unloaded(h, t, threw) = AfterUnload(Idle(w, p, o), t)
  <2>1. PICK x : x = [d EXCEPT !.plugins[p].groups = Append(@, NewGroup),
                               !.plugins[p].objects[o].group = n,
                               !.plugins[p].objects[o].disposer = 0]
    OBVIOUS
  <2>2. x = r BY <1>7, <1>8, <1>9, <2>1 DEF PutPlugin
  <2>3. d = IF threw THEN MarkDisturbed(h, {p})
            ELSE [h EXCEPT !.plugins[p].groups[GroupOf(h, t)] = [disposed |-> TRUE, holds |-> FALSE]]
    BY <1>3, <1>4 DEF PutPlugin
  <2> QED BY <1>1, <1>2, <1>11, <2>1, <2>2, <2>3, Zenon DEF Unloaded
<1> QED BY <1>13, <1>15, <1>16, MovesOn

\* Lemma: unloadPlugin, up to the await of the plugin's own disposer.
LEMMA UnloadMoves ==
    ASSUME NEW h, IsHost(h), NEW t \in DOMAIN h.tasks, NEW p \in Plugins, Unloading(h, t, p)
    PROVE  Moves(h, Unload(h, t, p), t, p) /\ Settled(Unload(h, t, p), t, p)
<1>1. PICK o : o = h.plugins[p].record OBVIOUS
<1>2. PICK i : i = h.plugins[p].objects[o].disposer OBVIOUS
<1> DEFINE works == h.plugins[p].objects[o].status \in {"active", "error", "loading"}
           first == h.plugins[p].runs[i].state = "up"
<1>5. PICK held : held = Pointed(h, t, p, o) OBVIOUS
<1>6. PICK g : g = [held EXCEPT !.tasks[t].run = IF first THEN i ELSE 0,
                                !.plugins[p].runs[i].state = IF first THEN "stopping" ELSE @]
  OBVIOUS
<1>7. Unload(h, t, p) = CASE o = 0                      -> AfterUnload(h, t)
          [] o # 0 /\ ~works            -> AfterUnload(Idle(h, p, o), t)
          [] o # 0 /\ works /\ i = 0    -> Unloaded(held, t, FALSE)
          [] OTHER                      -> At(g, t, "disposing")
  BY <1>1, <1>2, <1>5, <1>6 DEF Unload, Pointed
<1> HIDE DEF works, first
<1>8. Moves(h, held, t, p) /\ held.tasks[t].cur = p BY <1>5, PointedMoves
<1>9. IsHost(held) /\ t \in DOMAIN held.tasks BY <1>8 DEF Moves
<1>10. Unloading(held, t, p) BY <1>8 DEF Moves, SameCall, Unloading
<1>11. CASE o = 0
  <2>1. Unload(h, t, p) = AfterUnload(h, t) BY <1>7, <1>11
  <2> QED BY <2>1, AfterUnloadMoves DEF Unloading
<1>12. CASE o # 0 /\ ~works
  <2>1. Unload(h, t, p) = AfterUnload(Idle(h, p, o), t) BY <1>7, <1>12
  <2> QED BY <2>1, IdleMoves
<1>13. CASE o # 0 /\ works /\ i = 0
  <2>1. Unload(h, t, p) = Unloaded(held, t, FALSE) BY <1>7, <1>13
  <2>2. PICK e : e = Unloaded(held, t, FALSE) OBVIOUS
  <2>3. Moves(held, e, t, p) /\ Settled(e, t, p) BY <1>8, <1>9, <1>10, <2>2, UnloadedMoves
  <2>4. Moves(h, e, t, p) BY <1>8, <2>3, MovesOn
  <2> QED BY <2>1, <2>2, <2>3, <2>4
<1>14. CASE o # 0 /\ works /\ i # 0
  <2>1. Unload(h, t, p) = At(g, t, "disposing") BY <1>7, <1>14
  <2>2. PICK k : k = [held.tasks[t] EXCEPT !.run = IF first THEN i ELSE 0] OBVIOUS
  <2>3. SameCall(held.tasks[t], k) /\ k.cur = p
    <3>1. DOMAIN held.tasks[t] = {"op", "plugin", "on", "rest", "pc", "held", "cur", "obj", "run"}
      BY <1>9 DEF IsHost
    <3> QED BY <1>8, <2>2, <3>1 DEF SameCall
  <2>4. PICK f : f = PutTask(held, t, k) OBVIOUS
  <2>5. Moves(held, f, t, p) /\ f.tasks[t] = k /\ f.plugins = held.plugins
    BY <1>9, <2>3, <2>4, TaskMoves
  <2>6. IsHost(f) /\ t \in DOMAIN f.tasks BY <1>9, <2>5 DEF Moves
  <2>7. PICK s : s = [f.plugins[p] EXCEPT !.runs[i].state = IF first THEN "stopping" ELSE @]
    OBVIOUS
  <2>8. g = PutPlugin(f, p, s) BY <1>6, <2>2, <2>4, <2>7 DEF PutPlugin, PutTask
  <2>9. Moves(f, g, t, p) /\ g.tasks = f.tasks BY <2>6, <2>8, PluginMoves
  <2>10. IsHost(g) /\ t \in DOMAIN g.tasks BY <2>6, <2>9 DEF Moves
  <2>11. PICK e : e = At(g, t, "disposing") OBVIOUS
  <2>12. Moves(g, e, t, p) /\ e.tasks[t].pc = "disposing" /\ e.tasks[t].cur = g.tasks[t].cur
    BY <2>10, <2>11, AtMoves
  <2>13. Moves(h, g, t, p) BY <1>8, <2>5, <2>9, MovesOn, Zenon
  <2>14. Moves(h, e, t, p) BY <2>12, <2>13, MovesOn
  <2>15. Settled(e, t, p) BY <2>3, <2>5, <2>9, <2>12 DEF Settled
  <2> QED BY <2>1, <2>11, <2>14, <2>15
<1> QED BY <1>11, <1>12, <1>13, <1>14

-----------------------------------------------------------------------------
(* Each step, as one of one task.                                            *)

\* A call that is over works on nothing, and an uninstallation unloads no
\* plugin that one it has still to unload needs.
TaskInOrder(k) ==
    /\ k.pc = "done" => k.on = {}
    /\ k.op = "uninstall" /\ k.pc = "disposing" => \A q \in k.rest : k.cur \notin Needs[q]
TasksInOrder(h) == \A u \in DOMAIN h.tasks : TaskInOrder(h.tasks[u])

\* Whoever else works on q, g says that q is disturbed.
Alone(g, t, q) == \A u \in DOMAIN tasks \ {t} : q \in WorkedOn(Host, u) => q \in g.disturbed

\* f is Host but for task t, which may have just begun, and for plugins that
\* are disturbed.
Based(f, t) ==
    /\ IsHost(f) /\ f.plugins = plugins /\ disturbed \subseteq f.disturbed
    /\ DOMAIN f.tasks = DOMAIN tasks \union {t}
    /\ \A u \in DOMAIN tasks \ {t} : f.tasks[u] = tasks[u]

\* Task t takes a step: no other task does, and no plugin's service changes
\* that another task works on, unless the plugin is disturbed.
Steps(t) ==
    /\ disturbed \subseteq disturbed'
    /\ DOMAIN tasks' = DOMAIN tasks \union {t}
    /\ \A u \in DOMAIN tasks \ {t} : tasks'[u] = tasks[u]
    /\ TaskInOrder(tasks'[t])
    /\ \A q \in Plugins :
          plugins'[q].provider = plugins[q].provider
              \/ \A u \in DOMAIN tasks \ {t} : q \in WorkedOn(Host, u) => q \in disturbed'

\* Lemma: the invariant says so much of the record Host.
LEMMA AtBase ==
    ASSUME HostInv(Host)
    PROVE  /\ IsHost(Host) /\ Host.plugins = plugins /\ Host.tasks = tasks
           /\ Host.disturbed = disturbed
           /\ \A t \in DOMAIN tasks : Based(Host, t)
<1>1. Host \in HostShape BY DEF HostInv
<1>2. IsHost(Host) BY <1>1, ShapeIsHost
<1>3. /\ Host.plugins = plugins /\ Host.tasks = tasks /\ Host.disturbed = disturbed
  BY DEF Host
<1> QED BY <1>2, <1>3 DEF Based

\* Lemma: a helper that moves one plugin makes a step of one task.
LEMMA Turn ==
    ASSUME NEW f, NEW t, Based(f, t), NEW p \in Plugins, NEW g, Moves(f, g, t, p), SetHost(g),
           TaskInOrder(g.tasks[t]), Alone(g, t, p) \/ g.plugins[p].provider = plugins[p].provider
    PROVE  Steps(t) /\ \A q \in Plugins \ {p} : plugins'[q] = plugins[q]
<1>1. plugins' = g.plugins /\ tasks' = g.tasks /\ disturbed' = g.disturbed BY DEF SetHost
<1>2. \A q \in Plugins \ {p} : plugins'[q] = plugins[q] BY <1>1 DEF Based, Moves
<1>3. /\ disturbed \subseteq disturbed' /\ DOMAIN tasks' = DOMAIN tasks \union {t}
      /\ \A u \in DOMAIN tasks \ {t} : tasks'[u] = tasks[u]
      /\ TaskInOrder(tasks'[t])
  BY <1>1 DEF Based, Moves
<1>4. ASSUME NEW q \in Plugins
      PROVE  plugins'[q].provider = plugins[q].provider
              \/ \A u \in DOMAIN tasks \ {t} : q \in WorkedOn(Host, u) => q \in disturbed'
  BY <1>1, <1>2 DEF Alone
<1> QED BY <1>2, <1>3, <1>4 DEF Steps

\* Lemma: what a task works on is disturbed when another works on it too.
LEMMA AloneAtWork ==
    ASSUME HostInv(Host), NEW t \in DOMAIN tasks, tasks[t].pc # "done",
           NEW p \in tasks[t].on, NEW g, disturbed \subseteq g.disturbed
    PROVE  Alone(g, t, p)
<1>1. /\ Host.tasks = tasks /\ Host.disturbed = disturbed /\ t \in 1..Len(Host.tasks)
      /\ tasks[t] \in TaskShape /\ Host \in HostShape
  BY InTurn
<1>2. p \in Plugins BY <1>1 DEF TaskShape
<1>3. DOMAIN tasks = 1..Len(Host.tasks) BY <1>1 DEF HostShape
<1>4. Works(Host, t, p) BY <1>1 DEF Works, WorkedOn
<1>5. ASSUME NEW u \in DOMAIN tasks \ {t}, p \in WorkedOn(Host, u) PROVE p \in g.disturbed
  <2>1. Works(Host, u, p) BY <1>5 DEF Works
  <2>2. p \notin disturbed => Calm(Host, p) BY <1>1, <1>2 DEF HostInv
  <2> QED BY <1>1, <1>3, <1>4, <2>1, <2>2 DEF Calm
<1> QED BY <1>5 DEF Alone

\* Lemma: a helper that settles the task makes a step that keeps the order.
LEMMA SettledTurn ==
    ASSUME NEW f, NEW t, Based(f, t), NEW p \in Plugins, NEW g, Moves(f, g, t, p),
           Settled(g, t, p), SetHost(g), Alone(g, t, p),
           f.tasks[t].op = "uninstall" => \A q \in f.tasks[t].rest : p \notin Needs[q]
    PROVE  Steps(t) /\ \A q \in Plugins \ {p} : plugins'[q] = plugins[q]
<1>1. g.tasks[t].op = f.tasks[t].op /\ g.tasks[t].rest = f.tasks[t].rest BY DEF Moves, SameCall
<1>2. TaskInOrder(g.tasks[t]) BY <1>1 DEF TaskInOrder, Settled
<1> QED BY <1>2, Turn

\* The plugins R are left to task t, which is all that g differs in from h.
LeftTo(h, t, R) == [h EXCEPT !.tasks[t].rest = R]
OnlyLeft(h, g, t, R) ==
    /\ IsHost(g) /\ g.plugins = h.plugins /\ g.disturbed = h.disturbed
    /\ DOMAIN g.tasks = DOMAIN h.tasks
    /\ \A u \in DOMAIN h.tasks \ {t} : g.tasks[u] = h.tasks[u]
    /\ g.tasks[t].rest = R /\ g.tasks[t].op = h.tasks[t].op
    /\ g.tasks[t].plugin = h.tasks[t].plugin /\ g.tasks[t].pc = h.tasks[t].pc
    /\ g.tasks[t].on = h.tasks[t].on /\ g.tasks[t].cur = h.tasks[t].cur

\* Lemma: what is left to a task is set.
LEMMA RestSet ==
    ASSUME NEW h, IsHost(h), NEW t \in DOMAIN h.tasks, NEW R
    PROVE  OnlyLeft(h, LeftTo(h, t, R), t, R)
<1>1. PICK k : k = [h.tasks[t] EXCEPT !.rest = R] OBVIOUS
<1>2. DOMAIN h.tasks[t] = {"op", "plugin", "on", "rest", "pc", "held", "cur", "obj", "run"}
  BY DEF IsHost
<1>3. /\ DOMAIN k = DOMAIN h.tasks[t] /\ k.rest = R /\ k.op = h.tasks[t].op
      /\ k.plugin = h.tasks[t].plugin /\ k.pc = h.tasks[t].pc /\ k.on = h.tasks[t].on
      /\ k.cur = h.tasks[t].cur
  BY <1>1, <1>2
<1>4. PICK g : g = PutTask(h, t, k) OBVIOUS
<1>5. g = [plugins |-> h.plugins, tasks |-> [h.tasks EXCEPT ![t] = k], disturbed |-> h.disturbed]
  BY <1>4 DEF PutTask, IsHost
<1>6. /\ g.plugins = h.plugins /\ g.tasks = [h.tasks EXCEPT ![t] = k]
      /\ g.disturbed = h.disturbed
  BY <1>5
<1>7. /\ DOMAIN g.tasks = DOMAIN h.tasks /\ g.tasks[t] = k
      /\ \A u \in DOMAIN h.tasks \ {t} : g.tasks[u] = h.tasks[u]
  BY <1>6
<1>8. IsHost(g) BY <1>3, <1>5, <1>6, <1>7 DEF IsHost
<1>9. g = LeftTo(h, t, R) BY <1>1, <1>4 DEF PutTask, LeftTo
<1> QED BY <1>3, <1>6, <1>7, <1>8, <1>9 DEF OnlyLeft

\* Lemma: a new call, with the plugins S in hand.
LEMMA CalledBase ==
    ASSUME HostInv(Host), NEW p \in Plugins, NEW S, NEW op
    PROVE  LET f == Called(op, p, S) IN
           /\ Based(f, New) /\ New \notin DOMAIN tasks
           /\ f.tasks[New].op = op /\ f.tasks[New].plugin = p /\ f.tasks[New].cur = p
           /\ f.tasks[New].on = S /\ \A q \in S : Alone(f, New, q)
<1>1. PICK k : k = NewTask(op, p) OBVIOUS
<1>2. /\ DOMAIN k = {"op", "plugin", "on", "rest", "pc", "held", "cur", "obj", "run"}
      /\ k.op = op /\ k.plugin = p /\ k.cur = p
  BY <1>1 DEF NewTask
<1>3. /\ IsHost(Host) /\ Host.plugins = plugins /\ Host.tasks = tasks
      /\ Host.disturbed = disturbed
  BY AtBase
<1>4. tasks \in Seq(TaskShape) BY <1>3 DEF HostInv, HostShape
<1>5. PICK w : w = Append(tasks, k) OBVIOUS
<1>6. /\ New \notin DOMAIN tasks /\ DOMAIN w = DOMAIN tasks \union {New}
      /\ w[New] = k /\ \A u \in DOMAIN tasks : w[u] = tasks[u]
  BY <1>4, <1>5 DEF New
<1>7. PICK b : b = [plugins |-> plugins, tasks |-> w, disturbed |-> disturbed] OBVIOUS
<1>8. b = [Host EXCEPT !.tasks = Append(@, NewTask(op, p))]
  <2>1. b = [Host EXCEPT !.tasks = w] BY <1>7 DEF Host
  <2>2. w = Append(Host.tasks, NewTask(op, p)) BY <1>1, <1>3, <1>5
  <2> QED BY <2>1, <2>2
<1>9. b.plugins = plugins /\ b.tasks = w /\ b.disturbed = disturbed BY <1>7
<1>10. IsHost(b) BY <1>2, <1>3, <1>6, <1>7, <1>9 DEF IsHost
<1>11. New \in DOMAIN b.tasks BY <1>6, <1>9
<1>12. PICK f : f = Take(b, New, S) OBVIOUS
<1>13. Moves(b, f, New, p) /\ Takes(b, f, New, S) BY <1>10, <1>11, <1>12, TakeMoves
<1>14. f = Called(op, p, S) BY <1>8, <1>12 DEF Called
<1>15. Based(f, New) BY <1>6, <1>9, <1>13 DEF Moves, Takes, Based
<1>16. f.tasks[New].op = op /\ f.tasks[New].plugin = p /\ f.tasks[New].cur = p
  BY <1>2, <1>6, <1>9, <1>13 DEF Moves, SameCall, Takes
<1>17. ASSUME NEW q \in S PROVE Alone(f, New, q)
  <2>1. \A u \in DOMAIN tasks : WorkedOn(b, u) = WorkedOn(Host, u)
    BY <1>3, <1>6, <1>9 DEF WorkedOn
  <2> QED BY <1>6, <1>9, <1>13, <2>1 DEF Alone, Takes
<1> QED BY <1>6, <1>13, <1>14, <1>15, <1>16, <1>17 DEF Takes

\* Lemma: setEnabled.
LEMMA SetEnabledSteps ==
    ASSUME HostInv(Host), NEW p \in Plugins, NEW on \in BOOLEAN, setEnabled(p, on)
    PROVE  Steps(New)
<1>1. PICK op : op = IF on THEN "enable" ELSE "disable" OBVIOUS
<1>2. PICK f : f = Called(op, p, {p}) OBVIOUS
<1>3. Based(f, New) /\ Alone(f, New, p) BY <1>2, CalledBase
<1>4. IsHost(f) /\ New \in DOMAIN f.tasks BY <1>3 DEF Based
<1>5. PICK s : s = EnabledSet(f.plugins[p], plugins[p].record, on) OBVIOUS
<1>6. PICK e : e = PutPlugin(f, p, s) OBVIOUS
<1>7. Moves(f, e, New, p) BY <1>4, <1>6, PluginMoves
<1>8. IsHost(e) /\ New \in DOMAIN e.tasks BY <1>4, <1>7 DEF Moves
<1>9. PICK S : S = IF on /\ RecordOf(Host, p).status = "active" THEN {p} ELSE {} OBVIOUS
<1>10. PICK m : m = MarkDisturbed(e, S) OBVIOUS
<1>11. Moves(e, m, New, p) BY <1>8, <1>10, MarkMoves
<1>12. IsHost(m) /\ New \in DOMAIN m.tasks BY <1>8, <1>11 DEF Moves
<1>13. PICK g : g = At(m, New, "saving") OBVIOUS
<1>14. Moves(m, g, New, p) /\ g.tasks[New].pc = "saving" BY <1>12, <1>13, AtMoves
<1>15. Moves(f, g, New, p)
  <2>1. Moves(f, m, New, p) BY <1>4, <1>7, <1>11, MovesOn
  <2> QED BY <1>4, <1>14, <2>1, MovesOn
<1>16. SetHost(g)
  <2>1. e = [f EXCEPT !.plugins[p].objects[plugins[p].record].enabled = on,
                      !.plugins[p].disabled = ~on]
    BY <1>5, <1>6 DEF PutPlugin, EnabledSet
  <2>2. m = MarkDisturbed([f EXCEPT !.plugins[p].objects[plugins[p].record].enabled = on,
                                    !.plugins[p].disabled = ~on],
                          IF on /\ RecordOf(Host, p).status = "active" THEN {p} ELSE {})
    BY <1>9, <1>10, <2>1, Zenon
  <2> QED BY <1>1, <1>2, <1>13, <2>2, Zenon DEF setEnabled
<1>17. TaskInOrder(g.tasks[New]) BY <1>14 DEF TaskInOrder
<1>18. Alone(g, New, p) BY <1>3, <1>15 DEF Moves, Alone
<1> QED BY <1>3, <1>15, <1>16, <1>17, <1>18, Turn

\* Lemma: reloadPlugin.
LEMMA ReloadSteps ==
    ASSUME HostInv(Host), NEW p \in Plugins, reloadPlugin(p)
    PROVE  Steps(New)
<1>1. PICK f : f = Called("reload", p, {p}) OBVIOUS
<1>2. /\ Based(f, New) /\ Alone(f, New, p) /\ f.tasks[New].op = "reload"
      /\ f.tasks[New].plugin = p
  BY <1>1, CalledBase
<1>3. IsHost(f) /\ New \in DOMAIN f.tasks BY <1>2 DEF Based
<1>4. Unloading(f, New, p) BY <1>2 DEF Unloading
<1>5. PICK g : g = Unload(f, New, p) OBVIOUS
<1>6. Moves(f, g, New, p) /\ Settled(g, New, p) BY <1>3, <1>4, <1>5, UnloadMoves
<1>7. SetHost(g) BY <1>1, <1>5 DEF reloadPlugin
<1>8. Alone(g, New, p) BY <1>2, <1>6 DEF Moves, Alone
<1> QED BY <1>2, <1>6, <1>7, <1>8, SettledTurn

\* Lemma: uninstallPlugin, up to its first unload.
LEMMA UninstallSteps ==
    ASSUME HostInv(Host), NEW p \in Plugins, uninstallPlugin(p)
    PROVE  Steps(New)
<1>1. PICK S : S = {p} \union Dependents(p) OBVIOUS
<1>2. PICK b : b = Called("uninstall", p, S) OBVIOUS
<1>3. Based(b, New) BY <1>2, CalledBase
<1>4. IsHost(b) /\ New \in DOMAIN b.tasks BY <1>3 DEF Based
<1>5. PICK f : f = LeftTo(b, New, S) OBVIOUS
<1>6. OnlyLeft(b, f, New, S) BY <1>4, <1>5, RestSet
<1>7. Based(f, New) BY <1>3, <1>6 DEF Based, OnlyLeft
<1>8. PICK g : g = At(f, New, "unloaded") OBVIOUS
<1>9. Moves(f, g, New, p) /\ g.plugins = f.plugins /\ g.tasks[New].pc = "unloaded"
  BY <1>4, <1>7, <1>8, AtMoves DEF Based
<1>10. SetHost(g) BY <1>1, <1>2, <1>5, <1>8 DEF uninstallPlugin, LeftTo
<1>11. TaskInOrder(g.tasks[New]) BY <1>9 DEF TaskInOrder
<1>12. g.plugins[p].provider = plugins[p].provider BY <1>7, <1>9 DEF Based
<1> QED BY <1>7, <1>9, <1>10, <1>11, <1>12, Turn

\* Lemma: an installation, up to the end of its scan.
LEMMA InstallSteps ==
    ASSUME HostInv(Host), NEW p \in Plugins, install(p)
    PROVE  Steps(New)
<1>1. PICK f : f = Called("install", p, {}) OBVIOUS
<1>2. Based(f, New) BY <1>1, CalledBase
<1>3. IsHost(f) /\ New \in DOMAIN f.tasks BY <1>2 DEF Based
<1>4. PICK g : g = At(f, New, "scanning") OBVIOUS
<1>5. Moves(f, g, New, p) /\ g.plugins = f.plugins /\ g.tasks[New].pc = "scanning"
  BY <1>3, <1>4, AtMoves
<1>6. SetHost(g) BY <1>1, <1>4 DEF install
<1>7. TaskInOrder(g.tasks[New]) BY <1>5 DEF TaskInOrder
<1>8. g.plugins[p].provider = plugins[p].provider BY <1>2, <1>5 DEF Based
<1> QED BY <1>2, <1>5, <1>6, <1>7, <1>8, Turn

\* Lemma: setEnabled goes on when the preference is saved, or ends.
LEMMA SavedSteps ==
    ASSUME HostInv(Host), NEW t \in DOMAIN tasks, Saved(t) \/ SaveFails(t)
    PROVE  Steps(t) /\ tasks[t].op # "uninstall"
<1>1. /\ IsHost(Host) /\ Host.plugins = plugins /\ Host.tasks = tasks
      /\ Host.disturbed = disturbed /\ Based(Host, t)
  BY AtBase
<1>2. tasks[t].op \in {"enable", "disable"} /\ tasks[t].pc = "saving"
  BY DEF Saved, SaveFails, Task
<1>3. PICK p : p = tasks[t].plugin OBVIOUS
<1>4. p \in Plugins /\ p \in tasks[t].on
  <2>1. tasks[t] \in TaskShape /\ Placed(tasks[t]) BY InTurn
  <2> QED BY <1>2, <1>3, <2>1 DEF TaskShape, Placed
<1>5. ASSUME NEW g, disturbed \subseteq g.disturbed PROVE Alone(g, t, p)
  BY <1>2, <1>4, <1>5, AloneAtWork
<1>6. ASSUME NEW g, Moves(Host, g, t, p), Settled(g, t, p), SetHost(g) PROVE Steps(t)
  <2>1. Alone(g, t, p) BY <1>1, <1>5, <1>6 DEF Moves
  <2> QED BY <1>1, <1>2, <1>4, <1>6, <2>1, SettledTurn
<1>7. CASE Saved(t) /\ tasks[t].op = "disable"
  <2>1. PICK g : g = Unload(Host, t, p) OBVIOUS
  <2>2. Unloading(Host, t, p) BY <1>1, <1>3, <1>7 DEF Unloading
  <2>3. Moves(Host, g, t, p) /\ Settled(g, t, p) BY <1>1, <1>4, <2>1, <2>2, UnloadMoves
  <2>4. SetHost(g) BY <1>3, <1>7, <2>1 DEF Saved
  <2> QED BY <1>2, <1>6, <2>3, <2>4
<1>8. CASE Saved(t) /\ tasks[t].op # "disable"
  <2>1. PICK o : o = tasks[t].held OBVIOUS
  <2>2. PICK f : f = SetStatus(Host, p, o, "idle") OBVIOUS
  <2>3. Moves(Host, f, t, p) BY <1>1, <1>4, <2>2, StatusMoves
  <2>4. IsHost(f) /\ t \in DOMAIN f.tasks BY <1>1, <2>3 DEF Moves
  <2>5. PICK g : g = Load(f, t, p, o) OBVIOUS
  <2>6. Moves(f, g, t, p) /\ Settled(g, t, p) BY <1>4, <2>4, <2>5, LoadMoves
  <2>7. Moves(Host, g, t, p) BY <1>1, <2>3, <2>6, MovesOn
  <2>8. SetHost(g) BY <1>3, <1>8, <2>1, <2>2, <2>5 DEF Saved
  <2> QED BY <1>2, <1>6, <2>6, <2>7, <2>8
<1>9. CASE SaveFails(t)
  <2>1. PICK f : f = End(Host, t) OBVIOUS
  <2>2. Moves(Host, f, t, p) /\ Settled(f, t, p) BY <1>1, <2>1, EndMoves
  <2>3. IsHost(f) /\ t \in DOMAIN f.tasks BY <1>1, <2>2 DEF Moves
  <2>4. PICK g : g = MarkDisturbed(f, {p}) OBVIOUS
  <2>5. Moves(f, g, t, p) /\ g.tasks = f.tasks BY <2>3, <2>4, MarkMoves
  <2>6. Moves(Host, g, t, p) BY <1>1, <2>2, <2>5, MovesOn
  <2>7. Settled(g, t, p) BY <2>2, <2>5 DEF Settled
  <2>8. SetHost(g) BY <1>3, <1>9, <2>1, <2>4 DEF SaveFails
  <2> QED BY <1>2, <1>6, <2>6, <2>7, <2>8
<1> QED BY <1>2, <1>7, <1>8, <1>9

\* Lemma: the end of scan().
LEMMA ScannedSteps ==
    ASSUME HostInv(Host), NEW t \in DOMAIN tasks, Scanned(t)
    PROVE  Steps(t) /\ tasks[t].op # "uninstall"
<1>1. /\ IsHost(Host) /\ Host.plugins = plugins /\ Host.tasks = tasks
      /\ Host.disturbed = disturbed /\ plugins \in [Plugins -> PluginShape]
  BY AtBase, InTurn
<1>2. tasks[t].op = "install" BY DEF Scanned, Task
<1> DEFINE onDisk == {p \in Plugins : plugins[p].installed} \union {tasks[t].plugin}
           on == {p \in onDisk : ~plugins[p].disabled}
           status(p, was) == CASE p \notin on              -> "disabled"
                               [] p \in on /\ ~(Needs[p] \subseteq on) -> "error"
                               [] OTHER                    -> was
           scanned(p) ==
               LET s == plugins[p]
                   n == Len(s.objects) + 1
               IN  IF p \in Known(Host)
                   THEN [s EXCEPT !.record = n, !.objects = Append(@,
                           [RecordOf(Host, p) EXCEPT !.enabled = p \in on,
                                                     !.status = status(p, @)])]
                   ELSE [s EXCEPT !.record = n, !.installed = TRUE,
                           !.groups = Append(@, NewGroup),
                           !.objects = Append(@,
                             [enabled |-> p \in on, status |-> status(p, "idle"),
                              group |-> Len(s.groups) + 1, disposer |-> 0])]
           busy == UNION {WorkedOn(Host, u) : u \in DOMAIN tasks}
           lost == {p \in Known(Host) : RecordOf(Host, p).status = "active"
                                            /\ status(p, "active") # "active"}
           N == [p \in Plugins |-> IF p \in onDisk THEN scanned(p) ELSE plugins[p]]
<1>3. SetHost(At(MarkDisturbed([Host EXCEPT !.plugins = N, !.tasks[t].rest = on],
                               busy \union lost), t, "loaded"))
  BY Zenon DEF Scanned
<1>4. ASSUME NEW p \in Plugins PROVE N[p].provider = plugins[p].provider
  <2>1. plugins[p] \in PluginShape BY <1>1
  <2>2. \A n, os : [plugins[p] EXCEPT !.record = n, !.objects = os].provider = plugins[p].provider
    BY <2>1 DEF PluginShape
  <2>3. \A n, os, gs : [plugins[p] EXCEPT !.record = n, !.installed = TRUE, !.groups = gs,
                                          !.objects = os].provider = plugins[p].provider
    BY <2>1 DEF PluginShape
  <2>4. CASE p \notin onDisk BY <2>4
  <2>5. CASE p \in onDisk /\ p \in Known(Host)
    <3>1. PICK n, os : N[p] = [plugins[p] EXCEPT !.record = n, !.objects = os] BY <2>5
    <3> HIDE DEF N
    <3> QED BY <2>2, <3>1
  <2>6. CASE p \in onDisk /\ p \notin Known(Host)
    <3>1. PICK n, os, gs : N[p] = [plugins[p] EXCEPT !.record = n, !.installed = TRUE,
                                                     !.groups = gs, !.objects = os]
      BY <2>6
    <3> HIDE DEF N
    <3> QED BY <2>3, <3>1
  <2> QED BY <2>4, <2>5, <2>6, Zenon
<1>5. PICK ps : ps = N OBVIOUS
<1>6. DOMAIN ps = Plugins /\ \A p \in Plugins : ps[p].provider = plugins[p].provider
  BY <1>4, <1>5
<1>7. PICK R, S : SetHost(At(MarkDisturbed([Host EXCEPT !.plugins = ps, !.tasks[t].rest = R], S),
                             t, "loaded"))
  BY <1>3, <1>5
<1> HIDE DEF N, lost, busy, on, onDisk
<1>8. PICK b : b = [plugins |-> ps, tasks |-> tasks, disturbed |-> disturbed] OBVIOUS
<1>9. b.plugins = ps /\ b.tasks = tasks /\ b.disturbed = disturbed BY <1>8
<1>10. IsHost(b) BY <1>1, <1>6, <1>8, <1>9 DEF IsHost
<1>11. PICK c : c = LeftTo(b, t, R) OBVIOUS
<1>12. /\ IsHost(c) /\ c.plugins = ps /\ c.disturbed = disturbed /\ DOMAIN c.tasks = DOMAIN tasks
       /\ \A u \in DOMAIN tasks \ {t} : c.tasks[u] = tasks[u]
  <2>1. OnlyLeft(b, c, t, R) BY <1>9, <1>10, <1>11, RestSet
  <2> QED BY <1>9, <2>1 DEF OnlyLeft
<1>13. PICK p : p = tasks[t].plugin OBVIOUS
<1>14. PICK d : d = MarkDisturbed(c, S) OBVIOUS
<1>15. Moves(c, d, t, p) /\ d.plugins = ps BY <1>12, <1>14, MarkMoves
<1>16. IsHost(d) /\ t \in DOMAIN d.tasks BY <1>12, <1>15 DEF Moves
<1>17. PICK g : g = At(d, t, "loaded") OBVIOUS
<1>18. Moves(d, g, t, p) /\ g.plugins = ps /\ g.tasks[t].pc = "loaded"
  BY <1>15, <1>16, <1>17, AtMoves
<1>19. SetHost(g)
  <2>1. b = [Host EXCEPT !.plugins = ps] BY <1>8 DEF Host
  <2>2. PICK H : H = Host OBVIOUS
  <2>3. [[H EXCEPT !.plugins = ps] EXCEPT !.tasks[t].rest = R]
            = [H EXCEPT !.plugins = ps, !.tasks[t].rest = R]
    OBVIOUS
  <2> QED BY <1>7, <1>11, <1>14, <1>17, <2>1, <2>2, <2>3, Zenon DEF LeftTo
<1>20. plugins' = ps /\ tasks' = g.tasks /\ disturbed' = g.disturbed
  BY <1>18, <1>19 DEF SetHost
<1>21. /\ disturbed \subseteq disturbed' /\ DOMAIN tasks' = DOMAIN tasks
       /\ \A u \in DOMAIN tasks \ {t} : tasks'[u] = tasks[u]
  BY <1>12, <1>15, <1>18, <1>20 DEF Moves
<1>22. TaskInOrder(tasks'[t]) BY <1>18, <1>20 DEF TaskInOrder
<1> QED BY <1>2, <1>6, <1>20, <1>21, <1>22 DEF Steps

\* Lemma: loadAll takes the next plugin.
LEMMA LoadNextSteps ==
    ASSUME HostInv(Host), NEW t \in DOMAIN tasks, LoadNext(t)
    PROVE  Steps(t) /\ tasks[t].op # "uninstall"
<1>1. /\ IsHost(Host) /\ Host.plugins = plugins /\ Host.tasks = tasks
      /\ Host.disturbed = disturbed
  BY AtBase
<1>2. tasks[t].op = "install" /\ tasks[t].pc = "loaded" BY DEF LoadNext, Task
<1>3. PICK p \in tasks[t].rest :
          LET h == [Host EXCEPT !.tasks[t].rest = @ \ {p}]
          IN  SetHost(IF p \notin Known(Host) \/ ~RecordOf(Host, p).enabled THEN h
                      ELSE Load(Take(h, t, {p}), t, p, plugins[p].record))
  BY DEF LoadNext
<1>4. p \in Plugins
  <2>1. tasks[t] \in TaskShape BY InTurn
  <2> QED BY <2>1 DEF TaskShape
<1>5. PICK h : h = [Host EXCEPT !.tasks[t].rest = @ \ {p}] OBVIOUS
<1>6. /\ IsHost(h) /\ h.plugins = plugins /\ h.disturbed = disturbed
      /\ DOMAIN h.tasks = DOMAIN tasks
      /\ \A u \in DOMAIN tasks \ {t} : h.tasks[u] = tasks[u]
      /\ h.tasks[t].op = tasks[t].op /\ h.tasks[t].pc = tasks[t].pc
  <2>1. PICK R : R = Host.tasks[t].rest \ {p} OBVIOUS
  <2>2. h = LeftTo(Host, t, R) BY <1>5, <2>1 DEF LeftTo
  <2>3. OnlyLeft(Host, h, t, R) BY <1>1, <2>2, RestSet
  <2> QED BY <1>1, <2>3 DEF OnlyLeft
<1>7. Based(h, t) BY <1>6 DEF Based
<1>8. CASE SetHost(h)
  <2>1. plugins' = plugins /\ tasks' = h.tasks /\ disturbed' = disturbed
    BY <1>6, <1>8 DEF SetHost
  <2>2. TaskInOrder(h.tasks[t]) BY <1>2, <1>6 DEF TaskInOrder
  <2> QED BY <1>2, <1>6, <2>1, <2>2 DEF Steps
<1>9. CASE SetHost(Load(Take(h, t, {p}), t, p, plugins[p].record))
  <2>1. PICK f : f = Take(h, t, {p}) OBVIOUS
  <2>2. IsHost(h) /\ t \in DOMAIN h.tasks BY <1>6
  <2>3. Moves(h, f, t, p) /\ Takes(h, f, t, {p}) BY <2>1, <2>2, TakeMoves
  <2>4. Alone(f, t, p)
    <3>1. \A u \in DOMAIN tasks \ {t} : WorkedOn(h, u) = WorkedOn(Host, u)
      BY <1>1, <1>6 DEF WorkedOn
    <3> QED BY <1>6, <2>3, <3>1 DEF Alone, Takes
  <2>5. Based(f, t) BY <1>6, <1>7, <2>3 DEF Based, Moves, Takes
  <2>6. IsHost(f) /\ t \in DOMAIN f.tasks BY <2>5 DEF Based
  <2>7. PICK g : g = Load(f, t, p, plugins[p].record) OBVIOUS
  <2>8. Moves(f, g, t, p) /\ Settled(g, t, p) BY <1>4, <2>6, <2>7, LoadMoves
  <2>9. Alone(g, t, p) BY <2>4, <2>8 DEF Moves, Alone
  <2>10. f.tasks[t].op # "uninstall" BY <1>2, <1>6, <2>3 DEF Moves, SameCall
  <2>11. SetHost(g) BY <1>9, <2>1, <2>7
  <2> QED BY <1>2, <1>4, <2>5, <2>8, <2>9, <2>10, <2>11, SettledTurn
<1> QED BY <1>3, <1>5, <1>8, <1>9

\* Lemma: loadAll or uninstallPlugin goes on, or removes a plugin: services
\* stay as they are.
LEMMA FinishSteps ==
    ASSUME HostInv(Host), NEW t \in DOMAIN tasks, Finish(t) \/ Removed(t)
    PROVE  Steps(t) /\ \A q \in Plugins : plugins'[q].provider = plugins[q].provider
<1>1. /\ IsHost(Host) /\ Host.plugins = plugins /\ Host.tasks = tasks
      /\ Host.disturbed = disturbed /\ plugins \in [Plugins -> PluginShape]
  BY AtBase, InTurn
<1>2. \A g : SetHost(g) => plugins' = g.plugins /\ tasks' = g.tasks /\ disturbed' = g.disturbed
  BY DEF SetHost
<1>3. ASSUME NEW h, IsHost(h), h.disturbed = disturbed, DOMAIN h.tasks = DOMAIN tasks,
             \A u \in DOMAIN tasks \ {t} : h.tasks[u] = tasks[u],
             \A q \in Plugins : h.plugins[q].provider = plugins[q].provider,
             NEW g, SetHost(g),
             \/ g = h /\ h.tasks[t].pc = "removing"
             \/ g = End(h, t) \/ g = At(h, t, "removing")
      PROVE  Steps(t) /\ \A q \in Plugins : plugins'[q].provider = plugins[q].provider
  <2>1. PICK p : p = tasks[t].plugin OBVIOUS
  <2>2. End(h, t).plugins = h.plugins /\ Moves(h, End(h, t), t, p) /\ Settled(End(h, t), t, p)
    BY <1>3, EndMoves
  <2>3. At(h, t, "removing").plugins = h.plugins /\ Moves(h, At(h, t, "removing"), t, p)
        /\ At(h, t, "removing").tasks[t].pc = "removing"
    BY <1>3, AtMoves
  <2>4. /\ g.plugins = h.plugins /\ disturbed \subseteq g.disturbed
        /\ DOMAIN g.tasks = DOMAIN tasks
        /\ \A u \in DOMAIN tasks \ {t} : g.tasks[u] = tasks[u]
    BY <1>3, <2>2, <2>3 DEF Moves
  <2>5. TaskInOrder(g.tasks[t])
    <3>1. CASE g = End(h, t)
      <4>1. End(h, t).tasks[t].pc = "done" /\ End(h, t).tasks[t].on = {} BY <1>3 DEF End, IsHost
      <4> QED BY <3>1, <4>1 DEF TaskInOrder
    <3>2. CASE g # End(h, t)
      <4>1. g.tasks[t].pc = "removing" BY <1>3, <2>3, <3>2
      <4> QED BY <4>1 DEF TaskInOrder
    <3> QED BY <3>1, <3>2
  <2> QED BY <1>2, <1>3, <2>4, <2>5 DEF Steps
<1>4. CASE Finish(t)
  <2>1. CASE SetHost(End(Host, t)) BY <1>1, <1>3, <2>1
  <2>2. CASE SetHost(At([Host EXCEPT !.tasks[t].rest = tasks[t].on], t, "removing"))
    <3>1. PICK h : h = [Host EXCEPT !.tasks[t].rest = tasks[t].on] OBVIOUS
    <3>2. OnlyLeft(Host, h, t, tasks[t].on) BY <1>1, <3>1, RestSet DEF LeftTo
    <3>3. /\ IsHost(h) /\ h.plugins = plugins /\ h.disturbed = disturbed
          /\ DOMAIN h.tasks = DOMAIN tasks
          /\ \A u \in DOMAIN tasks \ {t} : h.tasks[u] = tasks[u]
      BY <1>1, <3>2 DEF OnlyLeft
    <3> QED BY <1>3, <2>2, <3>1, <3>3
  <2> QED BY <1>4, <2>1, <2>2 DEF Finish
<1>5. CASE Removed(t)
  <2>1. PICK p \in tasks[t].rest :
            LET left == [Host EXCEPT !.tasks[t].rest = @ \ {p}]
                h    == IF p \notin Known(Host) THEN left
                        ELSE [left EXCEPT !.plugins[p].record = 0,
                                          !.plugins[p].installed = FALSE,
                                          !.plugins[p].disabled = FALSE]
            IN  SetHost(IF tasks[t].rest = {p} THEN End(h, t) ELSE h)
    BY <1>5 DEF Removed
  <2>2. p \in Plugins
    <3>1. tasks[t] \in TaskShape BY InTurn
    <3> QED BY <3>1 DEF TaskShape
  <2>3. PICK left : left = [Host EXCEPT !.tasks[t].rest = @ \ {p}] OBVIOUS
  <2>4. /\ IsHost(left) /\ left.plugins = plugins /\ left.disturbed = disturbed
        /\ DOMAIN left.tasks = DOMAIN tasks
        /\ \A u \in DOMAIN tasks \ {t} : left.tasks[u] = tasks[u]
        /\ left.tasks[t].pc = "removing"
    <3>1. PICK R : R = Host.tasks[t].rest \ {p} OBVIOUS
    <3>2. left = LeftTo(Host, t, R) BY <2>3, <3>1 DEF LeftTo
    <3>3. tasks[t].pc = "removing" BY <1>5 DEF Removed, Task
    <3>4. OnlyLeft(Host, left, t, R) BY <1>1, <3>2, RestSet
    <3> QED BY <1>1, <3>3, <3>4 DEF OnlyLeft
  <2>5. PICK s : s = Uninstalled(left.plugins[p]) OBVIOUS
  <2>6. s.provider = plugins[p].provider BY <1>1, <2>2, <2>4, <2>5 DEF Uninstalled, PluginShape
  <2>7. PICK gone : gone = PutPlugin(left, p, s) OBVIOUS
  <2>8. Moves(left, gone, t, p) /\ gone.tasks = left.tasks /\ gone.plugins[p] = s
    BY <2>2, <2>4, <2>7, PluginMoves
  <2>9. gone.disturbed = disturbed
    <3>1. left.disturbed = gone.disturbed BY <2>4, <2>7 DEF PutPlugin, IsHost
    <3> QED BY <2>4, <3>1
  <2>10. gone = [left EXCEPT !.plugins[p].record = 0, !.plugins[p].installed = FALSE,
                             !.plugins[p].disabled = FALSE]
    BY <2>5, <2>7 DEF PutPlugin, Uninstalled
  <2>11. PICK h \in {left, gone} : SetHost(IF tasks[t].rest = {p} THEN End(h, t) ELSE h)
    BY <2>1, <2>3, <2>10
  <2>12. \A q \in Plugins : h.plugins[q].provider = plugins[q].provider
    BY <2>4, <2>6, <2>8, <2>11 DEF Moves
  <2>13. /\ IsHost(h) /\ h.disturbed = disturbed /\ DOMAIN h.tasks = DOMAIN tasks
         /\ \A u \in DOMAIN tasks \ {t} : h.tasks[u] = tasks[u]
         /\ h.tasks[t].pc = "removing"
    BY <2>4, <2>8, <2>9, <2>11 DEF Moves
  <2>14. PICK g : g = IF tasks[t].rest = {p} THEN End(h, t) ELSE h OBVIOUS
  <2>15. SetHost(g) BY <2>11, <2>14
  <2> QED BY <1>3, <2>12, <2>13, <2>14, <2>15
<1> QED BY <1>4, <1>5

\* Lemma: a load goes on, or fails.
LEMMA LoadSteps ==
    ASSUME HostInv(Host), NEW t \in DOMAIN tasks,
           Imported(t) \/ ImportFails(t) \/ Provide(t) \/ EntryThrows(t) \/ EntryReturns(t)
    PROVE  Steps(t) /\ tasks[t].op # "uninstall"
<1>1. /\ IsHost(Host) /\ Host.plugins = plugins /\ Host.tasks = tasks
      /\ Host.disturbed = disturbed /\ Based(Host, t)
  BY AtBase
<1>2. tasks[t].pc \in {"importing", "activating"}
  BY DEF Imported, ImportFails, Provide, EntryThrows, EntryReturns
<1>3. PICK p : p = tasks[t].cur OBVIOUS
<1>4. p \in Plugins /\ p \in tasks[t].on /\ tasks[t].op # "uninstall"
  <2>1. tasks[t] \in TaskShape /\ Placed(tasks[t]) BY InTurn
  <2> QED BY <1>2, <1>3, <2>1 DEF TaskShape, Placed
<1>5. PICK i : i = tasks[t].run OBVIOUS
<1>6. ASSUME NEW g, Moves(Host, g, t, p), TaskInOrder(g.tasks[t]), SetHost(g) PROVE Steps(t)
  <2>1. disturbed \subseteq g.disturbed BY <1>1, <1>6 DEF Moves
  <2>2. Alone(g, t, p) BY <1>2, <1>4, <2>1, AloneAtWork
  <2> QED BY <1>1, <1>4, <1>6, <2>2, Turn
<1>7. ASSUME NEW g, Moves(Host, g, t, p), Settled(g, t, p), SetHost(g) PROVE Steps(t)
  <2>1. g.tasks[t].op # "uninstall" BY <1>1, <1>4, <1>7 DEF Moves, SameCall
  <2>2. TaskInOrder(g.tasks[t]) BY <1>7, <2>1 DEF TaskInOrder, Settled
  <2> QED BY <1>6, <1>7, <2>2
\* A change of the plugin moves it, and the task stays in order.
<1>8. ASSUME NEW h, Moves(Host, h, t, p), NEW s
      PROVE  Moves(Host, PutPlugin(h, p, s), t, p) /\ PutPlugin(h, p, s).tasks = h.tasks
  <2>1. IsHost(h) /\ t \in DOMAIN h.tasks BY <1>1, <1>8 DEF Moves
  <2>2. Moves(h, PutPlugin(h, p, s), t, p) /\ PutPlugin(h, p, s).tasks = h.tasks
    BY <1>4, <2>1, PluginMoves
  <2> QED BY <1>1, <1>8, <2>2, MovesOn
<1>9. \A s : Moves(Host, PutPlugin(Host, p, s), t, p) /\ PutPlugin(Host, p, s).tasks = tasks
  BY <1>1, <1>4, PluginMoves
<1>10. Moves(Host, Host, t, p) BY <1>1 DEF Moves, SameCall
<1>11. ASSUME NEW h, NEW g, Moves(Host, h, t, p)
       PROVE  \E f : f = HoldInGroup(h, p, g) /\ Moves(Host, f, t, p) /\ f.tasks = h.tasks
  <2>1. PICK s : s = [h.plugins[p] EXCEPT !.groups[g].holds = TRUE] OBVIOUS
  <2>2. HoldInGroup(h, p, g) = h \/ HoldInGroup(h, p, g) = PutPlugin(h, p, s)
    BY <2>1 DEF HoldInGroup, PutPlugin
  <2> QED BY <1>8, <1>11, <2>2
<1>12. CASE ImportFails(t) \/ EntryThrows(t)
  <2>1. SetHost(Fails(Host, t)) \/ SetHost(Throws(Host, t)) BY <1>12 DEF ImportFails, EntryThrows
  <2>2. /\ Moves(Host, Fails(Host, t), t, p) /\ Settled(Fails(Host, t), t, p)
        /\ Moves(Host, Throws(Host, t), t, p) /\ Settled(Throws(Host, t), t, p)
    BY <1>1, <1>3, <1>4, ThrowsMoves
  <2> QED BY <1>4, <1>7, <2>1, <2>2
<1>13. CASE Imported(t)
  <2>1. PICK h : /\ h = HoldInGroup(Host, p, GroupOf(Host, t)) /\ Moves(Host, h, t, p)
                 /\ h.tasks = tasks
    BY <1>1, <1>10, <1>11
  <2>2. PICK s : s = [h.plugins[p] EXCEPT !.runs = Append(@, [state |-> "activating", provided |-> FALSE])]
    OBVIOUS
  <2>3. PICK e : e = PutPlugin(h, p, s) OBVIOUS
  <2>4. Moves(Host, e, t, p) /\ e.tasks = tasks BY <1>8, <2>1, <2>3
  <2>5. IsHost(e) /\ t \in DOMAIN e.tasks BY <2>4 DEF Moves
  <2>6. PICK n : n = Len(plugins[p].runs) + 1 OBVIOUS
  <2>7. PICK k : k = [e.tasks[t] EXCEPT !.run = n] OBVIOUS
  <2>8. SameCall(e.tasks[t], k)
    <3>1. DOMAIN e.tasks[t] = {"op", "plugin", "on", "rest", "pc", "held", "cur", "obj", "run"}
      BY <2>5 DEF IsHost
    <3> QED BY <2>7, <3>1 DEF SameCall
  <2>9. PICK f : f = PutTask(e, t, k) OBVIOUS
  <2>10. Moves(e, f, t, p) BY <2>5, <2>8, <2>9, TaskMoves
  <2>11. IsHost(f) /\ t \in DOMAIN f.tasks BY <2>5, <2>10 DEF Moves
  <2>12. PICK g : g = At(f, t, "activating") OBVIOUS
  <2>13. Moves(f, g, t, p) /\ g.tasks[t].pc = "activating" BY <2>11, <2>12, AtMoves
  <2>14. Moves(Host, g, t, p)
    <3>1. Moves(Host, f, t, p) BY <1>1, <2>4, <2>10, MovesOn
    <3> QED BY <1>1, <2>13, <3>1, MovesOn
  <2>15. SetHost(g)
    <3>1. f = [h EXCEPT !.plugins[p].runs = Append(@, [state |-> "activating", provided |-> FALSE]),
                        !.tasks[t].run = n]
      BY <2>2, <2>3, <2>7, <2>9 DEF PutPlugin, PutTask
    <3> QED BY <1>3, <1>13, <2>1, <2>6, <2>12, <3>1, Zenon DEF Imported
  <2>16. TaskInOrder(g.tasks[t]) BY <2>13 DEF TaskInOrder
  <2> QED BY <1>4, <1>6, <2>14, <2>15, <2>16
<1>14. CASE Provide(t)
  <2>1. PICK grp : grp = GroupOf(Host, t) OBVIOUS
  <2>2. PICK e : e = PutPlugin(Host, p, Provides(plugins[p], i)) OBVIOUS
  <2>3. Moves(Host, e, t, p) /\ e.tasks = tasks BY <1>9, <2>2
  <2>4. PICK h : h = HoldInGroup(e, p, grp) /\ Moves(Host, h, t, p) /\ h.tasks = tasks
    BY <1>11, <2>3
  <2>5. IsHost(h) /\ t \in DOMAIN h.tasks BY <2>4 DEF Moves
  <2>6. Moves(h, Withdraw(h, p), t, p) /\ Withdraw(h, p).tasks = tasks
    BY <1>4, <2>4, <2>5, StatusMoves
  <2>7. Moves(Host, Withdraw(h, p), t, p) BY <1>1, <2>4, <2>6, MovesOn
  <2>8. SetHost(Throws(Host, t)) \/ SetHost(Withdraw(h, p)) \/ SetHost(h)
    <3>1. e = [Host EXCEPT !.plugins[p].runs[i].provided = TRUE, !.plugins[p].provider = i]
      BY <1>1, <2>2 DEF PutPlugin, Provides
    <3>2. \/ SetHost(Throws(Host, t))
          \/ LET x == HoldInGroup([Host EXCEPT !.plugins[p].runs[i].provided = TRUE,
                                               !.plugins[p].provider = i], p, grp)
             IN  SetHost(Withdraw(x, p)) \/ SetHost(x)
      BY <1>3, <1>5, <1>14, <2>1 DEF Provide
    <3> QED BY <2>4, <3>1, <3>2
  <2>9. Moves(Host, Throws(Host, t), t, p) /\ Settled(Throws(Host, t), t, p)
    BY <1>1, <1>3, <1>4, ThrowsMoves
  <2>10. TaskInOrder(tasks[t]) BY <1>2 DEF TaskInOrder
  <2>11. CASE SetHost(Throws(Host, t)) BY <1>4, <1>7, <2>9, <2>11
  <2>12. CASE SetHost(Withdraw(h, p)) BY <1>4, <1>6, <2>6, <2>7, <2>10, <2>12
  <2>13. CASE SetHost(h) BY <1>4, <1>6, <2>4, <2>10, <2>13
  <2> QED BY <2>8, <2>11, <2>12, <2>13
<1>15. CASE EntryReturns(t)
  <2>1. PICK o : o = tasks[t].obj OBVIOUS
  <2>2. PICK e : e = PutPlugin(Host, p, RunSet(plugins[p], i, "up")) OBVIOUS
  <2>3. PICK f : f = PutPlugin(e, p, [e.plugins[p] EXCEPT !.objects[o].disposer = i]) OBVIOUS
  <2>4. Moves(Host, e, t, p) BY <1>9, <2>2
  <2>5. Moves(Host, f, t, p) BY <1>8, <2>3, <2>4
  <2>6. IsHost(f) /\ t \in DOMAIN f.tasks BY <1>1, <2>5 DEF Moves
  <2>7. PICK h : h = SetStatus(f, p, o, "active") OBVIOUS
  <2>8. Moves(f, h, t, p) BY <1>4, <2>6, <2>7, StatusMoves
  <2>9. Moves(Host, h, t, p) BY <1>1, <2>5, <2>8, MovesOn
  <2>10. PICK g : g = Loaded(h, t) OBVIOUS
  <2>11. Moves(Host, g, t, p) /\ Settled(g, t, p) BY <1>1, <2>9, <2>10, LoadedAfter
  <2>12. SetHost(g)
    <3>1. f = [Host EXCEPT !.plugins[p].runs[i].state = "up", !.plugins[p].objects[o].disposer = i]
      BY <1>1, <2>2, <2>3 DEF PutPlugin, RunSet
    <3> QED BY <1>3, <1>5, <1>15, <2>1, <2>7, <2>10, <3>1, Zenon DEF EntryReturns
  <2> QED BY <1>4, <1>7, <2>11, <2>12
<1> QED BY <1>12, <1>13, <1>14, <1>15

\* Lemma: a plugin is unloaded, the next of an uninstallation: those that need
\* it have been before.
LEMMA UnloadNextSteps ==
    ASSUME HostInv(Host), NEW t \in DOMAIN tasks, UnloadNext(t)
    PROVE  /\ Steps(t) /\ tasks[t].op = "uninstall" /\ tasks[t].pc = "unloaded"
           /\ \E p \in tasks[t].rest :
                 /\ \A q \in tasks[t].rest : p \notin Needs[q]
                 /\ \A q \in Plugins \ {p} : plugins'[q] = plugins[q]
<1>1. /\ IsHost(Host) /\ Host.plugins = plugins /\ Host.tasks = tasks
      /\ Host.disturbed = disturbed
  BY AtBase
<1>2. tasks[t].op = "uninstall" /\ tasks[t].pc = "unloaded" BY DEF UnloadNext, Task
<1>3. PICK p \in tasks[t].rest :
          /\ \A q \in tasks[t].rest : p \notin Needs[q]
          /\ SetHost(Unload([Host EXCEPT !.tasks[t].rest = @ \ {p}], t, p))
  BY DEF UnloadNext
<1>4. p \in Plugins /\ p \in tasks[t].on
  <2>1. tasks[t] \in TaskShape /\ Placed(tasks[t]) BY InTurn
  <2> QED BY <1>2, <2>1 DEF TaskShape, Placed
<1>5. PICK R : R = Host.tasks[t].rest \ {p} OBVIOUS
<1>6. PICK f : f = LeftTo(Host, t, R) OBVIOUS
<1>7. OnlyLeft(Host, f, t, R) BY <1>1, <1>6, RestSet
<1>8. Based(f, t) BY <1>1, <1>7 DEF Based, OnlyLeft
<1>9. /\ IsHost(f) /\ t \in DOMAIN f.tasks /\ f.tasks[t].op = "uninstall"
      /\ \A q \in f.tasks[t].rest : p \notin Needs[q]
  BY <1>1, <1>2, <1>3, <1>5, <1>7 DEF OnlyLeft
<1>10. Unloading(f, t, p) BY <1>9 DEF Unloading
<1>11. PICK g : g = Unload(f, t, p) OBVIOUS
<1>12. Moves(f, g, t, p) /\ Settled(g, t, p) BY <1>4, <1>9, <1>10, <1>11, UnloadMoves
<1>13. SetHost(g) BY <1>3, <1>5, <1>6, <1>11 DEF LeftTo
<1>14. Alone(g, t, p)
  <2>1. disturbed \subseteq g.disturbed BY <1>8, <1>12 DEF Moves, Based
  <2> QED BY <1>2, <1>4, <2>1, AloneAtWork
<1>15. Steps(t) /\ \A q \in Plugins \ {p} : plugins'[q] = plugins[q]
  BY <1>4, <1>8, <1>9, <1>12, <1>13, <1>14, SettledTurn
<1> QED BY <1>2, <1>3, <1>15

\* Lemma: the disposer of a record is over, and its plugin is stopped.
LEMMA DisposedSteps ==
    ASSUME HostInv(Host), TasksInOrder(Host), NEW t \in DOMAIN tasks, Disposed(t)
    PROVE  /\ Steps(t) /\ tasks[t].pc = "disposing"
           /\ \A q \in Plugins \ {tasks[t].cur} : plugins'[q] = plugins[q]
<1>1. /\ IsHost(Host) /\ Host.plugins = plugins /\ Host.tasks = tasks
      /\ Host.disturbed = disturbed /\ Based(Host, t)
  BY AtBase
<1>2. tasks[t].pc = "disposing" BY DEF Disposed
<1>3. PICK p : p = tasks[t].cur OBVIOUS
<1>4. p \in Plugins /\ p \in tasks[t].on /\ Unloading(Host, t, p)
  <2>1. tasks[t] \in TaskShape /\ Placed(tasks[t]) BY InTurn
  <2>2. p \in Plugins /\ p \in tasks[t].on BY <1>2, <1>3, <2>1 DEF TaskShape, Placed
  <2>3. /\ tasks[t].op \in {"disable", "reload", "uninstall"}
        /\ tasks[t].op # "uninstall" => tasks[t].plugin = p
    BY <1>2, <1>3, <2>1 DEF Placed
  <2> QED BY <1>1, <2>2, <2>3 DEF Unloading
<1>5. PICK i : i = tasks[t].run OBVIOUS
<1>6. PICK down : down = PutPlugin(Host, p, RunSet(plugins[p], i, "down")) OBVIOUS
<1>7. PICK w : w = Withdraw(down, p) OBVIOUS
<1>8. PICK h \in {Host, down, w} : \E threw \in BOOLEAN : SetHost(Unloaded(h, t, threw))
  <2>1. down = [Host EXCEPT !.plugins[p].runs[i].state = "down"]
    BY <1>1, <1>6 DEF PutPlugin, RunSet
  <2> QED BY <1>3, <1>5, <1>7, <2>1 DEF Disposed
<1>9. Moves(Host, h, t, p) /\ h.tasks = tasks
  <2>1. Moves(Host, Host, t, p) BY <1>1 DEF Moves, SameCall
  <2>2. Moves(Host, down, t, p) /\ down.tasks = tasks BY <1>1, <1>4, <1>6, PluginMoves
  <2>3. IsHost(down) /\ t \in DOMAIN down.tasks BY <1>1, <2>2 DEF Moves
  <2>4. Moves(down, w, t, p) /\ w.tasks = tasks BY <1>4, <1>7, <2>2, <2>3, StatusMoves
  <2>5. Moves(Host, w, t, p) BY <1>1, <2>2, <2>4, MovesOn
  <2> QED BY <1>1, <1>8, <2>1, <2>2, <2>4, <2>5
<1>10. IsHost(h) /\ t \in DOMAIN h.tasks /\ Unloading(h, t, p) /\ h.tasks[t].cur = p
  BY <1>1, <1>3, <1>4, <1>9 DEF Moves, Unloading
<1>11. PICK threw \in BOOLEAN : SetHost(Unloaded(h, t, threw)) BY <1>8
<1>12. PICK g : g = Unloaded(h, t, threw) OBVIOUS
<1>13. Moves(h, g, t, p) /\ Settled(g, t, p) BY <1>4, <1>10, <1>12, UnloadedMoves
<1>14. Moves(Host, g, t, p) BY <1>1, <1>9, <1>13, MovesOn
<1>15. Alone(g, t, p)
  <2>1. disturbed \subseteq g.disturbed BY <1>1, <1>14 DEF Moves
  <2> QED BY <1>2, <1>4, <2>1, AloneAtWork
<1>16. Host.tasks[t].op = "uninstall" => \A q \in Host.tasks[t].rest : p \notin Needs[q]
  BY <1>1, <1>2, <1>3 DEF TasksInOrder, TaskInOrder
<1>17. SetHost(g) BY <1>11, <1>12
<1>18. Steps(t) /\ \A q \in Plugins \ {p} : plugins'[q] = plugins[q]
  BY <1>1, <1>4, <1>13, <1>14, <1>15, <1>16, <1>17, SettledTurn
<1> QED BY <1>2, <1>3, <1>18

\* Lemma: every step is one of a task, and only two steps of an uninstallation
\* may withdraw a service.
LEMMA EachSteps ==
    ASSUME HostInv(Host), TasksInOrder(Host), HostNext
    PROVE  \/ Steps(New)
           \/ \E t \in DOMAIN tasks :
                 /\ Steps(t)
                 /\ \/ tasks[t].op # "uninstall"
                    \/ \A q \in Plugins : plugins'[q].provider = plugins[q].provider
                    \/ UnloadNext(t)
                    \/ Disposed(t)
<1>1. ASSUME NEW p \in Plugins, NEW on \in BOOLEAN, setEnabled(p, on) PROVE Steps(New)
  BY <1>1, SetEnabledSteps
<1>2. ASSUME NEW p \in Plugins, reloadPlugin(p) \/ uninstallPlugin(p) \/ install(p)
      PROVE  Steps(New)
  BY <1>2, ReloadSteps, UninstallSteps, InstallSteps
<1>3. ASSUME NEW t \in DOMAIN tasks, Saved(t) \/ SaveFails(t) \/ Scanned(t) \/ LoadNext(t)
      PROVE  Steps(t) /\ tasks[t].op # "uninstall"
  BY <1>3, SavedSteps, ScannedSteps, LoadNextSteps
<1>4. ASSUME NEW t \in DOMAIN tasks, UnloadNext(t) PROVE Steps(t)
  BY <1>4, UnloadNextSteps
<1>5. ASSUME NEW t \in DOMAIN tasks, Finish(t) \/ Removed(t)
      PROVE  Steps(t) /\ \A q \in Plugins : plugins'[q].provider = plugins[q].provider
  BY <1>5, FinishSteps
<1>6. ASSUME NEW t \in DOMAIN tasks,
             Imported(t) \/ ImportFails(t) \/ Provide(t) \/ EntryThrows(t) \/ EntryReturns(t)
      PROVE  Steps(t) /\ tasks[t].op # "uninstall"
  BY <1>6, LoadSteps
<1>7. ASSUME NEW t \in DOMAIN tasks, Disposed(t) PROVE Steps(t)
  BY <1>7, DisposedSteps
<1> QED BY <1>1, <1>2, <1>3, <1>4, <1>5, <1>6, <1>7 DEF HostNext

\* Lemma: every step keeps the order.
LEMMA InOrderNext ==
    HostInv(Host) /\ TasksInOrder(Host) /\ [HostNext]_hostVars => TasksInOrder(Host')
<1> SUFFICES ASSUME HostInv(Host), TasksInOrder(Host), [HostNext]_hostVars PROVE TasksInOrder(Host')
  OBVIOUS
<1>1. Host.tasks = tasks /\ Host'.tasks = tasks' BY DEF Host
<1>2. ASSUME NEW t, Steps(t) PROVE TasksInOrder(Host')
  BY <1>1, <1>2 DEF Steps, TasksInOrder
<1>3. CASE HostNext BY <1>2, <1>3, EachSteps
<1>4. CASE UNCHANGED hostVars BY <1>1, <1>4 DEF hostVars, TasksInOrder
<1> QED BY <1>3, <1>4

\* Lemma: a plugin that an uninstallation works on, that nobody has disturbed
\* and that it has unloaded runs nothing.
LEMMA StoppedBefore ==
    ASSUME HostInv(Host), NEW t \in DOMAIN tasks, tasks[t].op = "uninstall",
           tasks[t].pc \in {"unloaded", "disposing"},
           NEW q \in tasks[t].on \ disturbed, q \notin tasks[t].rest,
           tasks[t].pc = "disposing" => q # tasks[t].cur
    PROVE  \A i \in DOMAIN plugins[q].runs : plugins[q].runs[i].state # "up"
<1>1. PICK s : s = plugins[q] OBVIOUS
<1>2. InPhase(tasks[t], q, s) BY <1>1, InTurn
<1>3. Waits(tasks[t], q, s) BY <1>2 DEF InPhase
<1>4. Emptied(s) BY <1>3 DEF Waits
<1>5. LiveIn(s) = {}
  <2>1. CASE s.record = 0 BY <1>4, <2>1 DEF Emptied, Rest
  <2>2. CASE s.record # 0
    <3>1. Told(s) /\ Current(s).status \in {"idle", "disabled"}
      BY <1>4, <2>2 DEF Emptied, Rest
    <3> QED BY <3>1 DEF Told
  <2> QED BY <2>1, <2>2
<1> QED BY <1>1, <1>5 DEF LiveIn, LiveStates

\* Theorem: for any plugins, dependencies and number of calls, an uninstallation
\* that withdraws the service of a plugin has stopped every plugin it works on
\* that needs the service, unless another task meddled with one of the two.
THEOREM DependentsAlwaysStopFirst == HostSpec => DependentsStopFirst
<1> DEFINE Inv == HostInv(Host) /\ TasksInOrder(Host)
<1>1. HostInit => Inv
  <2>1. HostInit => Host.tasks = <<>> BY DEF HostInit, Host
  <2>2. HostInit => TasksInOrder(Host) BY <2>1 DEF TasksInOrder
  <2> QED BY <2>2, HostInvInit
<1>2. Inv /\ [HostNext]_hostVars => Inv' BY HostInvNext, InOrderNext
<1>3. Inv /\ [HostNext]_hostVars =>
          [\A t \in DOMAIN tasks, p, q \in Plugins :
              LET withdrawn == plugins[p].provider # 0 /\ plugins'[p].provider = 0
              IN  tasks[t].op = "uninstall" /\ {p, q} \subseteq tasks[t].on
                    /\ {p, q} \cap disturbed' = {} /\ p \in Needs[q] /\ withdrawn
                    => \A i \in DOMAIN plugins'[q].runs : plugins'[q].runs[i].state # "up"]_hostVars
  <2> SUFFICES ASSUME Inv, HostNext, NEW t \in DOMAIN tasks, NEW p \in Plugins, NEW q \in Plugins,
                      tasks[t].op = "uninstall", {p, q} \subseteq tasks[t].on,
                      {p, q} \cap disturbed' = {}, p \in Needs[q],
                      plugins[p].provider # 0, plugins'[p].provider = 0
               PROVE  \A i \in DOMAIN plugins'[q].runs : plugins'[q].runs[i].state # "up"
    OBVIOUS
  <2>1. tasks[t].pc # "done" /\ p \in WorkedOn(Host, t)
    <3>1. Host.tasks = tasks BY DEF Host
    <3>2. tasks[t].pc # "done" BY <3>1 DEF TasksInOrder, TaskInOrder
    <3> QED BY <3>1, <3>2 DEF WorkedOn
  <2>2. ASSUME NEW u, Steps(u) PROVE u = t
    BY <2>1, <2>2 DEF Steps
  <2>3. New \notin DOMAIN tasks
    <3>1. tasks \in Seq(TaskShape)
      <4>1. Host.tasks = tasks BY DEF Host
      <4> QED BY <4>1 DEF HostInv, HostShape
    <3> QED BY <3>1 DEF New
  <2>4. Steps(t) /\ (UnloadNext(t) \/ Disposed(t)) BY <2>2, <2>3, EachSteps
  <2>5. q \notin disturbed /\ q \in tasks[t].on BY <2>4 DEF Steps
  <2>6. CASE UnloadNext(t)
    <3>1. PICK x \in tasks[t].rest :
              /\ \A y \in tasks[t].rest : x \notin Needs[y]
              /\ \A y \in Plugins \ {x} : plugins'[y] = plugins[y]
      BY <2>6, UnloadNextSteps
    <3>2. x = p BY <3>1
    <3>3. q \notin tasks[t].rest /\ q # p BY <3>1, <3>2
    <3>4. tasks[t].pc = "unloaded" BY <2>6 DEF UnloadNext, Task
    <3>5. plugins'[q] = plugins[q] BY <3>1, <3>2, <3>3
    <3> QED BY <2>5, <3>3, <3>4, <3>5, StoppedBefore
  <2>7. CASE Disposed(t)
    <3>1. /\ tasks[t].pc = "disposing"
          /\ \A y \in Plugins \ {tasks[t].cur} : plugins'[y] = plugins[y]
      BY <2>7, DisposedSteps
    <3>2. tasks[t].cur = p BY <3>1
    <3>3. q \notin tasks[t].rest
      <4>1. Host.tasks = tasks BY DEF Host
      <4> QED BY <3>1, <3>2, <4>1 DEF TasksInOrder, TaskInOrder
    <3>4. q # p
      <4>1. \A y \in {p} : Needs[y] \cap {p} = {} BY PluginAssumption
      <4> QED BY <4>1
    <3>5. plugins'[q] = plugins[q] BY <3>1, <3>2, <3>4
    <3> QED BY <2>5, <3>1, <3>2, <3>3, <3>4, <3>5, StoppedBefore
  <2> QED BY <2>4, <2>6, <2>7
<1> QED BY <1>1, <1>2, <1>3, PTL DEF HostSpec, DependentsStopFirst
=============================================================================
