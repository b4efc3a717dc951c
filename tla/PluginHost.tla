----------------------------- MODULE PluginHost -----------------------------
(***************************************************************************)
(* The plugin host of the desktop app: PluginHost.scan, loadAll,           *)
(* loadPlugin, unloadPlugin, reloadPlugin, setEnabled, uninstallPlugin and *)
(* the installation over IPC, with the services registry, the disposer     *)
(* group of a record and the lifecycle that definePlugin gives a plugin.   *)
(* Every call is a task that awaits files, imports and the plugin's own    *)
(* code; nothing keeps two tasks apart that work on the same plugin.       *)
(*                                                                         *)
(* A plugin has a main entry and provides one service, named like itself;  *)
(* dependency cycles, which loadAll refuses to load, are left out. A       *)
(* record is an object: scan() makes new ones while a task may hold an old *)
(* one, and both share their DisposerGroup.                                *)
(***************************************************************************)
EXTENDS Naturals, Sequences, FiniteSets

CONSTANTS Plugins,   \* plugins that may be installed
          Needs,     \* the plugins whose service each of them declares to inject
          Legacy,    \* plugins whose entry was not made by definePlugin
          MaxTasks,  \* bound: calls of the host
          MaxScans   \* bound: installations that run at the same time

ASSUME PluginAssumption ==
    /\ Legacy \subseteq Plugins
    /\ Needs \in [Plugins -> SUBSET Plugins]
    /\ \A S \in SUBSET Plugins : S # {} => \E p \in S : Needs[p] \cap S = {}

VARIABLES
    plugins,    \* per plugin: its current record, every record, group and run
                \* of its entry, the run that provides its service (0: none),
                \* whether it is on the disk and disabled in the preferences
    tasks,      \* the calls of the host, in order
    disturbed   \* ghost: plugins two tasks worked on at once, or that were
                \* enabled while active, or active when loadAll found their
                \* service missing, or whose cleanup or preference failed

hostVars == <<plugins, tasks, disturbed>>

Host == [plugins |-> plugins, tasks |-> tasks, disturbed |-> disturbed]
SetHost(h) == plugins' = h.plugins /\ tasks' = h.tasks /\ disturbed' = h.disturbed

NewGroup == [disposed |-> FALSE, holds |-> FALSE]
Known(h) == {p \in Plugins : h.plugins[p].record # 0}
RecordOf(h, p) == h.plugins[p].objects[h.plugins[p].record]
Live(p) == {i \in DOMAIN plugins[p].runs :
               plugins[p].runs[i].state \in {"activating", "up", "stopping"}}
WorkedOn(h, t) == IF h.tasks[t].pc = "done" THEN {} ELSE h.tasks[t].on

\* collectDependents: the known plugins that need p, directly or not
Dependents(p) ==
    LET closed == {D \in SUBSET Known(Host) :
                      \A q \in Known(Host) : Needs[q] \cap (D \union {p}) # {} => q \in D}
    IN  {q \in Known(Host) : \A D \in closed : q \in D}

At(h, t, pc) == [h EXCEPT !.tasks[t].pc = pc]
End(h, t) == [h EXCEPT !.tasks[t] = [@ EXCEPT !.pc = "done", !.on = {}, !.held = 0,
                                              !.obj = 0, !.run = 0, !.cur = h.tasks[t].plugin]]
MarkDisturbed(h, S) == [h EXCEPT !.disturbed = @ \union S]
SetStatus(h, p, o, status) == [h EXCEPT !.plugins[p].objects[o].status = status]
Withdraw(h, p) == [h EXCEPT !.plugins[p].provider = 0]

\* Task t works on the plugins S from here on.
Take(h, t, S) ==
    MarkDisturbed([h EXCEPT !.tasks[t].on = S],
            {p \in S : \E u \in DOMAIN h.tasks \ {t} : p \in WorkedOn(h, u)})

\* The group of the record that task t holds; what is added to a group that
\* was disposed of is disposed of at once.
GroupOf(h, t) == h.plugins[h.tasks[t].cur].objects[h.tasks[t].obj].group

HoldInGroup(h, p, g) ==
    IF h.plugins[p].groups[g].disposed THEN h
    ELSE [h EXCEPT !.plugins[p].groups[g].holds = TRUE]

-----------------------------------------------------------------------------
(* loadPlugin                                                              *)

\* What a task does when its load is over: loadAll goes on, the others end.
Loaded(h, t) ==
    IF h.tasks[t].op = "install" THEN At(Take(h, t, {}), t, "loaded") ELSE End(h, t)

\* loadPlugin(record), up to the import of the main entry
Load(h, t, p, o) ==
    LET object == h.plugins[p].objects[o]
        held   == [h EXCEPT !.tasks[t].cur = p, !.tasks[t].obj = o]
    IN  CASE ~object.enabled -> Loaded(SetStatus(held, p, o, "disabled"), t)
          [] object.enabled /\ object.status = "active" -> Loaded(held, t)
          [] OTHER -> At(SetStatus(held, p, o, "loading"), t, "importing")

\* The import, the compatibility check or the plugin's own code has thrown.
Fails(h, t) == Loaded(SetStatus(h, h.tasks[t].cur, h.tasks[t].obj, "error"), t)

\* The entry throws: definePlugin disposes of the plugin's scope, and with it
\* of the service; what another entry has provided stays in the group.
Throws(h, t) ==
    LET p      == h.tasks[t].cur
        i      == h.tasks[t].run
        failed == [h EXCEPT !.plugins[p].runs[i].state = "failed"]
    IN  Fails(IF h.plugins[p].runs[i].provided /\ p \notin Legacy
              THEN Withdraw(failed, p) ELSE failed, t)

-----------------------------------------------------------------------------
(* unloadPlugin                                                            *)

\* The task goes on: setEnabled(false) marks the record it holds, reload loads.
AfterUnload(h, t) ==
    LET p == h.tasks[t].plugin
        loads == p \in Known(h) /\ RecordOf(h, p).enabled
    IN  CASE h.tasks[t].op = "disable" ->
                End(SetStatus(h, p, h.tasks[t].held, "disabled"), t)
          [] h.tasks[t].op = "reload" /\ loads  -> Load(h, t, p, h.plugins[p].record)
          [] h.tasks[t].op = "reload" /\ ~loads -> End(h, t)
          [] h.tasks[t].op = "uninstall"        -> At(h, t, "unloaded")

Idle(h, p, o) ==
    SetStatus(h, p, o, IF h.plugins[p].objects[o].enabled THEN "idle" ELSE "disabled")

\* What follows the disposer of the record: when it has thrown, the group is
\* replaced by a new one without being disposed of.
Unloaded(h, t, threw) ==
    LET p == h.tasks[t].cur
        o == h.tasks[t].obj
        d == IF threw THEN MarkDisturbed(h, {p})
             ELSE [h EXCEPT !.plugins[p].groups[GroupOf(h, t)] =
                                [disposed |-> TRUE, holds |-> FALSE]]
        r == [d EXCEPT !.plugins[p].groups = Append(@, NewGroup),
                       !.plugins[p].objects[o].group = Len(h.plugins[p].groups) + 1,
                       !.plugins[p].objects[o].disposer = 0]
    IN  AfterUnload(Idle(Withdraw(r, p), p, o), t)

\* unloadPlugin(p), up to the await of the plugin's own disposer, which does
\* its work the first time it is called.
Unload(h, t, p) ==
    LET o      == h.plugins[p].record
        object == h.plugins[p].objects[o]
        held   == [h EXCEPT !.tasks[t].cur = p, !.tasks[t].obj = o]
        i      == object.disposer
        works  == object.status \in {"active", "error", "loading"}
        first  == h.plugins[p].runs[i].state = "up"
    IN  CASE o = 0                      -> AfterUnload(h, t)
          [] o # 0 /\ ~works            -> AfterUnload(Idle(h, p, o), t)
          [] o # 0 /\ works /\ i = 0    -> Unloaded(held, t, FALSE)
          [] OTHER -> At([held EXCEPT !.tasks[t].run = IF first THEN i ELSE 0,
                                      !.plugins[p].runs[i].state =
                                          IF first THEN "stopping" ELSE @],
                         t, "disposing")

-----------------------------------------------------------------------------
(* The calls of the host: IPC, and the plugin API of other plugins.        *)

\* plugin: the argument; on: the plugins it works on; rest: the plugins left
\* to load, unload or remove; held: the record setEnabled has got; cur, obj,
\* run: the plugin, the record and the run its load or unload has got
NewTask(op, p) == [op |-> op, plugin |-> p, on |-> {}, rest |-> {}, pc |-> "begun",
                   held |-> plugins[p].record, cur |-> p, obj |-> 0, run |-> 0]

New == Len(tasks) + 1
MayCall == Len(tasks) < MaxTasks
Called(op, p, S) == Take([Host EXCEPT !.tasks = Append(@, NewTask(op, p))], New, S)

setEnabled(p, on) ==
    /\ MayCall /\ p \in Known(Host)
    /\ LET h == Called(IF on THEN "enable" ELSE "disable", p, {p})
           again == on /\ RecordOf(Host, p).status = "active"
       IN  SetHost(At(MarkDisturbed([h EXCEPT
                                 !.plugins[p].objects[plugins[p].record].enabled = on,
                                 !.plugins[p].disabled = ~on],
                              IF again THEN {p} ELSE {}), New, "saving"))

reloadPlugin(p) ==
    /\ MayCall /\ p \in Known(Host)
    /\ SetHost(Unload(Called("reload", p, {p}), New, p))

uninstallPlugin(p) ==
    /\ MayCall /\ p \in Known(Host)
    /\ LET S == {p} \union Dependents(p)
       IN  SetHost(At([Called("uninstall", p, S) EXCEPT !.tasks[New].rest = S],
                      New, "unloaded"))

\* An installation: scan() will read the manifests, among them that of p. The
\* app's start does the same with what is on the disk.
install(p) ==
    /\ MayCall
    /\ Cardinality({t \in DOMAIN tasks : tasks[t].op = "install" /\ tasks[t].pc # "done"})
           < MaxScans
    /\ SetHost(At(Called("install", p, {}), New, "scanning"))

-----------------------------------------------------------------------------
(* The steps of a task.                                                    *)

Task(t, ops, pc) == tasks[t].op \in ops /\ tasks[t].pc = pc

\* The preference is saved: the plugin is unloaded, or made idle and loaded.
Saved(t) ==
    /\ Task(t, {"enable", "disable"}, "saving")
    /\ LET p == tasks[t].plugin
           o == tasks[t].held
       IN  SetHost(IF tasks[t].op = "disable" THEN Unload(Host, t, p)
                   ELSE Load(SetStatus(Host, p, o, "idle"), t, p, o))

SaveFails(t) ==
    /\ Task(t, {"enable", "disable"}, "saving")
    /\ SetHost(MarkDisturbed(End(Host, t), {tasks[t].plugin}))

\* The end of scan(), and the head of loadAll: new records that keep status,
\* disposer and group, and an error where a service is missing.
Scanned(t) ==
    /\ Task(t, {"install"}, "scanning")
    /\ LET onDisk == {p \in Plugins : plugins[p].installed} \union {tasks[t].plugin}
           on     == {p \in onDisk : ~plugins[p].disabled}
           status(p, was) == CASE p \notin on              -> "disabled"
                               [] p \in on /\ ~(Needs[p] \subseteq on) -> "error"
                               [] OTHER                    -> was
           scanned(p) ==
               LET s == plugins[p]
                   n == Len(s.objects) + 1
               IN  IF p \in Known(Host)
                   THEN [s EXCEPT !.record = n, !.objects = Append(@,
                           [RecordOf(Host, p) EXCEPT !.enabled = p \in on,
                                                     !.status = status(p, @)])]
                   ELSE [s EXCEPT !.record = n, !.installed = TRUE,
                           !.groups = Append(@, NewGroup),
                           !.objects = Append(@,
                             [enabled |-> p \in on, status |-> status(p, "idle"),
                              group |-> Len(s.groups) + 1, disposer |-> 0])]
           busy == UNION {WorkedOn(Host, u) : u \in DOMAIN tasks}
           lost == {p \in Known(Host) : RecordOf(Host, p).status = "active"
                                            /\ status(p, "active") # "active"}
       IN  SetHost(At(MarkDisturbed([Host EXCEPT
                 !.plugins = [p \in Plugins |-> IF p \in onDisk THEN scanned(p) ELSE plugins[p]],
                 !.tasks[t].rest = on], busy \union lost), t, "loaded"))

\* loadAll takes the next plugin, its providers before it.
LoadNext(t) ==
    /\ Task(t, {"install"}, "loaded")
    /\ \E p \in tasks[t].rest :
          /\ Needs[p] \cap tasks[t].rest = {}
          /\ LET h == [Host EXCEPT !.tasks[t].rest = @ \ {p}]
             IN  SetHost(IF p \notin Known(Host) \/ ~RecordOf(Host, p).enabled THEN h
                         ELSE Load(Take(h, t, {p}), t, p, plugins[p].record))

BugUnloadNext(t) ==
    /\ Task(t, {"uninstall"}, "unloaded")
    /\ \E p \in tasks[t].rest :
          SetHost(Unload([Host EXCEPT !.tasks[t].rest = @ \ {p}], t, p))

\* uninstallPlugin unloads the next plugin, the dependents before the target.
UnloadNext(t) ==
    /\ Task(t, {"uninstall"}, "unloaded")
    /\ \E p \in tasks[t].rest :
          /\ \A q \in tasks[t].rest : p \notin Needs[q]
          /\ SetHost(Unload([Host EXCEPT !.tasks[t].rest = @ \ {p}], t, p))

\* loadAll is over; uninstallPlugin goes on to remove what it has unloaded.
Finish(t) ==
    /\ tasks[t].rest = {}
    /\ \/ Task(t, {"install"}, "loaded") /\ SetHost(End(Host, t))
       \/ /\ Task(t, {"uninstall"}, "unloaded")
          /\ SetHost(At([Host EXCEPT !.tasks[t].rest = tasks[t].on], t, "removing"))

\* removePluginRecord: the files, the record and the preferences of p are gone.
Removed(t) ==
    /\ Task(t, {"uninstall"}, "removing")
    /\ \E p \in tasks[t].rest :
          /\ \A q \in tasks[t].rest : p \notin Needs[q]
          /\ LET left == [Host EXCEPT !.tasks[t].rest = @ \ {p}]
                 h    == IF p \notin Known(Host) THEN left
                         ELSE [left EXCEPT !.plugins[p].record = 0,
                                           !.plugins[p].installed = FALSE,
                                           !.plugins[p].disabled = FALSE]
             IN  SetHost(IF tasks[t].rest = {p} THEN End(h, t) ELSE h)

\* The main entry is imported, and its context made: the record's group holds
\* the channels of the plugin's RPC, and the entry begins to run.
Imported(t) ==
    /\ tasks[t].pc = "importing"
    /\ LET p == tasks[t].cur
           h == HoldInGroup(Host, p, GroupOf(Host, t))
       IN  SetHost(At([h EXCEPT
               !.plugins[p].runs = Append(@, [state |-> "activating", provided |-> FALSE]),
               !.tasks[t].run = Len(plugins[p].runs) + 1], t, "activating"))

ImportFails(t) ==
    /\ tasks[t].pc = "importing"
    /\ SetHost(Fails(Host, t))

\* The entry provides its service; a second provider of it throws.
Provide(t) ==
    /\ tasks[t].pc = "activating"
    /\ LET p == tasks[t].cur
           i == tasks[t].run
           g == GroupOf(Host, t)
           h == HoldInGroup([Host EXCEPT !.plugins[p].runs[i].provided = TRUE,
                                         !.plugins[p].provider = i], p, g)
       IN  /\ ~plugins[p].runs[i].provided
           /\ SetHost(CASE plugins[p].provider # 0       -> Throws(Host, t)
                        [] plugins[p].provider = 0 /\ plugins[p].groups[g].disposed ->
                              Withdraw(h, p)
                        [] OTHER                         -> h)

EntryThrows(t) ==
    /\ tasks[t].pc = "activating"
    /\ SetHost(Throws(Host, t))

BugEntryReturns(t) ==
    /\ tasks[t].pc = "activating"
    /\ LET p == tasks[t].cur
           o == tasks[t].obj
           i == tasks[t].run
       IN  SetHost(Loaded(SetStatus([Host EXCEPT
               !.plugins[p].runs[i].state = "up"], p, o, "active"), t))

\* The entry returns its cleanup: the plugin is active.
EntryReturns(t) ==
    /\ tasks[t].pc = "activating"
    /\ LET p == tasks[t].cur
           o == tasks[t].obj
           i == tasks[t].run
       IN  SetHost(Loaded(SetStatus([Host EXCEPT
               !.plugins[p].runs[i].state = "up",
               !.plugins[p].objects[o].disposer = i], p, o, "active"), t))

\* The record's disposer is over: it has disposed of the scope of its run. It
\* may throw, when a phase of it has.
Disposed(t) ==
    /\ tasks[t].pc = "disposing"
    /\ LET p == tasks[t].cur
           i == tasks[t].run
           down == [Host EXCEPT !.plugins[p].runs[i].state = "down"]
           h == CASE i = 0                       -> Host
                  [] i # 0 /\ plugins[p].runs[i].provided /\ p \notin Legacy -> Withdraw(down, p)
                  [] OTHER                       -> down
       IN  \E threw \in BOOLEAN : SetHost(Unloaded(h, t, threw))

-----------------------------------------------------------------------------
HostInit ==
    /\ plugins = [p \in Plugins |-> [record |-> 0, objects |-> <<>>, groups |-> <<>>,
                                     runs |-> <<>>, provider |-> 0,
                                     installed |-> FALSE, disabled |-> FALSE]]
    /\ tasks = <<>>
    /\ disturbed = {}

HostNext ==
    \/ \E p \in Plugins :
          \/ \E on \in BOOLEAN : setEnabled(p, on)
          \/ reloadPlugin(p) \/ uninstallPlugin(p) \/ install(p)
    \/ \E t \in DOMAIN tasks :
          \/ Saved(t) \/ SaveFails(t) \/ Scanned(t) \/ LoadNext(t) \/ UnloadNext(t)
          \/ Finish(t) \/ Removed(t) \/ Imported(t) \/ ImportFails(t) \/ Provide(t)
          \/ EntryThrows(t) \/ EntryReturns(t) \/ Disposed(t)

HostSpec == HostInit /\ [][HostNext]_hostVars

-----------------------------------------------------------------------------
Statuses == {"idle", "disabled", "loading", "active", "error"}

\* No two tasks meddled with p, and none works on it.
Quiet(p) == p \notin disturbed /\ \A t \in DOMAIN tasks : p \notin WorkedOn(Host, t)

\* Records refer to groups and runs of their plugin, and the group of a record
\* that can be loaded again is not disposed of.
HostTypeOK ==
    /\ \A p \in Plugins : LET s == plugins[p] IN
          /\ s.record \in 0..Len(s.objects)
          /\ s.provider \in 0..Len(s.runs)
          /\ s.installed \in BOOLEAN /\ s.disabled \in BOOLEAN
          /\ s.objects \in Seq([enabled : BOOLEAN, status : Statuses,
                                group : 1..Len(s.groups), disposer : 0..Len(s.runs)])
          /\ s.groups \in Seq([disposed : BOOLEAN, holds : BOOLEAN])
          /\ s.runs \in Seq([state : {"activating", "up", "stopping", "down", "failed"},
                             provided : BOOLEAN])
    /\ \A t \in DOMAIN tasks :
          /\ tasks[t].op \in {"enable", "disable", "reload", "uninstall", "install"}
          /\ tasks[t].plugin \in Plugins /\ tasks[t].cur \in Plugins
          /\ tasks[t].on \subseteq Plugins /\ tasks[t].rest \subseteq Plugins
          /\ tasks[t].pc \in {"saving", "scanning", "loaded", "unloaded", "removing",
                              "importing", "activating", "disposing", "done"}
    /\ disturbed \subseteq Plugins
    /\ \A p \in Known(Host) :
          Quiet(p) => ~plugins[p].groups[RecordOf(Host, p).group].disposed

\* When no two tasks meddled with a plugin and none works on it, its status
\* says what runs: an active plugin has exactly one run, which its record can
\* stop, any other has none, and one that is not active or in error offers
\* no service, through any number of reloads, failures and installations.
StatusIsTrue ==
    \A p \in Plugins : Quiet(p) =>
        IF p \notin Known(Host) THEN Live(p) = {} /\ plugins[p].provider = 0
        ELSE LET r == RecordOf(Host, p) IN
             /\ r.status # "loading"
             /\ Live(p) = IF r.status = "active" THEN {r.disposer} ELSE {}
             /\ r.status \in {"idle", "disabled"} => plugins[p].provider = 0

\* However tasks overlap, code that has been stopped, or that failed to start,
\* offers no service to other plugins, unless definePlugin did not make it.
OfferedByTheLiving ==
    \A p \in Plugins \ Legacy : plugins[p].provider # 0 => plugins[p].provider \in Live(p)

\* What a plugin has registered is released with the record it belongs to: the
\* only group that holds anything is the one of the current record.
NothingLeaks ==
    \A p \in Plugins : Quiet(p) =>
        \A g \in DOMAIN plugins[p].groups :
            plugins[p].groups[g].holds => p \in Known(Host) /\ RecordOf(Host, p).group = g

\* An uninstallation stops the plugins that need a service before the plugin
\* that provides it.
DependentsStopFirst ==
    [][\A t \in DOMAIN tasks, p, q \in Plugins :
          LET withdrawn == plugins[p].provider # 0 /\ plugins'[p].provider = 0
          IN  tasks[t].op = "uninstall" /\ {p, q} \subseteq tasks[t].on
                /\ {p, q} \cap disturbed' = {} /\ p \in Needs[q] /\ withdrawn
                => \A i \in DOMAIN plugins'[q].runs : plugins'[q].runs[i].state # "up"]_hostVars

\* A plugin whose declared service nobody provides is not activated.
MissingBlocksLoad ==
    [][\A p \in Plugins : p \in Known(Host) /\ plugins'[p].record = plugins[p].record =>
          (plugins[p].objects[plugins[p].record].status # "active"
             /\ plugins'[p].objects[plugins[p].record].status = "active"
                => \A q \in Needs[p] : q \in Known(Host))]_hostVars

\* Statuses, services and registrations are those of the code that runs, after
\* any number of reloads, failures and installations.
HostIsTrue == StatusIsTrue /\ OfferedByTheLiving /\ NothingLeaks
=============================================================================
