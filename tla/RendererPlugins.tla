--------------------------- MODULE RendererPlugins ---------------------------
(***************************************************************************)
(* The plugin host of a window (createDesktopPluginHost): it hears from    *)
(* the main process which plugins are active, and loads and unloads their  *)
(* renderer entries one after the other, in one synchronisation at a time. *)
(* A payload is the set of the plugins that should run in this window.     *)
(* Not modelled: the settings and services of a plugin's context, the end  *)
(* of the window, a second refresh while one is under way, a reload, which *)
(* sends two payloads and is noticed when a synchronisation sees the first.*)
(***************************************************************************)
EXTENDS Naturals, Sequences, SequencesExt

CONSTANTS Extensions,       \* plugins with a renderer entry
          Version2,         \* those of API version 2, which need the desktop API
          Faulty,           \* those whose entry may be missing, and whose code may throw
          MaxPayloads       \* bound: payloads on their way

ASSUME RendererAssumption == Version2 \union Faulty \subseteq Extensions /\ MaxPayloads \in Nat

VARIABLES
    truth,            \* what is active in the main process
    onState,          \* payloads on their way to the window
    refreshing,       \* refresh(): its list, and whether a payload has overtaken it
    installed,        \* installed.value
    overtaken,        \* ghost: a refresh has put an older list over a payload
    syncing,          \* the synchronisation under way
    pendingSync,
    desktopApi,       \* attachDesktopApi was called
    rendererRuntimes, \* plugins with a record in the map
    groups,           \* per plugin: contexts not disposed of, while it is not in leaking
    failed,           \* ghost: plugins whose last load failed or found no entry
    leaking           \* ghost: plugins whose factory or disposer has thrown

rendererVars == <<truth, onState, refreshing, installed, overtaken, syncing, pendingSync,
                  desktopApi, rendererRuntimes, groups, failed, leaking>>

NoSync == [pc |-> "idle", desired |-> {}, todo |-> {}, plugin |-> {}]
NoRefresh == [pc |-> "none", list |-> {}, late |-> FALSE]

\* A synchronisation begins: it computes what is desired once.
BeginSync(list) == [pc |-> "unload", desired |-> list, plugin |-> {},
                todo |-> rendererRuntimes \ list]

BugSchedule(list) ==
    IF syncing.pc # "idle" THEN UNCHANGED <<syncing, pendingSync>>
    ELSE syncing' = BeginSync(list) /\ UNCHANGED pendingSync

scheduleRendererSync(list) ==
    IF syncing.pc # "idle" THEN pendingSync' = TRUE /\ UNCHANGED syncing
    ELSE syncing' = BeginSync(list) /\ UNCHANGED pendingSync

-----------------------------------------------------------------------------
(* The main process, and what is heard of it                                 *)

Changes ==
    /\ Len(onState) < MaxPayloads
    /\ \E active \in SUBSET Extensions \ {truth} :
          truth' = active /\ onState' = Append(onState, active)
    /\ UNCHANGED <<refreshing, installed, overtaken, syncing, pendingSync, desktopApi,
                   rendererRuntimes, groups, failed, leaking>>

\* applyPayload, from onState
Payload ==
    /\ onState # <<>>
    /\ onState' = Tail(onState)
    /\ installed' = Head(onState) /\ overtaken' = FALSE
    /\ refreshing' = [refreshing EXCEPT !.late = refreshing.pc = "listed"]
    /\ scheduleRendererSync(Head(onState))
    /\ UNCHANGED <<truth, desktopApi, rendererRuntimes, groups, failed, leaking>>

\* refresh(), also at the end of toggle, reload, uninstall and the installations:
\* it waits for the list and for the services.
Refresh ==
    /\ refreshing.pc = "none"
    /\ refreshing' = [NoRefresh EXCEPT !.pc = "asked"]
    /\ UNCHANGED <<truth, onState, installed, overtaken, syncing, pendingSync, desktopApi,
                   rendererRuntimes, groups, failed, leaking>>

Listed ==
    /\ refreshing.pc = "asked"
    /\ refreshing' = [pc |-> "listed", list |-> truth, late |-> FALSE]
    /\ UNCHANGED <<truth, onState, installed, overtaken, syncing, pendingSync, desktopApi,
                   rendererRuntimes, groups, failed, leaking>>

\* The services are there too, or the main process has failed to answer.
Refreshed ==
    /\ refreshing.pc = "listed"
    /\ refreshing' = NoRefresh
    /\ installed' = refreshing.list /\ overtaken' = refreshing.late
    /\ scheduleRendererSync(refreshing.list)
    /\ UNCHANGED <<truth, onState, desktopApi, rendererRuntimes, groups, failed, leaking>>

RefreshFails ==
    /\ refreshing.pc \in {"asked", "listed"}
    /\ refreshing' = NoRefresh
    /\ UNCHANGED <<truth, onState, installed, overtaken, syncing, pendingSync, desktopApi,
                   rendererRuntimes, groups, failed, leaking>>

attachDesktopApi ==
    /\ ~desktopApi /\ desktopApi' = TRUE
    /\ scheduleRendererSync(installed)
    /\ UNCHANGED <<truth, onState, refreshing, installed, overtaken, rendererRuntimes, groups,
                   failed, leaking>>

-----------------------------------------------------------------------------
(* syncRendererPlugins                                                       *)

\* unloadRendererPlugin: the record goes, then its disposer is called.
Unload(p) ==
    /\ syncing.pc = "unload" /\ p \in syncing.todo
    /\ syncing' = [syncing EXCEPT !.pc = "disposing", !.todo = @ \ {p}, !.plugin = {p}]
    /\ rendererRuntimes' = rendererRuntimes \ {p}
    /\ UNCHANGED <<truth, onState, refreshing, installed, overtaken, pendingSync, desktopApi,
                   groups, failed, leaking>>

\* A disposer that throws keeps the group from being disposed of.
Disposed(p) ==
    /\ syncing.pc = "disposing" /\ p \in syncing.plugin
    /\ syncing' = [syncing EXCEPT !.pc = "unload", !.plugin = {}]
    /\ leaking' \in {leaking, leaking \union (Faulty \cap {p})}
    /\ groups' = [groups EXCEPT ![p] = IF p \in leaking' THEN 0 ELSE @ - 1]
    /\ UNCHANGED <<truth, onState, refreshing, installed, overtaken, pendingSync, desktopApi,
                   rendererRuntimes, failed>>

\* The second loop goes through the list there is by then. What has a record is
\* passed over, and so is what the list before did not desire.
LoadAll ==
    /\ syncing.pc = "unload" /\ syncing.todo = {}
    /\ syncing' = [syncing EXCEPT !.pc = "load",
                                  !.todo = (installed \cap syncing.desired) \ rendererRuntimes]
    /\ failed' = {}
    /\ UNCHANGED <<truth, onState, refreshing, installed, overtaken, pendingSync, desktopApi,
                   rendererRuntimes, groups, leaking>>

\* loadRendererPlugin asks for the entry and imports it. There may be none, or
\* one that cannot be imported.
Load(p) ==
    /\ syncing.pc = "load" /\ p \in syncing.todo
    /\ \/ /\ syncing' = [syncing EXCEPT !.pc = "importing", !.todo = @ \ {p}, !.plugin = {p}]
          /\ UNCHANGED failed
       \/ /\ p \in Faulty
          /\ syncing' = [syncing EXCEPT !.todo = @ \ {p}]
          /\ failed' = failed \union {p}
    /\ UNCHANGED <<truth, onState, refreshing, installed, overtaken, pendingSync, desktopApi,
                   rendererRuntimes, groups, leaking>>

\* The context is made, and the factory is called with it.
Imported(p) ==
    /\ syncing.pc = "importing" /\ p \in syncing.plugin
    /\ IF p \in Version2 /\ ~desktopApi
       THEN /\ syncing' = [syncing EXCEPT !.pc = "load", !.plugin = {}]
            /\ leaking' = leaking \union {p}
       ELSE /\ syncing' = [syncing EXCEPT !.pc = "applying"]
            /\ UNCHANGED leaking
    /\ groups' = [groups EXCEPT ![p] = IF p \in leaking' THEN 0 ELSE @ + 1]
    /\ UNCHANGED <<truth, onState, refreshing, installed, overtaken, pendingSync, desktopApi,
                   rendererRuntimes, failed>>

\* The factory is ready, or it throws, and its group is forgotten.
Applied(p) ==
    /\ syncing.pc = "applying" /\ p \in syncing.plugin
    /\ syncing' = [syncing EXCEPT !.pc = "load", !.plugin = {}]
    /\ \/ /\ rendererRuntimes' = rendererRuntimes \union {p}
          /\ UNCHANGED <<groups, failed, leaking>>
       \/ /\ p \in Faulty
          /\ failed' = failed \union {p} /\ leaking' = leaking \union {p}
          /\ groups' = [groups EXCEPT ![p] = 0] /\ UNCHANGED rendererRuntimes
    /\ UNCHANGED <<truth, onState, refreshing, installed, overtaken, pendingSync, desktopApi>>

\* The synchronisation is over; one that was asked for meanwhile begins.
Synced ==
    /\ syncing.pc = "load" /\ syncing.todo = {}
    /\ pendingSync' = FALSE
    /\ syncing' = IF pendingSync THEN BeginSync(installed) ELSE NoSync
    /\ UNCHANGED <<truth, onState, refreshing, installed, overtaken, desktopApi,
                   rendererRuntimes, groups, failed, leaking>>

-----------------------------------------------------------------------------
RendererInit ==
    /\ truth = {} /\ onState = <<>> /\ refreshing = [NoRefresh EXCEPT !.pc = "asked"]
    /\ installed = {} /\ overtaken = FALSE
    /\ syncing = NoSync /\ pendingSync = FALSE /\ desktopApi = FALSE
    /\ rendererRuntimes = {} /\ groups = [p \in Extensions |-> 0]
    /\ failed = {} /\ leaking = {}

RendererNext ==
    \/ Changes
    \/ Payload
    \/ Refresh
    \/ Listed
    \/ Refreshed
    \/ RefreshFails
    \/ attachDesktopApi
    \/ \E p \in Extensions : Unload(p)
    \/ \E p \in Extensions : Disposed(p)
    \/ LoadAll
    \/ \E p \in Extensions : Load(p)
    \/ \E p \in Extensions : Imported(p)
    \/ \E p \in Extensions : Applied(p)
    \/ Synced

RendererSpec == RendererInit /\ [][RendererNext]_rendererVars

-----------------------------------------------------------------------------
\* A synchronisation works on one plugin at most, and one that is asked for has
\* another to wait for.
RendererTypeOK ==
    /\ truth \subseteq Extensions /\ installed \subseteq Extensions
    /\ rendererRuntimes \subseteq Extensions /\ failed \subseteq Extensions
    /\ onState \in BoundedSeq(SUBSET Extensions, MaxPayloads)
    /\ refreshing.pc \in {"none", "asked", "listed"}
    /\ syncing.pc \in {"idle", "unload", "disposing", "load", "importing", "applying"}
    /\ (syncing.plugin # {}) <=> syncing.pc \in {"disposing", "importing", "applying"}
    /\ pendingSync => syncing.pc # "idle"
    /\ groups \in [Extensions -> 0..1]

\* Whatever payloads and refreshes arrive while plugins are loaded and
\* unloaded, once the synchronisation is over exactly the plugins of the last
\* list run, except those that could not be loaded; that list is what is active
\* in the main process, unless a refresh has put an older one over a payload.
\* Each plugin runs in one context, unless its code has thrown.
RunsWhatIsActive ==
    /\ syncing.pc = "idle" =>
          rendererRuntimes = installed \ (failed \union IF desktopApi THEN {} ELSE Version2)
    /\ syncing.pc = "idle" /\ onState = <<>> /\ refreshing.pc = "none" /\ ~overtaken
          => installed = truth
    /\ \A p \in Extensions \ (leaking \union syncing.plugin) :
          groups[p] = IF p \in rendererRuntimes THEN 1 ELSE 0
=============================================================================
