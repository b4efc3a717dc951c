------------------------- MODULE DesktopPluginsProofs -------------------------
(***************************************************************************)
(* Plugins of the desktop app.  A window runs what is active, for every    *)
(* set of plugins and whatever payloads, refreshes and faults come while   *)
(* it synchronises.  Two facts carry that argument, each on its own        *)
(* variables: while nothing is pending the synchronisation works on the    *)
(* list there is (SyncInv), and the last payload on its way is the truth   *)
(* (NewsInv).  An installation unpacks what it verified, and shares the    *)
(* downloads it waits for, for every number of installations.  And a call  *)
(* of a plugin's window is answered by its own handler, or by the answer   *)
(* to an earlier client of that window, for every number of windows,       *)
(* clients and calls: it is in one place at a time (RpcInv).               *)
(*                                                                         *)
(* At the end, what is proved of the services and windows of the desktop   *)
(* app one by one is put together (PartsSpec).                             *)
(***************************************************************************)
EXTENDS MCDesktopParts, DesktopPartsProofs, PlayerProofs, FiniteSetTheorems, TLAPS

-----------------------------------------------------------------------------
(* The plugins of a window.                                                 *)

SyncStates ==
    [pc : {"idle", "unload", "disposing", "load", "importing", "applying"},
     desired : SUBSET Extensions, todo : SUBSET Extensions, plugin : SUBSET Extensions]

SyncShape ==
    /\ syncing \in SyncStates
    /\ IF syncing.pc \in {"disposing", "importing", "applying"}
       THEN \E p \in Extensions : syncing.plugin = {p} ELSE syncing.plugin = {}
    /\ pendingSync \in BOOLEAN /\ desktopApi \in BOOLEAN
    /\ {installed, rendererRuntimes, failed, leaking} \subseteq SUBSET Extensions
    /\ groups \in [Extensions -> 0..1]

\* Plugins that cannot run before the desktop API is attached.
Unready == IF desktopApi THEN {} ELSE Version2

\* The first loop has yet to unload whatever is not desired.
Unloading ==
    syncing.pc \in {"unload", "disposing"} =>
        /\ rendererRuntimes \subseteq syncing.desired \union syncing.todo
        /\ syncing.todo \subseteq rendererRuntimes

\* The second loop: what is desired runs, waits for its turn, or cannot run.
Loading ==
    syncing.pc \in {"load", "importing", "applying"} =>
        /\ rendererRuntimes \union syncing.todo \union syncing.plugin \subseteq syncing.desired
        /\ failed \cap (rendererRuntimes \union syncing.todo \union syncing.plugin) = {}
        /\ syncing.todo \cap (rendererRuntimes \union syncing.plugin) = {}
        /\ ~pendingSync => installed \subseteq rendererRuntimes \union syncing.todo
                               \union syncing.plugin \union failed \union Unready

\* Nothing is pending as long as the synchronisation works on the list there is.
Current ==
    IF syncing.pc = "idle" THEN ~pendingSync
    ELSE ~pendingSync => syncing.desired = installed

\* The first part of RunsWhatIsActive.
Settled == syncing.pc = "idle" => rendererRuntimes = installed \ (failed \union Unready)

ApiReady ==
    /\ rendererRuntimes \cap Unready = {}
    /\ syncing.pc = "applying" => syncing.plugin \cap Unready = {}

\* A context belongs to a plugin that runs, that is being disposed of, or whose
\* factory is being called.
Contexts ==
    /\ syncing.plugin \cap rendererRuntimes = {}
    /\ \A p \in Extensions \ leaking :
          groups[p] = IF p \in rendererRuntimes
                         \/ (p \in syncing.plugin /\ syncing.pc \in {"disposing", "applying"})
                      THEN 1 ELSE 0

SyncInv == SyncShape /\ Unloading /\ Loading /\ Current /\ Settled /\ ApiReady /\ Contexts

\* The last payload on its way is the truth; with none on its way the list of
\* the window is, unless a refresh has put an older one over it.
NewsInv ==
    /\ onState \in Seq(SUBSET Extensions) /\ truth \subseteq Extensions
    /\ refreshing \in [pc : {"none", "asked", "listed"}, list : SUBSET Extensions, late : BOOLEAN]
    /\ overtaken \in BOOLEAN
    /\ onState # <<>> => onState[Len(onState)] = truth
    /\ onState = <<>> /\ ~overtaken => installed = truth
    /\ onState = <<>> /\ refreshing.pc = "listed" /\ ~refreshing.late => refreshing.list = truth

RendererInv == SyncInv /\ NewsInv

syncVars == <<syncing, pendingSync, installed, desktopApi, rendererRuntimes, groups, failed, leaking>>
newsVars == <<truth, onState, refreshing, installed, overtaken>>

-----------------------------------------------------------------------------
(* SyncInv                                                                   *)

\* A synchronisation that is asked for begins, or is remembered.
LEMMA ScheduleKeepsSync ==
    ASSUME SyncInv, NEW list \in SUBSET Extensions, scheduleRendererSync(list),
           installed' = list, desktopApi' \in {desktopApi, TRUE},
           UNCHANGED <<rendererRuntimes, groups, failed, leaking>>
    PROVE  SyncInv'
<1>0. desktopApi \in BOOLEAN /\ Unready' \subseteq Unready
    BY DEF SyncInv, SyncShape, Unready
<1>1. CASE syncing.pc # "idle"
    <2>1. pendingSync' = TRUE /\ UNCHANGED syncing
        BY <1>1 DEF scheduleRendererSync
    <2>2. SyncShape' /\ Unloading' /\ Current' /\ Contexts' /\ Settled'
        BY <1>0, <1>1, <2>1 DEF SyncInv, SyncShape, Unloading, Current, Contexts, Settled
    <2>3. Loading' /\ ApiReady'
        BY <1>0, <2>1 DEF SyncInv, Loading, ApiReady
    <2>4. QED
        BY <2>2, <2>3 DEF SyncInv
<1>2. CASE syncing.pc = "idle"
    <2>1. /\ syncing' = [pc |-> "unload", desired |-> list, plugin |-> {},
                         todo |-> rendererRuntimes \ list]
          /\ UNCHANGED pendingSync
        BY <1>2 DEF scheduleRendererSync, BeginSync
    <2>2. SyncShape'
        BY <1>0, <2>1 DEF SyncInv, SyncShape, SyncStates
    <2>3. Unloading' /\ Loading' /\ Current' /\ Settled'
        BY <1>2, <2>1 DEF SyncInv, Unloading, Loading, Current, Settled
    <2>4. ApiReady'
        BY <1>0, <2>1 DEF SyncInv, ApiReady
    <2>5. syncing.plugin = {}
        BY <1>2 DEF SyncInv, SyncShape
    <2>6. Contexts'
        BY <1>2, <2>1, <2>5 DEF SyncInv, Contexts
    <2>7. QED
        BY <2>2, <2>3, <2>4, <2>6 DEF SyncInv
<1>3. QED
    BY <1>1, <1>2

LEMMA UnloadKeepsSync ==
    ASSUME SyncInv, NEW p \in Extensions, Unload(p)
    PROVE  SyncInv'
<1>1. /\ syncing.pc = "unload" /\ p \in syncing.todo
      /\ syncing' = [syncing EXCEPT !.pc = "disposing", !.todo = @ \ {p}, !.plugin = {p}]
      /\ rendererRuntimes' = rendererRuntimes \ {p}
      /\ UNCHANGED <<installed, pendingSync, desktopApi, groups, failed, leaking>>
    BY DEF Unload
<1>2. p \in rendererRuntimes /\ syncing \in SyncStates /\ syncing.plugin = {}
    BY <1>1 DEF SyncInv, SyncShape, Unloading
<1>3. /\ syncing'.pc = "disposing" /\ syncing'.plugin = {p}
      /\ syncing'.todo = syncing.todo \ {p} /\ syncing'.desired = syncing.desired
      /\ syncing' \in SyncStates
    BY <1>1, <1>2 DEF SyncStates
<1>4. SyncShape'
    BY <1>1, <1>3 DEF SyncInv, SyncShape
<1>5. Unloading' /\ Loading' /\ Current' /\ Settled'
    BY <1>1, <1>3 DEF SyncInv, Unloading, Loading, Current, Settled
<1>6. ApiReady'
    BY <1>1, <1>3 DEF SyncInv, ApiReady, Unready
<1>7. Contexts'
    BY <1>1, <1>2, <1>3 DEF SyncInv, Contexts
<1>8. QED
    BY <1>4, <1>5, <1>6, <1>7 DEF SyncInv

LEMMA DisposedKeepsSync ==
    ASSUME SyncInv, NEW p \in Extensions, Disposed(p)
    PROVE  SyncInv'
<1>1. /\ syncing.pc = "disposing" /\ p \in syncing.plugin
      /\ syncing' = [syncing EXCEPT !.pc = "unload", !.plugin = {}]
      /\ leaking' \in {leaking, leaking \union (Faulty \cap {p})}
      /\ groups' = [groups EXCEPT ![p] = IF p \in leaking' THEN 0 ELSE groups[p] - 1]
      /\ UNCHANGED <<installed, pendingSync, desktopApi, rendererRuntimes, failed>>
    BY DEF Disposed
<1>2. syncing \in SyncStates /\ syncing.plugin = {p} /\ p \notin rendererRuntimes
    BY <1>1 DEF SyncInv, SyncShape, Contexts
<1>3. /\ syncing'.pc = "unload" /\ syncing'.plugin = {}
      /\ syncing'.todo = syncing.todo /\ syncing'.desired = syncing.desired
      /\ syncing' \in SyncStates
    BY <1>1, <1>2 DEF SyncStates
<1>4. /\ leaking \subseteq leaking' /\ leaking' \subseteq Extensions
      /\ \A q \in Extensions : q # p => (q \in leaking' <=> q \in leaking)
    BY <1>1 DEF SyncInv, SyncShape
<1>5. p \notin leaking' => groups[p] = 1
    BY <1>1, <1>2, <1>4 DEF SyncInv, Contexts
<1>6. /\ groups' \in [Extensions -> 0..1] /\ groups'[p] = 0
      /\ \A q \in Extensions : q # p => groups'[q] = groups[q]
    BY <1>1, <1>5 DEF SyncInv, SyncShape
<1>7. SyncShape'
    BY <1>1, <1>3, <1>4, <1>6 DEF SyncInv, SyncShape
<1>8. Unloading' /\ Loading' /\ Current' /\ Settled'
    BY <1>1, <1>3 DEF SyncInv, Unloading, Loading, Current, Settled
<1>9. ApiReady'
    BY <1>1, <1>3 DEF SyncInv, ApiReady, Unready
<1>10. Contexts'
    <2>1. SUFFICES ASSUME NEW q \in Extensions \ leaking'
                   PROVE  groups'[q] = IF q \in rendererRuntimes THEN 1 ELSE 0
        BY <1>1, <1>3 DEF Contexts
    <2>2. CASE q = p
        BY <1>2, <1>6, <2>2
    <2>3. CASE q # p
        BY <1>2, <1>4, <1>6, <2>3 DEF SyncInv, Contexts
    <2>4. QED
        BY <2>2, <2>3
<1>11. QED
    BY <1>7, <1>8, <1>9, <1>10 DEF SyncInv

LEMMA LoadAllKeepsSync ==
    ASSUME SyncInv, LoadAll
    PROVE  SyncInv'
<1>1. /\ syncing.pc = "unload" /\ syncing.todo = {}
      /\ syncing' = [syncing EXCEPT !.pc = "load",
                         !.todo = (installed \cap syncing.desired) \ rendererRuntimes]
      /\ failed' = {}
      /\ UNCHANGED <<installed, pendingSync, desktopApi, rendererRuntimes, groups, leaking>>
    BY DEF LoadAll
<1>2. syncing \in SyncStates /\ syncing.plugin = {}
    BY <1>1 DEF SyncInv, SyncShape
<1>3. /\ syncing'.pc = "load" /\ syncing'.plugin = {}
      /\ syncing'.todo = (installed \cap syncing.desired) \ rendererRuntimes
      /\ syncing'.desired = syncing.desired
      /\ syncing' \in SyncStates
    BY <1>1, <1>2 DEF SyncStates
<1>4. SyncShape'
    BY <1>1, <1>3 DEF SyncInv, SyncShape
<1>5. rendererRuntimes \subseteq syncing.desired
    BY <1>1 DEF SyncInv, Unloading
<1>6. Unloading' /\ Current' /\ Settled'
    BY <1>1, <1>3 DEF SyncInv, Unloading, Current, Settled
<1>7. ~pendingSync => syncing.desired = installed
    BY <1>1 DEF SyncInv, Current
<1>8. Loading'
    BY <1>1, <1>3, <1>5, <1>7 DEF Loading
<1>9. ApiReady'
    BY <1>1, <1>3 DEF SyncInv, ApiReady, Unready
<1>10. Contexts'
    BY <1>1, <1>2, <1>3 DEF SyncInv, Contexts
<1>11. QED
    BY <1>4, <1>6, <1>8, <1>9, <1>10 DEF SyncInv

LEMMA LoadKeepsSync ==
    ASSUME SyncInv, NEW p \in Extensions, Load(p)
    PROVE  SyncInv'
<1>1. /\ syncing.pc = "load" /\ p \in syncing.todo
      /\ UNCHANGED <<installed, pendingSync, desktopApi, rendererRuntimes, groups, leaking>>
    BY DEF Load
<1>2. /\ syncing \in SyncStates /\ syncing.plugin = {}
      /\ p \notin rendererRuntimes /\ p \in syncing.desired /\ p \notin failed
    BY <1>1 DEF SyncInv, SyncShape, Loading
<1>3. CASE /\ syncing' = [syncing EXCEPT !.pc = "importing", !.todo = @ \ {p}, !.plugin = {p}]
           /\ UNCHANGED failed
    <2>1. /\ syncing'.pc = "importing" /\ syncing'.plugin = {p}
          /\ syncing'.todo = syncing.todo \ {p} /\ syncing'.desired = syncing.desired
          /\ syncing' \in SyncStates
        BY <1>2, <1>3 DEF SyncStates
    <2>2. SyncShape'
        BY <1>1, <1>3, <2>1 DEF SyncInv, SyncShape
    <2>3. Unloading' /\ Current' /\ Settled'
        BY <1>1, <2>1 DEF SyncInv, Unloading, Current, Settled
    <2>4. Loading'
        BY <1>1, <1>2, <1>3, <2>1 DEF SyncInv, Loading, Unready
    <2>5. ApiReady'
        BY <1>1, <2>1 DEF SyncInv, ApiReady, Unready
    <2>6. Contexts'
        BY <1>1, <1>2, <2>1 DEF SyncInv, Contexts
    <2>7. QED
        BY <2>2, <2>3, <2>4, <2>5, <2>6 DEF SyncInv
<1>4. CASE /\ syncing' = [syncing EXCEPT !.todo = @ \ {p}]
           /\ failed' = failed \union {p}
    <2>1. /\ syncing'.pc = "load" /\ syncing'.plugin = {}
          /\ syncing'.todo = syncing.todo \ {p} /\ syncing'.desired = syncing.desired
          /\ syncing' \in SyncStates
        BY <1>1, <1>2, <1>4 DEF SyncStates
    <2>2. SyncShape'
        BY <1>1, <1>4, <2>1 DEF SyncInv, SyncShape
    <2>3. Unloading' /\ Current' /\ Settled'
        BY <1>1, <2>1 DEF SyncInv, Unloading, Current, Settled
    <2>4. Loading'
        BY <1>1, <1>2, <1>4, <2>1 DEF SyncInv, Loading, Unready
    <2>5. ApiReady'
        BY <1>1, <2>1 DEF SyncInv, ApiReady, Unready
    <2>6. Contexts'
        BY <1>1, <1>2, <2>1 DEF SyncInv, Contexts
    <2>7. QED
        BY <2>2, <2>3, <2>4, <2>5, <2>6 DEF SyncInv
<1>5. QED
    BY <1>3, <1>4 DEF Load

LEMMA ImportedKeepsSync ==
    ASSUME SyncInv, NEW p \in Extensions, Imported(p)
    PROVE  SyncInv'
<1>1. /\ syncing.pc = "importing" /\ p \in syncing.plugin
      /\ groups' = [groups EXCEPT ![p] = IF p \in leaking' THEN 0 ELSE groups[p] + 1]
      /\ UNCHANGED <<installed, pendingSync, desktopApi, rendererRuntimes, failed>>
    BY DEF Imported
<1>2. syncing \in SyncStates /\ syncing.plugin = {p} /\ p \notin rendererRuntimes
    BY <1>1 DEF SyncInv, SyncShape, Contexts
<1>3. p \notin leaking => groups[p] = 0
    BY <1>1, <1>2 DEF SyncInv, Contexts
<1>4. leaking \subseteq leaking'
    BY DEF Imported
<1>5. /\ groups' \in [Extensions -> 0..1] /\ groups'[p] = IF p \in leaking' THEN 0 ELSE 1
      /\ \A q \in Extensions : q # p => groups'[q] = groups[q]
    BY <1>1, <1>3, <1>4 DEF SyncInv, SyncShape
<1>6. CASE p \in Version2 /\ ~desktopApi
    <2>1. /\ syncing' = [syncing EXCEPT !.pc = "load", !.plugin = {}]
          /\ leaking' = leaking \union {p} /\ p \in Unready
        BY <1>6 DEF Imported, Unready
    <2>2. /\ syncing'.pc = "load" /\ syncing'.plugin = {}
          /\ syncing'.todo = syncing.todo /\ syncing'.desired = syncing.desired
          /\ syncing' \in SyncStates
        BY <1>2, <2>1 DEF SyncStates
    <2>3. SyncShape'
        BY <1>1, <1>5, <2>1, <2>2 DEF SyncInv, SyncShape
    <2>4. Unloading' /\ Current' /\ Settled'
        BY <1>1, <2>2 DEF SyncInv, Unloading, Current, Settled
    <2>5. Unready' = Unready
        BY <1>1 DEF Unready
    <2>6. Loading' /\ ApiReady'
        BY <1>1, <1>2, <2>1, <2>2, <2>5 DEF SyncInv, Loading, ApiReady
    <2>7. Contexts'
        BY <1>1, <1>2, <1>5, <2>1, <2>2 DEF SyncInv, Contexts
    <2>8. QED
        BY <2>3, <2>4, <2>6, <2>7 DEF SyncInv
<1>7. CASE ~(p \in Version2 /\ ~desktopApi)
    <2>1. /\ syncing' = [syncing EXCEPT !.pc = "applying"]
          /\ UNCHANGED leaking /\ p \notin Unready
        BY <1>7 DEF Imported, Unready
    <2>2. /\ syncing'.pc = "applying" /\ syncing'.plugin = {p}
          /\ syncing'.todo = syncing.todo /\ syncing'.desired = syncing.desired
          /\ syncing' \in SyncStates
        BY <1>2, <2>1 DEF SyncStates
    <2>3. SyncShape'
        BY <1>1, <1>5, <2>1, <2>2 DEF SyncInv, SyncShape
    <2>4. Unloading' /\ Current' /\ Settled'
        BY <1>1, <2>2 DEF SyncInv, Unloading, Current, Settled
    <2>5. Unready' = Unready
        BY <1>1 DEF Unready
    <2>6. Loading' /\ ApiReady'
        BY <1>1, <1>2, <2>1, <2>2, <2>5 DEF SyncInv, Loading, ApiReady
    <2>7. Contexts'
        BY <1>1, <1>2, <1>5, <2>1, <2>2 DEF SyncInv, Contexts
    <2>8. QED
        BY <2>3, <2>4, <2>6, <2>7 DEF SyncInv
<1>8. QED
    BY <1>6, <1>7

LEMMA AppliedKeepsSync ==
    ASSUME SyncInv, NEW p \in Extensions, Applied(p)
    PROVE  SyncInv'
<1>1. /\ syncing.pc = "applying" /\ p \in syncing.plugin
      /\ syncing' = [syncing EXCEPT !.pc = "load", !.plugin = {}]
      /\ UNCHANGED <<installed, pendingSync, desktopApi>>
    BY DEF Applied
<1>2. /\ syncing \in SyncStates /\ syncing.plugin = {p} /\ p \notin rendererRuntimes
      /\ p \notin Unready /\ p \notin syncing.todo
    BY <1>1 DEF SyncInv, SyncShape, Contexts, ApiReady, Loading
<1>3. /\ syncing'.pc = "load" /\ syncing'.plugin = {}
      /\ syncing'.todo = syncing.todo /\ syncing'.desired = syncing.desired
      /\ syncing' \in SyncStates
    BY <1>1, <1>2 DEF SyncStates
<1>4. Unready' = Unready
    BY <1>1 DEF Unready
<1>5. Unloading' /\ Current' /\ Settled'
    BY <1>1, <1>3 DEF SyncInv, Unloading, Current, Settled
<1>6. CASE /\ rendererRuntimes' = rendererRuntimes \union {p}
           /\ UNCHANGED <<groups, failed, leaking>>
    <2>1. SyncShape'
        BY <1>1, <1>3, <1>6 DEF SyncInv, SyncShape
    <2>2. Loading' /\ ApiReady'
        BY <1>1, <1>2, <1>3, <1>4, <1>6 DEF SyncInv, Loading, ApiReady
    <2>3. Contexts'
        BY <1>1, <1>2, <1>3, <1>6 DEF SyncInv, Contexts
    <2>4. QED
        BY <1>5, <2>1, <2>2, <2>3 DEF SyncInv
<1>7. CASE /\ failed' = failed \union {p} /\ leaking' = leaking \union {p}
           /\ groups' = [groups EXCEPT ![p] = 0] /\ UNCHANGED rendererRuntimes
    <2>1. /\ groups' \in [Extensions -> 0..1]
          /\ \A q \in Extensions : q # p => groups'[q] = groups[q]
        BY <1>7 DEF SyncInv, SyncShape
    <2>2. SyncShape'
        BY <1>1, <1>3, <1>7, <2>1 DEF SyncInv, SyncShape
    <2>3. Loading' /\ ApiReady'
        BY <1>1, <1>2, <1>3, <1>4, <1>7 DEF SyncInv, Loading, ApiReady
    <2>4. Contexts'
        BY <1>1, <1>2, <1>3, <1>7, <2>1 DEF SyncInv, Contexts
    <2>5. QED
        BY <1>5, <2>2, <2>3, <2>4 DEF SyncInv
<1>8. QED
    BY <1>6, <1>7 DEF Applied

LEMMA SyncedKeepsSync ==
    ASSUME SyncInv, Synced
    PROVE  SyncInv'
<1>1. /\ syncing.pc = "load" /\ syncing.todo = {}
      /\ pendingSync' = FALSE
      /\ UNCHANGED <<installed, desktopApi, rendererRuntimes, groups, failed, leaking>>
    BY DEF Synced
<1>2. syncing.plugin = {} /\ pendingSync \in BOOLEAN
    BY <1>1 DEF SyncInv, SyncShape
<1>3. Unready' = Unready
    BY <1>1 DEF Unready
<1>4. CASE pendingSync
    <2>1. syncing' = [pc |-> "unload", desired |-> installed, plugin |-> {},
                      todo |-> rendererRuntimes \ installed]
        BY <1>4 DEF Synced, BeginSync
    <2>2. SyncShape'
        BY <1>1, <2>1 DEF SyncInv, SyncShape, SyncStates
    <2>3. Unloading' /\ Loading' /\ Current' /\ Settled'
        BY <1>1, <2>1 DEF Unloading, Loading, Current, Settled
    <2>4. ApiReady' /\ Contexts'
        BY <1>1, <1>2, <1>3, <2>1 DEF SyncInv, ApiReady, Contexts
    <2>5. QED
        BY <2>2, <2>3, <2>4 DEF SyncInv
<1>5. CASE ~pendingSync
    <2>1. syncing' = [pc |-> "idle", desired |-> {}, todo |-> {}, plugin |-> {}]
        BY <1>5 DEF Synced, NoSync
    <2>2. SyncShape'
        BY <1>1, <2>1 DEF SyncInv, SyncShape, SyncStates
    <2>3. Unloading' /\ Loading' /\ Current'
        BY <1>1, <2>1 DEF Unloading, Loading, Current
    <2>4. syncing.desired = installed
        BY <1>1, <1>5 DEF SyncInv, Current
    <2>5. Settled'
        BY <1>1, <1>2, <1>3, <1>5, <2>1, <2>4 DEF SyncInv, Loading, ApiReady, Settled
    <2>6. ApiReady' /\ Contexts'
        BY <1>1, <1>2, <1>3, <2>1 DEF SyncInv, ApiReady, Contexts
    <2>7. QED
        BY <2>2, <2>3, <2>5, <2>6 DEF SyncInv
<1>6. QED
    BY <1>4, <1>5

-----------------------------------------------------------------------------
(* NewsInv, and the actions that change the list of the window               *)

LEMMA ChangesKeepsNews ==
    ASSUME NewsInv, Changes
    PROVE  NewsInv'
<1>1. PICK list \in SUBSET Extensions :
          truth' = list /\ onState' = Append(onState, list)
    BY DEF Changes
<1>2. UNCHANGED <<refreshing, installed, overtaken>>
    BY DEF Changes
<1>3. /\ onState' \in Seq(SUBSET Extensions) /\ Len(onState') = Len(onState) + 1
      /\ onState' # <<>> /\ onState'[Len(onState')] = list
    BY <1>1 DEF NewsInv
<1>4. QED
    BY <1>1, <1>2, <1>3 DEF NewsInv

LEMMA PayloadKeepsInv ==
    ASSUME RendererInv, Payload
    PROVE  RendererInv'
<1>1. /\ onState # <<>> /\ onState' = Tail(onState)
      /\ installed' = Head(onState) /\ overtaken' = FALSE
      /\ refreshing' = [refreshing EXCEPT !.late = refreshing.pc = "listed"]
      /\ scheduleRendererSync(Head(onState))
      /\ UNCHANGED <<truth, desktopApi, rendererRuntimes, groups, failed, leaking>>
    BY DEF Payload
<1>2. /\ onState \in Seq(SUBSET Extensions) /\ Head(onState) \in SUBSET Extensions
      /\ onState' \in Seq(SUBSET Extensions) /\ Head(onState) = onState[1]
      /\ Len(onState) \in Nat /\ Len(onState') = Len(onState) - 1
    BY <1>1 DEF RendererInv, NewsInv
<1>3. SyncInv'
    BY <1>1, <1>2, ScheduleKeepsSync DEF RendererInv
<1>4. /\ refreshing'.pc = refreshing.pc /\ refreshing'.list = refreshing.list
      /\ refreshing'.late = (refreshing.pc = "listed")
      /\ refreshing' \in [pc : {"none", "asked", "listed"}, list : SUBSET Extensions,
                          late : BOOLEAN]
    BY <1>1 DEF RendererInv, NewsInv
<1>5. onState' = <<>> => installed' = truth'
    <2>1. SUFFICES ASSUME onState' = <<>> PROVE Head(onState) = truth
        BY <1>1
    <2>2. Len(onState) = 1
        BY <1>2, <2>1
    <2>3. QED
        BY <1>1, <1>2, <2>2 DEF RendererInv, NewsInv
<1>6. onState' # <<>> => onState'[Len(onState')] = truth'
    <2>1. SUFFICES ASSUME onState' # <<>> PROVE onState'[Len(onState')] = truth
        BY <1>1
    <2>2. onState'[Len(onState')] = onState[Len(onState)]
        BY <1>1, <1>2, <2>1
    <2>3. QED
        BY <1>1, <2>2 DEF RendererInv, NewsInv
<1>7. truth' \subseteq Extensions /\ overtaken' \in BOOLEAN
    BY <1>1 DEF RendererInv, NewsInv
<1>8. NewsInv'
    BY <1>2, <1>4, <1>5, <1>6, <1>7 DEF NewsInv
<1>9. QED
    BY <1>3, <1>8 DEF RendererInv

\* A refresh asks, gets its list, or fails.
LEMMA RefreshKeepsNews ==
    ASSUME NewsInv, Refresh \/ Listed \/ RefreshFails
    PROVE  NewsInv'
<1>1. UNCHANGED <<truth, onState, installed, overtaken>>
    BY DEF Refresh, Listed, RefreshFails
<1>2. /\ refreshing' \in [pc : {"none", "asked", "listed"}, list : SUBSET Extensions,
                          late : BOOLEAN]
      /\ refreshing'.pc = "listed" => refreshing'.list = truth
    <2>1. {} \in SUBSET Extensions /\ truth \in SUBSET Extensions
        BY DEF NewsInv
    <2>2. CASE Refresh
        BY <2>1, <2>2 DEF Refresh, NoRefresh
    <2>3. CASE Listed
        BY <2>1, <2>3 DEF Listed
    <2>4. CASE RefreshFails
        BY <2>1, <2>4 DEF RefreshFails, NoRefresh
    <2>5. QED
        BY <2>2, <2>3, <2>4
<1>3. QED
    BY <1>1, <1>2 DEF NewsInv

LEMMA RefreshedKeepsInv ==
    ASSUME RendererInv, Refreshed
    PROVE  RendererInv'
<1>1. /\ refreshing.pc = "listed" /\ refreshing' = NoRefresh
      /\ installed' = refreshing.list /\ overtaken' = refreshing.late
      /\ scheduleRendererSync(refreshing.list)
      /\ UNCHANGED <<truth, onState, desktopApi, rendererRuntimes, groups, failed, leaking>>
    BY DEF Refreshed
<1>2. refreshing.list \in SUBSET Extensions /\ refreshing.late \in BOOLEAN
    BY DEF RendererInv, NewsInv
<1>3. SyncInv'
    BY <1>1, <1>2, ScheduleKeepsSync DEF RendererInv
<1>4. NewsInv'
    BY <1>1, <1>2 DEF RendererInv, NewsInv, NoRefresh
<1>5. QED
    BY <1>3, <1>4 DEF RendererInv

LEMMA AttachKeepsInv ==
    ASSUME RendererInv, attachDesktopApi
    PROVE  RendererInv'
<1>1. /\ desktopApi' = TRUE /\ scheduleRendererSync(installed) /\ installed' = installed
      /\ UNCHANGED <<truth, onState, refreshing, overtaken, rendererRuntimes, groups, failed,
                     leaking>>
    BY DEF attachDesktopApi
<1>2. installed \in SUBSET Extensions
    BY DEF RendererInv, SyncInv, SyncShape
<1>3. SyncInv'
    BY <1>1, <1>2, ScheduleKeepsSync DEF RendererInv
<1>4. NewsInv'
    BY <1>1 DEF RendererInv, NewsInv
<1>5. QED
    BY <1>3, <1>4 DEF RendererInv

-----------------------------------------------------------------------------
(* The invariant.                                                            *)

LEMMA RendererInvInit == RendererInit => RendererInv
<1> SUFFICES ASSUME RendererInit PROVE RendererInv
    OBVIOUS
<1>0. {} \in SUBSET Extensions
    OBVIOUS
<1>1. SyncShape
    <2>1. /\ syncing = NoSync /\ pendingSync = FALSE /\ desktopApi = FALSE
          /\ installed = {} /\ rendererRuntimes = {} /\ failed = {} /\ leaking = {}
          /\ groups = [p \in Extensions |-> 0]
        BY DEF RendererInit
    <2>2. NoSync \in SyncStates /\ NoSync.pc = "idle" /\ NoSync.plugin = {}
        BY <1>0 DEF NoSync, SyncStates
    <2>3. groups \in [Extensions -> 0..1]
        BY <2>1
    <2>4. QED
        BY <1>0, <2>1, <2>2, <2>3 DEF SyncShape
<1>2. Unloading /\ Loading /\ Current /\ Settled /\ ApiReady /\ Contexts
    BY DEF RendererInit, NoSync, Unloading, Loading, Current, Settled, ApiReady, Contexts
<1>3. NewsInv
    <2>1. /\ truth = {} /\ onState = <<>> /\ installed = {} /\ overtaken = FALSE
          /\ refreshing = [pc |-> "asked", list |-> {}, late |-> FALSE]
        BY DEF RendererInit, NoRefresh
    <2>2. refreshing \in [pc : {"none", "asked", "listed"}, list : SUBSET Extensions,
                          late : BOOLEAN]
        BY <1>0, <2>1
    <2>3. onState \in Seq(SUBSET Extensions)
        BY <2>1
    <2>4. QED
        BY <2>1, <2>2, <2>3 DEF NewsInv
<1>4. QED
    BY <1>1, <1>2, <1>3 DEF RendererInv, SyncInv

\* Each half of the invariant stays when its variables do.
LEMMA NewsStays ==
    ASSUME RendererInv, UNCHANGED newsVars, SyncInv'
    PROVE  RendererInv'
BY DEF RendererInv, NewsInv, newsVars

LEMMA SyncStays ==
    ASSUME RendererInv, UNCHANGED syncVars, NewsInv'
    PROVE  RendererInv'
BY DEF RendererInv, SyncInv, SyncShape, Unloading, Loading, Current, Settled, ApiReady,
       Contexts, Unready, syncVars

LEMMA RendererInvNext == RendererInv /\ [RendererNext]_rendererVars => RendererInv'
<1> SUFFICES ASSUME RendererInv, [RendererNext]_rendererVars PROVE RendererInv'
    OBVIOUS
<1> USE DEF RendererInv
<1>1. CASE Changes
    BY <1>1, ChangesKeepsNews, SyncStays DEF Changes, syncVars
<1>2. CASE Payload
    BY <1>2, PayloadKeepsInv
<1>3. CASE Refresh \/ Listed \/ RefreshFails
    <2>1. UNCHANGED syncVars
        BY <1>3 DEF Refresh, Listed, RefreshFails, syncVars
    <2>2. QED
        BY <1>3, <2>1, RefreshKeepsNews, SyncStays
<1>4. CASE Refreshed
    BY <1>4, RefreshedKeepsInv
<1>5. CASE attachDesktopApi
    BY <1>5, AttachKeepsInv
<1>6. CASE \E p \in Extensions : Unload(p)
    BY <1>6, UnloadKeepsSync, NewsStays DEF Unload, newsVars
<1>7. CASE \E p \in Extensions : Disposed(p)
    BY <1>7, DisposedKeepsSync, NewsStays DEF Disposed, newsVars
<1>8. CASE LoadAll
    BY <1>8, LoadAllKeepsSync, NewsStays DEF LoadAll, newsVars
<1>9. CASE \E p \in Extensions : Load(p)
    BY <1>9, LoadKeepsSync, NewsStays DEF Load, newsVars
<1>10. CASE \E p \in Extensions : Imported(p)
    BY <1>10, ImportedKeepsSync, NewsStays DEF Imported, newsVars
<1>11. CASE \E p \in Extensions : Applied(p)
    BY <1>11, AppliedKeepsSync, NewsStays DEF Applied, newsVars
<1>12. CASE Synced
    BY <1>12, SyncedKeepsSync, NewsStays DEF Synced, newsVars
<1>13. CASE UNCHANGED rendererVars
    BY <1>13, NewsStays, SyncStays DEF rendererVars, newsVars, syncVars, NewsInv
<1>14. QED
    BY <1>1, <1>2, <1>3, <1>4, <1>5, <1>6, <1>7, <1>8, <1>9, <1>10, <1>11, <1>12, <1>13
       DEF RendererNext

\* Once a synchronisation is over exactly what is active runs, each plugin in
\* one context (createDesktopPluginHost), for every set of plugins, of those
\* that may fail and of those that need the desktop API.
THEOREM RunsWhatIsAlwaysActive == RendererSpec => []RunsWhatIsActive
<1>1. ASSUME RendererInv PROVE RunsWhatIsActive
    <2>1. syncing.pc = "idle" =>
              rendererRuntimes = installed \ (failed \union IF desktopApi THEN {} ELSE Version2)
        BY <1>1 DEF RendererInv, SyncInv, Settled, Unready
    <2>2. syncing.pc = "idle" /\ onState = <<>> /\ refreshing.pc = "none" /\ ~overtaken
              => installed = truth
        BY <1>1 DEF RendererInv, NewsInv
    <2>3. \A p \in Extensions \ (leaking \union syncing.plugin) :
              groups[p] = IF p \in rendererRuntimes THEN 1 ELSE 0
        BY <1>1 DEF RendererInv, SyncInv, Contexts
    <2>4. QED
        BY <2>1, <2>2, <2>3 DEF RunsWhatIsActive
<1>2. QED
    BY RendererInvInit, RendererInvNext, <1>1, PTL DEF RendererSpec

\* Payloads wait in their queue, of which there are no more than are sent.
PayloadsWait == Len(onState) <= MaxPayloads

LEMMA PayloadsWaitNext ==
    RendererInv /\ PayloadsWait /\ [RendererNext]_rendererVars => PayloadsWait'
<1> SUFFICES ASSUME RendererInv, PayloadsWait, [RendererNext]_rendererVars PROVE PayloadsWait'
    OBVIOUS
<1>1. onState \in Seq(SUBSET Extensions)
    BY DEF RendererInv, NewsInv
<1>2. CASE Changes
    BY <1>1, <1>2, RendererAssumption DEF Changes, PayloadsWait
<1>3. CASE Payload
    BY <1>1, <1>3, RendererAssumption DEF Payload, PayloadsWait
<1>4. CASE UNCHANGED onState
    BY <1>4 DEF PayloadsWait
<1> QED
    BY <1>2, <1>3, <1>4
       DEF RendererNext, rendererVars, Refresh, Listed, Refreshed, RefreshFails, attachDesktopApi,
           Unload, Disposed, LoadAll, Load, Imported, Applied, Synced

\* A synchronisation works on one plugin at a time, one that is asked for meanwhile is
\* pending only as long as there is one to wait for, and no plugin has two contexts, for
\* every set of plugins and number of payloads (createDesktopPluginHost).
THEOREM RendererTypesHold == RendererSpec => []RendererTypeOK
<1>1. RendererInit => PayloadsWait
    BY RendererAssumption DEF RendererInit, PayloadsWait
<1>2. ASSUME RendererInv, PayloadsWait PROVE RendererTypeOK
    <2>1. onState \in BoundedSeq(SUBSET Extensions, MaxPayloads)
        <3>1. /\ onState \in Seq(SUBSET Extensions) /\ Len(onState) <= MaxPayloads
            BY <1>2 DEF RendererInv, NewsInv, PayloadsWait
        <3>2. /\ onState \in [1..Len(onState) -> SUBSET Extensions]
              /\ Len(onState) \in 0..MaxPayloads
            BY <3>1, RendererAssumption
        <3> QED BY <3>2 DEF BoundedSeq, SeqOf
    <2>2. SyncShape /\ Current /\ NewsInv
        BY <1>2 DEF RendererInv, SyncInv
    <2>3. /\ syncing.pc \in {"idle", "unload", "disposing", "load", "importing", "applying"}
          /\ (syncing.plugin # {}) <=> syncing.pc \in {"disposing", "importing", "applying"}
        BY <2>2 DEF SyncShape, SyncStates
    <2>4. pendingSync => syncing.pc # "idle"
        BY <2>2 DEF Current
    <2> QED
        BY <2>1, <2>2, <2>3, <2>4 DEF SyncShape, NewsInv, RendererTypeOK
<1> QED
    BY RendererInvInit, RendererInvNext, PayloadsWaitNext, <1>1, <1>2, PTL DEF RendererSpec

-----------------------------------------------------------------------------
(* Installations and their downloads.                                       *)

InstallPc == {"idle", "looking", "checking", "downloading", "renaming",
              "removing", "removingFailed", "verifying", "extracting"}
InstallStates == [pc : InstallPc, of : Tarballs \union {"none"}]
DownloadStates == [pc : {"none", "queued", "fetching", "writing"},
                   file : {"none", "temp", "cache", "gone"}]

\* The part of the types that the argument needs.
FilesShape == cached \in [Tarballs -> Contents] /\ partial \in [Tarballs -> Contents]
QueueShape == inflight \in [Tarballs -> DownloadStates] /\ waiting \in Seq(Tarballs)
InstallsShape ==
    /\ installs \in [Installs -> InstallStates]
    /\ \A i \in Installs : installs[i].pc # "idle" => installs[i].of \in Tarballs
Shapes == FilesShape /\ QueueShape /\ InstallsShape

\* Two installations at work on one tarball have been noticed.
SharedIsKnown ==
    \A i, j \in Installs :
        i # j /\ installs[i].pc # "idle" /\ installs[j].pc # "idle"
              /\ installs[i].of = installs[j].of => installs[i].of \in shared

\* A download under way has an installation that waits for it.
DownloadIsAwaited ==
    \A t \in Tarballs : inflight[t].pc # "none" =>
        \E i \in Installs : installs[i].pc = "downloading" /\ installs[i].of = t

\* The queue holds downloads that are queued, and each once.
QueueIsTrue ==
    /\ \A k \in 1..Len(waiting) : inflight[waiting[k]].pc = "queued"
    /\ \A k, l \in 1..Len(waiting) : waiting[k] = waiting[l] => k = l

DownloadInv ==
    Shapes /\ SharedIsKnown /\ DownloadIsAwaited /\ QueueIsTrue /\ UnpacksWhatItVerified

-----------------------------------------------------------------------------
(* What the helpers do.                                                      *)

\* Move changes one installation: to a state of its own tarball, or to idle.
LEMMA MoveIsLocal ==
    ASSUME InstallsShape, NEW i \in Installs, installs[i].pc # "idle",
           NEW pc \in InstallPc, Move(i, pc)
    PROVE  /\ InstallsShape'
           /\ \A j \in Installs : j # i => installs'[j] = installs[j]
           /\ installs'[i].pc = pc
           /\ pc # "idle" => installs'[i].of = installs[i].of
<1>1. installs' = [installs EXCEPT ![i] = IF pc = "idle" THEN NoInstall
                                          ELSE [installs[i] EXCEPT !.pc = pc]]
    BY DEF Move
<1>2. (IF pc = "idle" THEN NoInstall ELSE [installs[i] EXCEPT !.pc = pc]) \in InstallStates
    BY DEF InstallsShape, InstallStates, InstallPc, NoInstall
<1>3. installs' \in [Installs -> InstallStates]
    BY <1>1, <1>2 DEF InstallsShape
<1>4. /\ \A j \in Installs : j # i => installs'[j] = installs[j]
      /\ installs'[i].pc = pc
      /\ pc # "idle" => installs'[i].of = installs[i].of
    BY <1>1 DEF InstallsShape, InstallStates, NoInstall
<1>5. QED
    BY <1>3, <1>4 DEF InstallsShape

\* Installations that stay on their tarball, or end, keep the pairs noticed.
LEMMA SharedStays ==
    ASSUME SharedIsKnown, UNCHANGED shared,
           \A j \in Installs : installs'[j].pc # "idle" =>
               installs[j].pc # "idle" /\ installs'[j].of = installs[j].of
    PROVE  SharedIsKnown'
BY DEF SharedIsKnown

\* The end of a download moves those who wait for it, and nobody else.
LEMMA SettledInstalls ==
    ASSUME InstallsShape, NEW t \in Tarballs, NEW pc \in {"renaming", "removingFailed"},
           SettleDownload(t, pc)
    PROVE  /\ InstallsShape'
           /\ \A j \in Installs : /\ installs'[j].of = installs[j].of
                                  /\ installs'[j].pc # "extracting" =>
                                        installs[j].pc # "extracting"
                                  /\ installs'[j].pc = "extracting" =>
                                        installs[j].pc = "extracting"
                                  /\ installs'[j].pc # "idle" <=> installs[j].pc # "idle"
                                  /\ installs[j].of # t => installs'[j] = installs[j]
<1> DEFINE Waits(j) == j \in Working(t) /\ installs[j].pc = "downloading"
<1>1. installs' = [j \in Installs |-> IF Waits(j) THEN [installs[j] EXCEPT !.pc = pc]
                                                  ELSE installs[j]]
    BY DEF SettleDownload
<1>2. \A j \in Installs : installs'[j] \in InstallStates
    BY <1>1 DEF InstallsShape, InstallStates, InstallPc
<1>3. installs' \in [Installs -> InstallStates]
    BY <1>1, <1>2
<1>4. \A j \in Installs : Waits(j) => installs[j].pc = "downloading" /\ installs[j].of = t
    BY DEF Working
<1>5. \A j \in Installs : IF Waits(j) THEN installs'[j].pc = pc /\ installs'[j].of = installs[j].of
                                      ELSE installs'[j] = installs[j]
    BY <1>1 DEF InstallsShape, InstallStates
<1>6. QED
    BY <1>3, <1>4, <1>5 DEF InstallsShape

\* The end of a download leaves the queue and its waiting callers in order.
LEMMA SettledQueue ==
    ASSUME Shapes, DownloadIsAwaited, QueueIsTrue,
           NEW t \in Tarballs, inflight[t].pc \in {"fetching", "writing"},
           NEW pc \in {"renaming", "removingFailed"}, SettleDownload(t, pc)
    PROVE  QueueShape' /\ DownloadIsAwaited' /\ QueueIsTrue'
<1>1. \A j \in Installs : installs[j].of # t => installs'[j] = installs[j]
    BY SettledInstalls DEF Shapes
<1>2. CASE waiting = <<>>
    <2>1. inflight' = [inflight EXCEPT ![t] = NoDownload] /\ waiting' = waiting
        BY <1>2 DEF SettleDownload
    <2>2. QueueShape'
        BY <2>1 DEF Shapes, QueueShape, DownloadStates, NoDownload
    <2>3. \A u \in Tarballs : inflight'[u].pc # "none" => u # t /\ inflight'[u] = inflight[u]
        BY <2>1 DEF Shapes, QueueShape, NoDownload
    <2>4. DownloadIsAwaited'
        BY <1>1, <2>3 DEF DownloadIsAwaited
    <2>5. QueueIsTrue'
        BY <1>2, <2>1 DEF QueueIsTrue
    <2>6. QED
        BY <2>2, <2>4, <2>5
<1>3. CASE waiting # <<>>
    <2> DEFINE h == Head(waiting)
    <2>1. /\ inflight' = [inflight EXCEPT ![t] = NoDownload, ![h].pc = "fetching"]
          /\ waiting' = Tail(waiting)
        BY <1>3 DEF SettleDownload
    <2>2. h \in Tarballs /\ Len(waiting) > 0 /\ h = waiting[1]
        BY <1>3 DEF Shapes, QueueShape
    <2>3. inflight[h].pc = "queued" /\ h # t
        BY <2>2 DEF QueueIsTrue
    <2> HIDE DEF h
    <2>4. /\ inflight'[t] = NoDownload
          /\ inflight'[h] = [inflight[h] EXCEPT !.pc = "fetching"]
          /\ \A u \in Tarballs : u # t /\ u # h => inflight'[u] = inflight[u]
        BY <2>1, <2>2, <2>3 DEF Shapes, QueueShape
    <2>5. inflight' \in [Tarballs -> DownloadStates]
        <3>1. inflight \in [Tarballs -> DownloadStates]
            BY DEF Shapes, QueueShape
        <3>2. NoDownload \in DownloadStates
            BY DEF NoDownload, DownloadStates
        <3>3. [inflight[h] EXCEPT !.pc = "fetching"] \in DownloadStates
            BY <2>2, <3>1 DEF DownloadStates
        <3>4. \A u \in Tarballs : inflight'[u] \in DownloadStates
            BY <2>4, <3>1, <3>2, <3>3
        <3>5. inflight' = [u \in Tarballs |-> inflight'[u]]
            BY <2>1, <3>1
        <3> QED BY <3>4, <3>5
    <2>6. waiting' \in Seq(Tarballs) /\ Len(waiting') = Len(waiting) - 1
          /\ \A k \in 1..Len(waiting') : waiting'[k] = waiting[k + 1]
        BY <2>1, <2>2, <1>3 DEF Shapes, QueueShape
    <2>7. DownloadIsAwaited'
        BY <1>1, <2>3, <2>4 DEF DownloadIsAwaited, NoDownload
    <2>8. \A k \in 1..Len(waiting') : waiting'[k] \in Tarballs /\ waiting'[k] # h
                                      /\ inflight[waiting'[k]].pc = "queued"
        BY <2>2, <2>6 DEF Shapes, QueueShape, QueueIsTrue
    <2>9. \A k \in 1..Len(waiting') : inflight'[waiting'[k]].pc = "queued"
        BY <2>4, <2>8
    <2>10. \A k, l \in 1..Len(waiting') : waiting'[k] = waiting'[l] => k = l
        <3>1. TAKE k, l \in 1..Len(waiting')
        <3>2. /\ k + 1 \in 1..Len(waiting) /\ l + 1 \in 1..Len(waiting)
              /\ waiting'[k] = waiting[k + 1] /\ waiting'[l] = waiting[l + 1]
            BY <2>2, <2>6 DEF Shapes, QueueShape
        <3>3. HAVE waiting'[k] = waiting'[l]
        <3>4. k + 1 = l + 1
            BY <3>2, <3>3 DEF QueueIsTrue
        <3>5. QED
            BY <3>4
    <2>11. QED
        BY <2>5, <2>6, <2>7, <2>9, <2>10 DEF QueueShape, QueueIsTrue
<1>4. QED
    BY <1>2, <1>3

\* A download that is asked for is queued or begins, with its caller waiting.
LEMMA EnqueuedQueue ==
    ASSUME Shapes, DownloadIsAwaited, QueueIsTrue, NEW i \in Installs,
           installs[i].pc \in {"looking", "checking"},
           Move(i, "downloading"), enqueue(installs[i].of)
    PROVE  QueueShape' /\ DownloadIsAwaited' /\ QueueIsTrue'
<1> DEFINE t == installs[i].of
<1>1. t \in Tarballs
    BY DEF Shapes, InstallsShape
<1>2. /\ installs'[i].pc = "downloading" /\ installs'[i].of = t
      /\ \A j \in Installs : j # i => installs'[j] = installs[j]
    BY MoveIsLocal DEF Shapes, InstallPc
<1>3. /\ enqueue(t)
      /\ installs[i].pc # "downloading"
    OBVIOUS
<1> HIDE DEF t
<1>4. (\A u \in Tarballs : u # t => inflight'[u] = inflight[u]) => DownloadIsAwaited'
    BY <1>2, <1>3 DEF DownloadIsAwaited
<1>5. CASE UNCHANGED <<inflight, waiting>>
    BY <1>4, <1>5 DEF Shapes, QueueShape, QueueIsTrue
<1>6. CASE /\ inflight[t].pc = "none"
           /\ inflight' = [inflight EXCEPT ![t].pc = "fetching"] /\ UNCHANGED waiting
    <2>1. \A u \in Tarballs : u # t => inflight'[u] = inflight[u]
        BY <1>6 DEF Shapes, QueueShape
    <2>2. \A k \in 1..Len(waiting) : waiting[k] \in Tarballs /\ waiting[k] # t
        BY <1>6 DEF Shapes, QueueShape, QueueIsTrue
    <2>3. QueueIsTrue'
        BY <1>6, <2>1, <2>2 DEF QueueIsTrue
    <2>4. QueueShape'
        BY <1>1, <1>6 DEF Shapes, QueueShape, DownloadStates
    <2>5. QED
        BY <1>4, <2>1, <2>3, <2>4
<1>7. CASE /\ inflight[t].pc = "none"
           /\ inflight' = [inflight EXCEPT ![t].pc = "queued"] /\ waiting' = Append(waiting, t)
    <2>1. \A u \in Tarballs : u # t => inflight'[u] = inflight[u]
        BY <1>7 DEF Shapes, QueueShape
    <2>2. \A k \in 1..Len(waiting) : waiting[k] \in Tarballs /\ waiting[k] # t
        BY <1>7 DEF Shapes, QueueShape, QueueIsTrue
    <2>3. /\ waiting' \in Seq(Tarballs) /\ Len(waiting') = Len(waiting) + 1
          /\ \A k \in 1..Len(waiting) : waiting'[k] = waiting[k]
          /\ waiting'[Len(waiting) + 1] = t
        BY <1>1, <1>7 DEF Shapes, QueueShape
    <2>4. inflight'[t].pc = "queued"
        BY <1>1, <1>7 DEF Shapes, QueueShape, DownloadStates
    <2>5. Len(waiting) \in Nat
        BY DEF Shapes, QueueShape
    <2>6. \A k \in 1..Len(waiting') : k \in 1..Len(waiting) \/ k = Len(waiting) + 1
        BY <2>3, <2>5
    <2>7. QueueIsTrue'
        BY <2>1, <2>2, <2>3, <2>4, <2>6 DEF QueueIsTrue
    <2>8. QueueShape'
        BY <1>1, <1>7, <2>3 DEF Shapes, QueueShape, DownloadStates
    <2>9. QED
        BY <1>4, <2>1, <2>7, <2>8
<1>8. QED
    BY <1>3, <1>5, <1>6, <1>7 DEF enqueue

-----------------------------------------------------------------------------
(* The invariant.                                                            *)

LEMMA DownloadInvInit == DownloadInit => DownloadInv
<1> SUFFICES ASSUME DownloadInit PROVE DownloadInv
    OBVIOUS
<1>1. Shapes
    BY DEF DownloadInit, Shapes, FilesShape, QueueShape, InstallsShape, Contents,
           DownloadStates, InstallStates, InstallPc, NoDownload, NoInstall
<1>2. SharedIsKnown /\ DownloadIsAwaited /\ UnpacksWhatItVerified
    BY DEF DownloadInit, SharedIsKnown, DownloadIsAwaited, UnpacksWhatItVerified,
           NoDownload, NoInstall
<1>3. QueueIsTrue
    BY DEF DownloadInit, QueueIsTrue
<1>4. QED
    BY <1>1, <1>2, <1>3 DEF DownloadInv

LEMMA OpenTargetKeepsInv ==
    ASSUME DownloadInv, NEW t \in Tarballs, OpenTarget(t)
    PROVE  DownloadInv'
<1>1. /\ inflight[t].pc = "fetching"
      /\ inflight' = [inflight EXCEPT ![t] = [pc |-> "writing", file |-> "temp"]]
      /\ partial' = [partial EXCEPT ![t] = "part"]
      /\ UNCHANGED <<cached, waiting, installs, shared>>
    BY DEF OpenTarget
<1>2. Shapes'
    BY <1>1 DEF DownloadInv, Shapes, FilesShape, QueueShape, InstallsShape, Contents,
                DownloadStates
<1>3. \A u \in Tarballs : (u # t => inflight'[u] = inflight[u])
                          /\ (inflight'[u].pc # "none" => inflight[u].pc # "none")
    BY <1>1 DEF DownloadInv, Shapes, QueueShape
<1>4. DownloadIsAwaited'
    BY <1>1, <1>3 DEF DownloadInv, DownloadIsAwaited
<1>5. \A k \in 1..Len(waiting) : waiting[k] \in Tarballs /\ waiting[k] # t
    BY <1>1 DEF DownloadInv, Shapes, QueueShape, QueueIsTrue
<1>6. QueueIsTrue'
    BY <1>1, <1>3, <1>5 DEF DownloadInv, QueueIsTrue
<1>7. SharedIsKnown' /\ UnpacksWhatItVerified'
    BY <1>1 DEF DownloadInv, SharedIsKnown, UnpacksWhatItVerified
<1>8. QED
    BY <1>2, <1>4, <1>6, <1>7 DEF DownloadInv

\* The body may reach the file in the cache, but only while an installation
\* waits for the download: whoever unpacks that tarball is not alone.
LEMMA FinishDownloadKeepsInv ==
    ASSUME DownloadInv, NEW t \in Tarballs, FinishDownload(t)
    PROVE  DownloadInv'
<1>1. inflight[t].pc = "writing" /\ SettleDownload(t, "renaming") /\ UNCHANGED shared
    BY DEF FinishDownload
<1>2. FilesShape' /\ \A u \in Tarballs : u # t => cached'[u] = cached[u]
    BY DEF FinishDownload, DownloadInv, Shapes, FilesShape, Contents
<1>3. QueueShape' /\ DownloadIsAwaited' /\ QueueIsTrue'
    BY <1>1, SettledQueue DEF DownloadInv
<1>4. /\ InstallsShape'
      /\ \A j \in Installs : /\ installs'[j].of = installs[j].of
                             /\ installs'[j].pc = "extracting" => installs[j].pc = "extracting"
                             /\ installs'[j].pc # "idle" <=> installs[j].pc # "idle"
    BY <1>1, SettledInstalls DEF DownloadInv, Shapes
<1>5. SharedIsKnown'
    BY <1>1, <1>4, SharedStays DEF DownloadInv
<1>6. UnpacksWhatItVerified'
    <2>1. PICK w \in Installs : installs[w].pc = "downloading" /\ installs[w].of = t
        BY <1>1 DEF DownloadInv, DownloadIsAwaited
    <2>2. SUFFICES ASSUME NEW i \in Installs, installs'[i].pc = "extracting"
                   PROVE  cached'[installs[i].of] = "good" \/ installs[i].of \in shared
        BY <1>1, <1>4 DEF UnpacksWhatItVerified
    <2>3. installs[i].pc = "extracting" /\ installs[i].of \in Tarballs
        BY <1>4, <2>2 DEF DownloadInv, Shapes, InstallsShape
    <2>4. CASE installs[i].of = t
        BY <2>1, <2>3, <2>4 DEF DownloadInv, SharedIsKnown
    <2>5. CASE installs[i].of # t
        BY <1>2, <2>3, <2>5 DEF DownloadInv, UnpacksWhatItVerified
    <2>6. QED
        BY <2>4, <2>5
<1>7. QED
    BY <1>2, <1>3, <1>4, <1>5, <1>6 DEF DownloadInv, Shapes

LEMMA FailDownloadKeepsInv ==
    ASSUME DownloadInv, NEW t \in Tarballs, FailDownload(t)
    PROVE  DownloadInv'
<1>1. /\ inflight[t].pc \in {"fetching", "writing"} /\ SettleDownload(t, "removingFailed")
      /\ UNCHANGED <<cached, partial, shared>>
    BY DEF FailDownload
<1>2. QueueShape' /\ DownloadIsAwaited' /\ QueueIsTrue'
    BY <1>1, SettledQueue DEF DownloadInv
<1>3. /\ InstallsShape'
      /\ \A j \in Installs : /\ installs'[j].of = installs[j].of
                             /\ installs'[j].pc = "extracting" => installs[j].pc = "extracting"
                             /\ installs'[j].pc # "idle" <=> installs[j].pc # "idle"
    BY <1>1, SettledInstalls DEF DownloadInv, Shapes
<1>4. SharedIsKnown'
    BY <1>1, <1>3, SharedStays DEF DownloadInv
<1>5. UnpacksWhatItVerified'
    BY <1>1, <1>3 DEF DownloadInv, UnpacksWhatItVerified
<1>6. QED
    BY <1>1, <1>2, <1>3, <1>4, <1>5 DEF DownloadInv, Shapes, FilesShape

\* A new installation of a tarball that nobody works on may forget that two
\* once did: nobody can be unpacking it.
LEMMA StartInstallKeepsInv ==
    ASSUME DownloadInv, NEW i \in Installs, NEW t \in Tarballs, StartInstall(i, t)
    PROVE  DownloadInv'
<1>1. /\ installs[i].pc = "idle"
      /\ installs' = [installs EXCEPT ![i] = [pc |-> "looking", of |-> t]]
      /\ shared' = IF Working(t) = {} THEN shared \ {t} ELSE shared \union {t}
      /\ UNCHANGED <<cached, partial, inflight, waiting>>
    BY DEF StartInstall
<1>2. Shapes'
    BY <1>1 DEF DownloadInv, Shapes, FilesShape, QueueShape, InstallsShape, InstallStates, InstallPc
<1>3. /\ installs'[i].pc = "looking" /\ installs'[i].of = t
      /\ \A j \in Installs : j # i => installs'[j] = installs[j]
    BY <1>1 DEF DownloadInv, Shapes, InstallsShape
<1>4. \A j \in Installs : installs[j].pc # "idle" /\ installs[j].of = t => t \in shared'
    BY <1>1 DEF Working
<1>5. \A u : u # t => (u \in shared' <=> u \in shared)
    BY <1>1
<1>6. SharedIsKnown'
    BY <1>3, <1>4, <1>5 DEF DownloadInv, SharedIsKnown
<1>7. DownloadIsAwaited' /\ QueueIsTrue'
    BY <1>1, <1>3 DEF DownloadInv, DownloadIsAwaited, QueueIsTrue
<1>8. UnpacksWhatItVerified'
    BY <1>1, <1>3, <1>4, <1>5 DEF DownloadInv, UnpacksWhatItVerified
<1>9. QED
    BY <1>2, <1>6, <1>7, <1>8 DEF DownloadInv

\* Steps of an installation that leave the downloads alone: it moves on its own
\* tarball or ends, and unpacks only what is good or not its alone.
LEMMA QuietMoveKeepsInv ==
    ASSUME DownloadInv, NEW i \in Installs, NEW pc \in InstallPc,
           installs[i].pc \notin {"idle", "downloading"}, Move(i, pc),
           pc = "extracting" => cached[installs[i].of] = "good" \/ installs[i].of \in shared,
           UNCHANGED <<cached, partial, inflight, waiting, shared>>
    PROVE  DownloadInv'
<1>1. /\ InstallsShape'
      /\ \A j \in Installs : j # i => installs'[j] = installs[j]
      /\ installs'[i].pc = pc
      /\ pc # "idle" => installs'[i].of = installs[i].of
    BY MoveIsLocal DEF DownloadInv, Shapes
<1>2. Shapes'
    BY <1>1 DEF DownloadInv, Shapes, FilesShape, QueueShape
<1>3. SharedIsKnown'
    BY <1>1, SharedStays DEF DownloadInv
<1>4. DownloadIsAwaited' /\ QueueIsTrue' /\ UnpacksWhatItVerified'
    BY <1>1 DEF DownloadInv, DownloadIsAwaited, QueueIsTrue, UnpacksWhatItVerified
<1>5. QED
    BY <1>2, <1>3, <1>4 DEF DownloadInv

LEMMA AskForDownloadKeepsInv ==
    ASSUME DownloadInv, NEW i \in Installs, installs[i].pc \in {"looking", "checking"},
           Move(i, "downloading"), enqueue(installs[i].of),
           UNCHANGED <<cached, partial, shared>>
    PROVE  DownloadInv'
<1>1. /\ InstallsShape'
      /\ \A j \in Installs : j # i => installs'[j] = installs[j]
      /\ installs'[i].pc = "downloading" /\ installs'[i].of = installs[i].of
    BY MoveIsLocal DEF DownloadInv, Shapes, InstallPc
<1>2. QueueShape' /\ DownloadIsAwaited' /\ QueueIsTrue'
    BY EnqueuedQueue DEF DownloadInv
<1>3. SharedIsKnown'
    BY <1>1, SharedStays DEF DownloadInv
<1>4. UnpacksWhatItVerified'
    BY <1>1 DEF DownloadInv, UnpacksWhatItVerified
<1>5. QED
    BY <1>1, <1>2, <1>3, <1>4 DEF DownloadInv, Shapes, FilesShape

\* Steps of an installation that touch the files of its own tarball, and the
\* file that a download of it has open.
LEMMA FileMoveKeepsInv ==
    ASSUME DownloadInv, NEW i \in Installs,
           NEW pc \in {"idle", "removing", "verifying"},
           installs[i].pc \in {"renaming", "removing", "removingFailed"}, Move(i, pc),
           NEW f \in {"none", "temp", "cache", "gone"},
           inflight' = [inflight EXCEPT ![installs[i].of].file = f],
           FilesShape', \A u \in Tarballs : u # installs[i].of => cached'[u] = cached[u],
           UNCHANGED <<waiting, shared>>
    PROVE  DownloadInv'
<1>1. /\ InstallsShape'
      /\ \A j \in Installs : j # i => installs'[j] = installs[j]
      /\ installs'[i].pc = pc
      /\ pc # "idle" => installs'[i].of = installs[i].of
    BY MoveIsLocal DEF DownloadInv, Shapes, InstallPc
<1>2. installs[i].of \in Tarballs
    BY DEF DownloadInv, Shapes, InstallsShape
<1>3. QueueShape' /\ \A u \in Tarballs : inflight'[u].pc = inflight[u].pc
    BY <1>2 DEF DownloadInv, Shapes, QueueShape, DownloadStates
<1>4. SharedIsKnown'
    BY <1>1, SharedStays DEF DownloadInv
<1>5. DownloadIsAwaited'
    BY <1>1, <1>3 DEF DownloadInv, DownloadIsAwaited
<1>6. \A k \in 1..Len(waiting) : waiting[k] \in Tarballs
    BY DEF DownloadInv, Shapes, QueueShape
<1>7. QueueIsTrue'
    BY <1>3, <1>6 DEF DownloadInv, QueueIsTrue
<1>8. UnpacksWhatItVerified'
    <2>1. SUFFICES ASSUME NEW j \in Installs, installs'[j].pc = "extracting"
                   PROVE  cached'[installs'[j].of] = "good" \/ installs'[j].of \in shared
        BY DEF UnpacksWhatItVerified
    <2>2. j # i /\ installs'[j] = installs[j] /\ installs[j].of \in Tarballs
        BY <1>1, <2>1 DEF DownloadInv, Shapes, InstallsShape
    <2>3. CASE installs[j].of = installs[i].of
        BY <2>1, <2>2, <2>3 DEF DownloadInv, SharedIsKnown
    <2>4. CASE installs[j].of # installs[i].of
        BY <2>1, <2>2, <2>4 DEF DownloadInv, UnpacksWhatItVerified
    <2>5. QED
        BY <2>3, <2>4
<1>9. QED
    BY <1>1, <1>3, <1>4, <1>5, <1>7, <1>8 DEF DownloadInv, Shapes

LEMMA InstallStepKeepsInv ==
    ASSUME DownloadInv, NEW i \in Installs, InstallStep(i)
    PROVE  DownloadInv'
<1>1. CASE Look(i)
    <2>1. CASE cached[installs[i].of] # "none"
        BY <1>1, <2>1, QuietMoveKeepsInv DEF Look, InstallPc
    <2>2. CASE cached[installs[i].of] = "none"
        BY <1>1, <2>2, AskForDownloadKeepsInv DEF Look
    <2>3. QED
        BY <2>1, <2>2
<1>2. CASE Check(i)
    <2>1. CASE cached[installs[i].of] = "good"
        BY <1>2, <2>1, QuietMoveKeepsInv DEF Check, InstallPc
    <2>2. CASE cached[installs[i].of] # "good"
        BY <1>2, <2>2, AskForDownloadKeepsInv DEF Check
    <2>3. QED
        BY <2>1, <2>2
<1>3. CASE RenameTarball(i)
    <2> DEFINE t == installs[i].of
    <2>1. installs[i].pc = "renaming" /\ t \in Tarballs /\ UNCHANGED <<waiting, shared>>
        BY <1>3 DEF RenameTarball, DownloadInv, Shapes, InstallsShape
    <2>2. CASE partial[t] = "none"
        BY <1>3, <2>1, <2>2, QuietMoveKeepsInv DEF RenameTarball, InstallPc
    <2>3. CASE partial[t] # "none"
        <3> DEFINE f == IF inflight[t].file = "temp" THEN "cache" ELSE inflight[t].file
        <3>1. /\ cached' = [cached EXCEPT ![t] = partial[t]]
              /\ partial' = [partial EXCEPT ![t] = "none"]
              /\ inflight' = [inflight EXCEPT ![t].file = f]
              /\ Move(i, "removing")
            BY <1>3, <2>3 DEF RenameTarball
        <3>2. FilesShape' /\ \A u \in Tarballs : u # t => cached'[u] = cached[u]
            BY <2>1, <3>1 DEF DownloadInv, Shapes, FilesShape, Contents
        <3>3. f \in {"none", "temp", "cache", "gone"}
            BY <2>1 DEF DownloadInv, Shapes, QueueShape, DownloadStates
        <3>4. QED
            BY <2>1, <3>1, <3>2, <3>3, FileMoveKeepsInv
    <2>4. QED
        BY <2>2, <2>3
<1>4. CASE RemoveTemp(i)
    <2> DEFINE t == installs[i].of
               f == IF inflight[t].file = "temp" THEN "gone" ELSE inflight[t].file
               next == IF installs[i].pc = "removing" THEN "verifying" ELSE "idle"
    <2>1. /\ installs[i].pc \in {"removing", "removingFailed"} /\ t \in Tarballs
          /\ UNCHANGED <<cached, waiting, shared>>
        BY <1>4 DEF RemoveTemp, DownloadInv, Shapes, InstallsShape
    <2>2. /\ partial' = [partial EXCEPT ![t] = "none"]
          /\ inflight' = [inflight EXCEPT ![t].file = f]
          /\ Move(i, next)
        BY <1>4 DEF RemoveTemp
    <2>3. FilesShape'
        BY <2>1, <2>2 DEF DownloadInv, Shapes, FilesShape, Contents
    <2>4. f \in {"none", "temp", "cache", "gone"}
        BY <2>1 DEF DownloadInv, Shapes, QueueShape, DownloadStates
    <2>5. next \in {"idle", "removing", "verifying"}
        OBVIOUS
    <2>6. QED
        BY <2>1, <2>2, <2>3, <2>4, <2>5, FileMoveKeepsInv
<1>5. CASE Verify(i)
    <2>1. CASE cached[installs[i].of] = "good"
        BY <1>5, <2>1, QuietMoveKeepsInv DEF Verify, InstallPc
    <2>2. CASE cached[installs[i].of] # "good"
        BY <1>5, <2>2, QuietMoveKeepsInv DEF Verify, InstallPc
    <2>3. QED
        BY <2>1, <2>2
<1>6. CASE Extract(i)
    BY <1>6, QuietMoveKeepsInv DEF Extract, InstallPc
<1>7. QED
    BY <1>1, <1>2, <1>3, <1>4, <1>5, <1>6 DEF InstallStep

LEMMA DownloadInvNext == DownloadInv /\ [DownloadNext]_downloadVars => DownloadInv'
<1> SUFFICES ASSUME DownloadInv, [DownloadNext]_downloadVars PROVE DownloadInv'
    OBVIOUS
<1>1. CASE DownloadNext
    BY <1>1, OpenTargetKeepsInv, FinishDownloadKeepsInv, FailDownloadKeepsInv,
       StartInstallKeepsInv, InstallStepKeepsInv DEF DownloadNext
<1>2. CASE UNCHANGED downloadVars
    BY <1>2 DEF downloadVars, DownloadInv, Shapes, FilesShape, QueueShape, InstallsShape,
                SharedIsKnown, DownloadIsAwaited, QueueIsTrue, UnpacksWhatItVerified
<1>3. QED
    BY <1>1, <1>2

\* What is unpacked has been verified unless two installations of the tarball
\* overlap, however many installations share however many tarballs and turns
\* of the queue (PluginRegistryInstaller.installFromRegistry, ensureTarball).
THEOREM UnpacksVerified == DownloadSpec => []UnpacksWhatItVerified
<1>1. DownloadInv => UnpacksWhatItVerified
    BY DEF DownloadInv
<1>2. QED
    BY DownloadInvInit, DownloadInvNext, <1>1, PTL DEF DownloadSpec

\* The queue holds downloads that are queued, each once, and every download
\* under way has an installation that waits for it (DownloadManager.enqueue, drain).
THEOREM DownloadsAreAwaited == DownloadSpec => [](DownloadIsAwaited /\ QueueIsTrue)
<1>1. DownloadInv => DownloadIsAwaited /\ QueueIsTrue
    BY DEF DownloadInv
<1>2. QED
    BY DownloadInvInit, DownloadInvNext, <1>1, PTL DEF DownloadSpec

-----------------------------------------------------------------------------
(* The number of downloads at a time.                                        *)

\* Downloads that have their turn.
Fetching == {t \in Tarballs : inflight[t].pc \in {"fetching", "writing"}}

\* The counter is the number of downloads that have their turn.
TurnsAreCounted ==
    /\ IsFiniteSet(Fetching) /\ downloading = Cardinality(Fetching)
    /\ downloading \in 0..Concurrency

\* The other variables.
StartsFit == shared \subseteq Tarballs /\ starts \in 0..MaxStarts

LEMMA StartsFitNext == StartsFit /\ [DownloadNext]_downloadVars => StartsFit'
<1> SUFFICES ASSUME StartsFit, [DownloadNext]_downloadVars PROVE StartsFit'
    OBVIOUS
<1>1. CASE UNCHANGED <<shared, starts>>
    BY <1>1 DEF StartsFit
<1>2. ASSUME NEW i \in Installs, NEW t \in Tarballs, StartInstall(i, t) PROVE StartsFit'
    <2>1. starts' \in 0..MaxStarts
        BY <1>2, DownloadAssumption DEF StartInstall, StartsFit
    <2>2. shared' \subseteq Tarballs
        BY <1>2 DEF StartInstall, StartsFit
    <2> QED BY <2>1, <2>2 DEF StartsFit
<1>3. ASSUME NEW i \in Installs, InstallStep(i) PROVE UNCHANGED <<shared, starts>>
    BY <1>3 DEF InstallStep, Look, Check, RenameTarball, RemoveTemp, Verify, Extract
<1> QED
    BY <1>1, <1>2, <1>3 DEF DownloadNext, downloadVars, OpenTarget, FinishDownload, FailDownload

\* A download that is asked for takes a turn, if there is one, or shares or queues.
LEMMA EnqueueCounts ==
    ASSUME DownloadInv, TurnsAreCounted, NEW t \in Tarballs, enqueue(t)
    PROVE  TurnsAreCounted'
<1>1. inflight \in [Tarballs -> DownloadStates]
    BY DEF DownloadInv, Shapes, QueueShape
<1>2. CASE inflight[t].pc # "none"
    BY <1>2 DEF enqueue, TurnsAreCounted, Fetching
<1>3. CASE inflight[t].pc = "none" /\ downloading < Concurrency
    <2>1. /\ inflight' = [inflight EXCEPT ![t].pc = "fetching"] /\ downloading' = downloading + 1
        BY <1>3 DEF enqueue
    <2>2. Fetching' = Fetching \union {t} /\ t \notin Fetching
        BY <1>1, <1>3, <2>1 DEF Fetching, DownloadStates
    <2>3. IsFiniteSet(Fetching') /\ Cardinality(Fetching') = Cardinality(Fetching) + 1
        BY <2>2, FS_AddElement DEF TurnsAreCounted
    <2> QED BY <1>3, <2>1, <2>3, DownloadAssumption DEF TurnsAreCounted
<1>4. CASE inflight[t].pc = "none" /\ ~(downloading < Concurrency)
    <2>1. inflight' = [inflight EXCEPT ![t].pc = "queued"] /\ UNCHANGED downloading
        BY <1>4 DEF enqueue
    <2>2. Fetching' = Fetching
        BY <1>1, <1>4, <2>1 DEF Fetching, DownloadStates
    <2> QED BY <2>1, <2>2 DEF TurnsAreCounted
<1> QED BY <1>2, <1>3, <1>4

\* The end of a download gives its turn to the first that waits, or back.
LEMMA SettleCounts ==
    ASSUME DownloadInv, TurnsAreCounted, NEW t \in Fetching, NEW pc, SettleDownload(t, pc)
    PROVE  TurnsAreCounted'
<1>1. inflight \in [Tarballs -> DownloadStates] /\ waiting \in Seq(Tarballs) /\ t \in Tarballs
    BY DEF DownloadInv, Shapes, QueueShape, Fetching
<1>2. /\ IsFiniteSet(Fetching \ {t})
      /\ Cardinality(Fetching \ {t}) = Cardinality(Fetching) - 1
    BY FS_RemoveElement DEF TurnsAreCounted
<1>3. CASE waiting = <<>>
    <2>1. inflight' = [inflight EXCEPT ![t] = NoDownload] /\ downloading' = downloading - 1
        BY <1>3 DEF SettleDownload
    <2>2. Fetching' = Fetching \ {t}
        BY <1>1, <2>1 DEF Fetching, NoDownload
    <2>3. Cardinality(Fetching \ {t}) \in Nat
        BY <1>2, FS_CardinalityType
    <2> QED BY <1>2, <2>1, <2>2, <2>3, DownloadAssumption DEF TurnsAreCounted
<1>4. CASE waiting # <<>>
    <2> DEFINE next == Head(waiting)
    <2>1. next \in Tarballs /\ inflight[next].pc = "queued"
        <3>1. 1 \in 1..Len(waiting) /\ next = waiting[1] /\ waiting[1] \in Tarballs
            BY <1>1, <1>4
        <3> QED BY <3>1 DEF DownloadInv, QueueIsTrue
    <2>2. next \notin Fetching /\ next # t
        BY <2>1 DEF Fetching
    <2>3. /\ inflight' = [inflight EXCEPT ![t] = NoDownload, ![next].pc = "fetching"]
          /\ UNCHANGED downloading
        BY <1>4 DEF SettleDownload
    <2> HIDE DEF next
    <2>4. Fetching' = (Fetching \ {t}) \union {next}
        BY <1>1, <2>1, <2>2, <2>3 DEF Fetching, NoDownload, DownloadStates
    <2>5. /\ IsFiniteSet(Fetching')
          /\ Cardinality(Fetching') = Cardinality(Fetching \ {t}) + 1
        BY <1>2, <2>2, <2>4, FS_AddElement
    <2>6. Cardinality(Fetching) \in Nat
        BY FS_CardinalityType DEF TurnsAreCounted
    <2> QED BY <1>2, <2>3, <2>5, <2>6 DEF TurnsAreCounted
<1> QED BY <1>3, <1>4

\* A file that is opened or renamed takes no turn.
LEMMA FilesCountNothing ==
    ASSUME TurnsAreCounted, inflight \in [Tarballs -> DownloadStates], UNCHANGED downloading,
           NEW t \in Tarballs, NEW f,
           \/ inflight' = inflight
           \/ inflight' = [inflight EXCEPT ![t].file = f]
           \/ inflight[t].pc = "fetching"
              /\ inflight' = [inflight EXCEPT ![t] = [pc |-> "writing", file |-> f]]
    PROVE  TurnsAreCounted'
<1>1. Fetching' = Fetching
    BY DEF Fetching, DownloadStates
<1> QED BY <1>1 DEF TurnsAreCounted

LEMMA TurnsAreCountedNext ==
    DownloadInv /\ TurnsAreCounted /\ [DownloadNext]_downloadVars => TurnsAreCounted'
<1> SUFFICES ASSUME DownloadInv, TurnsAreCounted, [DownloadNext]_downloadVars
             PROVE  TurnsAreCounted'
    OBVIOUS
<1>1. inflight \in [Tarballs -> DownloadStates]
    BY DEF DownloadInv, Shapes, QueueShape
<1>2. CASE UNCHANGED <<inflight, downloading>>
    BY <1>2 DEF TurnsAreCounted, Fetching
<1>3. ASSUME NEW t \in Tarballs, OpenTarget(t) PROVE TurnsAreCounted'
    BY <1>1, <1>3, FilesCountNothing DEF OpenTarget
<1>4. ASSUME NEW t \in Tarballs, FinishDownload(t) \/ FailDownload(t) PROVE TurnsAreCounted'
    BY <1>4, SettleCounts DEF FinishDownload, FailDownload, Fetching
<1>5. ASSUME NEW i \in Installs, InstallStep(i) PROVE TurnsAreCounted'
    <2>1. installs[i].pc # "idle" => installs[i].of \in Tarballs
        BY DEF DownloadInv, Shapes, InstallsShape
    <2>2. CASE Look(i) \/ Check(i)
        <3>1. installs[i].of \in Tarballs
            BY <2>1, <2>2 DEF Look, Check
        <3> QED BY <1>2, <2>2, <3>1, EnqueueCounts DEF Look, Check
    <2>3. CASE RenameTarball(i) \/ RemoveTemp(i)
        <3>1. installs[i].of \in Tarballs
            BY <2>1, <2>3 DEF RenameTarball, RemoveTemp
        <3>2. UNCHANGED downloading
            BY <2>3 DEF RenameTarball, RemoveTemp
        <3>3. \/ inflight' = inflight
              \/ \E f : inflight' = [inflight EXCEPT ![installs[i].of].file = f]
            BY <2>3 DEF RenameTarball, RemoveTemp
        <3> QED BY <1>1, <3>1, <3>2, <3>3, FilesCountNothing
    <2>4. CASE Verify(i) \/ Extract(i)
        BY <1>2, <2>4 DEF Verify, Extract
    <2> QED BY <1>5, <2>2, <2>3, <2>4 DEF InstallStep
<1>6. ASSUME NEW i \in Installs, NEW t \in Tarballs, StartInstall(i, t) PROVE TurnsAreCounted'
    BY <1>2, <1>6 DEF StartInstall
<1> QED
    BY <1>2, <1>3, <1>4, <1>5, <1>6 DEF DownloadNext, downloadVars

\* No more downloads have their turn than may at a time, and the counter is their number,
\* however downloads are shared, queued, repeated and fail (DownloadManager.enqueue, drain);
\* files and calls are in the states of the code.
THEOREM DownloadTypesHold ==
    DownloadSpec => [](DownloadTypeOK /\ Cardinality(Fetching) <= Concurrency)
<1>1. DownloadInit => TurnsAreCounted /\ StartsFit
    <2> SUFFICES ASSUME DownloadInit PROVE TurnsAreCounted /\ StartsFit
        OBVIOUS
    <2>1. Fetching = {} /\ downloading = 0
        BY DEF DownloadInit, Fetching, NoDownload
    <2>2. IsFiniteSet(Fetching) /\ Cardinality(Fetching) = 0
        BY <2>1, FS_EmptySet
    <2> QED BY <2>1, <2>2, DownloadAssumption DEF DownloadInit, TurnsAreCounted, StartsFit
<1>2. DownloadInv /\ TurnsAreCounted /\ StartsFit
          => DownloadTypeOK /\ Cardinality(Fetching) <= Concurrency
    BY DownloadAssumption
       DEF DownloadInv, Shapes, FilesShape, QueueShape, InstallsShape, TurnsAreCounted, StartsFit,
           DownloadStates, InstallStates, InstallPc, DownloadTypeOK
<1> QED
    BY DownloadInvInit, DownloadInvNext, TurnsAreCountedNext, StartsFitNext, <1>1, <1>2, PTL
       DEF DownloadSpec


-----------------------------------------------------------------------------
(* The JSON-RPC endpoints.                                                   *)

PromiseStates == {"pending", "resolved", "rejected", "gaveUp", "lost"}
Messages == [type : {"request", "cancel"}, client : Clients, id : Nat]
Responses == [client : Clients, id : Nat, result : Results]

\* The call a message, a response or a handler is about
Call(m) == <<m.client, m.id>>

\* The calls there have been, and those whose handlers run
Given == {k \in Clients \X Nat : k[2] \in DOMAIN promises[k[1]]}
Running == {Call(j) : j \in DOMAIN jobs}

RpcShapes ==
    /\ promises \in [Clients -> Seq(PromiseStates)]
    /\ toServer \in [Windows -> Seq(Messages)] /\ toClient \in [Windows -> Seq(Responses)]
    /\ created \in [Windows -> 1..MaxClients] /\ listening \subseteq Windows
    /\ DOMAIN jobs \subseteq [client : Clients, id : Nat]

\* A call is in one place: on its way to the server, with its handler, or answered. What
\* is on its way either way belongs to a call of its own window.
Placed(w, given, running, in, out) ==
    /\ \A i \in DOMAIN in :
          /\ Call(in[i]) \in given /\ Window(in[i].client) = w
          /\ in[i].type = "request" =>
                /\ Call(in[i]) \notin running
                /\ \A k \in DOMAIN out : Call(out[k]) # Call(in[i])
                /\ \A j \in DOMAIN in :
                      in[j].type = "request" /\ Call(in[j]) = Call(in[i]) => j = i
    /\ \A k \in DOMAIN out :
          Call(out[k]) \in given /\ Window(out[k].client) = w /\ Call(out[k]) \notin running

InOnePlace(w) == Placed(w, Given, Running, toServer[w], toClient[w])

RpcInv ==
    /\ RpcShapes
    /\ Running \subseteq Given
    /\ \A k \in Given : k[1][2] <= created[Window(k[1])]
    /\ \A w \in Windows : InOnePlace(w)

\* The rest of a queue, one element later.
LEMMA RestOfQueue ==
    ASSUME NEW S, NEW q \in Seq(S), q # <<>>
    PROVE  /\ Tail(q) \in Seq(S) /\ Head(q) = q[1] /\ 1 \in DOMAIN q /\ q[1] \in S
           /\ \A i \in DOMAIN Tail(q) : i + 1 \in DOMAIN q /\ Tail(q)[i] = q[i + 1] /\ i \in Nat
           /\ \A i \in DOMAIN Tail(q) : i + 1 # 1
OBVIOUS

\* A queue with one more element.
LEMMA LongerQueue ==
    ASSUME NEW S, NEW q \in Seq(S), NEW e \in S
    PROVE  /\ Append(q, e) \in Seq(S) /\ Len(q) + 1 \notin DOMAIN q
           /\ DOMAIN Append(q, e) = DOMAIN q \union {Len(q) + 1}
           /\ Append(q, e)[Len(q) + 1] = e
           /\ \A i \in DOMAIN q : Append(q, e)[i] = q[i]
OBVIOUS

\* More calls, handlers that end, and handlers of other windows' calls disturb nothing.
LEMMA PlacedStill ==
    ASSUME NEW w, NEW given, NEW running, NEW in, NEW out, Placed(w, given, running, in, out),
           NEW more, given \subseteq more, NEW runs,
           \A k \in runs : k \in running \/ Window(k[1]) # w
    PROVE  Placed(w, more, runs, in, out)
<1>1. \A m : Call(m)[1] = m.client BY DEF Call
<1>2. \A m : Window(m.client) = w /\ Call(m) \notin running => Call(m) \notin runs BY <1>1
<1> HIDE DEF Call
<1> QED BY <1>2 DEF Placed

\* A new call joins the queue to the server.
LEMMA PlacedAsked ==
    ASSUME NEW w, NEW given, NEW running, NEW in \in Seq(Messages), NEW out,
           Placed(w, given, running, in, out), running \subseteq given,
           NEW m \in Messages, m.type = "request", Call(m) \notin given, Window(m.client) = w
    PROVE  Placed(w, given \union {Call(m)}, running, Append(in, m), out)
<1> DEFINE n == Len(in) + 1
           q == Append(in, m)
<1>1. \A i \in DOMAIN q : (i \in DOMAIN in /\ q[i] = in[i]) \/ (i = n /\ q[i] = m)
  <2>1. DOMAIN q = DOMAIN in \union {n} /\ q[n] = m /\ \A i \in DOMAIN in : q[i] = in[i]
        OBVIOUS
  <2> QED BY <2>1, Zenon
<1> HIDE DEF q, n
<1> QED BY <1>1 DEF Placed, q

\* A cancellation of a call joins the queue to the server.
LEMMA PlacedCancelled ==
    ASSUME NEW w, NEW given, NEW running, NEW in \in Seq(Messages), NEW out,
           Placed(w, given, running, in, out),
           NEW m \in Messages, m.type = "cancel", Call(m) \in given, Window(m.client) = w
    PROVE  Placed(w, given, running, Append(in, m), out)
<1> DEFINE n == Len(in) + 1
           q == Append(in, m)
<1>1. \A i \in DOMAIN q : (i \in DOMAIN in /\ q[i] = in[i]) \/ (i = n /\ q[i] = m)
  <2>1. DOMAIN q = DOMAIN in \union {n} /\ q[n] = m /\ \A i \in DOMAIN in : q[i] = in[i]
        OBVIOUS
  <2> QED BY <2>1, Zenon
<1> HIDE DEF q, n
<1> QED BY <1>1 DEF Placed, q

\* What is first in the queue to the server leaves it, and if it is a request a handler may
\* run for it.
LEMMA PlacedReceived ==
    ASSUME NEW w, NEW given, NEW running, NEW in \in Seq(Messages), in # <<>>, NEW out,
           Placed(w, given, running, in, out), NEW runs,
           \/ runs = running
           \/ Head(in).type = "request" /\ runs = running \union {Call(Head(in))}
    PROVE  Placed(w, given, runs, Tail(in), out)
<1> DEFINE q == Tail(in)
<1>1. /\ Head(in) = in[1] /\ 1 \in DOMAIN in
      /\ \A i \in DOMAIN q : \E a \in DOMAIN in : a = i + 1 /\ a # 1 /\ q[i] = in[a] /\ i \in Nat
      BY RestOfQueue
<1> HIDE DEF q
<1>2. ASSUME NEW i \in DOMAIN q
      PROVE  /\ Call(q[i]) \in given /\ Window(q[i].client) = w
             /\ q[i].type = "request" =>
                   /\ Call(q[i]) \notin runs
                   /\ \A k \in DOMAIN out : Call(out[k]) # Call(q[i])
                   /\ \A j \in DOMAIN q :
                         q[j].type = "request" /\ Call(q[j]) = Call(q[i]) => j = i
  <2>1. PICK a \in DOMAIN in : a = i + 1 /\ a # 1 /\ q[i] = in[a] /\ i \in Nat BY <1>1
  <2>2. Call(q[i]) \in given /\ Window(q[i].client) = w BY <2>1 DEF Placed
  <2>3. ASSUME q[i].type = "request"
        PROVE  Call(q[i]) \notin runs /\ \A k \in DOMAIN out : Call(out[k]) # Call(q[i])
        BY <1>1, <2>1, <2>3 DEF Placed
  <2>4. ASSUME q[i].type = "request", NEW j \in DOMAIN q, q[j].type = "request",
               Call(q[j]) = Call(q[i])
        PROVE  j = i
    <3>1. PICK b \in DOMAIN in : b = j + 1 /\ q[j] = in[b] /\ j \in Nat BY <1>1
    <3>2. a = b BY <2>1, <2>4, <3>1 DEF Placed
    <3> QED BY <2>1, <3>1, <3>2
  <2> QED BY <2>2, <2>3, <2>4
<1>3. ASSUME NEW k \in DOMAIN out
      PROVE  Call(out[k]) \in given /\ Window(out[k].client) = w /\ Call(out[k]) \notin runs
      BY <1>1 DEF Placed
<1> QED BY <1>2, <1>3 DEF Placed, q

\* A response reaches its window.
LEMMA PlacedHandled ==
    ASSUME NEW w, NEW given, NEW running, NEW in, NEW out \in Seq(Responses), out # <<>>,
           Placed(w, given, running, in, out)
    PROVE  Placed(w, given, running, in, Tail(out))
<1> DEFINE q == Tail(out)
<1>1. \A i \in DOMAIN q : \E a \in DOMAIN out : q[i] = out[a] BY RestOfQueue
<1> HIDE DEF q
<1> QED BY <1>1 DEF Placed, q

\* A handler that ends becomes an answer.
LEMMA PlacedAnswered ==
    ASSUME NEW w, NEW given, NEW running, NEW in, NEW out \in Seq(Responses),
           Placed(w, given, running, in, out), running \subseteq given,
           NEW e \in Responses, Call(e) \in running, Window(e.client) = w
    PROVE  Placed(w, given, running \ {Call(e)}, in, Append(out, e))
<1> DEFINE n == Len(out) + 1
           q == Append(out, e)
<1>1. \A i \in DOMAIN q : (i \in DOMAIN out /\ q[i] = out[i]) \/ (i = n /\ q[i] = e)
  <2>1. DOMAIN q = DOMAIN out \union {n} /\ q[n] = e /\ \A i \in DOMAIN out : q[i] = out[i]
        OBVIOUS
  <2> QED BY <2>1, Zenon
<1> HIDE DEF q, n
<1> QED BY <1>1 DEF Placed, q

\* The window of a client is one, and a client is known by its window and its number.
LEMMA ClientsHaveWindows ==
    /\ \A c \in Clients : Window(c) \in Windows /\ c[2] \in 1..MaxClients
    /\ \A c, d \in Clients : Window(c) = Window(d) /\ c[2] = d[2] => c = d
    /\ \A c : <<c, c>>[1] = c /\ <<c, c>>[2] = c
    /\ \A c, id : Call(Job(c, id)) = <<c, id>> /\ <<c, id>>[1] = c /\ <<c, id>>[2] = id
BY DEF Clients, Window, Call, Job

\* A call begins: its promise, and its message if the window's transport works.
LEMMA RequestKeepsPlaces ==
    ASSUME RpcInv, NEW c \in Clients, request(c)
    PROVE  RpcInv'
<1> DEFINE id == Len(promises[c]) + 1
           k == <<c, id>>
           w == Window(c)
           m == [type |-> "request", client |-> c, id |-> id]
<1>1. promises[c] \in Seq(PromiseStates) /\ toServer[w] \in Seq(Messages) /\ w \in Windows
      BY ClientsHaveWindows DEF RpcInv, RpcShapes
<1>2. m \in Messages /\ Call(m) = k /\ m.type = "request" /\ m.client = c
      BY <1>1 DEF Messages, Call
<1>3. /\ \E state \in PromiseStates : promises' = [promises EXCEPT ![c] = Append(@, state)]
      /\ toServer' = toServer \/ toServer' = [toServer EXCEPT ![w] = Append(@, m)]
      /\ UNCHANGED <<created, listening, toClient, jobs>> /\ c[2] <= created[w]
      BY DEF request, Send, windowVars, PromiseStates
<1>4. PICK state \in PromiseStates : promises' = [promises EXCEPT ![c] = Append(@, state)]
      BY <1>3
<1>5. promises' \in [Clients -> Seq(PromiseStates)] /\ promises'[c] = Append(promises[c], state)
      /\ \A d \in Clients : d # c => promises'[d] = promises[d]
  <2>1. Append(promises[c], state) \in Seq(PromiseStates) BY <1>1
  <2> QED BY <1>4, <2>1 DEF RpcInv, RpcShapes
<1>6. DOMAIN promises'[c] = DOMAIN promises[c] \union {id} /\ id \notin DOMAIN promises[c]
      /\ id \in Nat
      BY <1>1, <1>5, LongerQueue
<1> HIDE DEF m, id
<1>7. k \notin Given BY <1>6 DEF Given
<1>8. Given' = Given \union {k}
  <2>1. \A d \in Clients, i \in Nat :
           i \in DOMAIN promises'[d] <=> i \in DOMAIN promises[d] \/ (d = c /\ i = id)
        BY <1>5, <1>6
  <2>2. ASSUME NEW d \in Clients, NEW i \in Nat
        PROVE  <<d, i>> \in Given' <=> <<d, i>> \in Given \union {k}
        BY <1>3, <1>6, <2>1 DEF Given
  <2>3. Given' \subseteq Clients \X Nat /\ Given \union {k} \subseteq Clients \X Nat
        BY <1>6 DEF Given
  <2> HIDE DEF k
  <2> QED BY <2>2, <2>3
<1>9. /\ Running' = Running /\ Running \subseteq Given
      /\ \A h \in Given' : h[1][2] <= created'[Window(h[1])]
  <2>1. /\ Running' = Running /\ Running \subseteq Given
        /\ \A h \in Given : h[1][2] <= created[Window(h[1])]
        BY <1>3 DEF Running, RpcInv
  <2>2. k[1] = c BY ClientsHaveWindows
  <2> HIDE DEF k
  <2> QED BY <1>3, <1>8, <2>1, <2>2
<1>10. ASSUME NEW v \in Windows, toServer'[v] = toServer[v] PROVE InOnePlace(v)'
  <2>1. Placed(v, Given, Running, toServer[v], toClient[v]) BY DEF RpcInv, InOnePlace
  <2>2. Placed(v, Given', Running, toServer[v], toClient[v])
        BY <1>8, <2>1, PlacedStill
  <2> QED BY <1>3, <1>9, <1>10, <2>2 DEF InOnePlace
<1>11. CASE toServer' = toServer
  <2>1. \A v \in Windows : InOnePlace(v)' BY <1>10, <1>11
  <2> QED BY <1>3, <1>5, <1>8, <1>9, <1>11, <2>1 DEF RpcInv, RpcShapes
<1>12. CASE toServer' = [toServer EXCEPT ![w] = Append(@, m)]
  <2> HIDE DEF w, k
  <2>1. toServer'[w] = Append(toServer[w], m) /\ \A v \in Windows : v # w => toServer'[v] = toServer[v]
        BY <1>1, <1>12 DEF RpcInv, RpcShapes
  <2>2. Append(toServer[w], m) \in Seq(Messages) BY <1>1, <1>2, LongerQueue
  <2>3. toServer' \in [Windows -> Seq(Messages)] BY <1>12, <2>2 DEF RpcInv, RpcShapes
  <2>4. InOnePlace(w)'
    <3>1. Placed(w, Given, Running, toServer[w], toClient[w]) BY <1>1 DEF RpcInv, InOnePlace
    <3>2. Placed(w, Given \union {k}, Running, Append(toServer[w], m), toClient[w])
      <4>1. Window(m.client) = w BY <1>2 DEF w
      <4> QED BY <1>1, <1>2, <1>7, <1>9, <3>1, <4>1, PlacedAsked
    <3> QED BY <1>3, <1>8, <1>9, <2>1, <3>2 DEF InOnePlace
  <2>5. \A v \in Windows : InOnePlace(v)' BY <1>10, <2>1, <2>4
  <2> QED BY <1>3, <1>5, <1>8, <1>9, <2>3, <2>5 DEF RpcInv, RpcShapes
<1> QED BY <1>3, <1>11, <1>12

\* Promises that are settled, clients that come and go, cancellations, and queues that lose
\* what is first in them give no call another place.
LEMMA RestKeepsPlaces ==
    ASSUME RpcInv, NEW w \in Windows,
           promises' \in [Clients -> Seq(PromiseStates)],
           \A d \in Clients : DOMAIN promises'[d] = DOMAIN promises[d],
           created' \in [Windows -> 1..MaxClients],
           \A v \in Windows : created[v] <= created'[v],
           listening' \subseteq Windows, DOMAIN jobs' = DOMAIN jobs,
           \/ UNCHANGED toServer
           \/ toServer[w] # <<>> /\ toServer' = [toServer EXCEPT ![w] = Tail(@)]
           \/ \E m \in Messages :
                 /\ m.type = "cancel" /\ Call(m) \in Given /\ Window(m.client) = w
                 /\ toServer' = [toServer EXCEPT ![w] = Append(@, m)],
           \/ UNCHANGED toClient
           \/ toClient[w] # <<>> /\ toClient' = [toClient EXCEPT ![w] = Tail(@)]
    PROVE  RpcInv'
<1>1. Running' = Running /\ Running \subseteq Given BY DEF Running, RpcInv
<1>2. Given' = Given /\ \A k \in Given' : k[1][2] <= created'[Window(k[1])]
  <2>1. Given' = Given BY DEF Given
  <2>2. ASSUME NEW k \in Given PROVE k[1][2] <= created'[Window(k[1])]
    <3>1. k[1] \in Clients /\ k[1][2] <= created[Window(k[1])] BY DEF RpcInv, Given
    <3> DEFINE v == Window(k[1])
    <3>2. v \in Windows /\ k[1][2] \in Nat BY <3>1, ClientsHaveWindows
    <3> HIDE DEF v
    <3>3. created[v] \in Nat /\ created'[v] \in Nat /\ created[v] <= created'[v]
          BY <3>2, RpcAssumption DEF RpcInv, RpcShapes
    <3>4. k[1][2] <= created[v] BY <3>1 DEF v
    <3>5. k[1][2] <= created'[v] BY <3>2, <3>3, <3>4
    <3> QED BY <3>5 DEF v
  <2> QED BY <2>1, <2>2
<1>3. /\ toServer[w] \in Seq(Messages) /\ toClient[w] \in Seq(Responses)
      /\ toServer \in [Windows -> Seq(Messages)] /\ toClient \in [Windows -> Seq(Responses)]
      BY DEF RpcInv, RpcShapes
<1>4. \A v \in Windows : v # w => toServer'[v] = toServer[v] /\ toClient'[v] = toClient[v]
      BY <1>3
<1>5. ASSUME NEW v \in Windows PROVE Placed(v, Given', Running, toServer[v], toClient[v])
  <2>1. Placed(v, Given, Running, toServer[v], toClient[v]) BY DEF RpcInv, InOnePlace
  <2> QED BY <1>2, <2>1, PlacedStill
<1>6. toServer' \in [Windows -> Seq(Messages)]
      /\ Placed(w, Given', Running, toServer'[w], toClient[w])
  <2>1. CASE UNCHANGED toServer BY <1>3, <1>5, <2>1
  <2>2. CASE toServer[w] # <<>> /\ toServer' = [toServer EXCEPT ![w] = Tail(toServer[w])]
    <3>1. Tail(toServer[w]) \in Seq(Messages) BY <1>3, <2>2, RestOfQueue
    <3>2. toServer' \in [Windows -> Seq(Messages)] /\ toServer'[w] = Tail(toServer[w])
          BY <1>3, <2>2, <3>1
    <3>3. Placed(w, Given', Running, Tail(toServer[w]), toClient[w])
          BY <1>3, <1>5, <2>2, PlacedReceived
    <3> QED BY <3>2, <3>3
  <2>3. ASSUME NEW m \in Messages, m.type = "cancel", Call(m) \in Given, Window(m.client) = w,
               toServer' = [toServer EXCEPT ![w] = Append(toServer[w], m)]
        PROVE  toServer' \in [Windows -> Seq(Messages)]
               /\ Placed(w, Given', Running, toServer'[w], toClient[w])
    <3>1. Append(toServer[w], m) \in Seq(Messages) BY <1>3, LongerQueue
    <3>2. toServer' \in [Windows -> Seq(Messages)] /\ toServer'[w] = Append(toServer[w], m)
          BY <1>3, <2>3, <3>1
    <3>3. Call(m) \in Given' BY <1>2, <2>3
    <3>4. Placed(w, Given', Running, Append(toServer[w], m), toClient[w])
          BY <1>3, <1>5, <2>3, <3>3, PlacedCancelled
    <3> QED BY <3>2, <3>4
  <2> QED BY <2>1, <2>2, <2>3
<1>7. toClient' \in [Windows -> Seq(Responses)]
      /\ Placed(w, Given', Running, toServer'[w], toClient'[w])
  <2>1. CASE UNCHANGED toClient BY <1>3, <1>6, <2>1
  <2>2. CASE toClient[w] # <<>> /\ toClient' = [toClient EXCEPT ![w] = Tail(toClient[w])]
    <3>1. Tail(toClient[w]) \in Seq(Responses) BY <1>3, <2>2, RestOfQueue
    <3>2. toClient' \in [Windows -> Seq(Responses)] /\ toClient'[w] = Tail(toClient[w])
          BY <1>3, <2>2, <3>1
    <3>3. Placed(w, Given', Running, toServer'[w], Tail(toClient[w]))
          BY <1>3, <1>6, <2>2, PlacedHandled
    <3> QED BY <3>2, <3>3
  <2> QED BY <2>1, <2>2
<1>8. \A v \in Windows : InOnePlace(v)'
  <2> SUFFICES ASSUME NEW v \in Windows PROVE InOnePlace(v)'
      OBVIOUS
  <2>1. CASE v = w BY <1>1, <1>7, <2>1 DEF InOnePlace
  <2>2. CASE v # w BY <1>1, <1>4, <1>5, <2>2 DEF InOnePlace
  <2> QED BY <2>1, <2>2
<1>9. RpcShapes' BY <1>6, <1>7 DEF RpcInv, RpcShapes
<1> QED BY <1>1, <1>2, <1>8, <1>9 DEF RpcInv

\* A request that arrives becomes a handler.
LEMMA ArrivingKeepsPlaces ==
    ASSUME RpcInv, NEW w \in Windows, HandleRequest(w)
    PROVE  RpcInv'
<1> DEFINE m == Head(toServer[w])
           q == Tail(toServer[w])
<1>1. toServer[w] \in Seq(Messages) /\ toServer[w] # <<>> BY DEF RpcInv, RpcShapes, HandleRequest
<1>2. m = toServer[w][1] /\ 1 \in DOMAIN toServer[w] /\ m \in Messages /\ q \in Seq(Messages)
      BY <1>1, RestOfQueue
<1>3. /\ toServer' = [toServer EXCEPT ![w] = q]
      /\ UNCHANGED <<promises, created, listening, toClient>>
      BY DEF HandleRequest, Received, windowVars
<1>4. m.type = "request" /\ DOMAIN jobs' = DOMAIN jobs \union {Job(m.client, m.id)}
      BY DEF HandleRequest
<1> HIDE DEF q, m
<1>5. toServer'[w] = q /\ (\A v \in Windows : v # w => toServer'[v] = toServer[v])
      /\ toServer' \in [Windows -> Seq(Messages)]
      BY <1>2, <1>3 DEF RpcInv, RpcShapes
<1>6. Placed(w, Given, Running, toServer[w], toClient[w]) BY DEF RpcInv, InOnePlace
<1>7. Call(m) \in Given /\ Window(m.client) = w BY <1>2, <1>6 DEF Placed
<1>8. Running' = Running \union {Call(m)} /\ Call(m)[1] = m.client
  <2>1. Call(Job(m.client, m.id)) = Call(m) /\ Call(m)[1] = m.client BY DEF Call, Job
  <2> HIDE DEF Call
  <2> QED BY <1>4, <2>1 DEF Running
<1>9. Given' = Given BY <1>3 DEF Given
<1>10. Job(m.client, m.id) \in [client : Clients, id : Nat] BY <1>2 DEF Messages, Job
<1>11. RpcShapes' BY <1>3, <1>4, <1>5, <1>10 DEF RpcInv, RpcShapes
<1>12. ASSUME NEW v \in Windows, v # w PROVE InOnePlace(v)'
  <2>1. Placed(v, Given, Running, toServer[v], toClient[v]) BY DEF RpcInv, InOnePlace
  <2>2. \A k \in Running' : k \in Running \/ Window(k[1]) # v BY <1>7, <1>8, <1>12
  <2>3. Placed(v, Given, Running', toServer[v], toClient[v]) BY <2>1, <2>2, PlacedStill
  <2> QED BY <1>3, <1>5, <1>9, <1>12, <2>3 DEF InOnePlace
<1>13. InOnePlace(w)'
  <2>1. Placed(w, Given, Running \union {Call(m)}, q, toClient[w])
        BY <1>1, <1>4, <1>6, PlacedReceived DEF m, q
  <2> QED BY <1>3, <1>5, <1>8, <1>9, <2>1 DEF InOnePlace
<1> QED BY <1>3, <1>7, <1>8, <1>9, <1>11, <1>12, <1>13 DEF RpcInv

\* A handler that ends becomes an answer.
LEMMA AnsweringKeepsPlaces ==
    ASSUME RpcInv, NEW c \in Clients, NEW id \in Ids, Handled(c, id)
    PROVE  RpcInv'
<1> DEFINE w == Window(c)
<1>1. PICK result \in Results :
         toClient' = [toClient EXCEPT ![w] =
                         Append(toClient[w], [client |-> c, id |-> id, result |-> result])]
      BY DEF Handled, Reply
<1> DEFINE e == [client |-> c, id |-> id, result |-> result]
<1>2. w \in Windows BY ClientsHaveWindows
<1>3. e \in Responses /\ e.client = c /\ Call(e) = <<c, id>>
  <2>1. id \in Nat BY RpcAssumption DEF Ids
  <2> QED BY <2>1 DEF Responses, Call
<1> HIDE DEF e, w
<1>4. toClient[w] \in Seq(Responses) /\ Append(toClient[w], e) \in Seq(Responses)
  <2>1. toClient[w] \in Seq(Responses) BY <1>2 DEF RpcInv, RpcShapes
  <2> QED BY <1>3, <2>1, LongerQueue
<1>5. /\ toClient'[w] = Append(toClient[w], e)
      /\ \A v \in Windows : v # w => toClient'[v] = toClient[v]
      /\ toClient' \in [Windows -> Seq(Responses)]
      BY <1>1, <1>2, <1>4 DEF RpcInv, RpcShapes, e
<1>6. /\ UNCHANGED <<promises, created, listening, toServer>> /\ Job(c, id) \in DOMAIN jobs
      /\ DOMAIN jobs' = DOMAIN jobs \ {Job(c, id)}
      BY DEF Handled, windowVars, JobRuns
<1>7. DOMAIN jobs \subseteq [client : Clients, id : Nat] BY DEF RpcInv, RpcShapes
<1>8. Running' = Running \ {Call(e)} /\ Call(e) \in Running
  <2>1. \A j \in DOMAIN jobs : Call(j) = <<c, id>> => j = Job(c, id)
        BY <1>7 DEF Call, Job
  <2>2. Call(Job(c, id)) = <<c, id>> BY ClientsHaveWindows
  <2> HIDE DEF Call
  <2> QED BY <1>3, <1>6, <2>1, <2>2 DEF Running
<1>9. Given' = Given /\ Running \subseteq Given BY <1>6 DEF Given, RpcInv
<1>10. RpcShapes' BY <1>5, <1>6 DEF RpcInv, RpcShapes
<1>11. ASSUME NEW v \in Windows, v # w PROVE InOnePlace(v)'
  <2>1. Placed(v, Given, Running, toServer[v], toClient[v]) BY DEF RpcInv, InOnePlace
  <2>2. Placed(v, Given, Running', toServer[v], toClient[v]) BY <1>8, <2>1, PlacedStill
  <2> QED BY <1>5, <1>6, <1>9, <1>11, <2>2 DEF InOnePlace
<1>12. InOnePlace(w)'
  <2>1. Placed(w, Given, Running, toServer[w], toClient[w]) BY <1>2 DEF RpcInv, InOnePlace
  <2>2. Placed(w, Given, Running \ {Call(e)}, toServer[w], Append(toClient[w], e))
    <3>1. Window(e.client) = w BY <1>3 DEF w
    <3> QED BY <1>3, <1>4, <1>8, <1>9, <2>1, <3>1, PlacedAnswered
  <2> QED BY <1>5, <1>6, <1>8, <1>9, <2>2 DEF InOnePlace
<1> QED BY <1>6, <1>8, <1>9, <1>10, <1>11, <1>12 DEF RpcInv

\* Settling one promise, or rejecting those that are pending, leaves the ids as they are.
LEMMA SettledShapes ==
    ASSUME RpcShapes, NEW c \in Clients,
           \/ \E id \in DOMAIN promises[c], outcome \in PromiseStates : SettleCall(c, id, outcome)
           \/ promises' = [promises EXCEPT ![c] = [id \in DOMAIN @ |->
                              IF @[id] = "pending" THEN "rejected" ELSE @[id]]]
           \/ UNCHANGED promises
    PROVE  /\ promises' \in [Clients -> Seq(PromiseStates)]
           /\ \A d \in Clients : DOMAIN promises'[d] = DOMAIN promises[d]
<1>1. promises \in [Clients -> Seq(PromiseStates)] /\ promises[c] \in Seq(PromiseStates)
      BY DEF RpcShapes
<1>2. CASE UNCHANGED promises BY <1>1, <1>2
<1>3. ASSUME NEW id \in DOMAIN promises[c], NEW outcome \in PromiseStates,
             SettleCall(c, id, outcome)
      PROVE  /\ promises' \in [Clients -> Seq(PromiseStates)]
             /\ \A d \in Clients : DOMAIN promises'[d] = DOMAIN promises[d]
  <2> DEFINE q == [promises[c] EXCEPT ![id] = outcome]
  <2>1. promises' = [promises EXCEPT ![c] = q] BY <1>3 DEF SettleCall
  <2>2. q \in Seq(PromiseStates) /\ DOMAIN q = DOMAIN promises[c] BY <1>1
  <2> HIDE DEF q
  <2> QED BY <1>1, <2>1, <2>2
<1>4. CASE promises' = [promises EXCEPT ![c] = [id \in DOMAIN promises[c] |->
                           IF promises[c][id] = "pending" THEN "rejected" ELSE promises[c][id]]]
  <2> DEFINE q == [id \in DOMAIN promises[c] |->
                     IF promises[c][id] = "pending" THEN "rejected" ELSE promises[c][id]]
  <2>1. DOMAIN promises[c] = 1..Len(promises[c]) /\ Len(promises[c]) \in Nat BY <1>1
  <2>2. \A id \in DOMAIN promises[c] : promises[c][id] \in PromiseStates BY <1>1
  <2>3. \A id \in DOMAIN promises[c] : q[id] \in PromiseStates BY <2>2 DEF PromiseStates
  <2>4. q \in Seq(PromiseStates) /\ DOMAIN q = DOMAIN promises[c]
    <3>1. q \in [1..Len(promises[c]) -> PromiseStates] BY <2>1, <2>3
    <3> QED BY <2>1, <3>1
  <2>5. promises' = [promises EXCEPT ![c] = q] BY <1>4
  <2> HIDE DEF q
  <2> QED BY <1>1, <2>4, <2>5
<1> QED BY <1>2, <1>3, <1>4

\* Every step keeps every call in one place.
LEMMA RpcStep == RpcInv /\ [RpcNext]_rpcVars => RpcInv'
<1> SUFFICES ASSUME RpcInv, [RpcNext]_rpcVars PROVE RpcInv'
    OBVIOUS
<1>1. /\ RpcShapes /\ promises \in [Clients -> Seq(PromiseStates)]
      /\ created \in [Windows -> 1..MaxClients] /\ listening \subseteq Windows
      /\ \A w \in Windows : created[w] \in Nat /\ LastClient(w) \in Clients /\ Window(LastClient(w)) = w
      BY RpcAssumption DEF RpcInv, RpcShapes, LastClient, Clients, Window
<1> DEFINE CreatedFits ==
           /\ created' \in [Windows -> 1..MaxClients]
           /\ \A v \in Windows : created[v] <= created'[v]
<1>a. UNCHANGED created => CreatedFits
  <2>1. \A v \in Windows : created[v] <= created[v] BY <1>1
  <2> QED BY <1>1, <2>1
<1>2. ASSUME NEW c \in Clients, NEW id \in Ids, GiveUp(c, id)
      PROVE  RpcInv'
  <2>1. id \in DOMAIN promises[c] /\ promises[c] \in Seq(PromiseStates)
        /\ UNCHANGED <<created, listening, toClient, jobs>>
        BY <1>1, <1>2 DEF GiveUp, windowVars
  <2>2. \E outcome \in PromiseStates : SettleCall(c, id, outcome)
        BY <1>2 DEF GiveUp, PromiseStates
  <2>3. /\ promises' \in [Clients -> Seq(PromiseStates)]
        /\ \A d \in Clients : DOMAIN promises'[d] = DOMAIN promises[d]
        BY <1>1, <2>1, <2>2, SettledShapes
  <2> DEFINE m == [type |-> "cancel", client |-> c, id |-> id]
  <2>4. UNCHANGED toServer \/ toServer' = [toServer EXCEPT ![Window(c)] = Append(@, m)]
        BY <1>2 DEF GiveUp, Send
  <2>5. CASE UNCHANGED toServer
    <3>1. Window(c) \in Windows BY ClientsHaveWindows
    <3> QED BY <1>1, <1>a, <2>1, <2>3, <2>5, <3>1, RestKeepsPlaces
  <2>6. CASE toServer' = [toServer EXCEPT ![Window(c)] = Append(@, m)]
    <3>1. Window(c) \in Windows BY ClientsHaveWindows
    <3>2. m \in Messages /\ m.type = "cancel" /\ m.client = c /\ Call(m) = <<c, id>>
      <4>1. id \in Nat BY <2>1
      <4> QED BY <4>1 DEF Messages, Call
    <3>3. Call(m) \in Given
      <4>1. id \in Nat BY <2>1
      <4> QED BY <2>1, <2>6, <3>2, <4>1 DEF Given
    <3> HIDE DEF m
    <3> QED BY <1>1, <1>a, <2>1, <2>3, <2>6, <3>1, <3>2, <3>3, RestKeepsPlaces
  <2> QED BY <2>4, <2>5, <2>6
<1>3. ASSUME NEW w \in Windows, ClientHandles(w)
      PROVE  RpcInv'
  <2>1. \/ \E id \in DOMAIN promises[LastClient(w)], outcome \in PromiseStates :
              SettleCall(LastClient(w), id, outcome)
        \/ UNCHANGED promises
        BY <1>3 DEF ClientHandles, PromiseStates
  <2>2. /\ toClient[w] # <<>> /\ toClient' = [toClient EXCEPT ![w] = Tail(@)]
        /\ UNCHANGED <<created, listening, toServer, jobs>>
        BY <1>3 DEF ClientHandles, windowVars
  <2>3. /\ promises' \in [Clients -> Seq(PromiseStates)]
        /\ \A d \in Clients : DOMAIN promises'[d] = DOMAIN promises[d]
        BY <1>1, <2>1, SettledShapes
  <2> QED BY <1>1, <1>a, <2>2, <2>3, RestKeepsPlaces
<1>4. ASSUME NEW w \in Windows, DisposeClient(w)
      PROVE  RpcInv'
  <2>1. /\ promises' = [promises EXCEPT ![LastClient(w)] = [id \in DOMAIN @ |->
                           IF @[id] = "pending" THEN "rejected" ELSE @[id]]]
        /\ listening' \subseteq listening
        /\ UNCHANGED <<created, toServer, toClient, jobs>>
        BY <1>4 DEF DisposeClient
  <2>2. /\ promises' \in [Clients -> Seq(PromiseStates)]
        /\ \A d \in Clients : DOMAIN promises'[d] = DOMAIN promises[d]
        BY <1>1, <2>1, SettledShapes
  <2> QED BY <1>1, <1>a, <2>1, <2>2, RestKeepsPlaces
<1>5. ASSUME NEW w \in Windows, HandleCancel(w) \/ Drop(w)
      PROVE  RpcInv'
  <2>1. /\ toServer[w] # <<>> /\ toServer' = [toServer EXCEPT ![w] = Tail(@)]
        /\ UNCHANGED <<promises, created, listening, toClient>> /\ DOMAIN jobs' = DOMAIN jobs
        BY <1>5 DEF HandleCancel, Drop, Received, Abort, windowVars
  <2> QED BY <1>1, <1>a, <2>1, RestKeepsPlaces
<1>6. ASSUME NEW w \in Windows, NewClient(w)
      PROVE  RpcInv'
  <2>1. /\ created' = [created EXCEPT ![w] = @ + 1] /\ created[w] < MaxClients
        /\ listening' = listening \union {w}
        /\ UNCHANGED <<promises, toServer, toClient, jobs>>
        BY <1>6 DEF NewClient
  <2>2. created' \in [Windows -> 1..MaxClients] /\ \A v \in Windows : created[v] <= created'[v]
    <3>1. created[w] + 1 \in 1..MaxClients BY <1>1, <2>1, RpcAssumption
    <3> QED BY <1>1, <2>1, <3>1
  <2> QED BY <1>1, <2>1, <2>2, RestKeepsPlaces
<1>7. ASSUME UNCHANGED <<promises, created, listening, toServer, toClient>>, DOMAIN jobs' = DOMAIN jobs
      PROVE  RpcInv'
  <2>1. Given' = Given /\ Running' = Running BY <1>7 DEF Given, Running
  <2> QED BY <1>7, <2>1 DEF RpcInv, RpcShapes, InOnePlace
<1>8. ASSUME NEW w \in Windows, Breaks(w)
      PROVE  RpcInv'
      BY <1>7, <1>8 DEF Breaks
<1>9. CASE DisposeServer BY <1>7, <1>9 DEF DisposeServer, windowVars
<1>10. CASE UNCHANGED rpcVars BY <1>7, <1>10 DEF rpcVars
<1>11. ASSUME NEW c \in Clients, request(c) PROVE RpcInv' BY <1>11, RequestKeepsPlaces
<1>12. ASSUME NEW w \in Windows, HandleRequest(w) PROVE RpcInv' BY <1>12, ArrivingKeepsPlaces
<1>13. ASSUME NEW c \in Clients, NEW id \in Ids, Handled(c, id) PROVE RpcInv'
      BY <1>13, AnsweringKeepsPlaces
<1> QED
  BY <1>2, <1>3, <1>4, <1>5, <1>6, <1>8, <1>9, <1>10, <1>11, <1>12, <1>13 DEF RpcNext

\* Every call is in one place in every behaviour of the endpoints.
LEMMA RpcInvariant == RpcSpec => []RpcInv
<1>1. RpcInit => RpcInv
  <2> SUFFICES ASSUME RpcInit PROVE RpcInv
      OBVIOUS
  <2>1. DOMAIN jobs = {} /\ \A c \in Clients : promises[c] = <<>> BY DEF RpcInit
  <2>2. Given = {} /\ Running = {} BY <2>1 DEF Given, Running
  <2>3. RpcShapes BY <2>1, RpcAssumption DEF RpcInit, RpcShapes
  <2>4. \A w \in Windows : toServer[w] = <<>> /\ toClient[w] = <<>> BY DEF RpcInit
  <2>5. \A w \in Windows : InOnePlace(w) BY <2>4 DEF InOnePlace, Placed
  <2> QED BY <2>2, <2>3, <2>5 DEF RpcInv
<1> QED BY <1>1, RpcStep, PTL DEF RpcSpec

\* Only a response resolves a call: one that reaches the window of the call, whose last
\* client has made it.
LEMMA ResponsesResolve ==
    ASSUME RpcInv, [RpcNext]_rpcVars, NEW c \in Clients, NEW id \in DOMAIN promises[c],
           promises[c][id] = "pending", promises'[c][id] = "resolved"
    PROVE  /\ c = LastClient(Window(c)) /\ toClient[Window(c)] # <<>>
           /\ Head(toClient[Window(c)]).id = id
<1>1. promises \in [Clients -> Seq(PromiseStates)] BY DEF RpcInv, RpcShapes
<1>2. ASSUME NEW d \in Clients, request(d) PROVE FALSE
  <2>1. PICK state : promises' = [promises EXCEPT ![d] = Append(promises[d], state)]
        BY <1>2 DEF request
  <2>2. CASE d = c
    <3>1. promises'[c] = Append(promises[c], state) BY <1>1, <2>1, <2>2
    <3>2. promises[c] \in Seq(PromiseStates) BY <1>1
    <3>3. promises'[c][id] = promises[c][id] BY <3>1, <3>2
    <3> QED BY <3>3
  <2>3. CASE d # c BY <1>1, <2>1, <2>3
  <2> QED BY <2>2, <2>3
<1>3. ASSUME NEW d \in Clients, NEW k \in Ids, GiveUp(d, k) PROVE FALSE
  <2>1. PICK outcome \in {"lost", "gaveUp"} : promises' = [promises EXCEPT ![d][k] = outcome]
        BY <1>3 DEF GiveUp, SettleCall
  <2>2. promises'[c][id] = promises[c][id] \/ promises'[c][id] = outcome BY <1>1, <2>1
  <2> QED BY <2>2
<1>4. ASSUME NEW w \in Windows, DisposeClient(w) PROVE FALSE
  <2>1. PICK d : promises' = [promises EXCEPT ![d] = [k \in DOMAIN promises[d] |->
                        IF promises[d][k] = "pending" THEN "rejected" ELSE promises[d][k]]]
        BY <1>4 DEF DisposeClient
  <2> QED BY <1>1, <2>1
<1>5. promises' # promises OBVIOUS
<1>6. PICK w \in Windows : ClientHandles(w)
      BY <1>2, <1>3, <1>4, <1>5 DEF RpcNext, rpcVars, NewClient, Breaks, HandleCancel,
         HandleRequest, Drop, Handled, DisposeServer
<1> DEFINE d == LastClient(w)
           k == Head(toClient[w]).id
<1>7. toClient[w] # <<>> /\ Window(d) = w
      /\ \E outcome : promises' = [promises EXCEPT ![d][k] = outcome]
      BY <1>5, <1>6 DEF ClientHandles, SettleCall, LastClient, Window
<1> HIDE DEF d, k
<1>8. d = c /\ k = id BY <1>1, <1>7
<1> QED BY <1>7, <1>8 DEF d, k

\* However many windows choose the same ids, however often their plugins are unloaded and
\* loaded again, and however cancellations and broken transports are mixed in, a call is
\* resolved only by the end of the handler that ran for it, not while it runs nor before it
\* has begun, or by the answer to a call of an earlier client of the same window.
THEOREM NobodyElseAnswers == RpcSpec => AnsweredByItsHandler
<1> DEFINE Rightly(c, id) ==
             LET w == Window(c)
                 answered == Head(toClient[w]).client
             IN  \/ /\ answered = c /\ ~JobRuns(c, id)
                    /\ \A i \in DOMAIN toServer[w] :
                          toServer[w][i] # [type |-> "request", client |-> c, id |-> id]
                 \/ Window(answered) = w /\ answered[2] < c[2]
<1>1. ASSUME RpcInv, [RpcNext]_rpcVars, NEW c \in Clients, NEW id \in DOMAIN promises[c],
             promises[c][id] = "pending", promises'[c][id] = "resolved"
      PROVE  Rightly(c, id)
  <2> DEFINE w == Window(c)
             m == Head(toClient[w])
  <2>1. c = LastClient(w) /\ toClient[w] # <<>> /\ m.id = id /\ w \in Windows
        BY <1>1, ResponsesResolve, ClientsHaveWindows
  <2>2. toClient[w] \in Seq(Responses) BY <1>1, <2>1 DEF RpcInv, RpcShapes
  <2>3. 1 \in DOMAIN toClient[w] /\ m = toClient[w][1] /\ m \in Responses
        BY <2>1, <2>2, RestOfQueue
  <2>4. Placed(w, Given, Running, toServer[w], toClient[w]) BY <1>1, <2>1 DEF RpcInv, InOnePlace
  <2>5. Call(m) \in Given /\ Window(m.client) = w /\ Call(m) \notin Running
        /\ \A i \in DOMAIN toServer[w] :
              toServer[w][i].type = "request" => Call(toServer[w][i]) # Call(m)
        BY <2>3, <2>4 DEF Placed
  <2>6. m.client \in Clients /\ m.client[2] <= created[w]
    <3>1. Call(m)[1] = m.client BY DEF Call
    <3> HIDE DEF m
    <3>2. Call(m)[1] \in Clients BY <2>5 DEF Given
    <3>3. Call(m)[1][2] <= created[Window(Call(m)[1])] BY <1>1, <2>5 DEF RpcInv
    <3> QED BY <2>5, <3>1, <3>2, <3>3
  <2> HIDE DEF m
  <2>7. CASE m.client = c
    <3>1. Call(m) = <<c, id>> BY <2>1, <2>7 DEF Call
    <3>2. ~JobRuns(c, id)
      <4>1. Call(Job(c, id)) = <<c, id>> BY ClientsHaveWindows
      <4> HIDE DEF Call
      <4> QED BY <2>5, <3>1, <4>1 DEF Running, JobRuns
    <3>3. ASSUME NEW i \in DOMAIN toServer[w]
          PROVE  toServer[w][i] # [type |-> "request", client |-> c, id |-> id]
      <4> DEFINE r == [type |-> "request", client |-> c, id |-> id]
      <4>1. r.type = "request" /\ Call(r) = <<c, id>> BY DEF Call
      <4> HIDE DEF r
      <4>2. toServer[w][i] # r BY <2>5, <3>1, <4>1
      <4> QED BY <4>2 DEF r
    <3> QED BY <2>7, <3>2, <3>3 DEF m
  <2>8. CASE m.client # c
    <3>1. c[2] = created[w] BY <2>1 DEF LastClient
    <3>2. m.client[2] # c[2] BY <2>5, <2>6, <2>8, ClientsHaveWindows
    <3>3. m.client[2] \in Nat /\ c[2] \in Nat BY <2>6, ClientsHaveWindows, RpcAssumption
    <3>4. m.client[2] < c[2] BY <2>6, <3>1, <3>2, <3>3
    <3> QED BY <2>5, <3>4 DEF m
  <2> QED BY <2>7, <2>8
<1> HIDE DEF Rightly
<1>2. RpcInv /\ [RpcNext]_rpcVars =>
        \A c \in Clients : \A id \in DOMAIN promises[c] :
          promises[c][id] = "pending" /\ promises'[c][id] = "resolved" => Rightly(c, id)
      BY <1>1
<1> USE DEF Rightly
<1> QED BY <1>2, RpcInvariant, PTL DEF RpcSpec, AnsweredByItsHandler

-----------------------------------------------------------------------------
(* The types of the endpoints.                                               *)

\* A queue is one of what all its elements are.
LEMMA QueueByElements ==
    ASSUME NEW S, NEW T, NEW q \in Seq(S), \A i \in DOMAIN q : q[i] \in T
    PROVE  q \in Seq(T)
<1>1. /\ Len(q) \in Nat /\ DOMAIN q = 1..Len(q) /\ q = [i \in 1..Len(q) |-> q[i]]
      OBVIOUS
<1>2. q \in [1..Len(q) -> T] BY <1>1
<1> QED BY <1>1, <1>2

\* Who has given which id to a request
Asked == {k \in Clients \X Ids : k[2] \in DOMAIN promises[k[1]]}

\* A client has given the ids from 1 on, and no more than there are.
IdsAreGiven == IsFiniteSet(Asked) /\ \A c \in Clients : Len(promises[c]) \in 0..MaxRequests

\* What is known of the windows and handlers
ServerFits ==
    /\ broken \subseteq Windows /\ serving \in BOOLEAN
    /\ DOMAIN jobs \subseteq [client : Clients, id : Ids]
    /\ \A j \in DOMAIN jobs : jobs[j] \in BOOLEAN
    /\ activeRequests \in [Ids -> Clients \union {NoClient}]

RpcFits == RpcInv /\ IdsAreGiven /\ ServerFits

\* A request gives the next id, of which there is one.
LEMMA RequestGivesAnId ==
    ASSUME RpcFits, NEW c \in Clients, request(c)
    PROVE  IdsAreGiven'
<1>1. promises \in [Clients -> Seq(PromiseStates)]
      BY DEF RpcFits, RpcInv, RpcShapes
<1>2. PICK state : promises' = [promises EXCEPT ![c] = Append(promises[c], state)]
      BY DEF request
<1>3. promises[c] \in Seq(PromiseStates) /\ Len(promises[c]) \in 0..MaxRequests
      BY <1>1 DEF RpcFits, IdsAreGiven
<1>4. /\ promises'[c] = Append(promises[c], state)
      /\ \A d \in Clients \ {c} : promises'[d] = promises[d]
      BY <1>1, <1>2
<1>5. /\ Len(promises'[c]) = Len(promises[c]) + 1
      /\ DOMAIN promises'[c] = DOMAIN promises[c] \union {Len(promises[c]) + 1}
      BY <1>3, <1>4
<1>6. Len(promises[c]) # MaxRequests
  <2> SUFFICES ASSUME Len(promises[c]) = MaxRequests PROVE FALSE
      OBVIOUS
  <2>1. DOMAIN promises[c] = Ids BY <1>3 DEF Ids
  <2>2. {c} \X Ids \subseteq Asked BY <2>1 DEF Asked
  <2>3. IsFiniteSet(Asked) BY DEF RpcFits, IdsAreGiven
  <2>4. IsFiniteSet(Ids) /\ Cardinality(Ids) = MaxRequests
        BY RpcAssumption, FS_Interval DEF Ids
  <2>5. Cardinality({c} \X Ids) = MaxRequests
    <3>1. IsFiniteSet({c}) /\ Cardinality({c}) = 1 BY FS_Singleton
    <3>2. Cardinality({c} \X Ids) = Cardinality({c}) * Cardinality(Ids)
          BY <2>4, <3>1, FS_Product, Zenon
    <3>3. Cardinality({c} \X Ids) = 1 * MaxRequests BY <2>4, <3>1, <3>2, Zenon
    <3>4. 1 * MaxRequests = MaxRequests BY RpcAssumption
    <3> QED BY <3>3, <3>4
  <2>6. Cardinality({c} \X Ids) <= Cardinality(Asked) BY <2>2, <2>3, FS_Subset
  <2>7. Cardinality(Asked) < MaxRequests BY DEF request, Asked
  <2>8. Cardinality(Asked) \in Nat BY <2>3, FS_CardinalityType
  <2> QED BY <2>5, <2>6, <2>7, <2>8, RpcAssumption
<1>7. IsFiniteSet(Asked')
  <2>1. Asked' \subseteq Asked \union {<<c, Len(promises[c]) + 1>>}
        BY <1>4, <1>5 DEF Asked
  <2>2. IsFiniteSet(Asked \union {<<c, Len(promises[c]) + 1>>})
        BY FS_AddElement DEF RpcFits, IdsAreGiven
  <2> QED BY <2>1, <2>2, FS_Subset
<1>8. \A d \in Clients : Len(promises'[d]) \in 0..MaxRequests
      BY <1>3, <1>4, <1>5, <1>6, RpcAssumption DEF RpcFits, IdsAreGiven
<1> QED BY <1>7, <1>8 DEF IdsAreGiven

\* Settling a request gives no id.
LEMMA SettlingGivesNoId ==
    ASSUME RpcFits, \A c \in Clients : DOMAIN promises'[c] = DOMAIN promises[c],
           RpcInv'
    PROVE  IdsAreGiven'
<1>1. Asked' = Asked BY DEF Asked
<1>2. \A c \in Clients : Len(promises'[c]) = Len(promises[c])
      BY DEF RpcFits, RpcInv, RpcShapes
<1> QED BY <1>1, <1>2 DEF RpcFits, IdsAreGiven

\* Every step of the endpoints keeps the ids in their bounds.
LEMMA IdsStep == RpcFits /\ [RpcNext]_rpcVars => IdsAreGiven'
<1> SUFFICES ASSUME RpcFits, [RpcNext]_rpcVars PROVE IdsAreGiven'
    OBVIOUS
<1>1. RpcInv /\ RpcInv' BY RpcStep DEF RpcFits
<1>2. \A c \in Clients : promises[c] = promises[c] /\ promises \in [Clients -> Seq(PromiseStates)]
      BY <1>1 DEF RpcInv, RpcShapes
<1>3. CASE UNCHANGED promises BY <1>1, <1>3, SettlingGivesNoId
<1>4. ASSUME NEW c \in Clients, NEW id, NEW outcome,
             promises' = [promises EXCEPT ![c][id] = outcome]
      PROVE  IdsAreGiven'
      BY <1>1, <1>2, <1>4, SettlingGivesNoId
<1>a. \A w \in Windows : LastClient(w) \in Clients
      BY <1>1 DEF RpcInv, RpcShapes, LastClient, Clients
<1>5. ASSUME NEW w \in Windows, ClientHandles(w) PROVE IdsAreGiven'
  <2>1. \/ UNCHANGED promises
        \/ \E id, outcome : promises' = [promises EXCEPT ![LastClient(w)][id] = outcome]
        BY <1>5, Zenon DEF ClientHandles, SettleCall
  <2> QED BY <1>3, <1>4, <1>a, <2>1
<1>6. ASSUME NEW c \in Clients, NEW id \in Ids, GiveUp(c, id) PROVE IdsAreGiven'
      BY <1>4, <1>6 DEF GiveUp, SettleCall
<1>7. ASSUME NEW w \in Windows, DisposeClient(w) PROVE IdsAreGiven'
  <2>1. promises' = [promises EXCEPT ![LastClient(w)] = [id \in DOMAIN @ |->
                        IF @[id] = "pending" THEN "rejected" ELSE @[id]]]
        BY <1>7 DEF DisposeClient
  <2> QED BY <1>1, <1>2, <2>1, SettlingGivesNoId
<1> QED
  BY <1>3, <1>5, <1>6, <1>7, RequestGivesAnId
     DEF RpcNext, rpcVars, NewClient, Breaks, HandleCancel, HandleRequest, Drop, Handled,
         DisposeServer

\* Handlers that end, are aborted or never begin leave the others as they are.
LEMMA JobsFitStill ==
    ASSUME ServerFits, DOMAIN jobs' \subseteq DOMAIN jobs,
           \A j \in DOMAIN jobs' : jobs'[j] \in BOOLEAN
    PROVE  /\ DOMAIN jobs' \subseteq [client : Clients, id : Ids]
           /\ \A j \in DOMAIN jobs' : jobs'[j] \in BOOLEAN
BY DEF ServerFits

\* Every step of the endpoints keeps the types of the server.
LEMMA ServerStep == RpcFits /\ [RpcNext]_rpcVars => ServerFits'
<1> SUFFICES ASSUME RpcFits, [RpcNext]_rpcVars PROVE ServerFits'
    OBVIOUS
<1>1. ServerFits /\ RpcInv BY DEF RpcFits
<1>2. CASE UNCHANGED <<broken, jobs, activeRequests, serving>>
      BY <1>1, <1>2 DEF ServerFits
<1>3. ASSUME NEW w \in Windows, Breaks(w) PROVE ServerFits'
      BY <1>1, <1>3 DEF Breaks, ServerFits
<1>4. ASSUME NEW w \in Windows, HandleCancel(w) PROVE ServerFits'
  <2>1. PICK id : jobs' = [j \in DOMAIN jobs |-> jobs[j] \/ j = Job(activeRequests[id], id)]
        BY <1>4 DEF HandleCancel, Abort
  <2>2. DOMAIN jobs' = DOMAIN jobs /\ \A j \in DOMAIN jobs' : jobs'[j] \in BOOLEAN
        BY <1>1, <2>1, Zenon DEF ServerFits
  <2> QED BY <1>1, <1>4, <2>2, JobsFitStill DEF HandleCancel, ServerFits, windowVars
<1>5. ASSUME NEW w \in Windows, HandleRequest(w) PROVE ServerFits'
  <2> DEFINE m == Head(toServer[w])
             c == m.client
             id == m.id
  <2>1. /\ jobs' = [j \in DOMAIN jobs \union {Job(c, id)} |->
                       IF j \in DOMAIN jobs THEN jobs[j] ELSE FALSE]
        /\ activeRequests' = [activeRequests EXCEPT ![id] = c]
        BY <1>5 DEF HandleRequest
  <2>2. c \in Clients /\ id \in Ids
    <3>1. toServer[w] \in Seq(Messages) /\ toServer[w] # <<>>
          BY <1>1, <1>5 DEF RpcInv, RpcShapes, HandleRequest
    <3>2. 1 \in DOMAIN toServer[w] /\ m = toServer[w][1] /\ m \in Messages
          BY <3>1, RestOfQueue
    <3>3. Call(m) \in Given BY <1>1, <3>2 DEF RpcInv, InOnePlace, Placed
    <3>4. c \in Clients /\ id \in DOMAIN promises[c] BY <3>2, <3>3 DEF Given, Call, Messages
    <3>5. promises[c] \in Seq(PromiseStates) BY <1>1, <3>4 DEF RpcInv, RpcShapes
    <3>6. Len(promises[c]) \in 0..MaxRequests BY <3>4 DEF RpcFits, IdsAreGiven
    <3> QED BY <3>4, <3>5, <3>6, RpcAssumption DEF Ids
  <2> HIDE DEF c, id, m
  <2>3. Job(c, id) \in [client : Clients, id : Ids] BY <2>2 DEF Job
  <2>4. DOMAIN jobs' \subseteq [client : Clients, id : Ids]
        BY <1>1, <2>1, <2>3 DEF ServerFits
  <2>5. \A j \in DOMAIN jobs' : jobs'[j] \in BOOLEAN
        BY <1>1, <2>1, Zenon DEF ServerFits
  <2>6. activeRequests' \in [Ids -> Clients \union {NoClient}]
        BY <1>1, <2>1, <2>2 DEF ServerFits
  <2> QED BY <1>1, <1>5, <2>4, <2>5, <2>6 DEF HandleRequest, ServerFits, windowVars
<1>6. ASSUME NEW c \in Clients, NEW id \in Ids, Handled(c, id) PROVE ServerFits'
  <2>1. /\ jobs' = [j \in DOMAIN jobs \ {Job(c, id)} |-> jobs[j]]
        /\ activeRequests' = [activeRequests EXCEPT ![id] = NoClient]
        BY <1>6 DEF Handled
  <2>2. DOMAIN jobs' \subseteq DOMAIN jobs /\ \A j \in DOMAIN jobs' : jobs'[j] \in BOOLEAN
        BY <1>1, <2>1, Zenon DEF ServerFits
  <2>3. activeRequests' \in [Ids -> Clients \union {NoClient}]
        BY <1>1, <2>1 DEF ServerFits
  <2> QED BY <1>1, <1>6, <2>2, <2>3, JobsFitStill DEF Handled, ServerFits, windowVars
<1>7. CASE DisposeServer
  <2>1. /\ jobs' = [j \in DOMAIN jobs |-> jobs[j] \/ activeRequests[j.id] = j.client]
        /\ activeRequests' = [id \in Ids |-> NoClient]
        BY <1>7 DEF DisposeServer
  <2>2. DOMAIN jobs' = DOMAIN jobs /\ \A j \in DOMAIN jobs' : jobs'[j] \in BOOLEAN
        BY <1>1, <2>1, Zenon DEF ServerFits
  <2>3. activeRequests' \in [Ids -> Clients \union {NoClient}]
        BY <2>1
  <2> QED BY <1>1, <1>7, <2>2, <2>3, JobsFitStill DEF DisposeServer, ServerFits, windowVars
<1> QED
  BY <1>2, <1>3, <1>4, <1>5, <1>6, <1>7
     DEF RpcNext, rpcVars, windowVars, NewClient, request, ClientHandles, DisposeClient, GiveUp,
         Drop

\* Every message, handler and controller has an id that its client has given, and the ids
\* stay in their bounds, for any number of windows, clients and requests.
THEOREM RpcTypesHold == RpcSpec => []RpcTypeOK
<1>1. RpcInit => IdsAreGiven /\ ServerFits
  <2> SUFFICES ASSUME RpcInit PROVE IdsAreGiven /\ ServerFits
      OBVIOUS
  <2>1. \A c \in Clients : promises[c] = <<>> BY DEF RpcInit
  <2>2. Asked = {} BY <2>1 DEF Asked
  <2>3. IsFiniteSet(Asked) BY <2>2, FS_EmptySet
  <2>4. IdsAreGiven BY <2>1, <2>3, RpcAssumption DEF IdsAreGiven
  <2>5. ServerFits BY DEF RpcInit, ServerFits
  <2> QED BY <2>4, <2>5
<1>2. RpcInv /\ IdsAreGiven /\ ServerFits /\ [RpcNext]_rpcVars => IdsAreGiven' /\ ServerFits'
      BY IdsStep, ServerStep DEF RpcFits
<1>3. ASSUME RpcInv, IdsAreGiven, ServerFits PROVE RpcTypeOK
  <2> DEFINE Asks == [type : {"request", "cancel"}, client : Clients, id : Ids]
             Answers == [client : Clients, id : Ids, result : Results]
  <2>1. RpcShapes BY <1>3 DEF RpcInv
  <2>2. ASSUME NEW k \in Given PROVE k[1] \in Clients /\ k[2] \in DOMAIN promises[k[1]] /\ k[2] \in Ids
    <3>1. k[1] \in Clients /\ k[2] \in DOMAIN promises[k[1]] BY DEF Given
    <3>2. promises[k[1]] \in Seq(PromiseStates) /\ Len(promises[k[1]]) \in 0..MaxRequests
          BY <1>3, <2>1, <3>1 DEF IdsAreGiven, RpcShapes
    <3> QED BY <3>1, <3>2, RpcAssumption DEF Ids
  <2>3. \A m : Call(m)[1] = m.client /\ Call(m)[2] = m.id BY DEF Call
  <2>4. ASSUME NEW w \in Windows
        PROVE  /\ \A i \in DOMAIN toServer[w] :
                     toServer[w][i].id \in DOMAIN promises[toServer[w][i].client]
               /\ toServer[w] \in Seq(Asks) /\ toClient[w] \in Seq(Answers)
    <3>1. toServer[w] \in Seq(Messages) /\ toClient[w] \in Seq(Responses) BY <2>1 DEF RpcShapes
    <3>2. /\ \A i \in DOMAIN toServer[w] : Call(toServer[w][i]) \in Given
          /\ \A i \in DOMAIN toClient[w] : Call(toClient[w][i]) \in Given
          BY <1>3 DEF RpcInv, InOnePlace, Placed
    <3>3. ASSUME NEW i \in DOMAIN toServer[w]
          PROVE  /\ toServer[w][i].id \in DOMAIN promises[toServer[w][i].client]
                 /\ toServer[w][i] \in Asks
      <4>1. toServer[w][i] \in Messages BY <3>1
      <4>2. Call(toServer[w][i]) \in Given BY <3>2
      <4>3. /\ toServer[w][i].id \in DOMAIN promises[toServer[w][i].client]
            /\ toServer[w][i].id \in Ids
            BY <2>2, <2>3, <4>2, Zenon
      <4> QED BY <4>1, <4>3 DEF Messages
    <3>4. ASSUME NEW i \in DOMAIN toClient[w] PROVE toClient[w][i] \in Answers
      <4>1. toClient[w][i] \in Responses BY <3>1
      <4>2. Call(toClient[w][i]) \in Given BY <3>2
      <4>3. toClient[w][i].id \in Ids BY <2>2, <2>3, <4>2, Zenon
      <4> QED BY <4>1, <4>3 DEF Responses
    <3> HIDE DEF Asks, Answers
    <3>5. toServer[w] \in Seq(Asks) /\ toClient[w] \in Seq(Answers)
          BY <3>1, <3>3, <3>4, QueueByElements, Zenon
    <3> QED BY <3>3, <3>5
  <2> HIDE DEF Asks, Answers
  <2>5. /\ promises \in [Clients -> Seq({"pending", "resolved", "rejected", "gaveUp", "lost"})]
        /\ created \in [Windows -> 1..MaxClients] /\ listening \subseteq Windows
        BY <2>1 DEF RpcShapes, PromiseStates
  <2>6. /\ broken \subseteq Windows /\ serving \in BOOLEAN
        /\ DOMAIN jobs \subseteq [client : Clients, id : Ids]
        /\ \A j \in DOMAIN jobs : jobs[j] \in BOOLEAN
        /\ activeRequests \in [Ids -> Clients \union {NoClient}]
        BY <1>3 DEF ServerFits
  <2> QED BY <2>4, <2>5, <2>6, Zenon DEF RpcTypeOK, Asks, Answers
<1> QED BY <1>1, <1>2, <1>3, RpcInvariant, PTL DEF RpcSpec

-----------------------------------------------------------------------------
(* The composed module.                                                       *)

\* A behaviour of PartsSpec steps one part and leaves the others as they are at first, so it is
\* a behaviour of each: what is proved of a part for any constants holds of it too.
LEMMA OneOfEachPart ==
    PartsSpec => /\ HttpSpec /\ PlayerSpec /\ RpcSpec /\ ReminderSpec /\ RendererSpec
                 /\ DownloadSpec /\ SoundSpec /\ EditorSpec
<1>1. PartsInit =>
          /\ HttpInit /\ PlayerInit /\ RpcInit /\ ReminderInit /\ RendererInit
          /\ DownloadInit /\ SoundInit /\ EditorInit
    BY Zenon DEF PartsInit
<1>2. [PartsNext]_partVars =>
          /\ [HttpNext]_httpVars /\ [PlayerNext]_playerVars /\ [RpcNext]_rpcVars
          /\ [ReminderNext]_reminderVars /\ [RendererNext]_rendererVars
          /\ [DownloadNext]_downloadVars /\ [SoundNext]_soundVars /\ [EditorNext]_editorVars
    <2>1. CASE PartsNext
        BY <2>1, Zenon DEF PartsNext
    <2>2. CASE UNCHANGED partVars
        BY <2>2 DEF partVars
    <2> QED BY <2>1, <2>2
<1> QED
    BY <1>1, <1>2, PTL
       DEF PartsSpec, HttpSpec, PlayerSpec, RpcSpec, ReminderSpec, RendererSpec, DownloadSpec,
           SoundSpec, EditorSpec

\* Theorem: whichever part runs, and whatever overlaps, fails and is repeated in the windows and services of the
\* desktop app, the state of each keeps the shape of its code's.
THEOREM PartsTypesHold == PartsSpec => []PartsTypeOK
<1>1. HttpTypeOK /\ PlayerTypeOK /\ RpcTypeOK /\ ReminderTypeOK /\ RendererTypeOK
          /\ DownloadTypeOK /\ SoundTypeOK /\ EditorTypeOK => PartsTypeOK
    BY DEF PartsTypeOK
<1> QED
    BY <1>1, OneOfEachPart, HttpTypesHold, SessionTypesHold, RpcTypesHold,
       NoticesAreAlwaysShown, RendererTypesHold, DownloadTypesHold, SoundTypesHold,
       EditorTypesHold, PTL
=============================================================================
