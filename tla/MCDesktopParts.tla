---------------------------- MODULE MCDesktopParts ----------------------------
(***************************************************************************)
(* The services and windows of the desktop app, on small instances and in  *)
(* one run. They share no state, so that a behaviour is one of a single    *)
(* part while the others stay as they are at first. At first no part has a *)
(* fair action enabled, so that the fairness of the parts that stay asks   *)
(* nothing of them.                                                        *)
(***************************************************************************)
EXTENDS HttpApi, PlayerSession, JsonRpc, Reminders, RendererPlugins, PluginDownloads,
        ReminderSound, ExamEditor

CONSTANTS s1, s2, r1, w1, w2, e1, e2, i1, i2, t1, t2,
          k1, k2, q1, q2, p1, p2

VARIABLE part

partVars == <<httpVars, playerVars, rpcVars, reminderVars, rendererVars, downloadVars,
              soundVars, editorVars, part>>

PartsInit ==
    /\ part \in {"http", "player", "rpc", "reminders", "renderer", "downloads",
                "sounds", "editor"}
    /\ HttpInit /\ PlayerInit /\ RpcInit
    /\ ReminderInit /\ RendererInit /\ DownloadInit /\ SoundInit /\ EditorInit
    /\ part # "http" => ~enabled
    /\ selected = q1     \* the packs are alike
    /\ part # "editor" => session = NoFile /\ editorJobs = <<>>

PartsNext ==
    /\ UNCHANGED part
    /\ \/ part = "http" /\ HttpNext
       \/ part # "http" /\ UNCHANGED httpVars
    /\ \/ part = "player" /\ PlayerNext
       \/ part # "player" /\ UNCHANGED playerVars
    /\ \/ part = "rpc" /\ RpcNext
       \/ part # "rpc" /\ UNCHANGED rpcVars
    /\ \/ part = "reminders" /\ ReminderNext
       \/ part # "reminders" /\ UNCHANGED reminderVars
    /\ \/ part = "renderer" /\ RendererNext
       \/ part # "renderer" /\ UNCHANGED rendererVars
    /\ \/ part = "downloads" /\ DownloadNext
       \/ part # "downloads" /\ UNCHANGED downloadVars
    /\ \/ part = "sounds" /\ SoundNext
       \/ part # "sounds" /\ UNCHANGED soundVars
    /\ \/ part = "editor" /\ EditorNext
       \/ part # "editor" /\ UNCHANGED editorVars

PartsSpec ==
    /\ PartsInit /\ [][PartsNext]_partVars
    /\ HttpFairness /\ PlayerFairness /\ RpcFairness /\ DownloadFairness
    /\ EditorFairness

\* The types of all parts
PartsTypeOK ==
    /\ HttpTypeOK /\ PlayerTypeOK /\ RpcTypeOK /\ ReminderTypeOK /\ RendererTypeOK
    /\ DownloadTypeOK /\ SoundTypeOK /\ EditorTypeOK

\* Whatever overlaps and fails, what was begun ends: operations of the HTTP API,
\* starts of player sessions, installations, and the closing of the editor.
EverythingEnds == OperationsEnd /\ StartsAndEnds /\ InstallsEnd /\ CloseIsDecided
=============================================================================
