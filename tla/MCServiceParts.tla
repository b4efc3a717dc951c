---------------------------- MODULE MCServiceParts ----------------------------
(***************************************************************************)
(* The link between a device and the control server, the device policies,  *)
(* the plugin host and the timing of the exam player, on small instances   *)
(* and in one run: parts with longer sequences of steps. They share no     *)
(* state, so that a behaviour is one of a single part.                     *)
(***************************************************************************)
EXTENDS DeviceLink, PolicySync, MCPluginHost, ExamSchedule, TLC

CONSTANTS d1, n1, n2, p1, p2, v, w     \* device, nodes, policies, values

VARIABLE part

partVars == <<vars, policyVars, hostVars, scheduleVars, part>>

\* Two exams that follow each other, the later one first in the file; or none
MCConfigs == {<<[start |-> 4, end |-> 5, alert |-> 0], [start |-> 2, end |-> 4, alert |-> 1]>>,
              <<>>}
MCCorrections == {0, -2}

\* Node n2 is below n1. Rows differ in what decides between two policies.
MCRow(on, priority, value, time) ==
    [enabled |-> on, priority |-> priority, value |-> value, updatedAt |-> time]
MCRank == (p1 :> 1) @@ (p2 :> 2)
MCParent == (n1 :> Root) @@ (n2 :> n1)
MCPolicy == (p1 :> MCRow(TRUE, 0, v, 0)) @@ (p2 :> MCRow(TRUE, 0, w, 0))
MCRows == {MCRow(FALSE, 0, v, 1), MCRow(TRUE, 1, w, 1)}
MCSelections == {{}, {d1}, {n1}, {n2}}
MCPlaces == {{}, {n2}}

PartsInit ==
    /\ Init /\ PolicyInit /\ HostInit /\ ScheduleInit
    /\ part \in {"link", "policies", "plugins", "schedule"}
    /\ part # "policies" =>
          member = [d \in Devices |-> {}] /\ targets = [p \in Policies |-> {}]
    /\ part # "schedule" => player.bound
    /\ offset = 0

PartsNext ==
    /\ UNCHANGED part
    /\ \/ part = "link" /\ Next
       \/ part # "link" /\ UNCHANGED vars
    /\ \/ part = "policies" /\ PolicyNext
       \/ part # "policies" /\ UNCHANGED policyVars
    /\ \/ part = "plugins" /\ HostNext
       \/ part # "plugins" /\ UNCHANGED hostVars
    /\ \/ part = "schedule" /\ ScheduleNext
       \/ part # "schedule" /\ UNCHANGED scheduleVars

\* Only the link has fairness, and at first no fair action enabled.
PartsSpec == PartsInit /\ [][PartsNext]_partVars /\ Fairness

\* The types of all parts
PartsTypeOK == TypeOK /\ PolicyTypeOK /\ HostTypeOK /\ ScheduleTypeOK
=============================================================================
