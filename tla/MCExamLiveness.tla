---------------------------- MODULE MCExamLiveness ----------------------------
(***************************************************************************)
(* ExamLifecycle under fairness, in two scenarios of one run: an exam that *)
(* is prepared on all devices and not started, and one that is prepared,   *)
(* activated and stopped on a single device. In both, requests are         *)
(* refused, results are repeated and commands expire.                      *)
(***************************************************************************)
EXTENDS ExamLifecycle

CONSTANTS a1, d1, d2

VARIABLE scenario

scenarioVars == <<vars, scenario>>

StartsAnother ==
  \E p \in Admins, c \in Ids : ActivateStart(p, c) \/ StopStart(p, c)

ScenarioNext ==
  /\ Next
  /\ UNCHANGED scenario
  /\ scenario = "prepared" => ~StartsAnother
  /\ scenario = "activated" => \A c \in DOMAIN commands' : commands'[c].row[d2] = "none"

\* LiveSpec of either scenario.
ScenarioSpec ==
  /\ Init /\ scenario \in {"prepared", "activated"}
  /\ [][ScenarioNext]_scenarioVars
  /\ Fairness
=============================================================================
