--------------------------- MODULE CommandOutcome ---------------------------
(***************************************************************************)
(* What the control server promises about the commands it issued to one    *)
(* device, with the network, the device and the retries left out: a        *)
(* command that was issued is open until it is closed once, for good, and  *)
(* it is reported as succeeded only if the device's handler really ran to  *)
(* a successful end.                                                       *)
(***************************************************************************)
EXTENDS FiniteSets

CONSTANT Commands

Closed == {"succeeded", "failed", "expired"}

VARIABLES
  phase,  \* phase[c]: "none", "open", or how the command was closed
  ran     \* the commands whose handler completed successfully on the device

outcomeVars == <<phase, ran>>

OutcomeTypeOK ==
  /\ phase \in [Commands -> {"none", "open"} \cup Closed]
  /\ ran \subseteq Commands

OutcomeInit ==
  /\ phase = [c \in Commands |-> "none"]
  /\ ran = {}

Open(c) ==
  /\ phase[c] = "none"
  /\ phase' = [phase EXCEPT ![c] = "open"]
  /\ UNCHANGED ran

Run(c) ==
  /\ phase[c] # "none"
  /\ ran' = ran \cup {c}
  /\ UNCHANGED phase

Succeed(c) ==
  /\ phase[c] = "open"
  /\ c \in ran
  /\ phase' = [phase EXCEPT ![c] = "succeeded"]
  /\ UNCHANGED ran

Fail(c) ==
  /\ phase[c] = "open"
  /\ phase' = [phase EXCEPT ![c] = "failed"]
  /\ UNCHANGED ran

\* One sweep may expire several commands.
ExpireSome(C) ==
  /\ \A c \in C : phase[c] = "open"
  /\ phase' = [c \in Commands |-> IF c \in C THEN "expired" ELSE phase[c]]
  /\ UNCHANGED ran

OutcomeNext ==
  \/ \E c \in Commands : Open(c) \/ Run(c) \/ Succeed(c) \/ Fail(c)
  \/ \E C \in SUBSET Commands : ExpireSome(C)

OutcomeSpec == OutcomeInit /\ [][OutcomeNext]_outcomeVars
=============================================================================
