----------------------------- MODULE DurableStore -----------------------------
(***************************************************************************)
(* What a store on disk promises its callers. The contents are the number  *)
(* of changes they contain. A change is told to be saved only once the     *)
(* disk has it, and what was told survives the end of the process.         *)
(***************************************************************************)
EXTENDS Naturals

VARIABLES memory,     \* the contents the program works with
          disk,       \* what a restart would find
          told        \* the last change some caller was told is saved

durableVars == <<memory, disk, told>>

Change ==
    /\ memory' = memory + 1
    /\ UNCHANGED <<disk, told>>

\* The disk goes forward, to contents the program has had.
Persist ==
    /\ disk' \in disk .. memory
    /\ UNCHANGED <<memory, told>>

Tell ==
    /\ told' \in told .. disk
    /\ UNCHANGED <<memory, disk>>

\* The process ends; the next one finds what is on the disk.
Crash ==
    /\ memory' = disk
    /\ UNCHANGED <<disk, told>>

DurableInit == memory = 0 /\ disk = 0 /\ told = 0
DurableNext == Change \/ Persist \/ Tell \/ Crash
DurableSpec == DurableInit /\ [][DurableNext]_durableVars
=============================================================================
