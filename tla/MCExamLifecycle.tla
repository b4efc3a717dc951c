--------------------------- MODULE MCExamLifecycle ---------------------------
(* ExamLifecycle on small instances. *)
EXTENDS ExamLifecycle, TLC

DeviceSymmetry == Permutations(Devices)

\* All of a state but the versions that requests name: no action looks at one, and
\* of the properties of the runs that use this view only TypeOK, at its type.
NoVersionsNamed ==
  <<status, version, [c \in Ids |-> [commands[c] EXCEPT !.of = 0]], lapsed,
    reported, app, [p \in Procs |-> [proc[p] EXCEPT !.of = 0]], spent>>
=============================================================================
