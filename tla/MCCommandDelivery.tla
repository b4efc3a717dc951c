------------------------- MODULE MCCommandDelivery -------------------------
EXTENDS CommandDelivery

\* Bound: a run has a mishap, or a command that expires of a device that can
\* execute it, not both.
LapseOrMishap == lapsed = {} \/ (mishaps = 0 /\ skills = Commands)
=============================================================================
