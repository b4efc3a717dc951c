---------------------------- MODULE MCPluginHost ----------------------------
(* PluginHost on a small instance: plugin x2 needs the service of x1. *)
EXTENDS PluginHost

CONSTANTS x1, x2

MCNeeds == [p \in Plugins |-> IF p = x2 THEN {x1} ELSE {}]
=============================================================================
