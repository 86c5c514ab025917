---------------------------- MODULE MCPolicyLock ----------------------------
(* Three threads of one process, so that one may sleep through a change,    *)
(* and a process of its own.                                                *)
EXTENDS PolicyLock, TLC

CONSTANTS a, b, c, d, service, cli

MCProcessOf == a :> service @@ b :> service @@ c :> service @@ d :> cli
MCSymmetry == Permutations({a, b, c})
=============================================================================
