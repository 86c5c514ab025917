-------------------------- MODULE MCLifecycleLock --------------------------
(* Two threads of one process and a third of another; nested leases on a    *)
(* root, and leases on two roots, as recording and finalize take them.      *)
EXTENDS LifecycleLock, TLC

CONSTANTS a, b, c, p1, p2

MCProcessOf == a :> p1 @@ b :> p1 @@ c :> p2
MCPlatforms == {<<1, 2>>, <<Shared>>}
MCPlans == {<<1, 1>>, <<1, 2>>, <<2>>}
=============================================================================
