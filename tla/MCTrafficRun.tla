---------------------------- MODULE MCTrafficRun ----------------------------
(* Small instances of TrafficRun: two interchangeable paths.                 *)
EXTENDS TrafficRun, TLC

CONSTANTS p1, p2

MCPaths == {p1, p2}
OnePath == {p1}
OnlyPurge == {"purge"}
AnyFault == AllFaults
Seeing == AllFaults \ {"blind"}

Sym == Permutations(MCPaths)
=============================================================================
