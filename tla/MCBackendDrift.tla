--------------------------- MODULE MCBackendDrift ---------------------------
(* BackendDrift on a small instance. *)
EXTENDS BackendDrift

CONSTANTS t1, t2, low, high
MCThreads == {t1, t2}
MCOffsets == {low, high}
MCDwells == {1, 2, 3}      \* the jitter about a mean of two
=============================================================================
