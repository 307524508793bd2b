--------------------------- MODULE MCSamplingLoop ---------------------------
(* SamplingLoop on a small instance. *)
EXTENDS SamplingLoop

CONSTANTS h1, h2
MCHosts == {h1, h2}
=============================================================================
