----------------------------- MODULE MCLifecycle -----------------------------
(* Lifecycle on a small instance. *)
EXTENDS Lifecycle, TLC

CONSTANTS aco_wrr, mc_wrr, v1, v2
MCAlgos == {aco_wrr, mc_wrr}
MCVectors == {v1, v2}
=============================================================================
