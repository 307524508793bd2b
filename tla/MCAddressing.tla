---------------------------- MODULE MCAddressing ----------------------------
(* Addressing on a small instance. *)
EXTENDS Addressing, TLC

CONSTANTS x1, x2, x3, aco_wrr, mc_wrr
MCAddresses == {x1, x2, x3}
MCThreads == {aco_wrr, mc_wrr}
Symmetry == Permutations(MCAddresses) \cup Permutations(MCThreads)
=============================================================================
