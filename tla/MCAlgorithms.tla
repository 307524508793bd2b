---------------------------- MODULE MCAlgorithms ----------------------------
(* Both algorithms, fed the same windows: each window is an update of the    *)
(* ant colony and the iterations of the Markov chain.                        *)
EXTENDS Aco, Markov, TLC

CONSTANTS h1, h2, h3

MCHosts == {h1, h2, h3}
MCLatencies == {100, 150, 600}

(* The theorems about where the loop stops tell of this instance.            *)
ASSUME Resolved == WeightsResolved /\ SharesResolved(6)

MCInit == Init /\ MarkovInit

Window == \E o \in [Hosts -> Latencies] : Update(o) /\ Begin(o)

MCNext == Window \/ (Iterate /\ UNCHANGED acoVars)

MCSpec == MCInit /\ [][MCNext]_<<acoVars, markovVars>>

Sym == Permutations(MCHosts)
=============================================================================
