--------------------------- MODULE MCConfigWriter ---------------------------
(* Small instances of ConfigWriter: two sampling threads, two vectors.  With *)
(* faults, one thread has two changes and purges, the other one change; the  *)
(* vectors are interchangeable there, the placeholder being neither.         *)
EXTENDS ConfigWriter, TLC

CONSTANTS aco, mc, w1, w2

MCAlgos == {aco, mc}
MCVectors == {w1, w2}
Anything == AllFaults
Nothing == {}
OnlyAco == {aco}
Three == [a \in MCAlgos |-> 3]
TwoAndOne == [a \in MCAlgos |-> IF a = aco THEN 2 ELSE 1]

Sym == Permutations(MCVectors)
=============================================================================
