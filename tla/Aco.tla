--------------------------------- MODULE Aco ---------------------------------
(***************************************************************************)
(* AntColonyOptimization (controller/algorithms/aco.py): one pheromone per  *)
(* backend, evaporated and reinforced in every sampling window, and the     *)
(* weights read off it relative to the largest.                             *)
(*                                                                          *)
(* Pheromones are rationals here, exact where the code has floats:          *)
(* level[h] / scale, with a scale that grows by RateDen in each window.     *)
(***************************************************************************)
EXTENDS Algorithm, FiniteSetsExt

CONSTANTS RateNum, RateDen, \* EVAPORATION_RATE = RateNum / RateDen
          Deposit,          \* DEPOSIT_CONSTANT
          Unit,             \* 1.0 to begin with: a multiple of every latency
          MaxWindows        \* bound: sampling windows

ASSUME RateAssumption ==
    /\ RateNum \in Nat /\ RateDen \in Nat \ {0} /\ RateNum < RateDen
ASSUME DepositAssumption ==
    /\ Deposit \in Nat \ {0} /\ Unit \in Nat \ {0} /\ MaxWindows \in Nat
    /\ \A l \in Latencies : Unit % l = 0

VARIABLES level,   \* self.pheromone, in units of 1 / scale
          scale,
          window,  \* windows so far
          obs,     \* the observations of the last one
          noWorse  \* history: <<g, h>> if g was never slower than h

acoVars == <<level, scale, window, obs, noWorse>>

(* INITIAL_PHEROMONE; the observations of the first update name every host,  *)
(* so the setdefault of an absent one happens at once for all.               *)
Init ==
    /\ level = [h \in Hosts |-> Unit]
    /\ scale = Unit
    /\ window = 0
    /\ obs \in [Hosts -> {0}]
    /\ noWorse = Hosts \X Hosts

(* Mutant: a slow backend is reinforced.                                     *)
ReinforceSlow(l, latency) ==
    l * (RateDen - RateNum) + Deposit * scale * RateDen * latency

(* Mutant: nothing evaporates.                                               *)
NoEvaporation(l, latency) ==
    l * RateDen + (Deposit * scale * RateDen) \div latency

(* Evaporate, then deposit: in the next window's units.                      *)
Reinforce(l, latency) ==
    l * (RateDen - RateNum) + (Deposit * scale * RateDen) \div latency

(* update.                                                                   *)
Update(o) ==
    /\ window < MaxWindows
    /\ level' = [h \in Hosts |-> Reinforce(level[h], o[h])]
    /\ scale' = scale * RateDen
    /\ window' = window + 1
    /\ obs' = o
    /\ noWorse' = {p \in noWorse : o[p[1]] <= o[p[2]]}

Next == \E o \in [Hosts -> Latencies] : Update(o)

Spec == Init /\ [][Next]_acoVars

Strongest == CHOOSE h \in Hosts : \A g \in Hosts : level[g] <= level[h]

(* _weights_from_pheromone.  (The largest pheromone is positive; the code's  *)
(* branch for one that is not is never taken.)                               *)
AcoWeight(h) == Clamp(100 * level[h], level[Strongest])

-----------------------------------------------------------------------------
(* A backend that was at least as fast as another in every window so far has *)
(* at least its weight, however the windows were mixed.                      *)
FasterNeverLighter ==
    \A p \in noWorse : AcoWeight(p[1]) >= AcoWeight(p[2])

(* The pheromone stays under the level at which evaporation takes what the   *)
(* fastest latency deposits, or under the initial one: it never grows away.  *)
Balanced ==
    \A h \in Hosts, l \in Latencies :
        (\A m \in Latencies : l <= m) =>
            \/ level[h] <= scale
            \/ level[h] * RateNum * l <= Deposit * RateDen * scale
=============================================================================
