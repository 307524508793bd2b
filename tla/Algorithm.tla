----------------------------- MODULE Algorithm -----------------------------
(* controller/algorithms/base.py: what every weighting algorithm shares.     *)
EXTENDS Rounding

CONSTANTS Hosts,
          Latencies,        \* the mean latencies a window can observe, in ms
          MIN_WEIGHT, MAX_WEIGHT

ASSUME LatenciesAssumption ==
    Latencies \subseteq Nat \ {0}   \* MIN_LATENCY_MS never matters here

ASSUME WeightsAssumption ==
    /\ MIN_WEIGHT \in Nat \ {0} /\ MAX_WEIGHT \in Nat
    /\ MIN_WEIGHT <= MAX_WEIGHT

(* Algorithm.clamp(num / den): an integer weight NGINX accepts.              *)
Clamp(num, den) ==
    LET w == RoundHalfEven(num, den)
    IN  IF w < MIN_WEIGHT THEN MIN_WEIGHT
        ELSE IF w > MAX_WEIGHT THEN MAX_WEIGHT ELSE w
=============================================================================
