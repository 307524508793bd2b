------------------------------- MODULE Markov -------------------------------
(***************************************************************************)
(* MarkovChain (controller/algorithms/markov.py): a transition matrix built *)
(* from one window's latencies alone, its stationary distribution by power  *)
(* iteration, one step of the loop at a time, and the weights read off it.  *)
(*                                                                          *)
(* Probabilities are in units of 1 / Precision, rounded down, where the     *)
(* code has floats.                                                         *)
(***************************************************************************)
EXTENDS Algorithm, FiniteSets, Functions

CONSTANTS Precision,            \* bound: the smallest probability told apart
          Multiple,             \* a multiple of every latency
          Tolerance,            \* STATIONARY_TOLERANCE, in units of 1 / Precision
          STATIONARY_ITERATIONS

ASSUME MarkovAssumption ==
    /\ Precision \in Nat \ {0} /\ Multiple \in Nat \ {0}
    /\ \A l \in Latencies : Multiple % l = 0
    /\ Tolerance \in Nat /\ STATIONARY_ITERATIONS \in Nat \ {0}
    /\ IsFiniteSet(Hosts) /\ Hosts # {}

VARIABLES latency,   \* observations
          pi,        \* the distribution so far
          rounds,    \* iterations made
          done       \* the loop is over

markovVars == <<latency, pi, rounds, done>>

(* Mutant: the score grows with the latency.                                *)
SlowScore(h) == latency[h]

(* scores[h] = 1 / latency, in units of 1 / Multiple.                       *)
Score(h) == Multiple \div latency[h]

(* Mutant: `if k != i` is missing from others_total only.                   *)
RowTotal(h) == SumFunctionOnSet([k \in Hosts |-> Score(k)], Hosts)

(* others_total.                                                            *)
OthersTotal(h) == SumFunctionOnSet([k \in Hosts |-> Score(k)], Hosts \ {h})

(* Mutant: the row of the backend the walker goes to.                       *)
TransposedStep(j) ==
    SumFunctionOnSet([i \in Hosts |-> (pi[i] * Score(i)) \div OthersTotal(j)],
                     Hosts \ {j})

(* next_pi[j]: from i to j with probability scores[j] / others_total, and   *)
(* never from j to itself.                                                  *)
NextPi(j) ==
    SumFunctionOnSet([i \in Hosts |-> (pi[i] * Score(j)) \div OthersTotal(i)],
                     Hosts \ {j})

Uniform == [h \in Hosts |-> Precision \div Cardinality(Hosts)]

(* update is called; a single backend needs no chain.                       *)
Begin(o) ==
    /\ done
    /\ latency' = o
    /\ pi' = Uniform
    /\ rounds' = 0
    /\ done' = (Cardinality(Hosts) = 1)

(* Mutant: differences that cancel out.                                      *)
SignedDistance(a, b) == a - b

Distance(a, b) == IF a > b THEN a - b ELSE b - a

(* One iteration of _stationary_distribution.                               *)
Iterate ==
    LET diff == SumFunction([h \in Hosts |-> Distance(pi'[h], pi[h])])
    IN  /\ ~done
        /\ pi' = [h \in Hosts |-> NextPi(h)]
        /\ rounds' = rounds + 1
        /\ done' = (rounds' = STATIONARY_ITERATIONS \/ diff <= Tolerance)
        /\ UNCHANGED latency

MarkovInit ==
    /\ latency \in [Hosts -> {0}]
    /\ pi = Uniform
    /\ rounds = 0
    /\ done = TRUE

MarkovNext == (\E o \in [Hosts -> Latencies] : Begin(o)) \/ Iterate

MarkovSpec == MarkovInit /\ [][MarkovNext]_markovVars

(* The weight `update` returns.                                             *)
MarkovWeight(h) ==
    IF Cardinality(Hosts) = 1 THEN Clamp(100, 1)
                              ELSE Clamp(100 * pi[h], Precision)
-----------------------------------------------------------------------------
(* "Never self-transition" gives the stationary distribution a closed form:  *)
(* a backend's share is its score times the sum of the others' scores.       *)
Share(h) == Score(h) * OthersTotal(h)
Shares == SumFunction([h \in Hosts |-> Share(h)])

(* What the capped power iteration returns is the stationary distribution    *)
(* "scaled directly into a weight", to the nearest integers.                 *)
ScaledStationary ==
    done /\ rounds > 0 =>
        \A h \in Hosts :
            /\ 100 * Share(h) - MarkovWeight(h) * Shares <= Shares
            /\ MarkovWeight(h) * Shares - 100 * Share(h) <= Shares

(* What an iteration that changes the distribution by the tolerance at most  *)
(* can be away from the stationary one, in units of 1 / Precision: the       *)
(* tolerance twice, and what rounding down takes from the matrix.            *)
Slack == 2 * Tolerance + Cardinality(Hosts) * Cardinality(Hosts)

(* What rounding down can take from the distribution in the whole loop.     *)
Lost ==
    LET n == Cardinality(Hosts)
    IN  n + STATIONARY_ITERATIONS * (n * (n - 1))

(* A unit of probability is small enough for weights to the nearest integer. *)
WeightsResolved ==
    MIN_WEIGHT = 1 /\ MAX_WEIGHT >= 100 /\ 200 * (Slack + Lost) <= Precision

(* It is small against the shares, with no score above b.                   *)
SharesResolved(b) ==
    LET n == Cardinality(Hosts)
    IN  /\ \A l \in Latencies : Multiple \div l <= b
        /\ 2 * (Slack * ((b * (b * n)) * n)) + Lost <= Precision

(* "if diff < STATIONARY_TOLERANCE: break" tells the right thing: whenever   *)
(* the loop stops before its last iteration, each backend has the share of   *)
(* all the probability that the closed form gives it, up to the slack.       *)
SettledIsStationary ==
    LET total == SumFunctionOnSet(pi, Hosts)
    IN  done /\ rounds \in 1..(STATIONARY_ITERATIONS - 1) =>
            \A h \in Hosts :
                /\ pi[h] * Shares <= Share(h) * total + Slack * Shares
                /\ Share(h) * total <= pi[h] * Shares + Slack * Shares

(* "faster backend, higher score": a faster backend gets no smaller weight   *)
(* than a slower one, although every row is normalised on its own.           *)
FollowsLatency ==
    done /\ rounds > 0 =>
        \A g, h \in Hosts :
            latency[g] < latency[h] => MarkovWeight(g) >= MarkovWeight(h)

(* "already sums to ~1": no iteration makes probability or loses any, except *)
(* what rounding down takes, less than one unit for each entry of the        *)
(* matrix; the weights are read off without normalising again.               *)
SumsToOne ==
    LET n == Cardinality(Hosts)
        total == SumFunctionOnSet(pi, Hosts)
    IN  /\ total <= Precision
        /\ Precision <= total + n + rounds * (n * (n - 1))

(* Of two backends each always has one half, whatever their latencies: the   *)
(* walker can only ever go to the other one.                                 *)
EvenPair ==
    Cardinality(Hosts) = 2 =>
        \A h \in Hosts : pi[h] = Precision \div 2
=============================================================================
