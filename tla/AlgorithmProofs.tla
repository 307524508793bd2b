--------------------------- MODULE AlgorithmProofs ---------------------------
(***************************************************************************)
(* The ant colony's weights, for any backends, latencies, rates, deposits   *)
(* and number of windows: their order is the order of the latencies seen.   *)
(* The Markov chain's distribution, for any backends and latencies: what an *)
(* iteration keeps, and the closed form of what it leads to.                *)
(***************************************************************************)
EXTENDS Aco, Markov, FiniteSetTheorems, TLAPS

-----------------------------------------------------------------------------
(* Integer division and Python's rounding are monotone.                     *)

LEMMA DivMod ==
  ASSUME NEW a \in Nat, NEW d \in Nat \ {0}
  PROVE  /\ a \div d \in Nat /\ a % d \in 0..(d - 1)
         /\ a = d * (a \div d) + (a % d)
OBVIOUS

LEMMA DivBelow ==
  ASSUME NEW a \in Nat, NEW x \in Nat \ {0}
  PROVE  a \div x \in Nat /\ x * (a \div x) <= a
<1> DEFINE q == a \div x
           r == a % x
<1>1. q \in Nat /\ r \in Nat /\ x * q \in Nat /\ a = x * q + r
  BY DivMod
<1> HIDE DEF q, r
<1>2. x * q <= a
  BY <1>1
<1>3. QED
  BY <1>1, <1>2 DEF q

LEMMA TimesMonotone ==
  ASSUME NEW a \in Nat, NEW b \in Nat, NEW c \in Nat, a <= b
  PROVE  c * a <= c * b /\ a * c <= b * c
<1>1. c * b - c * a = c * (b - a) /\ b - a \in Nat
  OBVIOUS
<1>2. c * (b - a) >= 0
  BY <1>1
<1>3. QED
  BY <1>1, <1>2

LEMMA DivByGreater ==
  ASSUME NEW a \in Nat, NEW m \in Nat \ {0}, NEW n \in Nat \ {0}, m <= n
  PROVE  a \div n <= a \div m
<1> DEFINE q == a \div n
           p == a \div m
<1>1. q \in Nat /\ p \in Nat /\ n * q <= a /\ a < m * p + m
  BY DivMod
<1>2. m * q <= n * q
  BY <1>1, TimesMonotone
<1>3. m * q < m * p + m
  BY <1>1, <1>2
<1>4. ~(q >= p + 1)
  <2>1. SUFFICES ASSUME q >= p + 1 PROVE FALSE
    OBVIOUS
  <2>2. m * (p + 1) <= m * q
    BY <1>1, <2>1, TimesMonotone
  <2>3. m * (p + 1) = m * p + m
    BY <1>1
  <2>4. QED
    BY <1>1, <1>3, <2>2, <2>3
<1>5. QED
  BY <1>1, <1>4

LEMMA DivAtMost ==
  ASSUME NEW a \in Nat, NEW n \in Nat \ {0}
  PROVE  a \div n \in Nat /\ a \div n <= a
<1>1. a \div n \in Nat /\ n * (a \div n) <= a
  BY DivMod
<1>2. 1 * (a \div n) <= n * (a \div n)
  BY <1>1, TimesMonotone
<1>3. QED
  BY <1>1, <1>2

LEMMA DivOfGreater ==
  ASSUME NEW a \in Nat, NEW b \in Nat, NEW d \in Nat \ {0}, a <= b
  PROVE  /\ a \div d <= b \div d
         /\ a \div d = b \div d => a % d <= b % d
<1> DEFINE q == a \div d
           p == b \div d
<1>1. q \in Nat /\ p \in Nat /\ d * q <= b /\ b < d * p + d
  BY DivMod
<1>2. ~(q >= p + 1)
  <2>1. SUFFICES ASSUME q >= p + 1 PROVE FALSE
    OBVIOUS
  <2>2. d * (p + 1) <= d * q
    BY <1>1, <2>1, TimesMonotone
  <2>3. d * (p + 1) = d * p + d
    BY <1>1
  <2>4. QED
    BY <1>1, <2>2, <2>3
<1>3. q <= p
  BY <1>1, <1>2
<1>4. a = d * q + (a % d) /\ b = d * p + (b % d)
  BY DivMod
<1>5. a % d \in Nat /\ b % d \in Nat /\ d * q \in Nat /\ d * p \in Nat
  BY <1>1, DivMod
<1>6. q = p => a % d <= b % d
  BY <1>4, <1>5
<1>7. QED
  BY <1>3, <1>6

LEMMA RoundMonotone ==
  ASSUME NEW a \in Nat, NEW b \in Nat, NEW d \in Nat \ {0}, a <= b
  PROVE  /\ RoundHalfEven(a, d) \in Nat
         /\ RoundHalfEven(a, d) <= RoundHalfEven(b, d)
<1>1. /\ a \div d \in Nat /\ b \div d \in Nat
      /\ a % d \in Nat /\ b % d \in Nat
  BY DivMod
<1>2. /\ RoundHalfEven(a, d) \in (a \div d)..(a \div d + 1)
      /\ RoundHalfEven(b, d) \in (b \div d)..(b \div d + 1)
  BY <1>1 DEF RoundHalfEven
<1>3. CASE a \div d < b \div d
  BY <1>1, <1>2, <1>3
<1>4. CASE a \div d = b \div d
  <2>1. a % d <= b % d
    BY <1>4, DivOfGreater
  <2>2. QED
    BY <1>1, <1>2, <1>4, <2>1 DEF RoundHalfEven
<1>5. QED
  BY <1>1, <1>2, <1>3, <1>4, DivOfGreater

LEMMA ClampMonotone ==
  ASSUME NEW a \in Nat, NEW b \in Nat, NEW d \in Nat \ {0}, a <= b
  PROVE  Clamp(a, d) \in Nat /\ Clamp(b, d) \in Nat /\ Clamp(a, d) <= Clamp(b, d)
BY RoundMonotone, WeightsAssumption DEF Clamp

-----------------------------------------------------------------------------
(* A set of naturals with an upper bound has a largest element.             *)
LEMMA LargestOfBounded ==
  ASSUME NEW S, S \subseteq Nat, S # {}, NEW B \in Nat, \A n \in S : n <= B
  PROVE  \E n \in S : \A m \in S : m <= n
<1> DEFINE T == {t \in Nat : \E n \in S : t + n = B}
<1>1. T \subseteq Nat /\ T # {}
  <2>1. PICK n \in S : TRUE
    OBVIOUS
  <2>2. B - n \in Nat /\ (B - n) + n = B
    BY <2>1
  <2>3. QED
    BY <2>1, <2>2
<1>2. PICK x \in T : \A y \in T : ~(<<y, x>> \in OpToRel(<, Nat))
  BY <1>1, NatLessThanWellFounded, WFMin
<1>3. \A y \in T : ~(y < x)
  BY <1>1, <1>2 DEF OpToRel
<1>4. PICK n \in S : x + n = B
  OBVIOUS
<1>5. ASSUME NEW m \in S PROVE m <= n
  <2>1. m \in Nat /\ n \in Nat /\ B - m \in Nat /\ (B - m) + m = B
    OBVIOUS
  <2>2. B - m \in T
    BY <2>1
  <2>3. ~(B - m < x) /\ x \in Nat
    BY <1>3, <2>2
  <2>4. QED
    BY <1>4, <2>1, <2>3
<1>6. QED
  BY <1>5

-----------------------------------------------------------------------------
(* The levels are positive and bounded, and in the order of noWorse.        *)
LevelsHeld ==
    /\ level \in [Hosts -> Nat \ {0}]
    /\ scale \in Nat \ {0}
    /\ \E B \in Nat : \A h \in Hosts : level[h] <= B
    /\ noWorse \subseteq Hosts \X Hosts
    /\ \A p \in noWorse : level[p[1]] >= level[p[2]]

LEMMA InitLevelsHeld == Init => LevelsHeld
BY LatenciesAssumption, DepositAssumption DEF Init, LevelsHeld

(* One window, for one backend: the faster, and the more before, the more.  *)
LEMMA ReinforceMonotone ==
  ASSUME scale \in Nat \ {0},
         NEW a \in Nat \ {0}, NEW b \in Nat \ {0}, a >= b,
         NEW m \in Nat \ {0}, NEW n \in Nat \ {0}, m <= n
  PROVE  /\ Reinforce(a, m) \in Nat \ {0}
         /\ Reinforce(a, m) >= Reinforce(b, n)
<1> DEFINE D == Deposit * scale * RateDen
           K == RateDen - RateNum
<1>1. D \in Nat /\ K \in Nat \ {0}
  <2>1. /\ Deposit \in Nat /\ RateDen \in Nat /\ RateNum \in Nat
        /\ RateNum < RateDen
    BY LatenciesAssumption, DepositAssumption, RateAssumption
  <2>2. Deposit * scale \in Nat
    BY <2>1
  <2>3. QED
    BY <2>1, <2>2
<1>2. D \div n <= D \div m /\ D \div n \in Nat /\ D \div m \in Nat
  BY <1>1, DivByGreater, DivMod
<1>3. b * K <= a * K
  BY <1>1, TimesMonotone
<1>4. a * K \in Nat \ {0} /\ b * K \in Nat
  BY <1>1
<1>5. Reinforce(a, m) = a * K + (D \div m) /\ Reinforce(b, n) = b * K + (D \div n)
  BY DEF Reinforce
<1> HIDE DEF D, K
<1>6. QED
  BY <1>2, <1>3, <1>4, <1>5

(* One window keeps a bound on the levels.                                  *)
LEMMA ReinforceBounded ==
  ASSUME scale \in Nat \ {0}, NEW a \in Nat \ {0}, NEW B \in Nat, a <= B,
         NEW n \in Nat \ {0}
  PROVE  Reinforce(a, n) <= B * (RateDen - RateNum) + Deposit * scale * RateDen
<1> DEFINE D == Deposit * scale * RateDen
           K == RateDen - RateNum
<1>1. D \in Nat /\ K \in Nat
  <2>1. /\ Deposit \in Nat /\ RateDen \in Nat /\ RateNum \in Nat
        /\ RateNum < RateDen
    BY LatenciesAssumption, DepositAssumption, RateAssumption
  <2>2. Deposit * scale \in Nat
    BY <2>1
  <2>3. QED
    BY <2>1, <2>2
<1>2. a * K <= B * K
  BY <1>1, TimesMonotone
<1>3. D \div n \in Nat /\ D \div n <= D
  BY <1>1, DivAtMost
<1>4. a * K \in Nat /\ B * K \in Nat
  BY <1>1
<1>5. Reinforce(a, n) = a * K + (D \div n)
  BY DEF Reinforce
<1> HIDE DEF D, K
<1>6. Reinforce(a, n) <= B * K + D
  BY <1>1, <1>2, <1>3, <1>4, <1>5
<1>7. QED
  BY <1>6 DEF D, K

LEMMA NextLevelsHeld == LevelsHeld /\ [Next]_acoVars => LevelsHeld'
<1> SUFFICES ASSUME LevelsHeld, [Next]_acoVars PROVE LevelsHeld'
  OBVIOUS
<1>1. CASE UNCHANGED acoVars
  BY <1>1 DEF acoVars, LevelsHeld
<1>2. ASSUME NEW o \in [Hosts -> Latencies], Update(o) PROVE LevelsHeld'
  <2>1. \A h \in Hosts : o[h] \in Nat \ {0}
    BY LatenciesAssumption, DepositAssumption
  <2>2. /\ level' = [h \in Hosts |-> Reinforce(level[h], o[h])]
        /\ scale' = scale * RateDen
        /\ noWorse' = {p \in noWorse : o[p[1]] <= o[p[2]]}
    BY <1>2 DEF Update
  <2>3. \A h \in Hosts : level[h] \in Nat \ {0} /\ scale \in Nat \ {0}
    BY DEF LevelsHeld
  <2>4. level' \in [Hosts -> Nat \ {0}]
    <3>1. ASSUME NEW h \in Hosts PROVE Reinforce(level[h], o[h]) \in Nat \ {0}
      <4>1. level[h] >= level[h] /\ o[h] <= o[h]
        BY <2>1, <2>3
      <4>2. QED
        BY <2>1, <2>3, <4>1, ReinforceMonotone
    <3>2. QED
      BY <2>2, <3>1
  <2>5. scale' \in Nat \ {0}
    BY <2>2, RateAssumption DEF LevelsHeld
  <2>6. \E B \in Nat : \A h \in Hosts : level'[h] <= B
    <3>1. PICK B \in Nat : \A h \in Hosts : level[h] <= B
      BY DEF LevelsHeld
    <3> DEFINE C == B * (RateDen - RateNum) + Deposit * scale * RateDen
    <3>2. C \in Nat
      <4>1. /\ Deposit \in Nat /\ scale \in Nat /\ RateDen \in Nat
            /\ RateDen - RateNum \in Nat
        BY LatenciesAssumption, DepositAssumption, RateAssumption DEF LevelsHeld
      <4>2. Deposit * scale \in Nat /\ B * (RateDen - RateNum) \in Nat
        BY <4>1
      <4>3. QED
        BY <4>1, <4>2
    <3>3. \A h \in Hosts : level'[h] <= C
      BY <2>1, <2>2, <2>3, <3>1, ReinforceBounded
    <3>4. QED
      BY <3>2, <3>3
  <2>7. ASSUME NEW p \in noWorse' PROVE level'[p[1]] >= level'[p[2]]
    <3>1. /\ p \in noWorse /\ o[p[1]] <= o[p[2]]
          /\ p[1] \in Hosts /\ p[2] \in Hosts /\ level[p[1]] >= level[p[2]]
      BY <2>2 DEF LevelsHeld
    <3>2. Reinforce(level[p[1]], o[p[1]]) >= Reinforce(level[p[2]], o[p[2]])
      BY <2>1, <2>3, <3>1, ReinforceMonotone
    <3>3. QED
      BY <2>2, <3>1, <3>2
  <2>8. QED
    BY <2>2, <2>4, <2>5, <2>6, <2>7 DEF LevelsHeld
<1>3. QED
  BY <1>1, <1>2 DEF Next

(* A backend that was at least as fast as another in every window has at    *)
(* least its weight, after any number of windows.                           *)
THEOREM FasterIsNeverLighter == Spec => []FasterNeverLighter
<1>1. LevelsHeld => FasterNeverLighter
  <2> SUFFICES ASSUME LevelsHeld, NEW p \in noWorse
               PROVE  AcoWeight(p[1]) >= AcoWeight(p[2])
    BY DEF FasterNeverLighter
  <2>1. p[1] \in Hosts /\ p[2] \in Hosts /\ level[p[2]] <= level[p[1]]
    BY DEF LevelsHeld
  <2>2. level[Strongest] \in Nat \ {0}
    <3> DEFINE S == {level[h] : h \in Hosts}
    <3>1. S \subseteq Nat /\ S # {}
      BY <2>1 DEF LevelsHeld
    <3>2. PICK B \in Nat : \A n \in S : n <= B
      BY DEF LevelsHeld
    <3>3. \E n \in S : \A m \in S : m <= n
      BY <3>1, <3>2, LargestOfBounded
    <3>4. \E h \in Hosts : \A g \in Hosts : level[g] <= level[h]
      BY <3>3
    <3>5. Strongest \in Hosts
      BY <3>4 DEF Strongest
    <3>6. QED
      BY <3>5 DEF LevelsHeld
  <2>3. /\ 100 * level[p[1]] \in Nat /\ 100 * level[p[2]] \in Nat
        /\ 100 * level[p[2]] <= 100 * level[p[1]]
    BY <2>1 DEF LevelsHeld
  <2>4. /\ Clamp(100 * level[p[2]], level[Strongest])
             <= Clamp(100 * level[p[1]], level[Strongest])
        /\ Clamp(100 * level[p[1]], level[Strongest]) \in Nat
        /\ Clamp(100 * level[p[2]], level[Strongest]) \in Nat
    BY <2>2, <2>3, ClampMonotone
  <2>5. QED
    BY <2>4 DEF AcoWeight
<1>2. QED
  BY <1>1, InitLevelsHeld, NextLevelsHeld, PTL DEF Spec

-----------------------------------------------------------------------------
(* One window, for one backend: with K parts kept of K + R, from a level c  *)
(* of scale s and a deposit d of at most D / l.                             *)
LEMMA BalanceStep ==
  ASSUME NEW c \in Nat, NEW s \in Nat, NEW d \in Nat, NEW D \in Nat,
         NEW K \in Nat, NEW R \in Nat, NEW l \in Nat \ {0},
         l * d <= D, c <= s \/ c * R * l <= D
  PROVE  c * K + d <= s * (K + R) \/ (c * K + d) * R * l <= D * (K + R)
<1>1. CASE c * R * l <= D
  <2>1. c * R * l \in Nat /\ l * d \in Nat
    OBVIOUS
  <2>2. K * (c * R * l) <= K * D /\ R * (l * d) <= R * D
    BY <1>1, <2>1, TimesMonotone
  <2>3. (c * K + d) * R * l = K * (c * R * l) + R * (l * d)
    OBVIOUS
  <2>4. D * (K + R) = K * D + R * D
    OBVIOUS
  <2>5. /\ K * (c * R * l) \in Nat /\ R * (l * d) \in Nat
        /\ K * D \in Nat /\ R * D \in Nat
    BY <2>1
  <2>6. QED
    BY <2>2, <2>3, <2>4, <2>5
<1>2. CASE ~(c * R * l <= D)
  <2>1. c <= s
    BY <1>2
  <2>2. c * R \in Nat /\ s * R \in Nat /\ c * R <= s * R
    BY <2>1, TimesMonotone
  <2>3. c * R * l <= s * R * l
    BY <2>2, TimesMonotone
  <2>4. ~(d >= s * R)
    <3>1. SUFFICES ASSUME d >= s * R PROVE FALSE
      OBVIOUS
    <3>2. (s * R) * l <= d * l
      BY <2>2, <3>1, TimesMonotone
    <3>3. d * l = l * d
      OBVIOUS
    <3>4. /\ c * R * l \in Nat /\ (s * R) * l \in Nat /\ l * d \in Nat
      BY <2>2
    <3>5. QED
      BY <1>2, <2>3, <3>2, <3>3, <3>4
  <2>5. c * K <= s * K
    BY <2>1, TimesMonotone
  <2>6. s * (K + R) = s * K + s * R /\ c * K \in Nat /\ s * K \in Nat
    OBVIOUS
  <2>7. QED
    BY <2>2, <2>4, <2>5, <2>6
<1>3. QED
  BY <1>1, <1>2

(* The bound on the pheromone holds for any rate, deposit and latencies,    *)
(* over any number of windows.                                              *)
THEOREM PheromoneIsBalanced == Spec => []Balanced
<1>1. Init => Balanced
  BY LatenciesAssumption, DepositAssumption DEF Init, Balanced
<1>2. LevelsHeld /\ Balanced /\ [Next]_acoVars => Balanced'
  <2> SUFFICES ASSUME LevelsHeld, Balanced, [Next]_acoVars PROVE Balanced'
    OBVIOUS
  <2>1. CASE UNCHANGED acoVars
    BY <2>1 DEF acoVars, Balanced
  <2>2. ASSUME NEW o \in [Hosts -> Latencies], Update(o),
               NEW h \in Hosts, NEW l \in Latencies,
               \A m \in Latencies : l <= m
        PROVE  \/ level'[h] <= scale'
               \/ level'[h] * RateNum * l <= Deposit * RateDen * scale'
    <3> DEFINE D == Deposit * scale * RateDen
               K == RateDen - RateNum
               d == D \div o[h]
    <3>1. /\ Deposit \in Nat /\ RateDen \in Nat /\ RateNum \in Nat
          /\ RateNum < RateDen /\ scale \in Nat /\ level[h] \in Nat
          /\ l \in Nat \ {0} /\ o[h] \in Nat \ {0} /\ l <= o[h]
      BY <2>2, LatenciesAssumption, DepositAssumption, RateAssumption DEF LevelsHeld
    <3>2. K \in Nat /\ K + RateNum = RateDen
      BY <3>1
    <3>3. D \in Nat /\ Deposit * RateDen * scale = D
      <4>1. Deposit * scale \in Nat
        BY <3>1
      <4>2. QED
        BY <3>1, <4>1
    <3>4. d \in Nat /\ l * d <= D
      <4>1. d \in Nat /\ o[h] * d <= D
        <5> HIDE DEF D
        <5>1. o[h] \in Nat \ {0} /\ D \in Nat
          BY <3>1, <3>3
        <5>2. QED
          BY <5>1, DivBelow
      <4>2. l * d <= o[h] * d
        BY <3>1, <4>1, TimesMonotone
      <4>3. l * d \in Nat /\ o[h] * d \in Nat
        BY <3>1, <4>1
      <4>4. QED
        BY <3>3, <4>1, <4>2, <4>3
    <3>5. level[h] <= scale \/ level[h] * RateNum * l <= D
      BY <2>2, <3>3 DEF Balanced
    <3>6. level'[h] = level[h] * K + d /\ scale' = scale * RateDen
      BY <2>2 DEF Update, Reinforce
    <3>7. Deposit * RateDen * scale' = D * RateDen
      BY <3>1, <3>6
    <3> HIDE DEF D, K, d
    <3>8. \/ level[h] * K + d <= scale * (K + RateNum)
          \/ (level[h] * K + d) * RateNum * l <= D * (K + RateNum)
      BY <3>1, <3>2, <3>3, <3>4, <3>5, BalanceStep
    <3>9. QED
      BY <3>2, <3>6, <3>7, <3>8
  <2>3. QED
    BY <2>1, <2>2 DEF Next, Balanced
<1>3. QED
  BY <1>1, <1>2, InitLevelsHeld, NextLevelsHeld, PTL DEF Spec

-----------------------------------------------------------------------------
(* Induction over the natural numbers, and over the subsets of a finite     *)
(* set, for a property given as the set of those that have it.              *)
LEMMA NaturalInduction ==
  ASSUME NEW K, 0 \in K, \A k \in Nat : k \in K => k + 1 \in K
  PROVE  Nat \subseteq K
<1> DEFINE T == {t \in Nat : t \notin K}
<1>1. SUFFICES ASSUME T # {} PROVE FALSE
  OBVIOUS
<1>2. PICK x \in T : \A y \in T : ~(<<y, x>> \in OpToRel(<, Nat))
  BY <1>1, NatLessThanWellFounded, WFMin
<1>3. \A y \in T : ~(y < x)
  BY <1>2 DEF OpToRel
<1>4. x \in Nat \ {0}
  OBVIOUS
<1>5. x - 1 \in Nat /\ x - 1 < x /\ (x - 1) + 1 = x
  BY <1>4
<1>6. x - 1 \in K
  BY <1>3, <1>5
<1>7. QED
  BY <1>5, <1>6

LEMMA RemoveOne ==
  ASSUME NEW H, IsFiniteSet(H), NEW T \in SUBSET H
  PROVE  /\ IsFiniteSet(T) /\ Cardinality(T) \in Nat
         /\ Cardinality(T) = 0 <=> T = {}
         /\ \A x \in T : /\ T \ {x} \in SUBSET H
                         /\ Cardinality(T \ {x}) \in Nat
                         /\ Cardinality(T) = Cardinality(T \ {x}) + 1
<1>1. IsFiniteSet(T)
  BY FS_Subset
<1>2. Cardinality(T) \in Nat /\ (Cardinality(T) = 0 <=> T = {})
  BY <1>1, FS_CardinalityType, FS_EmptySet
<1>3. ASSUME NEW x \in T
      PROVE  /\ Cardinality(T \ {x}) \in Nat
             /\ Cardinality(T) = Cardinality(T \ {x}) + 1
  <2>1. IsFiniteSet(T \ {x})
    BY <1>1, FS_RemoveElement
  <2>2. Cardinality(T \ {x}) \in Nat /\ Cardinality(T \ {x}) = Cardinality(T) - 1
    BY <1>1, <2>1, FS_RemoveElement, FS_CardinalityType
  <2>3. QED
    BY <1>2, <2>2
<1>4. QED
  BY <1>1, <1>2, <1>3

LEMMA SubsetInduction ==
  ASSUME NEW H, IsFiniteSet(H), NEW G, {} \in G,
         \A T \in SUBSET H : T # {} /\ (\A x \in T : T \ {x} \in G) => T \in G
  PROVE  SUBSET H \subseteq G
<1> DEFINE K == {k \in Nat : \A T \in SUBSET H : Cardinality(T) = k => T \in G}
<1>1. 0 \in K
  BY RemoveOne
<1>2. ASSUME NEW k \in Nat, k \in K PROVE k + 1 \in K
  <2> SUFFICES ASSUME NEW T \in SUBSET H, Cardinality(T) = k + 1 PROVE T \in G
    OBVIOUS
  <2>1. T # {}
    BY RemoveOne
  <2>2. ASSUME NEW x \in T PROVE T \ {x} \in G
    <3>1. T \ {x} \in SUBSET H /\ Cardinality(T \ {x}) = k
      BY RemoveOne
    <3>2. QED
      BY <1>2, <3>1
  <2>3. QED
    BY <2>1, <2>2
<1>3. Nat \subseteq K
  <2> HIDE DEF K
  <2> QED
    BY <1>1, <1>2, NaturalInduction
<1>4. QED
  BY <1>3, RemoveOne

-----------------------------------------------------------------------------
(* The sum of a function over a finite set, as the community modules define *)
(* it: the recursive function, that there is one, and that one element can  *)
(* be taken out of the sum, whichever it is.                                *)
First(s) == CHOOSE x \in s : TRUE

Adds(f, w, s) == IF s = {} THEN 0 ELSE w[First(s)] + f[s \ {First(s)}]

Sums(w, S) == CHOOSE f : f = [s \in SUBSET S |-> Adds(f, w, s)]

LEMMA SumIsLast ==
  ASSUME NEW w, NEW S
  PROVE  SumFunctionOnSet(w, S) = Sums(w, S)[S]
BY DEF SumFunctionOnSet, FoldFunctionOnSet, MapThenFoldSet, Sums, Adds, First

LEMMA SumsExist ==
  ASSUME NEW S, IsFiniteSet(S), NEW w \in [S -> Nat]
  PROVE  /\ Sums(w, S) \in [SUBSET S -> Nat]
         /\ Sums(w, S) = [s \in SUBSET S |-> Adds(Sums(w, S), w, s)]
<1> DEFINE K == {k \in Nat : \E f \in [SUBSET S -> Nat] :
                     \A s \in SUBSET S :
                         Cardinality(s) <= k => f[s] = Adds(f, w, s)}
<1>1. 0 \in K
  <2> DEFINE f == [s \in SUBSET S |-> 0]
  <2>1. f \in [SUBSET S -> Nat]
    OBVIOUS
  <2>2. ASSUME NEW s \in SUBSET S, Cardinality(s) <= 0 PROVE f[s] = Adds(f, w, s)
    <3>1. Cardinality(s) \in Nat /\ (Cardinality(s) = 0 <=> s = {})
      BY RemoveOne
    <3>2. s = {}
      BY <2>2, <3>1
    <3>3. QED
      BY <3>2 DEF Adds
  <2>3. QED
    BY <2>1, <2>2
<1>2. ASSUME NEW k \in Nat, k \in K PROVE k + 1 \in K
  <2>1. PICK f \in [SUBSET S -> Nat] :
            \A s \in SUBSET S : Cardinality(s) <= k => f[s] = Adds(f, w, s)
    BY <1>2
  <2> DEFINE g == [s \in SUBSET S |-> Adds(f, w, s)]
  <2>2. ASSUME NEW s \in SUBSET S, s # {}
        PROVE  First(s) \in s /\ s \ {First(s)} \in SUBSET S
    BY <2>2 DEF First
  <2>3. g \in [SUBSET S -> Nat]
    <3>1. ASSUME NEW s \in SUBSET S PROVE Adds(f, w, s) \in Nat
      <4>1. CASE s = {}
        BY <4>1 DEF Adds
      <4>2. CASE s # {}
        <5>1. w[First(s)] \in Nat /\ f[s \ {First(s)}] \in Nat
          BY <2>2, <4>2
        <5>2. QED
          BY <4>2, <5>1 DEF Adds
      <4>3. QED
        BY <4>1, <4>2
    <3>2. QED
      BY <3>1
  <2>4. ASSUME NEW s \in SUBSET S, Cardinality(s) <= k + 1
        PROVE  g[s] = Adds(g, w, s)
    <3>1. CASE s = {}
      BY <3>1 DEF Adds
    <3>2. CASE s # {}
      <4> DEFINE r == s \ {First(s)}
      <4>1. r \in SUBSET S /\ First(s) \in s
        BY <2>2, <3>2
      <4>2. Cardinality(r) <= k
        BY <2>4, <4>1, RemoveOne
      <4>3. g[r] = f[r]
        BY <2>1, <4>1, <4>2
      <4>4. QED
        BY <3>2, <4>3 DEF Adds
    <3>3. QED
      BY <3>1, <3>2
  <2>5. k + 1 \in Nat
    OBVIOUS
  <2> HIDE DEF g
  <2>6. QED
    BY <2>3, <2>4, <2>5
<1>3. Cardinality(S) \in K
  <2>1. Cardinality(S) \in Nat
    BY RemoveOne
  <2> HIDE DEF K
  <2>2. QED
    BY <1>1, <1>2, <2>1, NaturalInduction
<1>4. PICK f \in [SUBSET S -> Nat] :
          \A s \in SUBSET S : Cardinality(s) <= Cardinality(S) => f[s] = Adds(f, w, s)
  BY <1>3
<1>5. f = [s \in SUBSET S |-> Adds(f, w, s)]
  <2>1. \A s \in SUBSET S : Cardinality(s) <= Cardinality(S)
    BY FS_Subset
  <2>2. QED
    BY <1>4, <2>1
<1>6. Sums(w, S) = [s \in SUBSET S |-> Adds(Sums(w, S), w, s)]
  BY <1>5 DEF Sums
<1> DEFINE F == Sums(w, S)
           G == {s \in SUBSET S : F[s] \in Nat}
<1>7. SUBSET S \subseteq G
  <2>1. {} \in G
    BY <1>6 DEF Adds
  <2>2. ASSUME NEW s \in SUBSET S, s # {}, \A x \in s : s \ {x} \in G
        PROVE  s \in G
    <3>1. First(s) \in s
      BY <2>2 DEF First
    <3>2. F[s] = w[First(s)] + F[s \ {First(s)}]
      BY <1>6, <2>2 DEF Adds
    <3>3. w[First(s)] \in Nat /\ F[s \ {First(s)}] \in Nat
      BY <2>2, <3>1
    <3>4. QED
      BY <3>2, <3>3
  <2> HIDE DEF G
  <2>3. QED
    BY <2>1, <2>2, SubsetInduction
<1>8. QED
  BY <1>6, <1>7

LEMMA SumsOfSmaller ==
  ASSUME NEW H, IsFiniteSet(H), NEW w \in [H -> Nat],
         NEW S \in SUBSET H, NEW T \in SUBSET S
  PROVE  Sums(w, S)[T] = Sums(w, T)[T]
<1>1. ASSUME NEW s \in SUBSET H
      PROVE  \A t \in SUBSET s : Sums(w, s)[t] = Adds(Sums(w, s), w, t)
  <2> DEFINE v == [h \in s |-> w[h]]
  <2>1. v \in [s -> Nat] /\ IsFiniteSet(s)
    BY FS_Subset
  <2>2. \A f : \A t \in SUBSET s : Adds(f, v, t) = Adds(f, w, t)
    <3>1. ASSUME NEW f, NEW t \in SUBSET s, t # {} PROVE First(t) \in s
      BY <3>1 DEF First
    <3>2. QED
      BY <3>1 DEF Adds
  <2>3. Sums(v, s) = Sums(w, s)
    <3>1. \A f : [t \in SUBSET s |-> Adds(f, v, t)]
                     = [t \in SUBSET s |-> Adds(f, w, t)]
      BY <2>2
    <3>2. QED
      BY <3>1 DEF Sums
  <2>4. Sums(v, s) = [t \in SUBSET s |-> Adds(Sums(v, s), v, t)]
    BY <2>1, SumsExist
  <2>5. QED
    BY <2>2, <2>3, <2>4
<1> DEFINE G == {t \in SUBSET H : \A s \in SUBSET H :
                    t \subseteq s => Sums(w, s)[t] = Sums(w, t)[t]}
<1>2. {} \in G
  BY <1>1 DEF Adds
<1>3. ASSUME NEW t \in SUBSET H, t # {}, \A x \in t : t \ {x} \in G
      PROVE  t \in G
  <2> SUFFICES ASSUME NEW s \in SUBSET H, t \subseteq s
               PROVE  Sums(w, s)[t] = Sums(w, t)[t]
    OBVIOUS
  <2> DEFINE r == t \ {First(t)}
  <2>1. First(t) \in t
    BY <1>3 DEF First
  <2>2. r \in G /\ r \subseteq s /\ r \subseteq t
    BY <1>3, <2>1
  <2>3. Sums(w, s)[r] = Sums(w, r)[r] /\ Sums(w, t)[r] = Sums(w, r)[r]
    BY <2>2
  <2>4. /\ Sums(w, s)[t] = w[First(t)] + Sums(w, s)[r]
        /\ Sums(w, t)[t] = w[First(t)] + Sums(w, t)[r]
    BY <1>1, <1>3 DEF Adds
  <2>5. QED
    BY <2>3, <2>4
<1>4. SUBSET H \subseteq G
  <2> HIDE DEF G
  <2> QED
    BY <1>2, <1>3, SubsetInduction
<1>5. QED
  BY <1>4

LEMMA SumFirst ==
  ASSUME NEW H, IsFiniteSet(H), NEW w \in [H -> Nat], NEW T \in SUBSET H
  PROVE  /\ SumFunctionOnSet(w, T) \in Nat
         /\ SumFunctionOnSet(w, {}) = 0
         /\ T # {} => /\ First(T) \in T
                      /\ SumFunctionOnSet(w, T) =
                           w[First(T)] + SumFunctionOnSet(w, T \ {First(T)})
<1>1. /\ Sums(w, H) \in [SUBSET H -> Nat]
      /\ Sums(w, H) = [s \in SUBSET H |-> Adds(Sums(w, H), w, s)]
  BY SumsExist
<1>2. \A t \in SUBSET H : SumFunctionOnSet(w, t) = Sums(w, H)[t]
  BY SumIsLast, SumsOfSmaller
<1>3. \A t \in SUBSET H : SumFunctionOnSet(w, t) = Adds(Sums(w, H), w, t)
  BY <1>1, <1>2
<1>4. T # {} => First(T) \in T
  BY DEF First
<1>5. QED
  BY <1>1, <1>2, <1>3, <1>4 DEF Adds

LEMMA SumRemove ==
  ASSUME NEW H, IsFiniteSet(H), NEW w \in [H -> Nat], NEW T \in SUBSET H
  PROVE  /\ SumFunctionOnSet(w, T) \in Nat
         /\ SumFunctionOnSet(w, {}) = 0
         /\ \A x \in T : SumFunctionOnSet(w, T)
                             = w[x] + SumFunctionOnSet(w, T \ {x})
<1> DEFINE Total(t) == SumFunctionOnSet(w, t)
           G == {t \in SUBSET H : \A x \in t : Total(t) = w[x] + Total(t \ {x})}
<1>1. /\ \A t \in SUBSET H : Total(t) \in Nat
      /\ Total({}) = 0
      /\ \A t \in SUBSET H : t # {} =>
             /\ First(t) \in t
             /\ Total(t) = w[First(t)] + Total(t \ {First(t)})
  <2>1. ASSUME NEW t \in SUBSET H
        PROVE  /\ Total(t) \in Nat /\ Total({}) = 0
               /\ t # {} => /\ First(t) \in t
                            /\ Total(t) = w[First(t)] + Total(t \ {First(t)})
    <3> HIDE DEF G
    <3>1. SumFunctionOnSet(w, t) \in Nat
      BY SumFirst
    <3>2. SumFunctionOnSet(w, {}) = 0
      BY SumFirst
    <3>3. ASSUME t # {} PROVE First(t) \in t
      BY <3>3, SumFirst
    <3>4. ASSUME t # {}
          PROVE  SumFunctionOnSet(w, t) = w[First(t)] + SumFunctionOnSet(w, t \ {First(t)})
      BY <3>4, SumFirst
    <3>5. QED
      BY <3>1, <3>2, <3>3, <3>4
  <2> HIDE DEF Total
  <2>2. QED
    BY <2>1
<1> HIDE DEF Total
<1>2. {} \in G
  OBVIOUS
<1>3. ASSUME NEW t \in SUBSET H, t # {}, \A x \in t : t \ {x} \in G
      PROVE  t \in G
  <2> SUFFICES ASSUME NEW x \in t PROVE Total(t) = w[x] + Total(t \ {x})
    OBVIOUS
  <2> DEFINE y == First(t)
  <2>1. y \in t /\ Total(t) = w[y] + Total(t \ {y})
    BY <1>1, <1>3
  <2> HIDE DEF y
  <2>2. CASE x = y
    BY <2>1, <2>2
  <2>3. CASE x # y
    <3>1. t \ {y} \in G /\ x \in t \ {y} /\ t \ {x} \in G /\ y \in t \ {x}
      BY <1>3, <2>1, <2>3
    <3>2. /\ Total(t \ {y}) = w[x] + Total((t \ {y}) \ {x})
          /\ Total(t \ {x}) = w[y] + Total((t \ {x}) \ {y})
      BY <3>1
    <3>3. (t \ {y}) \ {x} = (t \ {x}) \ {y}
      OBVIOUS
    <3>4. w[x] \in Nat /\ w[y] \in Nat /\ Total((t \ {x}) \ {y}) \in Nat
      BY <1>1, <2>1
    <3>5. QED
      BY <2>1, <3>2, <3>3, <3>4
  <2>4. QED
    BY <2>2, <2>3
<1>4. SUBSET H \subseteq G
  <2> HIDE DEF G
  <2> QED
    BY <1>2, <1>3, SubsetInduction
<1>5. \A x \in T : Total(T) = w[x] + Total(T \ {x})
  BY <1>4
<1>6. QED
  BY <1>1, <1>5 DEF Total

(* A sum depends on the values in the set only; sums are linear; the order  *)
(* of two sums can be exchanged.                                            *)
LEMMA SumAgrees ==
  ASSUME NEW H, IsFiniteSet(H), NEW v \in [H -> Nat], NEW w \in [H -> Nat],
         NEW T \in SUBSET H, \A h \in T : v[h] = w[h]
  PROVE  SumFunctionOnSet(v, T) = SumFunctionOnSet(w, T)
<1> DEFINE V(t) == SumFunctionOnSet(v, t)
           W(t) == SumFunctionOnSet(w, t)
           G == {t \in SUBSET T : V(t) = W(t)}
<1>1. ASSUME NEW t \in SUBSET T
      PROVE  /\ V({}) = 0 /\ W({}) = 0
             /\ \A x \in t : /\ V(t) = v[x] + V(t \ {x})
                             /\ W(t) = w[x] + W(t \ {x})
  BY SumRemove
<1> HIDE DEF V, W
<1>2. {} \in G
  BY <1>1
<1>3. ASSUME NEW t \in SUBSET T, t # {}, \A x \in t : t \ {x} \in G
      PROVE  t \in G
  BY <1>1, <1>3
<1>4. SUBSET T \subseteq G
  <2> HIDE DEF G
  <2> QED
    BY <1>2, <1>3, SubsetInduction, FS_Subset
<1>5. QED
  BY <1>4 DEF V, W

LEMMA SumPlus ==
  ASSUME NEW H, IsFiniteSet(H), NEW v \in [H -> Nat], NEW w \in [H -> Nat],
         NEW T \in SUBSET H
  PROVE  SumFunctionOnSet([h \in H |-> v[h] + w[h]], T)
             = SumFunctionOnSet(v, T) + SumFunctionOnSet(w, T)
<1> DEFINE u == [h \in H |-> v[h] + w[h]]
           U(t) == SumFunctionOnSet(u, t)
           V(t) == SumFunctionOnSet(v, t)
           W(t) == SumFunctionOnSet(w, t)
           G == {t \in SUBSET H : U(t) = V(t) + W(t)}
<1>1. u \in [H -> Nat]
  OBVIOUS
<1>2. ASSUME NEW t \in SUBSET H
      PROVE  /\ U({}) = 0 /\ V({}) = 0 /\ W({}) = 0
             /\ V(t) \in Nat /\ W(t) \in Nat
             /\ \A x \in t : /\ U(t) = u[x] + U(t \ {x})
                             /\ V(t) = v[x] + V(t \ {x})
                             /\ W(t) = w[x] + W(t \ {x})
  <2> HIDE DEF u
  <2>1. QED
    BY <1>1, SumRemove
<1> HIDE DEF U, V, W
<1>3. {} \in G
  BY <1>2
<1>4. ASSUME NEW t \in SUBSET H, t # {}, \A x \in t : t \ {x} \in G
      PROVE  t \in G
  <2>1. PICK x \in t : TRUE
    BY <1>4
  <2>2. U(t \ {x}) = V(t \ {x}) + W(t \ {x})
    BY <1>4
  <2>3. /\ V(t \ {x}) \in Nat /\ W(t \ {x}) \in Nat
        /\ v[x] \in Nat /\ w[x] \in Nat /\ u[x] = v[x] + w[x]
    BY <1>2
  <2>4. /\ U(t) = u[x] + U(t \ {x}) /\ V(t) = v[x] + V(t \ {x})
        /\ W(t) = w[x] + W(t \ {x})
    BY <1>2
  <2> HIDE DEF u
  <2>5. U(t) = V(t) + W(t)
    BY <2>2, <2>3, <2>4
  <2>6. QED
    BY <2>5
<1>5. SUBSET H \subseteq G
  <2> HIDE DEF G
  <2> QED
    BY <1>3, <1>4, SubsetInduction
<1>6. QED
  BY <1>5 DEF U, V, W

LEMMA SumTimes ==
  ASSUME NEW H, IsFiniteSet(H), NEW w \in [H -> Nat], NEW c \in Nat,
         NEW T \in SUBSET H
  PROVE  SumFunctionOnSet([h \in H |-> c * w[h]], T) = c * SumFunctionOnSet(w, T)
<1> DEFINE u == [h \in H |-> c * w[h]]
           U(t) == SumFunctionOnSet(u, t)
           W(t) == SumFunctionOnSet(w, t)
           G == {t \in SUBSET H : U(t) = c * W(t)}
<1>1. u \in [H -> Nat]
  OBVIOUS
<1>2. ASSUME NEW t \in SUBSET H
      PROVE  /\ U({}) = 0 /\ W({}) = 0 /\ W(t) \in Nat
             /\ \A x \in t : /\ U(t) = u[x] + U(t \ {x})
                             /\ W(t) = w[x] + W(t \ {x})
  <2> HIDE DEF u
  <2>1. QED
    BY <1>1, SumRemove
<1> HIDE DEF U, W
<1>3. {} \in G
  BY <1>2
<1>4. ASSUME NEW t \in SUBSET H, t # {}, \A x \in t : t \ {x} \in G
      PROVE  t \in G
  <2>1. PICK x \in t : TRUE
    BY <1>4
  <2>2. U(t \ {x}) = c * W(t \ {x}) /\ u[x] = c * w[x]
    BY <1>4
  <2>3. W(t \ {x}) \in Nat /\ w[x] \in Nat
    BY <1>2
  <2>4. c * (w[x] + W(t \ {x})) = c * w[x] + c * W(t \ {x})
    BY <2>3
  <2>5. U(t) = c * W(t)
    BY <1>2, <2>2, <2>4
  <2>6. QED
    BY <2>5
<1>5. SUBSET H \subseteq G
  <2> HIDE DEF G
  <2> QED
    BY <1>3, <1>4, SubsetInduction
<1>6. QED
  BY <1>5 DEF U, W

LEMMA SumSwap ==
  ASSUME NEW H, IsFiniteSet(H), NEW a \in [H -> [H -> Nat]], NEW S \in SUBSET H
  PROVE  SumFunctionOnSet([j \in H |-> SumFunctionOnSet([i \in H |-> a[i][j]], H)], S)
       = SumFunctionOnSet([i \in H |-> SumFunctionOnSet([j \in H |-> a[i][j]], S)], H)
<1> DEFINE col(j) == [i \in H |-> a[i][j]]
           cols == [j \in H |-> SumFunctionOnSet(col(j), H)]
           rows(s) == [i \in H |-> SumFunctionOnSet(a[i], s)]
           L(s) == SumFunctionOnSet(cols, s)
           R(s) == SumFunctionOnSet(rows(s), H)
           G == {s \in SUBSET H : L(s) = R(s)}
<1>1. cols \in [H -> Nat] /\ \A j \in H : col(j) \in [H -> Nat]
  <2>1. ASSUME NEW j \in H
        PROVE  col(j) \in [H -> Nat] /\ SumFunctionOnSet(col(j), H) \in Nat
    BY SumRemove
  <2>2. QED
    BY <2>1
<1>2. ASSUME NEW s \in SUBSET H
      PROVE  /\ rows(s) \in [H -> Nat]
             /\ \A x \in s, i \in H : rows(s)[i] = col(x)[i] + rows(s \ {x})[i]
             /\ \A i \in H : rows({})[i] = 0
  BY SumRemove
<1>3. ASSUME NEW s \in SUBSET H
      PROVE  /\ L({}) = 0 /\ \A x \in s : L(s) = cols[x] + L(s \ {x})
  <2> HIDE DEF cols
  <2> QED
    BY <1>1, SumRemove
<1>4. R({}) = 0
  <2> DEFINE zero == [i \in H |-> 0]
  <2>1. rows({}) = zero
    BY <1>2
  <2>2. SumFunctionOnSet([i \in H |-> 0 * zero[i]], H)
            = 0 * SumFunctionOnSet(zero, H)
    BY SumTimes
  <2>3. [i \in H |-> 0 * zero[i]] = zero
    OBVIOUS
  <2>4. zero \in [H -> Nat]
    OBVIOUS
  <2> HIDE DEF zero
  <2>5. SumFunctionOnSet(zero, H) \in Nat
    BY <2>4, SumRemove
  <2>6. QED
    BY <2>1, <2>2, <2>3, <2>5
<1>5. ASSUME NEW s \in SUBSET H, NEW x \in s
      PROVE  R(s) = cols[x] + R(s \ {x})
  <2>1. rows(s) = [i \in H |-> col(x)[i] + rows(s \ {x})[i]]
    BY <1>2
  <2>2. col(x) \in [H -> Nat] /\ rows(s \ {x}) \in [H -> Nat]
    BY <1>1, <1>2
  <2>3. SumFunctionOnSet([i \in H |-> col(x)[i] + rows(s \ {x})[i]], H)
            = SumFunctionOnSet(col(x), H) + SumFunctionOnSet(rows(s \ {x}), H)
    <3>1. \A v, q \in [H -> Nat] :
              SumFunctionOnSet([i \in H |-> v[i] + q[i]], H)
                  = SumFunctionOnSet(v, H) + SumFunctionOnSet(q, H)
      BY SumPlus
    <3> HIDE DEF col, rows
    <3>2. QED
      BY <2>2, <3>1
  <2>4. cols[x] = SumFunctionOnSet(col(x), H)
    OBVIOUS
  <2> HIDE DEF col, rows, cols
  <2>5. QED
    BY <2>1, <2>3, <2>4
<1>6. SUBSET H \subseteq G
  <2> HIDE DEF L, R, cols
  <2>1. {} \in G
    BY <1>3, <1>4
  <2>2. ASSUME NEW s \in SUBSET H, s # {}, \A x \in s : s \ {x} \in G
        PROVE  s \in G
    <3>1. PICK x \in s : s \ {x} \in G
      BY <2>2
    <3>2. L(s) = cols[x] + L(s \ {x}) /\ R(s) = cols[x] + R(s \ {x})
      BY <1>3, <1>5
    <3>3. L(s) = R(s)
      BY <3>1, <3>2
    <3>4. QED
      BY <3>3
  <2> HIDE DEF G
  <2>3. QED
    BY <2>1, <2>2, SubsetInduction
<1>7. L(S) = R(S)
  BY <1>6
<1>8. \A i \in H : a[i] = [j \in H |-> a[i][j]]
  OBVIOUS
<1>9. QED
  BY <1>7, <1>8

(* A sum of equal values; and sums keep the order of their values, each up  *)
(* to c.                                                                    *)
LEMMA SumConstant ==
  ASSUME NEW H, IsFiniteSet(H), NEW c \in Nat, NEW T \in SUBSET H
  PROVE  SumFunctionOnSet([h \in H |-> c], T) = c * Cardinality(T)
<1> DEFINE u == [h \in H |-> c]
           U(t) == SumFunctionOnSet(u, t)
           G == {t \in SUBSET H : U(t) = c * Cardinality(t)}
<1>1. u \in [H -> Nat]
  OBVIOUS
<1>2. ASSUME NEW t \in SUBSET H
      PROVE  U({}) = 0 /\ \A x \in t : U(t) = c + U(t \ {x})
  <2>1. \A x \in t : u[x] = c
    OBVIOUS
  <2> HIDE DEF u
  <2>2. QED
    BY <1>1, <2>1, SumRemove
<1> HIDE DEF U
<1>3. {} \in G
  BY <1>2, RemoveOne
<1>4. ASSUME NEW t \in SUBSET H, t # {}, \A x \in t : t \ {x} \in G
      PROVE  t \in G
  <2>1. PICK x \in t : U(t \ {x}) = c * Cardinality(t \ {x})
    BY <1>4
  <2>2. /\ Cardinality(t \ {x}) \in Nat
        /\ Cardinality(t) = Cardinality(t \ {x}) + 1
    BY RemoveOne
  <2>3. U(t) = c + U(t \ {x})
    BY <1>2
  <2>4. c * (Cardinality(t \ {x}) + 1) = c * Cardinality(t \ {x}) + c
    BY <2>2
  <2>5. U(t) = c * Cardinality(t)
    BY <2>1, <2>2, <2>3, <2>4
  <2>6. QED
    BY <2>5
<1>5. SUBSET H \subseteq G
  <2> HIDE DEF G
  <2> QED
    BY <1>3, <1>4, SubsetInduction
<1>6. QED
  BY <1>5 DEF U

LEMMA SumAtMost ==
  ASSUME NEW H, IsFiniteSet(H), NEW v \in [H -> Nat], NEW w \in [H -> Nat],
         NEW T \in SUBSET H, NEW c \in Nat, \A h \in T : v[h] <= w[h] + c
  PROVE  SumFunctionOnSet(v, T) <= SumFunctionOnSet(w, T) + c * Cardinality(T)
<1> DEFINE V(t) == SumFunctionOnSet(v, t)
           W(t) == SumFunctionOnSet(w, t)
           G == {t \in SUBSET T : V(t) <= W(t) + c * Cardinality(t)}
<1>1. ASSUME NEW t \in SUBSET T
      PROVE  /\ V({}) = 0 /\ W({}) = 0 /\ V(t) \in Nat /\ W(t) \in Nat
             /\ \A x \in t : /\ V(t) = v[x] + V(t \ {x})
                             /\ W(t) = w[x] + W(t \ {x})
  BY SumRemove
<1> HIDE DEF V, W
<1>2. IsFiniteSet(T)
  BY FS_Subset
<1>3. {} \in G
  BY <1>1, <1>2, RemoveOne
<1>4. ASSUME NEW t \in SUBSET T, t # {}, \A x \in t : t \ {x} \in G
      PROVE  t \in G
  <2>1. PICK x \in t : V(t \ {x}) <= W(t \ {x}) + c * Cardinality(t \ {x})
    BY <1>4
  <2>2. /\ Cardinality(t \ {x}) \in Nat
        /\ Cardinality(t) = Cardinality(t \ {x}) + 1
    BY <1>2, RemoveOne
  <2>3. /\ V(t) = v[x] + V(t \ {x}) /\ W(t) = w[x] + W(t \ {x})
    BY <1>1
  <2>4. /\ V(t \ {x}) \in Nat /\ W(t \ {x}) \in Nat
        /\ v[x] \in Nat /\ w[x] \in Nat /\ v[x] <= w[x] + c
    BY <1>1
  <2>5. /\ c * (Cardinality(t \ {x}) + 1) = c * Cardinality(t \ {x}) + c
        /\ c * Cardinality(t \ {x}) \in Nat
    BY <2>2
  <2>6. V(t) <= W(t) + c * Cardinality(t)
    BY <2>1, <2>2, <2>3, <2>4, <2>5
  <2>7. QED
    BY <2>6
<1>5. SUBSET T \subseteq G
  <2> HIDE DEF G
  <2> QED
    BY <1>2, <1>3, <1>4, SubsetInduction
<1>6. QED
  BY <1>5 DEF V, W

(* Shares of p, in proportion to w and rounded down, are less than one unit *)
(* each below the exact ones.                                               *)
LEMMA SumFloor ==
  ASSUME NEW H, IsFiniteSet(H), NEW w \in [H -> Nat], NEW p \in Nat,
         NEW T \in SUBSET H, SumFunctionOnSet(w, T) # 0
  PROVE  LET D == SumFunctionOnSet(w, T)
             F == SumFunctionOnSet([h \in H |-> (p * w[h]) \div D], T)
         IN  F <= p /\ p <= F + Cardinality(T)
<1> DEFINE D == SumFunctionOnSet(w, T)
<1>1. D \in Nat \ {0}
  BY SumRemove
<1> HIDE DEF D
<1> DEFINE u == [h \in H |-> (p * w[h]) \div D]
           U(t) == SumFunctionOnSet(u, t)
           W(t) == SumFunctionOnSet(w, t)
           G == {t \in SUBSET H : /\ D * U(t) <= p * W(t)
                                  /\ p * W(t) <= D * (U(t) + Cardinality(t))}
<1>2. ASSUME NEW h \in H
      PROVE  /\ u[h] \in Nat /\ D * u[h] <= p * w[h]
             /\ p * w[h] <= D * u[h] + D
  <2>1. p * w[h] \in Nat
    OBVIOUS
  <2> DEFINE q == p * w[h]
  <2>2. q \in Nat
    BY <2>1
  <2> HIDE DEF q
  <2>3. /\ q \div D \in Nat /\ q % D \in 0..(D - 1)
        /\ q = D * (q \div D) + (q % D)
    BY <1>1, <2>2, DivMod
  <2>4. D * (q \div D) \in Nat
    BY <1>1, <2>3
  <2>5. D * (q \div D) <= q /\ q <= D * (q \div D) + D
    BY <1>1, <2>2, <2>3, <2>4
  <2>6. u[h] = q \div D
    BY DEF q
  <2>7. QED
    BY <2>3, <2>5, <2>6 DEF q
<1>3. u \in [H -> Nat]
  BY <1>2
<1>4. ASSUME NEW t \in SUBSET H
      PROVE  /\ U({}) = 0 /\ W({}) = 0 /\ U(t) \in Nat /\ W(t) \in Nat
             /\ \A x \in t : /\ U(t) = u[x] + U(t \ {x})
                             /\ W(t) = w[x] + W(t \ {x})
  <2> HIDE DEF u
  <2> QED
    BY <1>3, SumRemove
<1> HIDE DEF u, U, W
<1>5. {} \in G
  <2>1. U({}) = 0 /\ W({}) = 0 /\ Cardinality({}) = 0
    BY <1>4, RemoveOne
  <2>2. QED
    BY <1>1, <2>1
<1>6. ASSUME NEW t \in SUBSET H, t # {}, \A x \in t : t \ {x} \in G
      PROVE  t \in G
  <2>1. PICK x \in t : TRUE
    BY <1>6
  <2> DEFINE r == t \ {x}
             n == Cardinality(r)
  <2>2. D * U(r) <= p * W(r) /\ p * W(r) <= D * (U(r) + n)
    BY <1>6, <2>1
  <2>3. n \in Nat /\ Cardinality(t) = n + 1
    BY RemoveOne
  <2>4. U(t) = u[x] + U(r) /\ W(t) = w[x] + W(r)
    BY <1>4
  <2>5. /\ U(r) \in Nat /\ W(r) \in Nat /\ u[x] \in Nat /\ w[x] \in Nat
        /\ D * u[x] <= p * w[x] /\ p * w[x] <= D * u[x] + D
    BY <1>2, <1>4
  <2> HIDE DEF r, n
  <2>6. /\ D * (u[x] + U(r)) = D * u[x] + D * U(r)
        /\ p * (w[x] + W(r)) = p * w[x] + p * W(r)
        /\ D * ((u[x] + U(r)) + (n + 1)) = (D * u[x] + D) + D * (U(r) + n)
    <3>1. \A a, b \in Nat : /\ D * (a + b) = D * a + D * b
                            /\ p * (a + b) = p * a + p * b
      BY <1>1
    <3>2. \A a, b, m \in Nat : D * ((a + b) + (m + 1)) = (D * a + D) + D * (b + m)
      BY <1>1
    <3>3. QED
      BY <2>3, <2>5, <3>1, <3>2
  <2>7. /\ D * u[x] \in Nat /\ D * U(r) \in Nat /\ p * w[x] \in Nat
        /\ p * W(r) \in Nat /\ D * (U(r) + n) \in Nat
    BY <1>1, <2>3, <2>5
  <2>8. /\ D * (u[x] + U(r)) <= p * (w[x] + W(r))
        /\ p * (w[x] + W(r)) <= D * ((u[x] + U(r)) + (n + 1))
    BY <1>1, <2>2, <2>5, <2>6, <2>7
  <2>9. QED
    BY <2>3, <2>4, <2>8
<1>7. SUBSET H \subseteq G
  <2> HIDE DEF G
  <2> QED
    BY <1>5, <1>6, SubsetInduction
<1> DEFINE n == Cardinality(T)
<1>8. /\ D * U(T) <= p * D /\ p * D <= D * (U(T) + n)
      /\ U(T) \in Nat /\ n \in Nat
  BY <1>4, <1>7, RemoveOne DEF W, D
<1> HIDE DEF n
<1>9. ~(U(T) >= p + 1) /\ ~(p >= U(T) + n + 1)
  <2>1. ASSUME NEW a \in Nat, NEW b \in Nat, a >= b + 1
        PROVE  ~(D * a <= D * b)
    <3>1. D * (b + 1) <= D * a
      BY <1>1, <2>1, TimesMonotone
    <3>2. D * (b + 1) = D * b + D /\ D * b \in Nat
      BY <1>1
    <3>3. D * a \in Nat
      BY <1>1
    <3>4. QED
      BY <1>1, <3>1, <3>2, <3>3
  <2>2. p * D = D * p
    BY <1>1
  <2>3. U(T) + n \in Nat
    BY <1>8
  <2>4. QED
    BY <1>8, <2>1, <2>2, <2>3
<1>10. U(T) <= p /\ p <= U(T) + n
  BY <1>8, <1>9
<1>11. QED
  BY <1>10 DEF U, u, D, n

-----------------------------------------------------------------------------
(* The Markov chain's iteration, for any backends and latencies.            *)

LEMMA DivExact ==
  ASSUME NEW q \in Nat, NEW d \in Nat \ {0}
  PROVE  (d * q) \div d = q /\ (q * d) \div d = q
<1> DEFINE p == (d * q) \div d
           r == (d * q) % d
<1>1. d * q \in Nat /\ q * d = d * q
  OBVIOUS
<1>2. p \in Nat /\ r \in 0..(d - 1) /\ d * q = d * p + r
  <2> DEFINE a == d * q
  <2>1. a \in Nat
    BY <1>1
  <2> HIDE DEF a
  <2>2. /\ a \div d \in Nat /\ a % d \in 0..(d - 1)
        /\ a = d * (a \div d) + (a % d)
    BY <2>1, DivMod
  <2>3. QED
    BY <2>2 DEF a
<1> HIDE DEF p, r
<1>3. ~(q >= p + 1) /\ ~(p >= q + 1)
  <2>1. ASSUME q >= p + 1 PROVE FALSE
    <3>1. d * (p + 1) <= d * q
      BY <1>2, <2>1, TimesMonotone
    <3>2. d * (p + 1) = d * p + d /\ d * p \in Nat
      BY <1>2
    <3>3. QED
      BY <1>1, <1>2, <3>1, <3>2
  <2>2. ASSUME p >= q + 1 PROVE FALSE
    <3>1. d * (q + 1) <= d * p
      BY <1>2, <2>2, TimesMonotone
    <3>2. d * (q + 1) = d * q + d /\ d * p \in Nat
      BY <1>2
    <3>3. QED
      BY <1>1, <1>2, <3>1, <3>2
  <2>3. QED
    BY <2>1, <2>2
<1>4. p = q
  BY <1>2, <1>3
<1>5. QED
  BY <1>1, <1>4 DEF p

(* Scores are positive, and greater for the faster of two backends.         *)
LEMMA ScoresOrdered ==
  ASSUME latency \in [Hosts -> Latencies]
  PROVE  /\ [h \in Hosts |-> Score(h)] \in [Hosts -> Nat]
         /\ \A h \in Hosts : Score(h) \in Nat \ {0}
         /\ \A g, h \in Hosts : latency[g] < latency[h] => Score(g) > Score(h)
<1>1. ASSUME NEW h \in Hosts
      PROVE  /\ latency[h] \in Nat \ {0} /\ Score(h) \in Nat \ {0}
             /\ Multiple = latency[h] * Score(h)
  <2>1. latency[h] \in Latencies /\ latency[h] \in Nat \ {0}
    BY LatenciesAssumption
  <2>2. Multiple \in Nat \ {0} /\ Multiple % latency[h] = 0
    BY <2>1, MarkovAssumption
  <2>3. /\ Multiple \div latency[h] \in Nat
        /\ Multiple = latency[h] * (Multiple \div latency[h])
                          + (Multiple % latency[h])
    BY <2>1, <2>2, DivMod
  <2>4. Score(h) \in Nat /\ Multiple = latency[h] * Score(h)
    <3>1. latency[h] * (Multiple \div latency[h]) \in Nat
      BY <2>1, <2>3
    <3>2. QED
      BY <2>2, <2>3, <3>1 DEF Score
  <2>5. Score(h) # 0
    <3>1. latency[h] * 0 = 0
      BY <2>1
    <3>2. QED
      BY <2>2, <2>4, <3>1
  <2>6. QED
    BY <2>1, <2>4, <2>5
<1>2. ASSUME NEW g \in Hosts, NEW h \in Hosts, latency[g] < latency[h]
      PROVE  Score(g) > Score(h)
  <2> DEFINE lg == latency[g]
             lh == latency[h]
             sg == Score(g)
             sh == Score(h)
  <2>1. /\ lg \in Nat \ {0} /\ lh \in Nat \ {0} /\ lg + 1 <= lh
        /\ sg \in Nat \ {0} /\ sh \in Nat \ {0} /\ lg * sg = lh * sh
    BY <1>1, <1>2
  <2> HIDE DEF lg, lh, sg, sh
  <2>2. ~(sg <= sh)
    <3>1. SUFFICES ASSUME sg <= sh PROVE FALSE
      OBVIOUS
    <3>2. lg * sg <= lg * sh
      BY <2>1, <3>1, TimesMonotone
    <3>3. (lg + 1) * sh <= lh * sh
      BY <2>1, TimesMonotone
    <3>4. (lg + 1) * sh = lg * sh + sh /\ lg * sh \in Nat /\ lh * sh \in Nat
      BY <2>1
    <3>5. QED
      BY <2>1, <3>2, <3>3, <3>4
  <2>3. sg > sh
    BY <2>1, <2>2
  <2>4. QED
    BY <2>3 DEF sg, sh
<1>3. QED
  BY <1>1, <1>2

LEMMA OthersPositive ==
  ASSUME latency \in [Hosts -> Latencies], NEW h \in Hosts
  PROVE  /\ OthersTotal(h) \in Nat
         /\ Hosts # {h} => OthersTotal(h) \in Nat \ {0}
         /\ \A k \in Hosts \ {h} : OthersTotal(h) = Score(k)
                + SumFunctionOnSet([i \in Hosts |-> Score(i)], Hosts \ {h, k})
<1> DEFINE w == [i \in Hosts |-> Score(i)]
           W(t) == SumFunctionOnSet(w, t)
           R == Hosts \ {h}
<1>1. IsFiniteSet(Hosts) /\ w \in [Hosts -> Nat] /\ R \in SUBSET Hosts
  BY MarkovAssumption, ScoresOrdered
<1>2. \A k \in Hosts : w[k] = Score(k) /\ Score(k) \in Nat \ {0}
  BY ScoresOrdered
<1>3. OthersTotal(h) = W(R)
  BY DEF OthersTotal
<1> HIDE DEF w
<1>4. \A t \in SUBSET Hosts : W(t) \in Nat /\ \A x \in t : W(t) = w[x] + W(t \ {x})
  BY <1>1, SumRemove
<1> HIDE DEF W
<1>5. ASSUME NEW k \in R
      PROVE  /\ OthersTotal(h) = Score(k) + W(Hosts \ {h, k})
             /\ OthersTotal(h) # 0
  <2>1. R \ {k} = Hosts \ {h, k} /\ R \ {k} \in SUBSET Hosts
    OBVIOUS
  <2>2. W(R) = w[k] + W(R \ {k}) /\ W(R \ {k}) \in Nat
    BY <1>1, <1>4, <2>1
  <2>3. w[k] = Score(k) /\ Score(k) \in Nat \ {0}
    BY <1>2
  <2>4. QED
    BY <1>3, <2>1, <2>2, <2>3
<1>6. OthersTotal(h) \in Nat
  BY <1>1, <1>3, <1>4
<1>7. QED
  BY <1>5, <1>6 DEF W, w

(* The closed form is stationary: an iteration from any multiple of the     *)
(* shares, which are exact, gives the same distribution again.              *)
THEOREM SharesAreStationary ==
  ASSUME latency \in [Hosts -> Latencies], NEW c \in Nat,
         pi = [h \in Hosts |-> c * Share(h)]
  PROVE  \A j \in Hosts : Hosts # {j} => NextPi(j) = pi[j]
<1> SUFFICES ASSUME NEW j \in Hosts, Hosts # {j} PROVE NextPi(j) = pi[j]
  OBVIOUS
<1> DEFINE w == [i \in Hosts |-> Score(i)]
           R == Hosts \ {j}
           v == [i \in Hosts |-> (pi[i] * Score(j)) \div OthersTotal(i)]
           u == [i \in Hosts |-> (c * Score(j)) * w[i]]
<1>1. /\ IsFiniteSet(Hosts) /\ w \in [Hosts -> Nat] /\ R \in SUBSET Hosts
      /\ \A i \in Hosts : Score(i) \in Nat \ {0} /\ w[i] = Score(i)
  BY MarkovAssumption, ScoresOrdered
<1>2. ASSUME NEW i \in Hosts
      PROVE  /\ OthersTotal(i) \in Nat \ {0}
             /\ pi[i] = c * (Score(i) * OthersTotal(i))
  BY OthersPositive DEF Share
<1>3. ASSUME NEW i \in Hosts
      PROVE  v[i] = (c * Score(j)) * Score(i)
  <2> DEFINE si == Score(i)
             sj == Score(j)
             o == OthersTotal(i)
             q == (c * sj) * si
  <2>1. si \in Nat /\ sj \in Nat /\ o \in Nat \ {0}
    BY <1>1, <1>2
  <2> HIDE DEF si, sj, o
  <2>2. c * si \in Nat /\ c * sj \in Nat
    BY <2>1
  <2>3. q \in Nat
    BY <2>1, <2>2
  <2>4. (c * (si * o)) * sj = q * o
    BY <2>1
  <2>5. (q * o) \div o = q
    <3> HIDE DEF q
    <3>1. QED
      BY <2>1, <2>3, DivExact
  <2>6. v[i] = ((c * (si * o)) * sj) \div o
    BY <1>2 DEF si, sj, o
  <2>7. QED
    BY <2>4, <2>5, <2>6 DEF si, sj
<1>4. c * Score(j) \in Nat
  BY <1>1
<1>5. v = u
  BY <1>1, <1>3
<1>6. NextPi(j) = SumFunctionOnSet(v, R)
  BY DEF NextPi
<1>7. SumFunctionOnSet(u, R) = (c * Score(j)) * SumFunctionOnSet(w, R)
  <2>1. \A d \in Nat : SumFunctionOnSet([i \in Hosts |-> d * w[i]], R)
                           = d * SumFunctionOnSet(w, R)
    <3> HIDE DEF w, R
    <3>1. QED
      BY <1>1, SumTimes
  <2>2. QED
    BY <1>4, <2>1
<1>8. SumFunctionOnSet(w, R) = OthersTotal(j)
  BY DEF OthersTotal
<1>9. pi[j] = c * (Score(j) * OthersTotal(j))
  BY <1>2
<1>10. (c * Score(j)) * OthersTotal(j) = c * (Score(j) * OthersTotal(j))
  BY <1>1, <1>2
<1> HIDE DEF u, v
<1>11. QED
  BY <1>5, <1>6, <1>7, <1>8, <1>9, <1>10

(* The faster of two backends has no smaller share, and with a third one a  *)
(* greater share: normalising every row without its own backend does not    *)
(* upset the order.                                                         *)
THEOREM FasterHasLargerShare ==
  ASSUME latency \in [Hosts -> Latencies],
         NEW g \in Hosts, NEW h \in Hosts, latency[g] < latency[h]
  PROVE  /\ Share(g) >= Share(h)
         /\ Hosts # {g, h} => Share(g) > Share(h)
<1> DEFINE w == [i \in Hosts |-> Score(i)]
           r == SumFunctionOnSet(w, Hosts \ {g, h})
           sg == Score(g)
           sh == Score(h)
<1>1. /\ IsFiniteSet(Hosts) /\ w \in [Hosts -> Nat]
      /\ \A i \in Hosts : Score(i) \in Nat \ {0} /\ w[i] = Score(i)
  BY MarkovAssumption, ScoresOrdered
<1>2. sg \in Nat \ {0} /\ sh \in Nat \ {0} /\ sg > sh
  BY ScoresOrdered
<1>3. g # h
  <2>1. latency[g] \in Nat
    BY LatenciesAssumption
  <2>2. QED
    BY <2>1
<1>4. OthersTotal(g) = sh + r /\ OthersTotal(h) = sg + r
  <2>1. Hosts \ {h, g} = Hosts \ {g, h}
    OBVIOUS
  <2>2. h \in Hosts \ {g} /\ g \in Hosts \ {h}
    BY <1>3
  <2>3. OthersTotal(g) = sh + r
    BY <2>2, OthersPositive
  <2>4. OthersTotal(h) = Score(g) + SumFunctionOnSet(w, Hosts \ {h, g})
    BY <2>2, OthersPositive
  <2>5. QED
    BY <2>1, <2>3, <2>4
<1>5. r \in Nat /\ (Hosts # {g, h} => r # 0)
  <2> HIDE DEF w
  <2>1. r \in Nat
    BY <1>1, SumRemove
  <2>2. ASSUME Hosts # {g, h} PROVE r # 0
    <3>1. PICK x \in Hosts \ {g, h} : TRUE
      BY <2>2
    <3>2. r = w[x] + SumFunctionOnSet(w, (Hosts \ {g, h}) \ {x})
      BY <1>1, SumRemove
    <3>3. SumFunctionOnSet(w, (Hosts \ {g, h}) \ {x}) \in Nat
      BY <1>1, SumRemove
    <3>4. w[x] \in Nat \ {0}
      BY <1>1
    <3>5. QED
      BY <3>2, <3>3, <3>4
  <2>3. QED
    BY <2>1, <2>2
<1>6. Share(g) = sg * (sh + r) /\ Share(h) = sh * (sg + r)
  BY <1>4 DEF Share
<1> HIDE DEF sg, sh, r
<1>7. /\ sg * (sh + r) = sg * sh + sg * r
      /\ sh * (sg + r) = sg * sh + sh * r
      /\ sg * sh \in Nat /\ sg * r \in Nat /\ sh * r \in Nat
  BY <1>2, <1>5
<1>8. (sh + 1) * r <= sg * r /\ (sh + 1) * r = sh * r + r
  BY <1>2, <1>5, TimesMonotone
<1>9. QED
  BY <1>2, <1>5, <1>6, <1>7, <1>8

(* One iteration: what leaves a backend is what is there, less one unit at  *)
(* most for each other backend it can go to.                                *)
LEMMA IterationKeepsTotal ==
  ASSUME latency \in [Hosts -> Latencies], pi \in [Hosts -> Nat],
         Cardinality(Hosts) # 1
  PROVE  LET n == Cardinality(Hosts)
             next == [j \in Hosts |-> NextPi(j)]
             old == SumFunctionOnSet(pi, Hosts)
             new == SumFunctionOnSet(next, Hosts)
         IN  next \in [Hosts -> Nat] /\ new <= old /\ old <= new + n * (n - 1)
<1> DEFINE n == Cardinality(Hosts)
           w == [i \in Hosts |-> Score(i)]
           b(i, j) == (pi[i] * Score(j)) \div OthersTotal(i)
           a == [i \in Hosts |-> [j \in Hosts |-> IF i = j THEN 0 ELSE b(i, j)]]
           in(j) == [i \in Hosts |-> b(i, j)]
           next == [j \in Hosts |-> NextPi(j)]
           out == [i \in Hosts |-> SumFunctionOnSet([j \in Hosts |-> a[i][j]], Hosts)]
<1>1. /\ IsFiniteSet(Hosts) /\ w \in [Hosts -> Nat]
      /\ \A i \in Hosts : Score(i) \in Nat \ {0} /\ w[i] = Score(i)
  BY MarkovAssumption, ScoresOrdered
<1>2. n \in Nat /\ n - 1 \in Nat
  BY <1>1, RemoveOne, MarkovAssumption
<1>3. ASSUME NEW i \in Hosts PROVE Hosts # {i} /\ OthersTotal(i) \in Nat \ {0}
  <2>1. Hosts # {i}
    BY FS_Singleton
  <2>2. QED
    BY <2>1, OthersPositive
<1>4. ASSUME NEW i \in Hosts, NEW j \in Hosts PROVE b(i, j) \in Nat
  <2> DEFINE x == pi[i] * Score(j)
  <2>1. x \in Nat
    BY <1>1
  <2> HIDE DEF x
  <2>2. x \div OthersTotal(i) \in Nat
    BY <1>3, <2>1, DivMod
  <2>3. QED
    BY <2>2 DEF x
<1> HIDE DEF b
<1>5. /\ a \in [Hosts -> [Hosts -> Nat]]
      /\ \A j \in Hosts : in(j) \in [Hosts -> Nat]
  BY <1>4
<1>6. ASSUME NEW j \in Hosts
      PROVE  next[j] = SumFunctionOnSet([i \in Hosts |-> a[i][j]], Hosts)
  <2> DEFINE col == [i \in Hosts |-> a[i][j]]
             R == Hosts \ {j}
  <2>1. col \in [Hosts -> Nat] /\ R \in SUBSET Hosts
    BY <1>5
  <2>2. \A i \in R : in(j)[i] = col[i]
    OBVIOUS
  <2>3. col[j] = 0
    OBVIOUS
  <2>4. SumFunctionOnSet(in(j), R) = SumFunctionOnSet(col, R)
    <3> HIDE DEF in, col, R
    <3>1. QED
      BY <1>1, <1>5, <2>1, <2>2, SumAgrees
  <2>5. SumFunctionOnSet(col, Hosts) = col[j] + SumFunctionOnSet(col, R)
    <3> HIDE DEF col
    <3>1. QED
      BY <1>1, <2>1, SumRemove
  <2>6. next[j] = SumFunctionOnSet(in(j), R)
    BY DEF NextPi, b
  <2>7. SumFunctionOnSet(col, R) \in Nat
    <3> HIDE DEF col, R
    <3>1. QED
      BY <1>1, <2>1, SumRemove
  <2> HIDE DEF col, R, in, next
  <2>8. next[j] = SumFunctionOnSet(col, Hosts)
    BY <2>3, <2>4, <2>5, <2>6, <2>7
  <2>9. QED
    BY <2>8 DEF col
<1>7. next = [j \in Hosts |-> SumFunctionOnSet([i \in Hosts |-> a[i][j]], Hosts)]
  BY <1>6
<1>8. SumFunctionOnSet(next, Hosts) = SumFunctionOnSet(out, Hosts)
  <2> HIDE DEF a, next
  <2>1. SumFunctionOnSet([j \in Hosts |->
                SumFunctionOnSet([i \in Hosts |-> a[i][j]], Hosts)], Hosts)
          = SumFunctionOnSet([i \in Hosts |->
                SumFunctionOnSet([j \in Hosts |-> a[i][j]], Hosts)], Hosts)
    BY <1>1, <1>5, SumSwap
  <2>2. QED
    BY <1>7, <2>1
<1>9. next \in [Hosts -> Nat]
  <2>1. ASSUME NEW j \in Hosts
        PROVE  SumFunctionOnSet([i \in Hosts |-> a[i][j]], Hosts) \in Nat
    <3> DEFINE col == [i \in Hosts |-> a[i][j]]
    <3>1. col \in [Hosts -> Nat]
      BY <1>5
    <3> HIDE DEF col
    <3>2. SumFunctionOnSet(col, Hosts) \in Nat
      BY <1>1, <3>1, SumRemove
    <3>3. QED
      BY <3>2 DEF col
  <2> HIDE DEF a, next
  <2>2. QED
    BY <1>7, <2>1
<1>10. ASSUME NEW i \in Hosts
       PROVE  out[i] \in Nat /\ out[i] <= pi[i] /\ pi[i] <= out[i] + (n - 1)
  <2> DEFINE row == [j \in Hosts |-> a[i][j]]
             share == [j \in Hosts |-> (pi[i] * w[j]) \div OthersTotal(i)]
             R == Hosts \ {i}
             F == SumFunctionOnSet(share, R)
  <2>1. row \in [Hosts -> Nat] /\ R \in SUBSET Hosts /\ row[i] = 0
    BY <1>5
  <2>2. share \in [Hosts -> Nat] /\ \A j \in R : row[j] = share[j]
    BY <1>1, <1>4 DEF b
  <2>3. OthersTotal(i) = SumFunctionOnSet(w, R)
    BY DEF OthersTotal
  <2>4. F <= pi[i] /\ pi[i] <= F + Cardinality(R)
    <3>1. pi[i] \in Nat /\ SumFunctionOnSet(w, R) # 0
      BY <1>3, <2>3
    <3>2. share = [j \in Hosts |->
                      (pi[i] * w[j]) \div SumFunctionOnSet(w, R)]
      BY <2>3
    <3> HIDE DEF w, R, share
    <3>3. LET D == SumFunctionOnSet(w, R)
              S == SumFunctionOnSet([h \in Hosts |-> (pi[i] * w[h]) \div D], R)
          IN  S <= pi[i] /\ pi[i] <= S + Cardinality(R)
      BY <1>1, <2>1, <3>1, SumFloor
    <3>4. QED
      BY <3>2, <3>3
  <2>5. Cardinality(R) = n - 1
    <3>1. Cardinality(Hosts) = Cardinality(Hosts \ {i}) + 1
      BY <1>1, RemoveOne
    <3>2. Cardinality(Hosts \ {i}) \in Nat
      BY <1>1, RemoveOne
    <3>3. QED
      BY <3>1, <3>2
  <2>6. SumFunctionOnSet(row, R) = F
    <3> HIDE DEF row, R, share
    <3>1. QED
      BY <1>1, <2>1, <2>2, SumAgrees
  <2>7. /\ SumFunctionOnSet(row, Hosts) = row[i] + SumFunctionOnSet(row, R)
        /\ F \in Nat
    <3> HIDE DEF row, share
    <3>1. SumFunctionOnSet(row, Hosts) = row[i] + SumFunctionOnSet(row, R)
      BY <1>1, <2>1, SumRemove
    <3>2. SumFunctionOnSet(share, R) \in Nat
      BY <1>1, <2>2, SumRemove
    <3>3. QED
      BY <3>1, <3>2
  <2>8. out[i] = SumFunctionOnSet(row, Hosts)
    OBVIOUS
  <2> HIDE DEF row, share, R, F, out, n
  <2>9. out[i] = F
    BY <2>1, <2>6, <2>7, <2>8
  <2>10. QED
    BY <2>4, <2>5, <2>7, <2>9
<1>11. out \in [Hosts -> Nat]
  BY <1>10
<1>12. /\ SumFunctionOnSet(out, Hosts) <= SumFunctionOnSet(pi, Hosts) + 0 * n
       /\ SumFunctionOnSet(pi, Hosts) <= SumFunctionOnSet(out, Hosts) + (n - 1) * n
  <2>1. \A i \in Hosts : out[i] <= pi[i] + 0
    BY <1>10
  <2>2. \A i \in Hosts : pi[i] <= out[i] + (n - 1)
    BY <1>10
  <2> HIDE DEF out
  <2>3. SumFunctionOnSet(out, Hosts) <= SumFunctionOnSet(pi, Hosts) + 0 * n
    BY <1>1, <1>11, <2>1, SumAtMost
  <2>4. SumFunctionOnSet(pi, Hosts) <= SumFunctionOnSet(out, Hosts) + (n - 1) * n
    BY <1>1, <1>2, <1>11, <2>2, SumAtMost
  <2>5. QED
    BY <2>3, <2>4
<1>13. /\ SumFunctionOnSet(out, Hosts) \in Nat
       /\ SumFunctionOnSet(pi, Hosts) \in Nat
  <2> HIDE DEF out
  <2>1. QED
    BY <1>1, <1>11, SumRemove
<1>14. 0 * n = 0 /\ (n - 1) * n = n * (n - 1)
  BY <1>2
<1> HIDE DEF next, out, n
<1>15. /\ next \in [Hosts -> Nat]
       /\ SumFunctionOnSet(next, Hosts) <= SumFunctionOnSet(pi, Hosts)
       /\ SumFunctionOnSet(pi, Hosts)
              <= SumFunctionOnSet(next, Hosts) + n * (n - 1)
  BY <1>8, <1>9, <1>12, <1>13, <1>14
<1>16. QED
  BY <1>15 DEF next, n

(* The iteration runs on windows' latencies, over more than one backend,    *)
(* and on numbers.                                                          *)
PiHeld ==
    /\ pi \in [Hosts -> Nat]
    /\ rounds \in Nat
    /\ ~done \/ rounds > 0 =>
           latency \in [Hosts -> Latencies] /\ Cardinality(Hosts) # 1

LEMMA UniformSums ==
  /\ Uniform \in [Hosts -> Nat]
  /\ LET n == Cardinality(Hosts)
         total == SumFunctionOnSet(Uniform, Hosts)
     IN  n \in Nat \ {0} /\ total <= Precision /\ Precision <= total + n
<1> DEFINE n == Cardinality(Hosts)
           c == Precision \div n
<1>1. IsFiniteSet(Hosts) /\ n \in Nat \ {0} /\ Precision \in Nat
  BY RemoveOne, MarkovAssumption
<1>2. c \in Nat /\ n * c <= Precision /\ Precision <= n * c + n
  <2> HIDE DEF n
  <2>1. /\ Precision \div n \in Nat /\ Precision % n \in 0..(n - 1)
        /\ Precision = n * (Precision \div n) + (Precision % n)
    BY <1>1, DivMod
  <2>2. n * (Precision \div n) \in Nat
    BY <1>1, <2>1
  <2>3. QED
    BY <1>1, <2>1, <2>2
<1>3. Uniform = [h \in Hosts |-> c]
  BY DEF Uniform
<1> HIDE DEF c
<1>4. SumFunctionOnSet([h \in Hosts |-> c], Hosts) = c * n
  BY <1>1, <1>2, SumConstant
<1>5. c * n = n * c
  BY <1>1, <1>2
<1>6. QED
  BY <1>1, <1>2, <1>3, <1>4, <1>5

LEMMA PiIsHeld ==
  /\ MarkovInit => PiHeld
  /\ PiHeld /\ [MarkovNext]_markovVars => PiHeld'
<1>1. MarkovInit => PiHeld
  BY UniformSums DEF MarkovInit, PiHeld
<1>2. ASSUME PiHeld, [MarkovNext]_markovVars PROVE PiHeld'
  <2>1. CASE UNCHANGED markovVars
    BY <1>2, <2>1 DEF PiHeld, markovVars
  <2>2. ASSUME NEW o \in [Hosts -> Latencies], Begin(o) PROVE PiHeld'
    <3>1. /\ latency' = o /\ pi' = Uniform /\ rounds' = 0
          /\ ~done' => Cardinality(Hosts) # 1
      BY <2>2 DEF Begin
    <3>2. ~(rounds' > 0) /\ rounds' \in Nat
      BY <3>1
    <3>3. QED
      BY <3>1, <3>2, UniformSums DEF PiHeld
  <2>3. CASE Iterate
    <3>1. /\ ~done /\ pi' = [h \in Hosts |-> NextPi(h)]
          /\ rounds' = rounds + 1 /\ latency' = latency
      BY <2>3 DEF Iterate
    <3>2. [h \in Hosts |-> NextPi(h)] \in [Hosts -> Nat]
      BY <1>2, <3>1, IterationKeepsTotal DEF PiHeld
    <3>3. QED
      BY <1>2, <3>1, <3>2 DEF PiHeld
  <2>4. QED
    BY <1>2, <2>1, <2>2, <2>3 DEF MarkovNext
<1>3. QED
  BY <1>1, <1>2

(* The distribution sums to one at every iteration, up to what is rounded   *)
(* down, for any number of backends.                                        *)
THEOREM DistributionSumsToOne == MarkovSpec => []SumsToOne
<1> DEFINE n == Cardinality(Hosts)
<1>1. n \in Nat \ {0} /\ Precision \in Nat /\ IsFiniteSet(Hosts)
  BY UniformSums, MarkovAssumption
<1>2. ASSUME pi = Uniform, rounds = 0 PROVE SumsToOne
  <2> HIDE DEF n
  <2>1. 0 * (n * (n - 1)) = 0
    BY <1>1
  <2>2. SumFunctionOnSet(Uniform, Hosts) \in Nat
    BY <1>1, UniformSums, SumRemove
  <2>3. QED
    BY <1>1, <1>2, <2>1, <2>2, UniformSums DEF SumsToOne, n
<1>3. MarkovInit => SumsToOne
  BY <1>2 DEF MarkovInit
<1>4. ASSUME PiHeld, SumsToOne, [MarkovNext]_markovVars PROVE SumsToOne'
  <2>1. CASE UNCHANGED markovVars
    BY <1>4, <2>1 DEF SumsToOne, markovVars
  <2>2. ASSUME NEW o \in [Hosts -> Latencies], Begin(o) PROVE SumsToOne'
    <3>1. pi' = Uniform /\ rounds' = 0
      BY <2>2 DEF Begin
    <3> DEFINE total == SumFunctionOnSet(Uniform, Hosts)
    <3>2. total \in Nat /\ total <= Precision /\ Precision <= total + n
      BY <1>1, UniformSums, SumRemove
    <3> HIDE DEF n, total
    <3>3. 0 * (n * (n - 1)) = 0
      BY <1>1
    <3>4. total <= Precision /\ Precision <= total + n + 0 * (n * (n - 1))
      BY <1>1, <3>2, <3>3
    <3>5. QED
      BY <3>1, <3>4 DEF SumsToOne, n, total
  <2>3. CASE Iterate
    <3> DEFINE old == SumFunctionOnSet(pi, Hosts)
               new == SumFunctionOnSet(pi', Hosts)
               m == n * (n - 1)
    <3>1. /\ ~done /\ pi' = [h \in Hosts |-> NextPi(h)]
          /\ rounds' = rounds + 1
      BY <2>3 DEF Iterate
    <3>2. /\ pi' \in [Hosts -> Nat] /\ new <= old /\ old <= new + m
      BY <1>4, <3>1, IterationKeepsTotal DEF PiHeld
    <3>3. old \in Nat /\ new \in Nat
      BY <1>1, <1>4, <3>2, SumRemove DEF PiHeld
    <3>4. old <= Precision /\ Precision <= old + n + rounds * m
      BY <1>4 DEF SumsToOne
    <3>5. m \in Nat /\ rounds \in Nat
      <4> HIDE DEF n
      <4>1. n - 1 \in Nat
        BY <1>1
      <4>2. QED
        BY <1>1, <1>4, <4>1 DEF PiHeld
    <3> HIDE DEF n, m, old, new
    <3>6. (rounds + 1) * m = rounds * m + m /\ rounds * m \in Nat
      BY <3>5
    <3>7. new <= Precision /\ Precision <= new + n + (rounds + 1) * m
      BY <1>1, <3>2, <3>3, <3>4, <3>5, <3>6
    <3>8. QED
      BY <3>1, <3>7 DEF SumsToOne, n, m, new
  <2>4. QED
    BY <1>4, <2>1, <2>2, <2>3 DEF MarkovNext
<1>5. QED
  BY <1>3, <1>4, PiIsHeld, PTL DEF MarkovSpec

(* With two backends the chain tells nothing: each has one half of the      *)
(* weight in every window, whatever the latencies.                          *)
THEOREM PairIsEven == MarkovSpec => []EvenPair
<1>1. ASSUME pi = Uniform PROVE EvenPair
  BY <1>1 DEF EvenPair, Uniform
<1>2. ASSUME PiHeld, EvenPair, [MarkovNext]_markovVars PROVE EvenPair'
  <2>1. CASE UNCHANGED markovVars
    BY <1>2, <2>1 DEF EvenPair, markovVars
  <2>2. ASSUME NEW o \in [Hosts -> Latencies], Begin(o) PROVE EvenPair'
    BY <2>2 DEF EvenPair, Begin, Uniform
  <2>3. CASE Iterate
    <3> SUFFICES ASSUME Cardinality(Hosts) = 2, NEW j \in Hosts
                 PROVE  pi'[j] = Precision \div 2
      BY DEF EvenPair
    <3>1. /\ latency \in [Hosts -> Latencies] /\ pi \in [Hosts -> Nat]
          /\ pi' = [h \in Hosts |-> NextPi(h)]
      BY <1>2, <2>3 DEF Iterate, PiHeld
    <3>2. IsFiniteSet(Hosts)
      BY MarkovAssumption
    <3>3. PICK i \in Hosts : Hosts \ {j} = {i} /\ Hosts \ {i} = {j} /\ i # j
      <4>1. IsFiniteSet(Hosts \ {j}) /\ Cardinality(Hosts \ {j}) = 1
        BY <3>2, FS_RemoveElement
      <4>2. \E i : Hosts \ {j} = {i}
        BY <4>1, FS_Singleton
      <4>3. QED
        BY <4>2
    <3> DEFINE w == [k \in Hosts |-> Score(k)]
               v == [k \in Hosts |-> (pi[k] * Score(j)) \div OthersTotal(k)]
    <3>4. w \in [Hosts -> Nat] /\ Score(j) \in Nat \ {0}
      BY <3>1, ScoresOrdered
    <3>5. OthersTotal(i) = Score(j)
      <4>1. OthersTotal(i) = SumFunctionOnSet(w, {j})
        BY <3>3 DEF OthersTotal
      <4>2. {j} \ {j} = {} /\ w[j] = Score(j)
        OBVIOUS
      <4> HIDE DEF w
      <4>3. /\ SumFunctionOnSet(w, {}) = 0
            /\ SumFunctionOnSet(w, {j}) = w[j] + SumFunctionOnSet(w, {j} \ {j})
        BY <3>2, <3>4, SumRemove
      <4>4. QED
        BY <3>4, <4>1, <4>2, <4>3
    <3>6. v[i] = pi[i] /\ pi[i] \in Nat
      BY <3>1, <3>4, <3>5, DivExact
    <3>7. NextPi(j) = v[i]
      <4> DEFINE u == [k \in Hosts |-> pi[i]]
      <4>1. NextPi(j) = SumFunctionOnSet(v, {i})
        BY <3>3 DEF NextPi
      <4>2. v \in [Hosts -> Nat]
        <5>1. ASSUME NEW k \in Hosts PROVE v[k] \in Nat
          <6>1. Hosts # {k}
            BY <3>3
          <6>2. OthersTotal(k) \in Nat \ {0}
            BY <3>1, <6>1, OthersPositive
          <6>3. pi[k] * Score(j) \in Nat
            BY <3>1, <3>4
          <6>4. QED
            BY <6>2, <6>3, DivMod
        <5>2. QED
          BY <5>1
      <4>3. {i} \ {i} = {}
        OBVIOUS
      <4> HIDE DEF v
      <4>4. /\ SumFunctionOnSet(v, {}) = 0
            /\ SumFunctionOnSet(v, {i}) = v[i] + SumFunctionOnSet(v, {i} \ {i})
        BY <3>2, <4>2, SumRemove
      <4>5. v[i] \in Nat
        BY <4>2
      <4>6. QED
        BY <4>1, <4>3, <4>4, <4>5
    <3>8. pi[i] = Precision \div 2
      BY <1>2 DEF EvenPair
    <3>9. QED
      BY <3>1, <3>6, <3>7, <3>8
  <2>4. QED
    BY <1>2, <2>1, <2>2, <2>3 DEF MarkovNext
<1>3. MarkovInit => EvenPair
  BY <1>1 DEF MarkovInit
<1>4. QED
  BY <1>2, <1>3, PiIsHeld, PTL DEF MarkovSpec

-----------------------------------------------------------------------------
(* What the loop stops at by its tolerance is near the stationary           *)
(* distribution, for any backends and latencies.                            *)

(* Positive numbers, one for each element, have a common multiple.          *)
LEMMA CommonMultiple ==
  ASSUME NEW H, IsFiniteSet(H), NEW f \in [H -> Nat \ {0}]
  PROVE  \E Q \in Nat \ {0} : \E m \in [H -> Nat \ {0}] :
             \A h \in H : Q = f[h] * m[h]
<1> DEFINE Divides(x, Q) == \E y \in Nat \ {0} : Q = x * y
           G == {t \in SUBSET H : \E Q \in Nat \ {0} :
                                      \A h \in t : Divides(f[h], Q)}
<1>1. {} \in G
  <2>1. 1 \in Nat \ {0}
    OBVIOUS
  <2>2. QED
    BY <2>1
<1>2. ASSUME NEW t \in SUBSET H, t # {}, \A x \in t : t \ {x} \in G
      PROVE  t \in G
  <2>1. PICK x \in t : t \ {x} \in G
    BY <1>2
  <2>2. PICK Q \in Nat \ {0} : \A h \in t \ {x} : Divides(f[h], Q)
    BY <2>1
  <2>3. f[x] \in Nat \ {0} /\ f[x] * Q \in Nat \ {0}
    OBVIOUS
  <2>4. ASSUME NEW h \in t PROVE Divides(f[h], f[x] * Q)
    <3>1. CASE h = x
      BY <3>1
    <3>2. CASE h # x
      <4>1. PICK y \in Nat \ {0} : Q = f[h] * y
        BY <2>2, <3>2
      <4>2. f[x] * y \in Nat \ {0} /\ f[h] \in Nat
        BY <2>3
      <4>3. f[x] * (f[h] * y) = f[h] * (f[x] * y)
        BY <2>3, <4>2
      <4>4. QED
        BY <4>1, <4>2, <4>3
    <3>3. QED
      BY <3>1, <3>2
  <2> HIDE DEF Divides
  <2>5. QED
    BY <2>3, <2>4
<1>3. SUBSET H \subseteq G
  <2> HIDE DEF G
  <2> QED
    BY <1>1, <1>2, SubsetInduction
<1>4. PICK Q \in Nat \ {0} : \A h \in H : Divides(f[h], Q)
  BY <1>3
<1> DEFINE m == [h \in H |-> CHOOSE y \in Nat \ {0} : Q = f[h] * y]
<1>5. m \in [H -> Nat \ {0}] /\ \A h \in H : Q = f[h] * m[h]
  BY <1>4
<1>6. QED
  BY <1>5

(* Rounding down, measured in a multiple of the divisor.                    *)
LEMMA FloorScaled ==
  ASSUME NEW a \in Nat, NEW d \in Nat \ {0}, NEW m \in Nat
  PROVE  /\ (d * m) * (a \div d) <= m * a
         /\ m * a <= (d * m) * (a \div d) + d * m
<1> DEFINE q == a \div d
<1>1. q \in Nat /\ d * q \in Nat /\ d * q <= a /\ a <= d * q + d
  <2>1. /\ a \div d \in Nat /\ a % d \in 0..(d - 1)
        /\ a = d * (a \div d) + (a % d)
    BY DivMod
  <2>2. d * (a \div d) \in Nat
    BY <2>1
  <2>3. QED
    BY <2>1, <2>2
<1> HIDE DEF q
<1>2. m * (d * q) <= m * a /\ m * a <= m * (d * q + d)
  BY <1>1, TimesMonotone
<1>3. m * (d * q) = (d * m) * q /\ m * (d * q + d) = (d * m) * q + d * m
  BY <1>1
<1>4. QED
  BY <1>2, <1>3 DEF q

LEMMA CancelTimes ==
  ASSUME NEW a \in Nat, NEW b \in Nat, NEW c \in Nat \ {0}, c * a <= c * b
  PROVE  a <= b
<1>1. ASSUME a >= b + 1 PROVE FALSE
  <2>1. c * (b + 1) <= c * a
    BY <1>1, TimesMonotone
  <2>2. c * (b + 1) = c * b + c /\ c * b \in Nat /\ c * a \in Nat
    OBVIOUS
  <2>3. QED
    BY <2>1, <2>2
<1>2. QED
  BY <1>1

(* One step of the chain into j, with each backend's probability measured   *)
(* in what it hands out for one unit of score.                              *)
LEMMA NextBetween ==
  ASSUME latency \in [Hosts -> Latencies], pi \in [Hosts -> Nat],
         Cardinality(Hosts) # 1,
         NEW Q \in Nat \ {0}, NEW m \in [Hosts -> Nat \ {0}],
         \A h \in Hosts : Q = OthersTotal(h) * m[h],
         NEW z \in [Hosts -> Nat], \A h \in Hosts : z[h] = pi[h] * m[h],
         NEW j \in Hosts
  PROVE  LET Y == SumFunctionOnSet(z, Hosts \ {j})
             k == Cardinality(Hosts) - 1
         IN  /\ NextPi(j) \in Nat /\ Y \in Nat
             /\ Q * NextPi(j) <= Score(j) * Y
             /\ Score(j) * Y <= Q * NextPi(j) + Q * k
<1> DEFINE s == Score(j)
           R == Hosts \ {j}
           v == [i \in Hosts |-> (pi[i] * Score(j)) \div OthersTotal(i)]
           Qv == [i \in Hosts |-> Q * v[i]]
           sz == [i \in Hosts |-> s * z[i]]
<1>1. /\ IsFiniteSet(Hosts) /\ R \in SUBSET Hosts /\ s \in Nat
      /\ Cardinality(R) = Cardinality(Hosts) - 1 /\ Cardinality(R) \in Nat
  BY MarkovAssumption, ScoresOrdered, RemoveOne
<1>2. ASSUME NEW i \in Hosts PROVE OthersTotal(i) \in Nat \ {0}
  <2>1. Hosts # {i}
    BY FS_Singleton
  <2>2. QED
    BY <2>1, OthersPositive
<1>3. ASSUME NEW i \in Hosts
      PROVE  v[i] \in Nat /\ Q * v[i] <= s * z[i] /\ s * z[i] <= Q * v[i] + Q
  <2> DEFINE a == pi[i] * s
             o == OthersTotal(i)
  <2>1. /\ a \in Nat /\ o \in Nat \ {0} /\ m[i] \in Nat /\ Q = o * m[i]
    BY <1>1, <1>2
  <2>2. m[i] * a = s * z[i]
    <3>1. \A b, c, d \in Nat : d * (b * c) = c * (b * d)
      OBVIOUS
    <3>2. z[i] = pi[i] * m[i] /\ pi[i] \in Nat /\ m[i] \in Nat
      OBVIOUS
    <3> HIDE DEF s
    <3>3. QED
      BY <1>1, <3>1, <3>2
  <2>3. v[i] = a \div o
    OBVIOUS
  <2> HIDE DEF a, o, v
  <2>4. a \div o \in Nat
    BY <2>1, DivMod
  <2>5. (o * m[i]) * (a \div o) <= m[i] * a
    BY <2>1, FloorScaled
  <2>6. m[i] * a <= (o * m[i]) * (a \div o) + o * m[i]
    BY <2>1, FloorScaled
  <2>7. QED
    BY <2>1, <2>2, <2>3, <2>4, <2>5, <2>6
<1>4. NextPi(j) = SumFunctionOnSet(v, R)
  BY DEF NextPi
<1>5. v \in [Hosts -> Nat]
  BY <1>3
<1>6. Qv \in [Hosts -> Nat] /\ sz \in [Hosts -> Nat]
  <2> HIDE DEF s, v
  <2>1. QED
    BY <1>1, <1>5
<1>7. \A i \in Hosts : Qv[i] <= sz[i] + 0 /\ sz[i] <= Qv[i] + Q
  <2>1. ASSUME NEW i \in Hosts PROVE Qv[i] <= sz[i] + 0 /\ sz[i] <= Qv[i] + Q
    <3>1. Qv[i] = Q * v[i] /\ sz[i] = s * z[i]
      OBVIOUS
    <3>2. sz[i] \in Nat
      BY <1>6
    <3> HIDE DEF Qv, sz, v, s
    <3>3. QED
      BY <1>3, <3>1, <3>2
  <2>2. QED
    BY <2>1
<1>8. /\ SumFunctionOnSet(Qv, R) = Q * SumFunctionOnSet(v, R)
      /\ SumFunctionOnSet(sz, R) = s * SumFunctionOnSet(z, R)
  <2>1. \A c \in Nat, w \in [Hosts -> Nat] :
            SumFunctionOnSet([i \in Hosts |-> c * w[i]], R)
                = c * SumFunctionOnSet(w, R)
    <3> HIDE DEF R
    <3>1. QED
      BY <1>1, SumTimes
  <2>2. Q \in Nat
    OBVIOUS
  <2> HIDE DEF v, s, R
  <2>3. QED
    BY <1>1, <1>5, <2>1, <2>2
<1>9. /\ SumFunctionOnSet(v, R) \in Nat /\ SumFunctionOnSet(z, R) \in Nat
      /\ SumFunctionOnSet(Qv, R) \in Nat /\ SumFunctionOnSet(sz, R) \in Nat
  <2> HIDE DEF v, Qv, sz, R
  <2>1. QED
    BY <1>1, <1>5, <1>6, SumRemove
<1>10. /\ SumFunctionOnSet(Qv, R) <= SumFunctionOnSet(sz, R) + 0 * Cardinality(R)
       /\ SumFunctionOnSet(sz, R) <= SumFunctionOnSet(Qv, R) + Q * Cardinality(R)
  <2>1. 0 \in Nat /\ Q \in Nat
    OBVIOUS
  <2>2. /\ \A i \in R : Qv[i] <= sz[i] + 0
        /\ \A i \in R : sz[i] <= Qv[i] + Q
    BY <1>7
  <2> HIDE DEF Qv, sz, R
  <2>3. SumFunctionOnSet(Qv, R) <= SumFunctionOnSet(sz, R) + 0 * Cardinality(R)
    BY <1>1, <1>6, <2>1, <2>2, SumAtMost
  <2>4. SumFunctionOnSet(sz, R) <= SumFunctionOnSet(Qv, R) + Q * Cardinality(R)
    BY <1>1, <1>6, <2>1, <2>2, SumAtMost
  <2>5. QED
    BY <2>3, <2>4
<1>11. 0 * Cardinality(R) = 0
  <2> HIDE DEF R
  <2>1. QED
    BY <1>1
<1> HIDE DEF v, Qv, sz, s
<1>12. /\ Q * NextPi(j) <= s * SumFunctionOnSet(z, R)
       /\ s * SumFunctionOnSet(z, R) <= Q * NextPi(j) + Q * Cardinality(R)
  BY <1>4, <1>8, <1>9, <1>10, <1>11
<1>13. QED
  BY <1>1, <1>4, <1>9, <1>12 DEF s

(* A backend of score s, with o in the scores of the others: Q * p units    *)
(* are at it and Q * q come to it, as above; p and q differ by d at most.   *)
LEMMA NearBalance ==
  ASSUME NEW s \in Nat, NEW o \in Nat, NEW Q \in Nat, NEW k \in Nat,
         NEW p \in Nat, NEW q \in Nat, NEW d \in Nat,
         NEW z \in Nat, NEW Y \in Nat,
         Q * p = o * z, Q * q <= s * Y, s * Y <= Q * q + Q * k,
         p <= q + d, q <= p + d
  PROVE  LET c == (s + o) * Q
             x == (z + Y) * (s * o)
         IN  c * q <= x + c * (d + k) /\ x <= c * q + c * (d + k)
<1> DEFINE a == s * Q
           b == o * Q
<1>1. a \in Nat /\ b \in Nat
  OBVIOUS
<1>2. (z + Y) * (s * o) = s * (o * z) + o * (s * Y)
  OBVIOUS
<1>3. s * (o * z) = a * p
  <2>1. s * (Q * p) = (s * Q) * p
    OBVIOUS
  <2>2. QED
    BY <2>1
<1>4. /\ (s + o) * Q * q = a * q + b * q
      /\ (s + o) * Q * (d + k) = a * d + a * k + b * d + b * k
  <2>1. (s + o) * Q = a + b
    OBVIOUS
  <2>2. \A e, f, g, h \in Nat : /\ (e + f) * g = e * g + f * g
                                /\ (e + f) * (g + h) = e * g + e * h + f * g + f * h
    OBVIOUS
  <2> HIDE DEF a, b
  <2>3. QED
    BY <1>1, <2>1, <2>2
<1>5. o * (Q * q) <= o * (s * Y) /\ o * (s * Y) <= o * (Q * q + Q * k)
  <2>1. Q * q \in Nat /\ s * Y \in Nat /\ Q * q + Q * k \in Nat
    OBVIOUS
  <2>2. QED
    BY <2>1, TimesMonotone
<1>6. o * (Q * q) = b * q /\ o * (Q * q + Q * k) = b * q + b * k
  OBVIOUS
<1>7. a * p <= a * (q + d) /\ a * q <= a * (p + d)
  <2> HIDE DEF a
  <2>1. q + d \in Nat /\ p + d \in Nat
    OBVIOUS
  <2>2. QED
    BY <1>1, <2>1, TimesMonotone
<1>8. a * (q + d) = a * q + a * d /\ a * (p + d) = a * p + a * d
  <2> HIDE DEF a
  <2>1. QED
    BY <1>1
<1>9. o * (s * Y) \in Nat
  OBVIOUS
<1> HIDE DEF a, b
<1>10. /\ a * p \in Nat /\ a * q \in Nat /\ a * d \in Nat /\ a * k \in Nat
       /\ b * q \in Nat /\ b * d \in Nat /\ b * k \in Nat
  BY <1>1
<1> DEFINE x == (z + Y) * (s * o)
           e == (s + o) * Q * (d + k)
           f == (s + o) * Q * q
           w == o * (s * Y)
<1>11. /\ x = a * p + w /\ w \in Nat
       /\ b * q <= w /\ w <= b * q + b * k
       /\ a * p <= a * q + a * d /\ a * q <= a * p + a * d
       /\ f = a * q + b * q /\ e = a * d + a * k + b * d + b * k
  BY <1>2, <1>3, <1>4, <1>5, <1>6, <1>7, <1>8, <1>9
<1> HIDE DEF x, e, f, w
<1>12. f <= x + e /\ x <= f + e
  BY <1>10, <1>11
<1>13. QED
  BY <1>12 DEF x, e, f

(* Numbers that are those of sh up to a factor, and up to an error e each,  *)
(* are the shares that sh gives of their sum, up to the errors.             *)
LEMMA ProportionalUpTo ==
  ASSUME NEW H, IsFiniteSet(H), NEW q \in [H -> Nat], NEW sh \in [H -> Nat],
         NEW e \in [H -> Nat], NEW c \in Nat \ {0}, NEW Z \in Nat,
         \A h \in H : /\ c * q[h] <= Z * sh[h] + c * e[h]
                      /\ Z * sh[h] <= c * q[h] + c * e[h],
         NEW j \in H
  PROVE  LET P == SumFunctionOnSet(q, H)
             S == SumFunctionOnSet(sh, H)
             E == SumFunctionOnSet(e, H)
         IN  /\ P \in Nat /\ S \in Nat /\ E \in Nat
             /\ q[j] * S <= sh[j] * P + S * (e[j] + E)
             /\ sh[j] * P <= q[j] * S + S * (e[j] + E)
<1> DEFINE P == SumFunctionOnSet(q, H)
           S == SumFunctionOnSet(sh, H)
           E == SumFunctionOnSet(e, H)
           cq == [h \in H |-> c * q[h]]
           ce == [h \in H |-> c * e[h]]
           zs == [h \in H |-> Z * sh[h]]
           qe == [h \in H |-> cq[h] + ce[h]]
           se == [h \in H |-> zs[h] + ce[h]]
<1>1. P \in Nat /\ S \in Nat /\ E \in Nat /\ sh[j] <= S
  <2>1. \A w \in [H -> Nat] :
            /\ SumFunctionOnSet(w, H) \in Nat
            /\ SumFunctionOnSet(w, H \ {j}) \in Nat
            /\ SumFunctionOnSet(w, H) = w[j] + SumFunctionOnSet(w, H \ {j})
    BY SumRemove
  <2>2. \A w \in [H -> Nat] : w[j] \in Nat
    OBVIOUS
  <2>3. \A w \in [H -> Nat] : w[j] <= SumFunctionOnSet(w, H)
    BY <2>1, <2>2
  <2>4. QED
    BY <2>1, <2>3
<1>2. /\ cq \in [H -> Nat] /\ ce \in [H -> Nat] /\ zs \in [H -> Nat]
      /\ qe \in [H -> Nat] /\ se \in [H -> Nat]
  <2>1. cq \in [H -> Nat] /\ ce \in [H -> Nat] /\ zs \in [H -> Nat]
    OBVIOUS
  <2> HIDE DEF cq, ce, zs
  <2>2. QED
    BY <2>1
<1>3. /\ SumFunctionOnSet(cq, H) = c * P
      /\ SumFunctionOnSet(ce, H) = c * E
      /\ SumFunctionOnSet(zs, H) = Z * S
  <2>1. \A a \in Nat, w \in [H -> Nat] :
            SumFunctionOnSet([h \in H |-> a * w[h]], H)
                = a * SumFunctionOnSet(w, H)
    BY SumTimes
  <2>2. c \in Nat
    OBVIOUS
  <2>3. QED
    BY <2>1, <2>2
<1>4. /\ SumFunctionOnSet(qe, H) = c * P + c * E
      /\ SumFunctionOnSet(se, H) = Z * S + c * E
  <2>1. \A v, w \in [H -> Nat] :
            SumFunctionOnSet([h \in H |-> v[h] + w[h]], H)
                = SumFunctionOnSet(v, H) + SumFunctionOnSet(w, H)
    BY SumPlus
  <2> HIDE DEF cq, ce, zs, P, S, E
  <2>2. QED
    BY <1>2, <1>3, <2>1
<1>5. /\ \A h \in H : cq[h] <= se[h] + 0
      /\ \A h \in H : zs[h] <= qe[h] + 0
  <2>1. ASSUME NEW h \in H PROVE cq[h] <= se[h] + 0 /\ zs[h] <= qe[h] + 0
    <3>1. /\ cq[h] = c * q[h] /\ ce[h] = c * e[h] /\ zs[h] = Z * sh[h]
          /\ se[h] = zs[h] + ce[h] /\ qe[h] = cq[h] + ce[h]
      OBVIOUS
    <3>2. se[h] \in Nat /\ qe[h] \in Nat
      BY <1>2
    <3> HIDE DEF cq, ce, zs, qe, se
    <3>3. QED
      BY <3>1, <3>2
  <2>2. QED
    BY <2>1
<1>6. c * P <= Z * S + c * E /\ Z * S <= c * P + c * E
  <2> DEFINE n == Cardinality(H)
  <2>1. n \in Nat /\ 0 \in Nat /\ 0 * n = 0
    BY RemoveOne
  <2>2. \A v, w \in [H -> Nat] : (\A h \in H : v[h] <= w[h] + 0) =>
            SumFunctionOnSet(v, H) <= SumFunctionOnSet(w, H) + 0 * n
    BY <2>1, SumAtMost
  <2>3. /\ SumFunctionOnSet(cq, H) <= SumFunctionOnSet(se, H) + 0 * n
        /\ SumFunctionOnSet(zs, H) <= SumFunctionOnSet(qe, H) + 0 * n
    <3> HIDE DEF cq, zs, qe, se, n
    <3>1. QED
      BY <1>2, <1>5, <2>2
  <2>4. /\ SumFunctionOnSet(se, H) \in Nat /\ SumFunctionOnSet(qe, H) \in Nat
    <3> HIDE DEF qe, se
    <3>1. QED
      BY <1>2, SumRemove
  <2> HIDE DEF cq, zs, qe, se, n, P, S, E
  <2>5. QED
    BY <1>3, <1>4, <2>1, <2>3, <2>4
<1> DEFINE x == q[j]
           y == sh[j]
           d == e[j]
<1>7. /\ x \in Nat /\ y \in Nat /\ d \in Nat /\ y <= S
      /\ c * x <= Z * y + c * d /\ Z * y <= c * x + c * d
  BY <1>1
<1> HIDE DEF P, S, E, x, y, d
<1>8. /\ S * (c * x) <= S * (Z * y + c * d) /\ S * (Z * y) <= S * (c * x + c * d)
      /\ y * (c * P) <= y * (Z * S + c * E) /\ y * (Z * S) <= y * (c * P + c * E)
      /\ E * y <= E * S
  <2>1. /\ c * x \in Nat /\ Z * y + c * d \in Nat /\ Z * y \in Nat
        /\ c * x + c * d \in Nat
    BY <1>7
  <2>2. /\ c * P \in Nat /\ Z * S + c * E \in Nat /\ Z * S \in Nat
        /\ c * P + c * E \in Nat
    BY <1>1
  <2>3. S * (c * x) <= S * (Z * y + c * d) /\ S * (Z * y) <= S * (c * x + c * d)
    BY <1>1, <1>7, <2>1, TimesMonotone
  <2>4. y * (c * P) <= y * (Z * S + c * E) /\ y * (Z * S) <= y * (c * P + c * E)
    BY <1>6, <1>7, <2>2, TimesMonotone
  <2>5. QED
    BY <1>1, <1>7, <2>3, <2>4, TimesMonotone
<1> DEFINE xs == x * S
           yp == y * P
           ye == E * y
           sd == S * d
           zz == (S * Z) * y
           f == S * (d + E)
<1>9. /\ xs \in Nat /\ yp \in Nat /\ ye \in Nat /\ sd \in Nat /\ zz \in Nat
      /\ f \in Nat /\ sd + ye <= f
  <2>1. S * (d + E) = S * d + E * S /\ E * S \in Nat /\ S * (d + E) \in Nat
    BY <1>1, <1>7
  <2>2. S * d \in Nat /\ E * y \in Nat
    BY <1>1, <1>7
  <2>3. QED
    BY <1>1, <1>7, <1>8, <2>1, <2>2
<1>10. /\ S * (c * x) = c * xs /\ S * (Z * y + c * d) = zz + c * sd
       /\ S * (Z * y) = zz /\ S * (c * x + c * d) = c * xs + c * sd
       /\ y * (c * P) = c * yp /\ y * (Z * S + c * E) = zz + c * ye
       /\ y * (Z * S) = zz /\ y * (c * P + c * E) = c * yp + c * ye
  BY <1>1, <1>7
<1> HIDE DEF xs, yp, ye, sd, zz, f
<1>11. /\ c * xs <= zz + c * sd /\ zz <= c * xs + c * sd
       /\ c * yp <= zz + c * ye /\ zz <= c * yp + c * ye
  BY <1>8, <1>10
<1>12. /\ c * (yp + (sd + ye)) = c * yp + c * sd + c * ye
       /\ c * (xs + (sd + ye)) = c * xs + c * sd + c * ye
       /\ c * xs \in Nat /\ c * yp \in Nat /\ c * sd \in Nat /\ c * ye \in Nat
  BY <1>9
<1>13. /\ c * xs <= c * (yp + (sd + ye)) /\ c * yp <= c * (xs + (sd + ye))
       /\ yp + (sd + ye) \in Nat /\ xs + (sd + ye) \in Nat
  BY <1>9, <1>11, <1>12
<1>14. xs <= yp + (sd + ye) /\ yp <= xs + (sd + ye)
  BY <1>9, <1>13, CancelTimes
<1>15. xs <= yp + f /\ yp <= xs + f
  BY <1>9, <1>14
<1>16. QED
  BY <1>1, <1>15 DEF xs, yp, f, x, y, d, P, S, E

(* All the shares are positive, and none is more than all of them.          *)
LEMMA SharesPositive ==
  ASSUME latency \in [Hosts -> Latencies], Cardinality(Hosts) # 1
  PROVE  LET sh == [h \in Hosts |-> Share(h)]
         IN  /\ sh \in [Hosts -> Nat] /\ Shares = SumFunctionOnSet(sh, Hosts)
             /\ Shares \in Nat \ {0}
             /\ \A h \in Hosts : Share(h) \in Nat \ {0} /\ Share(h) <= Shares
<1> DEFINE sh == [h \in Hosts |-> Share(h)]
<1>1. IsFiniteSet(Hosts) /\ Hosts # {}
  BY MarkovAssumption
<1>2. ASSUME NEW h \in Hosts PROVE Share(h) \in Nat \ {0}
  <2>1. Hosts # {h}
    BY FS_Singleton
  <2>2. Score(h) \in Nat \ {0} /\ OthersTotal(h) \in Nat \ {0}
    BY <2>1, ScoresOrdered, OthersPositive
  <2>3. \A a, b \in Nat \ {0} : a * b \in Nat \ {0}
    OBVIOUS
  <2>4. QED
    BY <2>2, <2>3 DEF Share
<1>3. sh \in [Hosts -> Nat] /\ \A h \in Hosts : sh[h] = Share(h)
  BY <1>2
<1>4. Shares = SumFunctionOnSet(sh, Hosts)
  BY DEF Shares, SumFunction
<1> HIDE DEF sh
<1>5. ASSUME NEW h \in Hosts PROVE Shares \in Nat /\ Share(h) <= Shares
  <2>1. /\ SumFunctionOnSet(sh, Hosts) = sh[h] + SumFunctionOnSet(sh, Hosts \ {h})
        /\ SumFunctionOnSet(sh, Hosts \ {h}) \in Nat
    BY <1>1, <1>3, SumRemove
  <2>2. QED
    BY <1>2, <1>3, <1>4, <2>1
<1>6. Shares # 0
  <2>1. PICK h \in Hosts : TRUE
    BY <1>1
  <2>2. QED
    BY <1>2, <1>5, <2>1
<1>7. Shares \in Nat
  BY <1>1, <1>5
<1>8. QED
  BY <1>2, <1>3, <1>4, <1>5, <1>6, <1>7 DEF sh

(* An iteration that changes the distribution by the tolerance at most      *)
(* leaves it near the closed form.                                          *)
LEMMA SmallStepIsNear ==
  ASSUME latency \in [Hosts -> Latencies], pi \in [Hosts -> Nat],
         Cardinality(Hosts) # 1,
         NEW q \in [Hosts -> Nat], \A h \in Hosts : q[h] = NextPi(h),
         NEW d \in [Hosts -> Nat],
         \A h \in Hosts : d[h] = Distance(q[h], pi[h]),
         SumFunctionOnSet(d, Hosts) <= Tolerance,
         NEW j \in Hosts
  PROVE  LET total == SumFunctionOnSet(q, Hosts)
         IN  /\ total \in Nat
             /\ q[j] * Shares <= Share(j) * total + Slack * Shares
             /\ Share(j) * total <= q[j] * Shares + Slack * Shares
<1> DEFINE n == Cardinality(Hosts)
           k == n - 1
           w == [i \in Hosts |-> Score(i)]
           T == SumFunctionOnSet(w, Hosts)
           o == [h \in Hosts |-> OthersTotal(h)]
           sh == [h \in Hosts |-> Share(h)]
           ks == [h \in Hosts |-> k]
           e == [h \in Hosts |-> d[h] + ks[h]]
           E == SumFunctionOnSet(e, Hosts)
           P == SumFunctionOnSet(q, Hosts)
<1>1. IsFiniteSet(Hosts) /\ n \in Nat /\ k \in Nat /\ Tolerance \in Nat
  BY MarkovAssumption, RemoveOne
<1>2. /\ w \in [Hosts -> Nat]
      /\ \A h \in Hosts : w[h] = Score(h) /\ Score(h) \in Nat \ {0}
  BY ScoresOrdered
<1>3. ASSUME NEW h \in Hosts
      PROVE  OthersTotal(h) \in Nat \ {0} /\ T = Score(h) + OthersTotal(h)
  <2>1. Hosts # {h}
    BY FS_Singleton
  <2>2. OthersTotal(h) \in Nat \ {0}
    BY <2>1, OthersPositive
  <2>3. OthersTotal(h) = SumFunctionOnSet(w, Hosts \ {h})
    BY DEF OthersTotal
  <2> HIDE DEF w
  <2>4. SumFunctionOnSet(w, Hosts) = w[h] + SumFunctionOnSet(w, Hosts \ {h})
    BY <1>1, <1>2, SumRemove
  <2>5. QED
    BY <1>2, <2>2, <2>3, <2>4
<1>4. T \in Nat \ {0}
  BY <1>2, <1>3
<1>5. o \in [Hosts -> Nat \ {0}]
  BY <1>3
<1>6. PICK Q \in Nat \ {0} : \E m \in [Hosts -> Nat \ {0}] :
          \A h \in Hosts : Q = o[h] * m[h]
  <2> HIDE DEF o
  <2>1. QED
    BY <1>1, <1>5, CommonMultiple
<1>7. PICK m \in [Hosts -> Nat \ {0}] : \A h \in Hosts : Q = OthersTotal(h) * m[h]
  BY <1>6
<1> DEFINE z == [h \in Hosts |-> pi[h] * m[h]]
           Z == SumFunctionOnSet(z, Hosts)
           c == T * Q
<1>8. z \in [Hosts -> Nat] /\ \A h \in Hosts : z[h] = pi[h] * m[h]
  OBVIOUS
<1>9. c \in Nat \ {0}
  <2>1. \A a, b \in Nat \ {0} : a * b \in Nat \ {0}
    OBVIOUS
  <2> HIDE DEF T
  <2>2. QED
    BY <1>4, <2>1
<1>10. Z \in Nat
  <2> HIDE DEF z
  <2>1. QED
    BY <1>1, <1>8, SumRemove
<1>11. ASSUME NEW h \in Hosts
       PROVE  /\ c * q[h] <= Z * sh[h] + c * e[h]
              /\ Z * sh[h] <= c * q[h] + c * e[h]
  <2> DEFINE Y == SumFunctionOnSet(z, Hosts \ {h})
             r == Score(h)
             u == OthersTotal(h)
             p == pi[h]
             x == q[h]
             y == z[h]
             g == d[h]
  <2>1. /\ Y \in Nat /\ Q * x <= r * Y /\ r * Y <= Q * x + Q * k
    <3> HIDE DEF z
    <3>1. /\ Y \in Nat
          /\ Q * NextPi(h) <= Score(h) * Y
          /\ Score(h) * Y <= Q * NextPi(h) + Q * (Cardinality(Hosts) - 1)
      BY <1>7, <1>8, NextBetween
    <3>2. QED
      BY <3>1
  <2>2. Z = y + Y
    <3> HIDE DEF z
    <3>1. QED
      BY <1>1, <1>8, SumRemove
  <2>3. /\ r \in Nat /\ u \in Nat /\ p \in Nat /\ x \in Nat /\ y \in Nat
        /\ g \in Nat /\ Q \in Nat
    BY <1>2, <1>3, <1>8
  <2>4. Q * p = u * y
    <3>1. m[h] \in Nat /\ Q = u * m[h] /\ y = p * m[h]
      BY <1>7
    <3> HIDE DEF u, y, p
    <3>2. (u * m[h]) * p = u * (p * m[h])
      BY <2>3, <3>1
    <3>3. QED
      BY <3>1, <3>2
  <2>5. p <= x + g /\ x <= p + g
    <3>1. g = Distance(x, p)
      OBVIOUS
    <3> HIDE DEF g, x, p
    <3>2. QED
      BY <2>3, <3>1 DEF Distance
  <2>6. /\ e[h] = g + k /\ sh[h] = r * u /\ T = r + u
    BY <1>3 DEF Share
  <2> HIDE DEF Y, r, u, p, x, y, g, k, z, Z, e, sh, T
  <2>7. LET b == (r + u) * Q
            v == (y + Y) * (r * u)
        IN  b * x <= v + b * (g + k) /\ v <= b * x + b * (g + k)
    BY <1>1, <2>1, <2>3, <2>4, <2>5, NearBalance
  <2>8. QED
    BY <2>2, <2>6, <2>7 DEF x
<1>12. sh \in [Hosts -> Nat] /\ Shares = SumFunctionOnSet(sh, Hosts)
       /\ Shares \in Nat
  BY SharesPositive
<1>13. ks \in [Hosts -> Nat] /\ e \in [Hosts -> Nat]
  <2>1. ks \in [Hosts -> Nat]
    BY <1>1
  <2> HIDE DEF ks
  <2>2. QED
    BY <2>1
<1>14. /\ P \in Nat /\ E \in Nat
       /\ q[j] * Shares <= sh[j] * P + Shares * (e[j] + E)
       /\ sh[j] * P <= q[j] * Shares + Shares * (e[j] + E)
  <2>1. \A h \in Hosts : /\ c * q[h] <= Z * sh[h] + c * e[h]
                          /\ Z * sh[h] <= c * q[h] + c * e[h]
    BY <1>11
  <2> HIDE DEF c, Z, sh, e
  <2>2. P \in Nat /\ E \in Nat
    BY <1>1, <1>13, SumRemove
  <2>3. q[j] * SumFunctionOnSet(sh, Hosts)
            <= sh[j] * P + SumFunctionOnSet(sh, Hosts) * (e[j] + E)
    BY <1>1, <1>9, <1>10, <1>12, <1>13, <2>1, ProportionalUpTo
  <2>4. sh[j] * P <= q[j] * SumFunctionOnSet(sh, Hosts)
                         + SumFunctionOnSet(sh, Hosts) * (e[j] + E)
    BY <1>1, <1>9, <1>10, <1>12, <1>13, <2>1, ProportionalUpTo
  <2>5. QED
    BY <1>12, <2>2, <2>3, <2>4
<1>15. E = SumFunctionOnSet(d, Hosts) + k * n
  <2>1. SumFunctionOnSet(ks, Hosts) = k * n
    <3> HIDE DEF k
    <3>1. QED
      BY <1>1, SumConstant
  <2>2. \A a, b \in [Hosts -> Nat] :
            SumFunctionOnSet([h \in Hosts |-> a[h] + b[h]], Hosts)
                = SumFunctionOnSet(a, Hosts) + SumFunctionOnSet(b, Hosts)
    BY <1>1, SumPlus
  <2>3. E = SumFunctionOnSet(d, Hosts) + SumFunctionOnSet(ks, Hosts)
    <3> HIDE DEF ks
    <3>1. QED
      BY <1>13, <2>2
  <2>4. QED
    BY <2>1, <2>3
<1>16. e[j] + E <= Slack /\ e[j] + E \in Nat /\ Slack \in Nat
  <2> DEFINE D == SumFunctionOnSet(d, Hosts)
  <2>1. D \in Nat /\ D = d[j] + SumFunctionOnSet(d, Hosts \ {j})
        /\ SumFunctionOnSet(d, Hosts \ {j}) \in Nat
    BY <1>1, SumRemove
  <2>2. d[j] \in Nat /\ d[j] <= D /\ D <= Tolerance
    BY <2>1
  <2>3. e[j] = d[j] + k
    OBVIOUS
  <2>4. k + k * n <= n * n /\ k * n \in Nat /\ n * n \in Nat
    <3>1. k * n = n * n - n /\ n * n \in Nat /\ k * n \in Nat
      BY <1>1
    <3>2. QED
      BY <1>1, <3>1
  <2>5. Slack = 2 * Tolerance + n * n
    BY DEF Slack
  <2> DEFINE kn == k * n
             nn == n * n
             ej == e[j]
  <2>6. /\ k + kn <= nn /\ kn \in Nat /\ nn \in Nat /\ k \in Nat
        /\ Slack = 2 * Tolerance + nn /\ E = D + kn /\ ej = d[j] + k
    BY <1>1, <1>15, <2>3, <2>4, <2>5
  <2> HIDE DEF e, E, D, k, n, kn, nn, ej
  <2>7. ej + E <= Slack /\ ej + E \in Nat /\ Slack \in Nat
    BY <1>1, <2>1, <2>2, <2>6
  <2>8. QED
    BY <2>7 DEF ej
<1>17. Shares * (e[j] + E) <= Shares * Slack /\ Shares * Slack = Slack * Shares
       /\ Shares * (e[j] + E) \in Nat /\ Shares * Slack \in Nat
  <2> HIDE DEF e, E
  <2>1. QED
    BY <1>12, <1>16, TimesMonotone
<1>18. sh[j] * P \in Nat /\ q[j] * Shares \in Nat /\ sh[j] = Share(j)
  <2>1. sh[j] \in Nat /\ q[j] \in Nat
    BY <1>12
  <2> HIDE DEF sh, P
  <2>2. sh[j] * P \in Nat /\ q[j] * Shares \in Nat
    BY <1>12, <1>14, <2>1
  <2>3. QED
    BY <2>2 DEF sh
<1> DEFINE f == Shares * (e[j] + E)
           v == sh[j] * P
           x == q[j] * Shares
           y == Slack * Shares
<1>19. x <= v + f /\ v <= x + f /\ f <= y /\ f \in Nat /\ v \in Nat
       /\ x \in Nat /\ y \in Nat
  BY <1>14, <1>17, <1>18
<1> HIDE DEF f, v, x, y
<1>20. x <= v + y /\ v <= x + y
  BY <1>19
<1>21. QED
  BY <1>14, <1>18, <1>20 DEF v, x, y

LEMMA SharesKept ==
  ASSUME latency' = latency
  PROVE  Shares' = Shares /\ \A h \in Hosts : Share(h)' = Share(h)
BY DEF Shares, Share, Score, OthersTotal

(* Whenever the loop stops by its tolerance, the distribution is the        *)
(* stationary one up to the slack: `diff < STATIONARY_TOLERANCE` tells that *)
(* it is near, and not merely that it has stopped moving.                   *)
THEOREM SettledLoopIsStationary == MarkovSpec => []SettledIsStationary
<1>1. MarkovInit => SettledIsStationary
  BY DEF MarkovInit, SettledIsStationary
<1>2. ASSUME PiHeld, SettledIsStationary, [MarkovNext]_markovVars
      PROVE  SettledIsStationary'
  <2>1. CASE UNCHANGED markovVars
    <3>1. latency' = latency /\ pi' = pi /\ rounds' = rounds /\ done' = done
      BY <2>1 DEF markovVars
    <3>2. Shares' = Shares /\ \A h \in Hosts : Share(h)' = Share(h)
      BY <3>1, SharesKept
    <3>3. Slack' = Slack
      BY DEF Slack
    <3>4. QED
      BY <1>2, <3>1, <3>2, <3>3 DEF SettledIsStationary
  <2>2. ASSUME NEW o \in [Hosts -> Latencies], Begin(o)
        PROVE  SettledIsStationary'
    BY <2>2 DEF Begin, SettledIsStationary
  <2>3. CASE Iterate
    <3> SUFFICES ASSUME done', rounds' \in 1..(STATIONARY_ITERATIONS - 1),
                        NEW j \in Hosts
                 PROVE  /\ pi'[j] * Shares' <= Share(j)'
                               * SumFunctionOnSet(pi', Hosts) + Slack' * Shares'
                        /\ Share(j)' * SumFunctionOnSet(pi', Hosts)
                               <= pi'[j] * Shares' + Slack' * Shares'
      BY DEF SettledIsStationary
    <3> DEFINE d == [h \in Hosts |-> Distance(pi'[h], pi[h])]
    <3>1. /\ latency \in [Hosts -> Latencies] /\ pi \in [Hosts -> Nat]
          /\ Cardinality(Hosts) # 1 /\ latency' = latency
          /\ pi' = [h \in Hosts |-> NextPi(h)]
      BY <1>2, <2>3 DEF Iterate, PiHeld
    <3>2. pi' \in [Hosts -> Nat] /\ \A h \in Hosts : pi'[h] = NextPi(h)
      BY <3>1, IterationKeepsTotal
    <3>3. SumFunctionOnSet(d, Hosts) <= Tolerance
      <4>1. rounds' # STATIONARY_ITERATIONS
        BY MarkovAssumption
      <4>2. SumFunction(d) <= Tolerance
        BY <2>3, <4>1 DEF Iterate
      <4>3. QED
        BY <4>2 DEF SumFunction
    <3>4. /\ d \in [Hosts -> Nat]
          /\ \A h \in Hosts : d[h] = Distance(pi'[h], pi[h])
      BY <3>1, <3>2 DEF Distance
    <3>5. Shares' = Shares /\ Share(j)' = Share(j) /\ Slack' = Slack
      BY <3>1, SharesKept DEF Slack
    <3> HIDE DEF d
    <3>6. /\ pi'[j] * Shares <= Share(j) * SumFunctionOnSet(pi', Hosts)
                                    + Slack * Shares
          /\ Share(j) * SumFunctionOnSet(pi', Hosts)
                 <= pi'[j] * Shares + Slack * Shares
      BY <3>1, <3>2, <3>3, <3>4, SmallStepIsNear
    <3>7. QED
      BY <3>5, <3>6
  <2>4. QED
    BY <1>2, <2>1, <2>2, <2>3 DEF MarkovNext
<1>3. QED
  BY <1>1, <1>2, PiIsHeld, PTL DEF MarkovSpec

(* Python's rounding is off by one half at most.                            *)
LEMMA RoundNear ==
  ASSUME NEW a \in Nat, NEW d \in Nat \ {0}
  PROVE  LET w == RoundHalfEven(a, d)
         IN  /\ w \in Nat
             /\ 2 * (d * w) <= 2 * a + d
             /\ 2 * a <= 2 * (d * w) + d
<1> DEFINE q == a \div d
           r == a % d
           w == RoundHalfEven(a, d)
<1>1. q \in Nat /\ r \in 0..(d - 1) /\ a = d * q + r
  BY DivMod
<1>2. \/ w = q /\ 2 * r <= d
      \/ w = q + 1 /\ d <= 2 * r
  <2>1. w = IF 2 * r > d \/ (2 * r = d /\ q % 2 = 1) THEN q + 1 ELSE q
    BY DEF RoundHalfEven
  <2> HIDE DEF q, r, w
  <2>2. 2 * r \in Nat
    BY <1>1
  <2>3. QED
    BY <2>1, <2>2
<1> HIDE DEF q, r, w
<1>3. d * (q + 1) = d * q + d /\ d * q \in Nat
  BY <1>1
<1>4. w \in Nat /\ 2 * (d * w) <= 2 * a + d /\ 2 * a <= 2 * (d * w) + d
  BY <1>1, <1>2, <1>3
<1>5. QED
  BY <1>4 DEF w

(* From a share of the probability to a share of a hundred: p of N units,   *)
(* of which D are missing, against s of S, up to L.                         *)
LEMMA WeightNear ==
  ASSUME NEW N \in Nat \ {0}, NEW p \in Nat, NEW P \in Nat, NEW s \in Nat,
         NEW S \in Nat, NEW L \in Nat, NEW D \in Nat, NEW w \in Nat,
         s <= S, P <= N, N <= P + D, 200 * (L + D) <= N,
         p * S <= s * P + L * S, s * P <= p * S + L * S,
         2 * (N * w) <= 2 * (100 * p) + N, 2 * (100 * p) <= 2 * (N * w) + N
  PROVE  100 * s <= w * S + S /\ w * S <= 100 * s + S
<1>1. /\ s * P <= s * N /\ s * N <= s * (P + D) /\ s * D <= S * D
      /\ (200 * (L + D)) * S <= N * S
      /\ (2 * (N * w)) * S <= (2 * (100 * p) + N) * S
      /\ (2 * (100 * p)) * S <= (2 * (N * w) + N) * S
  <2>1. /\ N \in Nat /\ P + D \in Nat /\ 200 * (L + D) \in Nat
        /\ 2 * (N * w) \in Nat /\ 2 * (100 * p) + N \in Nat
        /\ 2 * (100 * p) \in Nat /\ 2 * (N * w) + N \in Nat
    OBVIOUS
  <2>2. s * P <= s * N /\ s * N <= s * (P + D) /\ s * D <= S * D
    BY <2>1, TimesMonotone
  <2>3. (200 * (L + D)) * S <= N * S
    BY <2>1, TimesMonotone
  <2>4. /\ (2 * (N * w)) * S <= (2 * (100 * p) + N) * S
        /\ (2 * (100 * p)) * S <= (2 * (N * w) + N) * S
    BY <2>1, TimesMonotone
  <2>5. QED
    BY <2>2, <2>3, <2>4
<1> DEFINE pS == p * S
           sP == s * P
           LS == L * S
           DS == D * S
           sN == s * N
           wS == w * S
           sD == s * D
           NS == N * S
           NwS == N * (w * S)
<1>2. /\ pS \in Nat /\ sP \in Nat /\ LS \in Nat /\ DS \in Nat /\ sN \in Nat
      /\ wS \in Nat /\ sD \in Nat /\ NS \in Nat /\ NwS \in Nat
  <2>1. w * S \in Nat
    OBVIOUS
  <2>2. QED
    BY <2>1
<1>3. /\ s * (P + D) = sP + sD /\ S * D = DS
      /\ (200 * (L + D)) * S = 200 * LS + 200 * DS
      /\ (2 * (N * w)) * S = 2 * NwS
      /\ (2 * (100 * p) + N) * S = 200 * pS + NS
      /\ (2 * (100 * p)) * S = 200 * pS
      /\ (2 * (N * w) + N) * S = 2 * NwS + NS
  OBVIOUS
<1>4. /\ N * (100 * s) = 100 * sN
      /\ N * (wS + S) = NwS + NS
      /\ N * wS = NwS
      /\ N * (100 * s + S) = 100 * sN + NS
  OBVIOUS
<1>5. /\ pS <= sP + LS /\ sP <= pS + LS
  OBVIOUS
<1> HIDE DEF pS, sP, LS, DS, sN, wS, sD, NS, NwS
<1>6. /\ sP <= sN /\ sN <= sP + sD /\ sD <= DS /\ 200 * LS + 200 * DS <= NS
      /\ 2 * NwS <= 200 * pS + NS /\ 200 * pS <= 2 * NwS + NS
  BY <1>1, <1>3 DEF sP, sN, sD, NS
<1>7. 100 * sN <= NwS + NS /\ NwS <= 100 * sN + NS
  BY <1>2, <1>5, <1>6
<1>8. 100 * s <= wS + S /\ wS <= 100 * s + S
  <2>1. 100 * s \in Nat /\ wS + S \in Nat /\ 100 * s + S \in Nat
    BY <1>2
  <2>2. QED
    BY <1>2, <1>4, <1>7, <2>1, CancelTimes
<1>9. QED
  BY <1>8 DEF wS

(* What is known when the loop has stopped by its tolerance.                *)
LEMMA SettledFacts ==
  ASSUME PiHeld, SumsToOne, SettledIsStationary,
         done, rounds > 0, rounds < STATIONARY_ITERATIONS
  PROVE  LET total == SumFunctionOnSet(pi, Hosts)
         IN  /\ latency \in [Hosts -> Latencies] /\ Cardinality(Hosts) # 1
             /\ pi \in [Hosts -> Nat]
             /\ total \in Nat /\ Slack \in Nat /\ Lost \in Nat
             /\ total <= Precision /\ Precision <= total + Lost
             /\ \A h \in Hosts :
                   /\ pi[h] <= total
                   /\ pi[h] * Shares <= Share(h) * total + Slack * Shares
                   /\ Share(h) * total <= pi[h] * Shares + Slack * Shares
<1> DEFINE n == Cardinality(Hosts)
           total == SumFunctionOnSet(pi, Hosts)
           k == n * (n - 1)
           I == STATIONARY_ITERATIONS
<1>1. /\ latency \in [Hosts -> Latencies] /\ Cardinality(Hosts) # 1
      /\ pi \in [Hosts -> Nat] /\ rounds \in Nat
  BY DEF PiHeld
<1>2. /\ IsFiniteSet(Hosts) /\ n \in Nat \ {0} /\ Precision \in Nat
      /\ Tolerance \in Nat /\ I \in Nat
  BY MarkovAssumption, UniformSums
<1>3. k \in Nat /\ n * n \in Nat
  <2> HIDE DEF n
  <2>1. n - 1 \in Nat
    BY <1>2
  <2>2. QED
    BY <1>2, <2>1
<1>4. I * k \in Nat /\ rounds * k \in Nat /\ rounds * k <= I * k
  <2> HIDE DEF k
  <2>1. rounds <= I
    BY <1>1, <1>2
  <2>2. QED
    BY <1>1, <1>2, <1>3, <2>1, TimesMonotone
<1>5. total \in Nat
  BY <1>1, <1>2, SumRemove
<1>6. total <= Precision /\ Precision <= total + n + rounds * k
  BY DEF SumsToOne
<1>7. Lost = n + I * k
  BY DEF Lost
<1>8. Slack \in Nat
  BY <1>2, <1>3 DEF Slack
<1>9. ASSUME NEW h \in Hosts
      PROVE  /\ pi[h] <= total
             /\ pi[h] * Shares <= Share(h) * total + Slack * Shares
             /\ Share(h) * total <= pi[h] * Shares + Slack * Shares
  <2>1. /\ total = pi[h] + SumFunctionOnSet(pi, Hosts \ {h})
        /\ SumFunctionOnSet(pi, Hosts \ {h}) \in Nat /\ pi[h] \in Nat
    BY <1>1, <1>2, SumRemove
  <2>2. pi[h] <= total
    BY <2>1
  <2>3. rounds \in 1..(STATIONARY_ITERATIONS - 1)
    BY <1>1, <1>2
  <2>4. QED
    BY <2>2, <2>3 DEF SettledIsStationary
<1> HIDE DEF n, total, k, I
<1>10. Lost \in Nat /\ Precision <= total + Lost
  BY <1>2, <1>4, <1>5, <1>6, <1>7
<1>11. QED
  BY <1>1, <1>5, <1>6, <1>8, <1>9, <1>10 DEF total

(* The weights of a loop that stopped by its tolerance are the stationary   *)
(* distribution scaled by a hundred, to the nearest integers: the other     *)
(* rounding does not show, when a unit is small against it.  No share needs *)
(* MAX_WEIGHT, and MIN_WEIGHT only lifts a weight of zero.                  *)
THEOREM SettledWeightsAreScaled ==
  ASSUME WeightsResolved
  PROVE  MarkovSpec => [](rounds < STATIONARY_ITERATIONS => ScaledStationary)
<1>1. ASSUME PiHeld, SumsToOne, SettledIsStationary,
             rounds < STATIONARY_ITERATIONS
      PROVE  ScaledStationary
  <2> USE DEF WeightsResolved
  <2> SUFFICES ASSUME done, rounds > 0, NEW h \in Hosts
               PROVE  /\ 100 * Share(h) - MarkovWeight(h) * Shares <= Shares
                      /\ MarkovWeight(h) * Shares - 100 * Share(h) <= Shares
    BY DEF ScaledStationary
  <2> DEFINE P == SumFunctionOnSet(pi, Hosts)
             p == pi[h]
             s == Share(h)
             S == Shares
             N == Precision
             w == RoundHalfEven(100 * p, N)
  <2>1. /\ Cardinality(Hosts) # 1 /\ p \in Nat /\ P \in Nat
        /\ Slack \in Nat /\ Lost \in Nat /\ p <= P /\ P <= N /\ N <= P + Lost
        /\ p * S <= s * P + Slack * S /\ s * P <= p * S + Slack * S
    <3>1. rounds < STATIONARY_ITERATIONS
      BY <1>1
    <3>2. QED
      BY <1>1, <3>1, SettledFacts
  <2>2. N \in Nat \ {0} /\ s \in Nat /\ S \in Nat /\ s <= S
    <3>1. latency \in [Hosts -> Latencies]
      BY <1>1 DEF PiHeld
    <3>2. QED
      BY <2>1, <3>1, SharesPositive, MarkovAssumption
  <2>3. /\ w \in Nat /\ 2 * (N * w) <= 2 * (100 * p) + N
        /\ 2 * (100 * p) <= 2 * (N * w) + N
    <3> HIDE DEF p, N
    <3>1. 100 * p \in Nat
      BY <2>1
    <3>2. QED
      BY <2>2, <3>1, RoundNear
  <2>4. w <= 100
    <3>1. ASSUME w >= 101 PROVE FALSE
      <4> HIDE DEF p, P, N, w
      <4>1. N * 101 <= N * w
        BY <2>2, <2>3, <3>1, TimesMonotone
      <4>2. N * w \in Nat
        BY <2>2, <2>3
      <4>3. QED
        BY <2>1, <2>2, <2>3, <4>1, <4>2
    <3> HIDE DEF w
    <3>2. QED
      BY <2>3, <3>1
  <2>5. 100 * s <= w * S + S /\ w * S <= 100 * s + S
    <3>1. 200 * (Slack + Lost) <= N
      OBVIOUS
    <3> HIDE DEF P, p, s, S, N, w
    <3>2. 100 * s <= w * S + S
      BY <2>1, <2>2, <2>3, <3>1, WeightNear
    <3>3. w * S <= 100 * s + S
      BY <2>1, <2>2, <2>3, <3>1, WeightNear
    <3>4. QED
      BY <3>2, <3>3
  <2>6. MarkovWeight(h) = IF w = 0 THEN 1 ELSE w
    <3>1. MarkovWeight(h) = Clamp(100 * pi[h], Precision)
      BY <2>1 DEF MarkovWeight
    <3>2. MarkovWeight(h) = IF w < MIN_WEIGHT THEN MIN_WEIGHT
                            ELSE IF w > MAX_WEIGHT THEN MAX_WEIGHT ELSE w
      BY <3>1 DEF Clamp
    <3> HIDE DEF w
    <3>3. QED
      BY <2>3, <2>4, <3>2, WeightsAssumption
  <2> HIDE DEF P, p, s, S, N, w
  <2>7. CASE w = 0
    <3>1. 0 * S = 0 /\ 1 * S = S
      BY <2>2
    <3>2. QED
      BY <2>2, <2>5, <2>6, <2>7, <3>1 DEF s, S
  <2>8. CASE w # 0
    <3> DEFINE wS == w * S
    <3>1. wS \in Nat
      BY <2>2, <2>3
    <3>2. MarkovWeight(h) * S = wS
      BY <2>6, <2>8
    <3>3. 100 * s <= wS + S /\ wS <= 100 * s + S
      BY <2>5
    <3> HIDE DEF wS
    <3>4. 100 * s - wS <= S /\ wS - 100 * s <= S
      BY <2>2, <3>1, <3>3
    <3>5. QED
      BY <3>2, <3>4 DEF s, S
  <2>9. QED
    BY <2>7, <2>8
<1>2. QED
  BY <1>1, PiIsHeld, DistributionSumsToOne, SettledLoopIsStationary, PTL
     DEF MarkovSpec

(* With no score above B, the shares together are bounded.                  *)
LEMMA SharesBounded ==
  ASSUME latency \in [Hosts -> Latencies], Cardinality(Hosts) # 1,
         NEW B \in Nat, \A l \in Latencies : Multiple \div l <= B
  PROVE  LET n == Cardinality(Hosts)
         IN  Shares <= (B * (B * n)) * n
<1> DEFINE n == Cardinality(Hosts)
           w == [i \in Hosts |-> Score(i)]
           sh == [h \in Hosts |-> Share(h)]
           zero == [i \in Hosts |-> 0]
<1>1. IsFiniteSet(Hosts) /\ n \in Nat /\ B * n \in Nat
  BY MarkovAssumption, UniformSums
<1>2. w \in [Hosts -> Nat] /\ zero \in [Hosts -> Nat]
  BY ScoresOrdered
<1>3. ASSUME NEW h \in Hosts PROVE Score(h) \in Nat /\ Score(h) <= B
  BY ScoresOrdered DEF Score
<1>4. ASSUME NEW T \in SUBSET Hosts PROVE SumFunctionOnSet(zero, T) = 0
  <2>1. SumFunctionOnSet(zero, T) = 0 * Cardinality(T)
    BY <1>1, SumConstant
  <2>2. IsFiniteSet(T) /\ Cardinality(T) \in Nat
    BY <1>1, FS_Subset, FS_CardinalityType
  <2>3. QED
    BY <2>1, <2>2
<1>5. ASSUME NEW h \in Hosts
      PROVE  OthersTotal(h) \in Nat /\ OthersTotal(h) <= B * n
  <2> DEFINE R == Hosts \ {h}
  <2>1. OthersTotal(h) = SumFunctionOnSet(w, R)
    BY DEF OthersTotal
  <2>2. \A i \in R : w[i] <= zero[i] + B
    BY <1>3
  <2>3. R \in SUBSET Hosts /\ Cardinality(R) \in Nat /\ n = Cardinality(R) + 1
    BY <1>1, RemoveOne
  <2>4. SumFunctionOnSet(w, R) \in Nat
    <3> HIDE DEF w, R
    <3>1. QED
      BY <1>1, <1>2, <2>3, SumRemove
  <2>5. SumFunctionOnSet(w, R) <= SumFunctionOnSet(zero, R) + B * Cardinality(R)
    <3> HIDE DEF w, zero, R
    <3>1. QED
      BY <1>1, <1>2, <2>2, <2>3, SumAtMost
  <2>6. SumFunctionOnSet(zero, R) = 0
    BY <1>4, <2>3
  <2> HIDE DEF w, zero, R, n
  <2>7. B * Cardinality(R) <= B * n /\ B * Cardinality(R) \in Nat
    BY <1>1, <2>3, TimesMonotone
  <2>8. QED
    BY <1>1, <2>1, <2>4, <2>5, <2>6, <2>7
<1>6. ASSUME NEW h \in Hosts PROVE sh[h] \in Nat /\ sh[h] <= zero[h] + B * (B * n)
  <2> DEFINE s == Score(h)
             o == OthersTotal(h)
  <2>1. s \in Nat /\ s <= B /\ o \in Nat /\ o <= B * n
    BY <1>3, <1>5
  <2>2. sh[h] = s * o /\ zero[h] = 0
    BY DEF Share
  <2> HIDE DEF s, o, n, sh, zero
  <2>3. s * o <= s * (B * n) /\ s * (B * n) <= B * (B * n)
    BY <1>1, <2>1, TimesMonotone
  <2>4. s * o \in Nat /\ s * (B * n) \in Nat /\ B * (B * n) \in Nat
    BY <1>1, <2>1
  <2>5. QED
    BY <2>2, <2>3, <2>4
<1>7. sh \in [Hosts -> Nat] /\ Shares = SumFunctionOnSet(sh, Hosts)
      /\ Shares \in Nat
  BY SharesPositive
<1>8. SumFunctionOnSet(sh, Hosts)
          <= SumFunctionOnSet(zero, Hosts) + (B * (B * n)) * n
  <2>1. B * (B * n) \in Nat /\ Hosts \in SUBSET Hosts
    <3> HIDE DEF n
    <3>1. QED
      BY <1>1
  <2>2. \A h \in Hosts : sh[h] <= zero[h] + B * (B * n)
    BY <1>6
  <2> DEFINE c == B * (B * n)
  <2> HIDE DEF sh, zero, c
  <2>3. SumFunctionOnSet(sh, Hosts) <= SumFunctionOnSet(zero, Hosts) + c * n
    BY <1>1, <1>2, <1>7, <2>1, <2>2, SumAtMost DEF c
  <2>4. QED
    BY <2>3 DEF c
<1>9. SumFunctionOnSet(zero, Hosts) = 0
  BY <1>4
<1>10. (B * (B * n)) * n \in Nat
  <2> HIDE DEF n
  <2>1. QED
    BY <1>1
<1> HIDE DEF n, sh, zero
<1>11. QED
  BY <1>7, <1>8, <1>9, <1>10 DEF n

(* g has the greater share of S, and both have their share of P up to L:    *)
(* when P is large enough against S, g has no less of it.                   *)
LEMMA GreaterShareHasMore ==
  ASSUME NEW sg \in Nat, NEW s \in Nat, sg >= s + 1,
         NEW S \in Nat \ {0}, NEW P \in Nat, NEW L \in Nat, 2 * (L * S) <= P,
         NEW pg \in Nat, NEW ph \in Nat,
         sg * P <= pg * S + L * S, ph * S <= s * P + L * S
  PROVE  ph <= pg
<1>1. (s + 1) * P <= sg * P /\ (s + 1) * P = s * P + P
  <2>1. (s + 1) * P <= sg * P
    BY TimesMonotone
  <2>2. QED
    BY <2>1
<1>2. /\ L * S \in Nat /\ s * P \in Nat /\ sg * P \in Nat
      /\ pg * S \in Nat /\ ph * S \in Nat
  OBVIOUS
<1>3. ph * S <= pg * S
  BY <1>1, <1>2
<1>4. S * ph <= S * pg
  BY <1>3
<1>5. QED
  BY <1>4, CancelTimes

(* A loop that stopped by its tolerance gives a faster backend no smaller   *)
(* weight than a slower one: with two backends because they always have the *)
(* same, with more because the shares differ by more than the slack when a  *)
(* unit of probability is small against the scores.                         *)
THEOREM SettledWeightsFollowLatency ==
  ASSUME NEW B \in Nat, SharesResolved(B)
  PROVE  MarkovSpec => [](rounds < STATIONARY_ITERATIONS => FollowsLatency)
<1>1. ASSUME PiHeld, SumsToOne, SettledIsStationary, EvenPair,
             rounds < STATIONARY_ITERATIONS
      PROVE  FollowsLatency
  <2> SUFFICES ASSUME done, rounds > 0, NEW g \in Hosts, NEW h \in Hosts,
                      latency[g] < latency[h]
               PROVE  MarkovWeight(g) >= MarkovWeight(h)
    BY DEF FollowsLatency
  <2> DEFINE P == SumFunctionOnSet(pi, Hosts)
             S == Shares
             n == Cardinality(Hosts)
             M == (B * (B * n)) * n
  <2>1. /\ latency \in [Hosts -> Latencies] /\ n # 1 /\ pi \in [Hosts -> Nat]
        /\ P \in Nat /\ Slack \in Nat /\ Lost \in Nat
        /\ Precision <= P + Lost
        /\ Share(g) * P <= pi[g] * S + Slack * S
        /\ pi[h] * S <= Share(h) * P + Slack * S
    <3>1. rounds < STATIONARY_ITERATIONS
      BY <1>1
    <3>2. QED
      BY <1>1, <3>1, SettledFacts
  <2>2. S \in Nat \ {0} /\ Share(g) \in Nat /\ Share(h) \in Nat
    BY <2>1, SharesPositive
  <2>3. pi[h] <= pi[g] /\ pi[h] \in Nat /\ pi[g] \in Nat
    <3>1. pi[h] \in Nat /\ pi[g] \in Nat
      BY <2>1
    <3>2. CASE Hosts = {g, h}
      <4>1. g # h
        <5>1. latency[g] \in Nat
          BY <2>1, LatenciesAssumption
        <5>2. QED
          BY <5>1
      <4>2. Cardinality(Hosts) = 2
        <5>1. Cardinality({h}) = 1 /\ IsFiniteSet({h})
          BY FS_Singleton
        <5>2. Hosts = {h} \cup {g} /\ g \notin {h}
          BY <3>2, <4>1
        <5>3. Cardinality(Hosts) = Cardinality({h}) + 1
          BY <5>1, <5>2, FS_AddElement
        <5>4. QED
          BY <5>1, <5>3
      <4>3. pi[g] = Precision \div 2 /\ pi[h] = Precision \div 2
        BY <1>1, <4>2 DEF EvenPair
      <4>4. QED
        BY <3>1, <4>3
    <3>3. CASE Hosts # {g, h}
      <4>1. Share(g) >= Share(h) + 1
        BY <2>1, <2>2, <3>3, FasterHasLargerShare
      <4>2. S <= M
        BY <2>1, SharesBounded DEF SharesResolved
      <4>3. 2 * (Slack * M) + Lost <= Precision
        BY DEF SharesResolved
      <4>4. M \in Nat
        <5>1. n \in Nat
          BY UniformSums
        <5> HIDE DEF n
        <5>2. QED
          BY <5>1
      <4>5. Precision \in Nat
        BY MarkovAssumption
      <4> HIDE DEF P, S, M
      <4>6. Slack * S <= Slack * M /\ Slack * M \in Nat /\ Slack * S \in Nat
        BY <2>1, <2>2, <4>2, <4>4, TimesMonotone
      <4>7. 2 * (Slack * S) <= P
        BY <2>1, <4>3, <4>5, <4>6
      <4>8. pi[h] <= pi[g]
        BY <2>1, <2>2, <3>1, <4>1, <4>7, GreaterShareHasMore
      <4>9. QED
        BY <3>1, <4>8
    <3>4. QED
      BY <3>2, <3>3
  <2>4. /\ 100 * pi[h] \in Nat /\ 100 * pi[g] \in Nat
        /\ 100 * pi[h] <= 100 * pi[g] /\ Precision \in Nat \ {0}
    BY <2>3, MarkovAssumption
  <2>5. /\ Clamp(100 * pi[h], Precision) <= Clamp(100 * pi[g], Precision)
        /\ Clamp(100 * pi[h], Precision) \in Nat
        /\ Clamp(100 * pi[g], Precision) \in Nat
    BY <2>4, ClampMonotone
  <2>6. QED
    BY <2>1, <2>5 DEF MarkovWeight
<1>2. QED
  BY <1>1, PiIsHeld, DistributionSumsToOne, SettledLoopIsStationary, PairIsEven,
     PTL DEF MarkovSpec

(* The closed form is the only one: a distribution that an iteration gives  *)
(* again, and that needs no rounding, has the shares' proportions.          *)
THEOREM SharesAreUnique ==
  ASSUME latency \in [Hosts -> Latencies], Cardinality(Hosts) # 1,
         NEW y \in [Hosts -> Nat],
         pi = [h \in Hosts |-> y[h] * OthersTotal(h)],
         \A j \in Hosts : NextPi(j) = pi[j]
  PROVE  \A g, h \in Hosts : pi[g] * Share(h) = pi[h] * Share(g)
<1> DEFINE w == [i \in Hosts |-> Score(i)]
           T == SumFunctionOnSet(w, Hosts)
           Y == SumFunctionOnSet(y, Hosts)
<1>1. /\ IsFiniteSet(Hosts) /\ w \in [Hosts -> Nat]
      /\ \A h \in Hosts : w[h] = Score(h) /\ Score(h) \in Nat \ {0}
  BY MarkovAssumption, ScoresOrdered
<1>2. ASSUME NEW h \in Hosts
      PROVE  OthersTotal(h) \in Nat \ {0} /\ T = Score(h) + OthersTotal(h)
  <2>1. Hosts # {h}
    BY FS_Singleton
  <2>2. OthersTotal(h) \in Nat \ {0}
    BY <2>1, OthersPositive
  <2>3. OthersTotal(h) = SumFunctionOnSet(w, Hosts \ {h})
    BY DEF OthersTotal
  <2> HIDE DEF w
  <2>4. SumFunctionOnSet(w, Hosts) = w[h] + SumFunctionOnSet(w, Hosts \ {h})
    BY <1>1, SumRemove
  <2>5. QED
    BY <1>1, <2>2, <2>3, <2>4
<1>3. ASSUME NEW j \in Hosts PROVE y[j] * T = Score(j) * Y
  <2> DEFINE s == Score(j)
             o == OthersTotal(j)
             R == Hosts \ {j}
             v == [i \in Hosts |-> (pi[i] * Score(j)) \div OthersTotal(i)]
             u == [i \in Hosts |-> s * y[i]]
             Z == SumFunctionOnSet(y, R)
  <2>1. s \in Nat /\ o \in Nat /\ T = s + o /\ y[j] \in Nat
    BY <1>1, <1>2
  <2>2. ASSUME NEW i \in Hosts PROVE v[i] = u[i]
    <3> DEFINE a == y[i]
               d == OthersTotal(i)
    <3>1. a \in Nat /\ d \in Nat \ {0} /\ v[i] = ((a * d) * s) \div d
      BY <1>2
    <3>2. u[i] = s * a
      OBVIOUS
    <3> HIDE DEF a, d, s
    <3>3. (a * d) * s = (s * a) * d /\ s * a \in Nat
      BY <2>1, <3>1
    <3>4. ((s * a) * d) \div d = s * a
      BY <3>1, <3>3, DivExact
    <3>5. QED
      BY <3>1, <3>2, <3>3, <3>4
  <2>3. v = u
    BY <2>2
  <2>4. NextPi(j) = SumFunctionOnSet(v, R)
    BY DEF NextPi
  <2>5. SumFunctionOnSet(u, R) = s * Z
    <3>1. R \in SUBSET Hosts
      OBVIOUS
    <3> HIDE DEF s, R
    <3>2. QED
      BY <1>1, <2>1, <3>1, SumTimes
  <2>6. Y = y[j] + Z /\ Z \in Nat
    BY <1>1, SumRemove
  <2>7. y[j] * o = s * Z
    <3>1. pi[j] = y[j] * o
      OBVIOUS
    <3> HIDE DEF v, u, s, o, R, Z
    <3>2. QED
      BY <2>3, <2>4, <2>5, <3>1
  <2> DEFINE x == y[j]
  <2> HIDE DEF s, o, Z, x, Y, T
  <2>8. x * (s + o) = s * x + x * o /\ s * (x + Z) = s * x + s * Z
    BY <2>1, <2>6 DEF x
  <2>9. QED
    BY <2>1, <2>6, <2>7, <2>8 DEF x, s
<1>4. ASSUME NEW g \in Hosts, NEW h \in Hosts
      PROVE  pi[g] * Share(h) = pi[h] * Share(g)
  <2> DEFINE a == y[g]
             b == y[h]
             sg == Score(g)
             sh == Score(h)
             og == OthersTotal(g)
             oh == OthersTotal(h)
  <2>1. /\ a \in Nat /\ b \in Nat /\ sg \in Nat /\ sh \in Nat
        /\ og \in Nat /\ oh \in Nat
        /\ a * T = sg * Y /\ b * T = sh * Y
    BY <1>1, <1>2, <1>3
  <2>2. T \in Nat \ {0} /\ Y \in Nat
    <3>1. Y \in Nat
      BY <1>1, SumRemove
    <3>2. QED
      BY <1>1, <1>2, <3>1
  <2>3. /\ pi[g] = a * og /\ pi[h] = b * oh
        /\ Share(g) = sg * og /\ Share(h) = sh * oh
    BY DEF Share
  <2> HIDE DEF a, b, sg, sh, og, oh, T, Y
  <2> DEFINE l == (a * og) * (sh * oh)
             r == (b * oh) * (sg * og)
  <2>4. l \in Nat /\ r \in Nat
    <3>1. a * og \in Nat /\ sh * oh \in Nat /\ b * oh \in Nat /\ sg * og \in Nat
      BY <2>1
    <3>2. QED
      BY <3>1
  <2>5. T * l = (a * T) * (og * (sh * oh)) /\ T * r = (b * T) * (oh * (sg * og))
    BY <2>1, <2>2
  <2>6. (sg * Y) * (og * (sh * oh)) = (sh * Y) * (oh * (sg * og))
    BY <2>1, <2>2
  <2>7. T * l = T * r
    BY <2>1, <2>5, <2>6
  <2> HIDE DEF l, r
  <2>8. T * l <= T * r /\ T * r <= T * l
    <3>1. T * l \in Nat
      BY <2>2, <2>4
    <3>2. QED
      BY <2>7, <3>1
  <2>9. l <= r /\ r <= l
    BY <2>2, <2>4, <2>8, CancelTimes
  <2>10. l = r
    BY <2>4, <2>9
  <2>11. QED
    BY <2>3, <2>10 DEF l, r
<1>5. QED
  BY <1>4
=============================================================================
