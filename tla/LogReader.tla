----------------------------- MODULE LogReader -----------------------------
(***************************************************************************)
(* The computations of analysis/log_reader.py on what it has parsed:        *)
(* percentiles, the Mann-Whitney statistic, time buckets and the count of   *)
(* weight changes.  Halves are avoided by doubling; the final step from z   *)
(* to a p-value (a square root and an error function) is left out.          *)
(***************************************************************************)
EXTENDS Rounding, Sequences, FiniteSets

Greater(x, y) == IF x > y THEN x ELSE y

(* f[1] + ... + f[n].                                                       *)
Total(f, n) ==
    LET sum[k \in 0..n] == IF k = 0 THEN 0 ELSE sum[k - 1] + f[k]
    IN  sum[n]

-----------------------------------------------------------------------------
(* _percentile_from_sorted: the 1-based rank it returns the value at.       *)

(* Mutant: the rank is rounded down.                                        *)
FloorRank(n, pct) == (pct * n) \div 100

Rank(n, pct) == Greater(1, RoundHalfEven(pct * n, 100))

-----------------------------------------------------------------------------
(* _rank_with_ties, doubled.  In sorted order the values equal to values[k] *)
(* form the block [i, j]; each gets its average rank.                       *)

Below(s, v) == Cardinality({k \in DOMAIN s : s[k] < v})
Ties(s, v) == Cardinality({k \in DOMAIN s : s[k] = v})

(* Mutant: ties are ranked by the first of their block.                     *)
FirstOfBlock(s, k) == 2 * (Below(s, s[k]) + 1)

DoubleRank(s, k) ==
    LET i == Below(s, s[k])
        j == i + Ties(s, s[k]) - 1
    IN  i + j + 2

(* mann_whitney_u.  u1 = r1 - n1 (n1 + 1) / 2, doubled.                     *)
DoubleU(a, b) ==
    Total([k \in DOMAIN a |-> DoubleRank(a \o b, k)], Len(a))
        - Len(a) * (Len(a) + 1)

(* The tie term counts t^3 - t for every block of t equal values: at the    *)
(* first of the block.                                                      *)
BlockTerm(s, k) ==
    LET t == Ties(s, s[k])
    IN  IF \E l \in 1..(k - 1) : s[l] = s[k] THEN 0 ELSE t * t * t - t

TieTerm(s) == Total([k \in DOMAIN s |-> BlockTerm(s, k)], Len(s))

(* Mutant: a block is corrected by its square.                              *)
UncorrectedVariance(a, b) ==
    LET n == Len(a \o b)
    IN  Len(a) * Len(b) * (n + 1) * n * (n - 1)

(* The variance times 12 n (n - 1).                                         *)
ScaledVariance(a, b) ==
    LET n == Len(a \o b)
    IN  Len(a) * Len(b) * ((n + 1) * n * (n - 1) - TieTerm(a \o b))

-----------------------------------------------------------------------------
(* bucket_by_window, with times relative to the run's start.                *)

NumCompleteWindows(window, end) == end \div window

(* The buckets that have a record, each with its records.                   *)
Buckets(stamps, window, end) ==
    LET Index(k) == stamps[k] \div window
        kept == {k \in DOMAIN stamps : Index(k) < NumCompleteWindows(window, end)}
    IN  [i \in {Index(k) : k \in kept} |-> {k \in kept : Index(k) = i}]

-----------------------------------------------------------------------------
(* read_weights_csv: the rows, [ts, weights], that fall into the run's      *)
(* window, in file order.  A row with fewer weights than the header names   *)
(* is skipped; of one with more, a later and larger pool's, the first are   *)
(* read.                                                                    *)
WeightRows(file, columns, start, end) ==
    LET rows[k \in 0..Len(file)] ==
            IF k = 0 THEN <<>>
            ELSE IF /\ start <= file[k].ts /\ file[k].ts <= end
                    /\ Len(file[k].weights) >= columns
                 THEN Append(rows[k - 1], SubSeq(file[k].weights, 1, columns))
                 ELSE rows[k - 1]
    IN  rows[Len(file)]

(* Mutant: every row counts.                                                *)
CountRows(rows) == Len(rows)

CountWeightChanges(rows) ==
    Cardinality({k \in DOMAIN rows : k > 1 /\ rows[k] # rows[k - 1]})
=============================================================================
