--------------------------- MODULE AnalysisProofs ---------------------------
(***************************************************************************)
(* What Analysis states of the computations and the report holds for inputs *)
(* of any size: samples, rows, ranks, access logs and runs.                 *)
(***************************************************************************)
EXTENDS Analysis, FunctionTheorems, FiniteSetTheorems, WellFoundedInduction,
        TLAPS

(* The inputs: two samples of integers, a size, and rows in order of time.  *)
Rows == [ts : Int, weights : Seq(Int)]

InputsHeld ==
    /\ a \in Seq(Int) /\ b \in Seq(Int)
    /\ n \in Nat \ {0}
    /\ file \in Seq(Rows)
    /\ \A k, l \in DOMAIN file : k <= l => file[k].ts <= file[l].ts

LEMMA InitInputs == Init => InputsHeld
BY DEF Init, InputsHeld

LEMMA AppendedRow ==
  ASSUME NEW X, \A x \in X : x.ts \in Int,
         NEW rows \in Seq(X), NEW row \in X,
         \A k, l \in DOMAIN rows : k <= l => rows[k].ts <= rows[l].ts,
         rows # <<>> => row.ts >= Last(rows).ts
  PROVE  LET more == Append(rows, row)
         IN  /\ more \in Seq(X)
             /\ \A k, l \in DOMAIN more : k <= l => more[k].ts <= more[l].ts
<1> DEFINE more == Append(rows, row)
           len == Len(rows)
<1>1. /\ len \in Nat /\ DOMAIN rows = 1..len /\ DOMAIN more = 1..(len + 1)
      /\ more \in Seq(X) /\ more[len + 1] = row
      /\ \A k \in 1..len : more[k] = rows[k] /\ rows[k] \in X
      /\ len > 0 => rows # <<>>
  OBVIOUS
<1>2. \A k \in 1..len : rows[k].ts \in Int
  BY <1>1
<1>3. ASSUME NEW k \in 1..len PROVE rows[k].ts <= row.ts
  <2>1. len \in 1..len /\ k <= len /\ rows # <<>>
    BY <1>1
  <2>2. rows[k].ts <= rows[len].ts /\ rows[len].ts <= row.ts
    BY <1>1, <2>1 DEF Last
  <2>3. rows[k].ts \in Int /\ rows[len].ts \in Int /\ row.ts \in Int
    BY <1>2, <2>1
  <2> HIDE DEF len
  <2>4. QED
    BY <2>2, <2>3
<1>4. ASSUME NEW k \in 1..(len + 1), NEW l \in 1..(len + 1), k <= l
      PROVE  more[k].ts <= more[l].ts
  <2>1. CASE l = len + 1 /\ k = len + 1
    BY <1>1, <2>1
  <2>2. CASE l = len + 1 /\ k # len + 1
    BY <1>1, <1>3, <2>2
  <2>3. CASE l # len + 1
    BY <1>1, <1>4, <2>3
  <2>4. QED
    BY <2>1, <2>2, <2>3
<1>5. QED
  BY <1>1, <1>4

LEMMA NextInputs == InputsHeld /\ [Next]_vars => InputsHeld'
<1> SUFFICES ASSUME InputsHeld, [Next]_vars PROVE InputsHeld'
  OBVIOUS
<1>1. CASE GrowSample
  <2>1. PICK v \in Int : \/ a' = Append(a, v) /\ b' = b
                         \/ b' = Append(b, v) /\ a' = a
    BY <1>1, InputsAssumption DEF GrowSample
  <2>2. a' \in Seq(Int) /\ b' \in Seq(Int)
    <3>1. Append(a, v) \in Seq(Int) /\ Append(b, v) \in Seq(Int)
      BY DEF InputsHeld
    <3>2. QED
      BY <2>1, <3>1 DEF InputsHeld
  <2>3. QED
    BY <1>1, <2>2 DEF GrowSample, InputsHeld
<1>2. CASE GrowN
  BY <1>2 DEF GrowN, InputsHeld
<1>3. CASE GrowFile
  <2>1. PICK row \in Rows : /\ file' = Append(file, row)
                            /\ file # <<>> => row.ts >= Last(file).ts
    <3>1. PICK t \in 0..MaxTime, weights \in Vectors :
            /\ file # <<>> => t >= Last(file).ts
            /\ file' = Append(file, [ts |-> t, weights |-> weights])
      BY <1>3 DEF GrowFile
    <3>2. [ts |-> t, weights |-> weights] \in Rows
      BY InputsAssumption DEF Rows
    <3>3. QED
      BY <3>1, <3>2
  <2>2. UNCHANGED <<a, b, n>>
    BY <1>3 DEF GrowFile
  <2>3. QED
    <3>1. \A x \in Rows : x.ts \in Int
      BY DEF Rows
    <3>2. QED
      BY <2>1, <2>2, <3>1, AppendedRow DEF InputsHeld
<1>4. CASE Serve \/ UNCHANGED vars
  BY <1>4 DEF Serve, vars, InputsHeld
<1>5. QED
  BY <1>1, <1>2, <1>3, <1>4 DEF Next

LEMMA InputsInvariant == Spec => []InputsHeld
BY InitInputs, NextInputs, PTL DEF Spec

(* The access logs and the runs.  A line names as many backends as times,   *)
(* and a request that its first backend has answered has an offset.         *)
Line == [ts : Int, tried : Seq(Addresses), times : Seq(Int \cup {None}),
         offset : Int \cup {None}, whole : BOOLEAN]
Fits(tried, times, offset) ==
    /\ Len(tried) = Len(times) /\ Len(times) >= 1
    /\ Len(times) = 1 /\ times # <<None>> => offset # None
Logged == {l \in Line : Fits(l.tried, l.times, l.offset)}

LogsHeld ==
    /\ logs \in [AlgoNames -> Seq(Logged)]
    /\ \A algo \in AlgoNames : \A k, l \in DOMAIN logs[algo] :
          k <= l => logs[algo][k].ts <= logs[algo][l].ts
    /\ runs \in RunLogs \cup {<<>>}

LEMMA InitLogs == Init => LogsHeld
<1> SUFFICES ASSUME Init PROVE LogsHeld
  OBVIOUS
<1>1. <<>> \in Seq(Logged)
  OBVIOUS
<1>2. QED
  BY <1>1 DEF Init, LogsHeld

LEMMA LinesLogged ==
  ASSUME NEW t \in Stamps, NEW q \in Requests
  PROVE  LineOf(q, t) \in Logged /\ LineOf(q, t).ts = t
<1> DEFINE T == Int \cup {None}
<1>1. /\ t \in Int /\ q.tried \in Seq(Addresses) /\ q.times \in Seq(T)
      /\ q.offset \in T /\ q.whole \in BOOLEAN /\ Fits(q.tried, q.times, q.offset)
  <2>1. /\ q.tried \in Seq(Addresses) /\ q.times \in Seq(T) /\ q.offset \in T
        /\ q.whole \in BOOLEAN /\ Fits(q.tried, q.times, q.offset)
    BY RequestsAssumption, Zenon DEF Fits
  <2>2. t \in Int
    BY InputsAssumption
  <2>3. QED
    BY <2>1, <2>2
<1> HIDE DEF T
<1>2. LineOf(q, t) \in [ts : Int, tried : Seq(Addresses), times : Seq(T),
                        offset : T, whole : BOOLEAN]
  BY <1>1 DEF LineOf
<1>3. /\ LineOf(q, t).tried = q.tried /\ LineOf(q, t).times = q.times
      /\ LineOf(q, t).offset = q.offset /\ LineOf(q, t).ts = t
  BY DEF LineOf
<1>4. QED
  BY <1>1, <1>2, <1>3 DEF Logged, Line, T

LEMMA NextLogs == LogsHeld /\ [Next]_vars => LogsHeld'
<1> SUFFICES ASSUME LogsHeld, [Next]_vars PROVE LogsHeld'
  OBVIOUS
<1>1. CASE Serve
  <2>1. PICK algo \in AlgoNames, t \in Stamps, q \in Requests :
          /\ logs[algo] # <<>> => t >= Last(logs[algo]).ts
          /\ logs' = [logs EXCEPT ![algo] = Append(logs[algo], LineOf(q, t))]
    BY <1>1 DEF Serve
  <2> DEFINE line == LineOf(q, t)
  <2>2. logs' = [logs EXCEPT ![algo] = Append(logs[algo], line)]
    BY <2>1
  <2>3. line \in Logged /\ line.ts = t
    BY LinesLogged
  <2> HIDE DEF line
  <2> DEFINE more == Append(logs[algo], line)
  <2>4. /\ more \in Seq(Logged)
        /\ \A k, l \in DOMAIN more : k <= l => more[k].ts <= more[l].ts
    <3>1. \A x \in Logged : x.ts \in Int
      BY DEF Logged, Line
    <3>2. QED
      BY <2>1, <2>3, <3>1, AppendedRow DEF LogsHeld
  <2> HIDE DEF more
  <2>5. logs' \in [AlgoNames -> Seq(Logged)]
    BY <2>2, <2>4 DEF LogsHeld, more
  <2>6. \A other \in AlgoNames :
           logs'[other] = IF other = algo THEN more ELSE logs[other]
    BY <2>2 DEF LogsHeld, more
  <2>7. \A other \in AlgoNames : \A k, l \in DOMAIN logs'[other] :
           k <= l => logs'[other][k].ts <= logs'[other][l].ts
    BY <2>4, <2>6 DEF LogsHeld
  <2>8. runs' = runs
    BY <1>1 DEF Serve
  <2>9. QED
    BY <2>5, <2>7, <2>8 DEF LogsHeld
<1>2. CASE GrowSample \/ GrowN \/ GrowFile \/ UNCHANGED vars
  BY <1>2 DEF GrowSample, GrowN, GrowFile, vars, LogsHeld
<1>3. QED
  BY <1>1, <1>2 DEF Next

LEMMA LogsInvariant == Spec => []LogsHeld
BY InitLogs, NextLogs, PTL DEF Spec

-----------------------------------------------------------------------------
(* Percentile ranks.                                                        *)
LEMMA DivModHundred ==
  ASSUME NEW x \in Nat
  PROVE  /\ x \div 100 \in Nat /\ x % 100 \in 0..99
         /\ x = 100 * (x \div 100) + (x % 100)
OBVIOUS

LEMMA RankBounds ==
  ASSUME NEW m \in Nat \ {0}, NEW p \in Percents
  PROVE  LET ceil == CeilDiv(p * m, 100)
         IN  /\ Rank(m, p) \in 1..m
             /\ Rank(m, p) \in {ceil - 1, ceil}
<1> DEFINE x == p * m
           q == x \div 100
           r == x % 100
           c == (x + 99) \div 100
<1>1. x \in Nat /\ x <= 99 * m /\ x >= 50 * m /\ p \in Nat
  BY DEF Percents
<1>2. q \in Nat /\ r \in 0..99 /\ x = 100 * q + r
  BY <1>1, DivModHundred
<1>3. c \in Nat /\ c = IF r = 0 THEN q ELSE q + 1
  <2>1. /\ x + 99 \in Nat /\ c \in Nat /\ (x + 99) % 100 \in 0..99
        /\ x + 99 = 100 * c + ((x + 99) % 100)
    BY <1>1, DivModHundred
  <2> HIDE DEF x, q, r, c
  <2>2. QED
    BY <1>2, <2>1
<1>4. Rank(m, p) = Greater(1, IF 2 * r > 100 \/ (2 * r = 100 /\ q % 2 = 1)
                              THEN q + 1 ELSE q)
  BY DEF Rank, RoundHalfEven
<1>5. CeilDiv(p * m, 100) = c
  BY <1>1 DEF CeilDiv
<1> HIDE DEF x, q, r, c
<1>6. q < m /\ (q = 0 => r >= 50)
  BY <1>1, <1>2
<1>7. q # 0 => c \in {q, q + 1} /\ (r = 0 => c = q) /\ (r # 0 => c = q + 1)
  BY <1>3
<1>8. Rank(m, p) \in 1..m
  BY <1>2, <1>4, <1>6 DEF Greater
<1>9. Rank(m, p) \in {c - 1, c}
  BY <1>2, <1>3, <1>4, <1>6 DEF Greater
<1>10. QED
  BY <1>5, <1>8, <1>9

LEMMA RankMonotone ==
  ASSUME NEW m \in Nat \ {0}, NEW p \in Percents, NEW o \in Percents, p <= o
  PROVE  Rank(m, p) <= Rank(m, o)
<1> DEFINE x == p * m
           y == o * m
<1>1. x \in Nat /\ y \in Nat /\ x <= y
  BY DEF Percents
<1>2. /\ x \div 100 \in Nat /\ x % 100 \in 0..99
      /\ x = 100 * (x \div 100) + (x % 100)
      /\ y \div 100 \in Nat /\ y % 100 \in 0..99
      /\ y = 100 * (y \div 100) + (y % 100)
  BY <1>1, DivModHundred
<1>3. /\ Rank(m, p) = Greater(1, RoundHalfEven(x, 100))
      /\ Rank(m, o) = Greater(1, RoundHalfEven(y, 100))
  BY DEF Rank
<1> HIDE DEF x, y
<1>4. RoundHalfEven(x, 100) <= RoundHalfEven(y, 100)
  <2>1. CASE x \div 100 = y \div 100
    BY <1>1, <1>2, <2>1 DEF RoundHalfEven
  <2>2. CASE x \div 100 < y \div 100
    BY <1>1, <1>2, <2>2 DEF RoundHalfEven
  <2>3. QED
    BY <1>1, <1>2, <2>1, <2>2
<1>5. QED
  <2>1. RoundHalfEven(x, 100) \in Nat /\ RoundHalfEven(y, 100) \in Nat
    BY <1>2 DEF RoundHalfEven
  <2>2. QED
    BY <1>3, <1>4, <2>1 DEF Greater

(* For a sample of any size the rank of a percentile lies in the sample, at *)
(* the nearest rank or the one below, and the percentiles are in order.     *)
THEOREM PercentilesInSample == Spec => []RankCloseToNearest
<1>1. InputsHeld => RankCloseToNearest
  BY RankBounds, RankMonotone
     DEF InputsHeld, RankCloseToNearest, NearestRankOf
<1>2. QED
  BY <1>1, InputsInvariant, PTL

-----------------------------------------------------------------------------
(* Induction and recursion over an initial segment of the naturals.         *)
LEMMA Induct ==
  ASSUME NEW S, 0 \in S, \A m \in Nat : m \in S => m + 1 \in S
  PROVE  \A m \in Nat : m \in S
<1> DEFINE Rest == {m \in Nat : m \notin S}
<1>1. SUFFICES ASSUME Rest # {} PROVE FALSE
  OBVIOUS
<1>2. PICK m \in Rest : \A k \in Rest : ~(<<k, m>> \in OpToRel(<, Nat))
  <2>1. Rest \subseteq Nat
    OBVIOUS
  <2>2. QED
    BY <1>1, <2>1, NatLessThanWellFounded, WFMin
<1>3. \A k \in Rest : ~(k < m)
  BY <1>2 DEF OpToRel
<1>4. m # 0
  OBVIOUS
<1>5. m - 1 \in Nat /\ m - 1 < m /\ (m - 1) + 1 = m
  BY <1>4
<1>6. m - 1 \in S
  BY <1>3, <1>5
<1>7. QED
  BY <1>5, <1>6

StepOn(step, N, X) == step \in [(1..N) \X X -> X]
Follows(g, N, X, c, step) ==
    /\ g \in [0..N -> X]
    /\ g[0] = c
    /\ \A k \in 1..N : g[k] = step[<<k, g[k - 1]>>]

LEMMA Recursion ==
  ASSUME NEW N \in Nat, NEW X, NEW c \in X, NEW step, StepOn(step, N, X)
  PROVE  \E g : Follows(g, N, X, c, step)
<1> USE DEF StepOn, Follows
<1> DEFINE Upto(m, g) == /\ g \in [0..m -> X]
                         /\ g[0] = c
                         /\ \A k \in 1..m : g[k] = step[<<k, g[k - 1]>>]
           S == {m \in Nat : m <= N => \E g : Upto(m, g)}
<1>1. 0 \in S
  <2>1. Upto(0, [k \in 0..0 |-> c])
    OBVIOUS
  <2>2. QED
    BY <2>1
<1>2. ASSUME NEW m \in Nat, m \in S PROVE m + 1 \in S
  <2>1. SUFFICES ASSUME m + 1 <= N PROVE \E g : Upto(m + 1, g)
    OBVIOUS
  <2>2. PICK g : Upto(m, g)
    BY <1>2, <2>1
  <2> DEFINE h == [k \in 0..(m + 1) |->
                     IF k = m + 1 THEN step[<<k, g[m]>>] ELSE g[k]]
  <2>3. m + 1 \in 1..N /\ g[m] \in X
    BY <2>1, <2>2
  <2>4. step[<<m + 1, g[m]>>] \in X
    BY <2>3
  <2>5. h \in [0..(m + 1) -> X]
    BY <2>2, <2>4
  <2>6. h[0] = c
    BY <2>2
  <2>7. ASSUME NEW k \in 1..(m + 1) PROVE h[k] = step[<<k, h[k - 1]>>]
    <3>1. k - 1 \in 0..m /\ h[k - 1] = g[k - 1]
      BY <2>2
    <3>2. CASE k = m + 1
      BY <3>1, <3>2
    <3>3. CASE k # m + 1
      BY <2>2, <3>1, <3>3
    <3>4. QED
      BY <3>2, <3>3
  <2>8. Upto(m + 1, h)
    BY <2>5, <2>6, <2>7
  <2>9. QED
    BY <2>8
<1> HIDE DEF S
<1>3. N \in S
  BY <1>1, <1>2, Induct
<1>4. QED
  BY <1>3 DEF S

(* What Total is: the last of the partial sums.                             *)
LEMMA PartialSums ==
  ASSUME NEW N \in Nat, NEW f \in [1..N -> Int]
  PROVE  \E sum \in [0..N -> Int] :
            /\ sum[0] = 0
            /\ \A k \in 1..N : sum[k] = sum[k - 1] + f[k]
            /\ Total(f, N) = sum[N]
<1> DEFINE Rec(g) == g = [k \in 0..N |-> IF k = 0 THEN 0 ELSE g[k - 1] + f[k]]
           step == [p \in (1..N) \X Int |-> p[2] + f[p[1]]]
           chosen == CHOOSE g : Rec(g)
<1>1. StepOn(step, N, Int) /\ 0 \in Int
  BY DEF StepOn
<1>2. PICK g : Follows(g, N, Int, 0, step)
  <2> HIDE DEF step
  <2>1. QED
    BY <1>1, Recursion
<1>3. \A k \in 1..N : k - 1 \in 0..N /\ g[k - 1] \in Int
  BY <1>2 DEF Follows
<1>4. \A k \in 1..N : g[k] = g[k - 1] + f[k]
  BY <1>2, <1>3 DEF Follows
<1>5. \A k \in 0..N : g[k] = IF k = 0 THEN 0 ELSE g[k - 1] + f[k]
  BY <1>2, <1>4 DEF Follows
<1>6. Rec(g)
  BY <1>2, <1>5 DEF Follows
<1>7. Rec(chosen)
  BY <1>6
<1>8. Total(f, N) = chosen[N]
  BY DEF Total
<1> HIDE DEF chosen
<1>9. /\ chosen[0] = 0
      /\ \A k \in 1..N : chosen[k] = chosen[k - 1] + f[k]
  BY <1>7
<1>10. chosen \in [0..N -> Int]
  <2> DEFINE S == {m \in Nat : m <= N => chosen[m] \in Int}
  <2>1. 0 \in S
    BY <1>9
  <2>2. ASSUME NEW m \in Nat, m \in S PROVE m + 1 \in S
    <3>1. SUFFICES ASSUME m + 1 <= N PROVE chosen[m + 1] \in Int
      OBVIOUS
    <3>2. m + 1 \in 1..N /\ (m + 1) - 1 = m
      BY <3>1
    <3>3. QED
      BY <1>9, <2>2, <3>1, <3>2
  <2> HIDE DEF S
  <2>3. \A m \in Nat : m \in S
    BY <2>1, <2>2, Induct
  <2>4. \A m \in 0..N : chosen[m] \in Int
    BY <2>3 DEF S
  <2>5. QED
    BY <1>7, <2>4
<1>11. QED
  BY <1>8, <1>9, <1>10

-----------------------------------------------------------------------------
(* Counting pairs.  Meet(x, y, T) are the pairs of a position of x and one  *)
(* of y whose values are in the relation T.                                 *)
LEMMA SameSize ==
  ASSUME NEW S, NEW T, IsFiniteSet(S), NEW f \in [S -> T],
         \A s, t \in S : f[s] = f[t] => s = t,
         \A t \in T : \E s \in S : f[s] = t
  PROVE  IsFiniteSet(T) /\ Cardinality(T) = Cardinality(S)
<1>1. f \in Bijection(S, T)
  BY Fun_IsBij
<1>2. ExistsBijection(S, T)
  BY <1>1 DEF ExistsBijection
<1>3. QED
  BY <1>2, FS_Bijection

LEMMA DisjointUnion ==
  ASSUME NEW S, NEW T, IsFiniteSet(S), IsFiniteSet(T), S \cap T = {}
  PROVE  /\ IsFiniteSet(S \cup T)
         /\ Cardinality(S) \in Nat /\ Cardinality(T) \in Nat
         /\ Cardinality(S \cup T) = Cardinality(S) + Cardinality(T)
<1>1. /\ Cardinality(S) \in Nat /\ Cardinality(T) \in Nat
      /\ Cardinality(S \cap T) = 0
  BY FS_CardinalityType, FS_EmptySet
<1>2. /\ IsFiniteSet(S \cup T)
      /\ Cardinality(S \cup T) =
           Cardinality(S) + Cardinality(T) - Cardinality(S \cap T)
  BY FS_Union, Zenon
<1>3. QED
  BY <1>1, <1>2

LEMMA DomainFinite ==
  ASSUME NEW x \in Seq(Int)
  PROVE  /\ IsFiniteSet(DOMAIN x) /\ Cardinality(DOMAIN x) = Len(x)
         /\ Len(x) \in Nat /\ DOMAIN x = 1..Len(x)
<1>1. Len(x) \in Nat /\ DOMAIN x = 1..Len(x)
  OBVIOUS
<1>2. IsFiniteSet(1..Len(x)) /\ Cardinality(1..Len(x)) = Len(x)
  BY <1>1, FS_Interval
<1>3. QED
  BY <1>1, <1>2

Meet(x, y, T) ==
    {p \in (DOMAIN x) \X (DOMAIN y) : <<x[p[1]], y[p[2]]>> \in T}

LEMMA MeetFinite ==
  ASSUME NEW x \in Seq(Int), NEW y \in Seq(Int), NEW T
  PROVE  IsFiniteSet(Meet(x, y, T)) /\ Cardinality(Meet(x, y, T)) \in Nat
<1>1. IsFiniteSet(DOMAIN x) /\ IsFiniteSet(DOMAIN y)
  BY DomainFinite
<1>2. IsFiniteSet((DOMAIN x) \X (DOMAIN y))
  BY <1>1, FS_Product, Zenon
<1>3. Meet(x, y, T) \in SUBSET ((DOMAIN x) \X (DOMAIN y))
  BY DEF Meet
<1>4. QED
  BY <1>2, <1>3, FS_Subset, FS_CardinalityType

(* Those of the first m positions of x, and what one more position adds.    *)
FirstMeet(x, y, T, m) == {p \in Meet(x, y, T) : p[1] <= m}
Fibre(x, y, T, k) == {l \in DOMAIN y : <<x[k], y[l]>> \in T}

LEMMA FibreAdds ==
  ASSUME NEW x \in Seq(Int), NEW y \in Seq(Int), NEW T,
         NEW m \in Nat, m + 1 \in DOMAIN x
  PROVE  /\ Cardinality(FirstMeet(x, y, T, m)) \in Nat
         /\ Cardinality(Fibre(x, y, T, m + 1)) \in Nat
         /\ Cardinality(FirstMeet(x, y, T, m + 1)) =
              Cardinality(FirstMeet(x, y, T, m))
                + Cardinality(Fibre(x, y, T, m + 1))
<1> DEFINE F == FirstMeet(x, y, T, m)
           G == {p \in Meet(x, y, T) : p[1] = m + 1}
           L == Fibre(x, y, T, m + 1)
           g == [l \in L |-> <<m + 1, l>>]
<1>1. IsFiniteSet(F) /\ IsFiniteSet(G)
  <2>1. F \in SUBSET Meet(x, y, T) /\ G \in SUBSET Meet(x, y, T)
    BY DEF FirstMeet
  <2>2. QED
    BY <2>1, MeetFinite, FS_Subset
<1>2. IsFiniteSet(L)
  <2>1. IsFiniteSet(DOMAIN y) /\ L \in SUBSET DOMAIN y
    BY DomainFinite DEF Fibre
  <2>2. QED
    BY <2>1, FS_Subset
<1>3. g \in [L -> G]
  BY DEF Fibre, Meet
<1>4. /\ \A s, t \in L : g[s] = g[t] => s = t
      /\ \A t \in G : \E s \in L : g[s] = t
  BY DEF Fibre, Meet
<1>5. Cardinality(G) = Cardinality(L)
  <2> HIDE DEF g, G, L
  <2>1. QED
    BY <1>2, <1>3, <1>4, SameSize, Zenon
<1>6. F \cap G = {} /\ F \cup G = FirstMeet(x, y, T, m + 1)
  <2>1. \A p \in Meet(x, y, T) : p[1] \in Nat
    BY DEF Meet
  <2>2. QED
    BY <2>1 DEF FirstMeet
<1>7. QED
  BY <1>1, <1>2, <1>5, <1>6, DisjointUnion, FS_CardinalityType

(* The pairs with a sequence in two parts.                                  *)
LEMMA MeetConcat ==
  ASSUME NEW x \in Seq(Int), NEW y \in Seq(Int), NEW z \in Seq(Int), NEW T
  PROVE  Cardinality(Meet(x, y \o z, T)) =
           Cardinality(Meet(x, y, T)) + Cardinality(Meet(x, z, T))
<1> DEFINE yz == y \o z
           M == Meet(x, yz, T)
           H == {p \in M : p[2] > Len(y)}
           N == Meet(x, z, T)
           g == [p \in N |-> <<p[1], p[2] + Len(y)>>]
<1>1. /\ yz \in Seq(Int) /\ Len(y) \in Nat /\ Len(z) \in Nat
      /\ DOMAIN yz = 1..(Len(y) + Len(z)) /\ DOMAIN y = 1..Len(y)
      /\ DOMAIN z = 1..Len(z)
      /\ \A k \in 1..Len(y) : yz[k] = y[k]
      /\ \A k \in 1..Len(z) : yz[k + Len(y)] = z[k]
  OBVIOUS
<1> HIDE DEF yz
<1>2. IsFiniteSet(M) /\ IsFiniteSet(Meet(x, y, T)) /\ IsFiniteSet(N)
  BY <1>1, MeetFinite
<1>3. g \in [N -> H]
  <2>1. ASSUME NEW p \in N PROVE <<p[1], p[2] + Len(y)>> \in H
    <3>1. /\ p[1] \in DOMAIN x /\ p[2] \in 1..Len(z)
          /\ <<x[p[1]], z[p[2]]>> \in T
      BY <1>1 DEF Meet
    <3>2. /\ p[2] + Len(y) \in DOMAIN yz /\ p[2] + Len(y) > Len(y)
          /\ yz[p[2] + Len(y)] = z[p[2]]
      <4>1. \A k \in 1..Len(z) : k + Len(y) \in 1..(Len(y) + Len(z)) /\ k + Len(y) > Len(y)
        BY <1>1
      <4>2. QED
        BY <1>1, <3>1, <4>1, Zenon
    <3>3. QED
      BY <3>1, <3>2 DEF Meet
  <2>2. QED
    BY <2>1
<1>4. \A s, t \in N : g[s] = g[t] => s = t
  <2>1. ASSUME NEW s \in N, NEW t \in N, g[s] = g[t] PROVE s = t
    <3>1. s = <<s[1], s[2]>> /\ t = <<t[1], t[2]>> /\ s[2] \in Int /\ t[2] \in Int
      BY <1>1 DEF Meet
    <3>2. s[1] = t[1] /\ s[2] + Len(y) = t[2] + Len(y)
      BY <2>1
    <3>3. s[2] = t[2]
      BY <1>1, <3>1, <3>2
    <3>4. QED
      BY <3>1, <3>2, <3>3, Zenon
  <2>2. QED
    BY <2>1
<1>5. ASSUME NEW t \in H PROVE \E s \in N : g[s] = t
  <2>1. /\ t = <<t[1], t[2]>> /\ t[1] \in DOMAIN x /\ t[2] \in DOMAIN yz
        /\ t[2] > Len(y) /\ <<x[t[1]], yz[t[2]]>> \in T
    BY DEF Meet
  <2>2. t[2] - Len(y) \in 1..Len(z) /\ (t[2] - Len(y)) + Len(y) = t[2]
    BY <1>1, <2>1
  <2>3. <<t[1], t[2] - Len(y)>> \in N
    BY <1>1, <2>1, <2>2 DEF Meet
  <2>4. QED
    BY <2>1, <2>2, <2>3
<1>6. IsFiniteSet(H) /\ Cardinality(H) = Cardinality(N)
  BY <1>2, <1>3, <1>4, <1>5, SameSize
<1>7. Meet(x, y, T) \cap H = {} /\ Meet(x, y, T) \cup H = M
  <2>1. ASSUME NEW p \in Meet(x, y, T) PROVE p \in M /\ p \notin H
    <3>1. /\ p \in (DOMAIN x) \X (1..Len(y)) /\ <<x[p[1]], y[p[2]]>> \in T
      BY <1>1 DEF Meet
    <3>2. \A k \in 1..Len(y) : k \in DOMAIN yz /\ ~(k > Len(y))
      BY <1>1
    <3>3. p[2] \in 1..Len(y) /\ p \in (DOMAIN x) \X (DOMAIN yz)
      BY <3>1, <3>2
    <3>4. QED
      BY <1>1, <3>1, <3>2, <3>3 DEF Meet
  <2>2. ASSUME NEW p \in M, p \notin H PROVE p \in Meet(x, y, T)
    <3>1. p \in (DOMAIN x) \X (DOMAIN yz) /\ <<x[p[1]], yz[p[2]]>> \in T
      BY DEF Meet
    <3>2. p[2] \in 1..Len(y)
      BY <1>1, <2>2, <3>1
    <3>3. yz[p[2]] = y[p[2]] /\ p \in (DOMAIN x) \X (DOMAIN y)
      BY <1>1, <3>1, <3>2
    <3>4. QED
      BY <3>1, <3>3 DEF Meet
  <2>3. QED
    BY <2>1, <2>2
<1>8. QED
  BY <1>2, <1>6, <1>7, DisjointUnion DEF yz

Gt == {t \in Int \X Int : t[1] > t[2]}
Lt == {t \in Int \X Int : t[1] < t[2]}
Eq == {t \in Int \X Int : t[1] = t[2]}

(* Within one sample, every pair is won, lost or drawn, and as many are won *)
(* as are lost.                                                             *)
LEMMA MeetSelf ==
  ASSUME NEW x \in Seq(Int)
  PROVE  2 * Cardinality(Meet(x, x, Gt)) + Cardinality(Meet(x, x, Eq))
           = Len(x) * Len(x)
<1> DEFINE D == DOMAIN x
           W == Meet(x, x, Gt)
           L == Meet(x, x, Lt)
           E == Meet(x, x, Eq)
           g == [p \in W |-> <<p[2], p[1]>>]
<1>1. /\ IsFiniteSet(W) /\ IsFiniteSet(L) /\ IsFiniteSet(E)
      /\ Cardinality(W) \in Nat /\ Cardinality(E) \in Nat
  BY MeetFinite
<1>2. \A k \in D : x[k] \in Int
  OBVIOUS
<1>3. g \in [W -> L]
  BY <1>2 DEF Meet, Gt, Lt
<1>4. ASSUME NEW s \in W, NEW t \in W, g[s] = g[t] PROVE s = t
  <2>1. s = <<s[1], s[2]>> /\ t = <<t[1], t[2]>>
    BY DEF Meet
  <2>2. s[1] = t[1] /\ s[2] = t[2]
    BY <1>4
  <2>3. QED
    BY <2>1, <2>2, Zenon
<1>5. ASSUME NEW t \in L PROVE \E s \in W : g[s] = t
  <2>1. /\ t = <<t[1], t[2]>> /\ t[1] \in D /\ t[2] \in D /\ x[t[1]] < x[t[2]]
    BY DEF Meet, Lt
  <2>2. <<t[2], t[1]>> \in W
    BY <1>2, <2>1 DEF Meet, Gt
  <2>3. QED
    BY <2>1, <2>2
<1>6. Cardinality(L) = Cardinality(W)
  <2> HIDE DEF g, W, L
  <2>1. QED
    BY <1>1, <1>3, <1>4, <1>5, SameSize, Zenon
<1>7. /\ W \cap L = {} /\ (W \cup L) \cap E = {}
      /\ (W \cup L) \cup E = D \X D
  <2>1. ASSUME NEW p \in D \X D
        PROVE  /\ p \in W \/ p \in L \/ p \in E
               /\ ~(p \in W /\ p \in L) /\ ~(p \in W /\ p \in E)
               /\ ~(p \in L /\ p \in E)
    <3>1. x[p[1]] \in Int /\ x[p[2]] \in Int
      BY <1>2
    <3>2. /\ p \in W <=> x[p[1]] > x[p[2]]
          /\ p \in L <=> x[p[1]] < x[p[2]]
          /\ p \in E <=> x[p[1]] = x[p[2]]
      BY <3>1 DEF Meet, Gt, Lt, Eq
    <3>3. QED
      BY <3>1, <3>2
  <2>2. W \subseteq D \X D /\ L \subseteq D \X D /\ E \subseteq D \X D
    BY DEF Meet
  <2> HIDE DEF W, L, E, D
  <2>3. QED
    BY <2>1, <2>2
<1>8. /\ IsFiniteSet(W \cup L)
      /\ Cardinality(W \cup L) = Cardinality(W) + Cardinality(L)
  BY <1>1, <1>7, DisjointUnion
<1>9. Cardinality((W \cup L) \cup E) = Cardinality(W \cup L) + Cardinality(E)
  BY <1>1, <1>7, <1>8, DisjointUnion
<1>10. Cardinality(D \X D) = Len(x) * Len(x)
  <2>1. IsFiniteSet(D) /\ Cardinality(D) = Len(x)
    BY DomainFinite
  <2>2. Cardinality(D \X D) = Cardinality(D) * Cardinality(D)
    BY <2>1, FS_Product
  <2>3. QED
    BY <2>1, <2>2
<1> HIDE DEF W, L, E, D
<1>11. 2 * Cardinality(W) + Cardinality(E) = Cardinality(D \X D)
  <2>1. Cardinality(D \X D) = Cardinality(W \cup L) + Cardinality(E)
    BY <1>7, <1>9, Zenon
  <2>2. QED
    BY <1>1, <1>6, <1>8, <2>1
<1>12. QED
  BY <1>10, <1>11 DEF W, E

-----------------------------------------------------------------------------
(* The sum of the first sample's ranks, position by position.               *)
LEMMA RankCounts ==
  ASSUME NEW x \in Seq(Int), NEW y \in Seq(Int), NEW k \in DOMAIN x
  PROVE  LET xy == x \o y
         IN  DoubleRank(xy, k) = 2 * Cardinality(Fibre(x, xy, Gt, k))
                                 + Cardinality(Fibre(x, xy, Eq, k)) + 1
<1> DEFINE xy == x \o y
<1>1. xy \in Seq(Int) /\ xy[k] = x[k] /\ x[k] \in Int
  OBVIOUS
<1> HIDE DEF xy
<1>2. \A l \in DOMAIN xy : xy[l] \in Int
  BY <1>1
<1>3. Below(xy, xy[k]) = Cardinality(Fibre(x, xy, Gt, k))
  <2>1. {l \in DOMAIN xy : xy[l] < xy[k]} = Fibre(x, xy, Gt, k)
    BY <1>1, <1>2 DEF Fibre, Gt
  <2>2. QED
    BY <2>1 DEF Below
<1>4. Ties(xy, xy[k]) = Cardinality(Fibre(x, xy, Eq, k))
  <2>1. {l \in DOMAIN xy : xy[l] = xy[k]} = Fibre(x, xy, Eq, k)
    BY <1>1, <1>2 DEF Fibre, Eq
  <2>2. QED
    BY <2>1 DEF Ties
<1>5. IsFiniteSet(Fibre(x, xy, Gt, k)) /\ IsFiniteSet(Fibre(x, xy, Eq, k))
  <2>1. IsFiniteSet(DOMAIN xy)
    BY <1>1, DomainFinite
  <2>2. QED
    BY <2>1, FS_Subset DEF Fibre
<1>6. /\ Cardinality(Fibre(x, xy, Gt, k)) \in Nat
      /\ Cardinality(Fibre(x, xy, Eq, k)) \in Nat
  BY <1>5, FS_CardinalityType
<1>7. QED
  BY <1>3, <1>4, <1>6 DEF DoubleRank, xy

LEMMA RankSum ==
  ASSUME NEW x \in Seq(Int), NEW y \in Seq(Int)
  PROVE  LET xy == x \o y
         IN  Total([k \in DOMAIN x |-> DoubleRank(xy, k)], Len(x)) =
               2 * Cardinality(Meet(x, xy, Gt)) + Cardinality(Meet(x, xy, Eq))
               + Len(x)
<1> DEFINE xy == x \o y
           f == [k \in DOMAIN x |-> DoubleRank(xy, k)]
           N == Len(x)
           Won(m) == Cardinality(FirstMeet(x, xy, Gt, m))
           Drawn(m) == Cardinality(FirstMeet(x, xy, Eq, m))
           up(k) == 2 * Cardinality(Fibre(x, xy, Gt, k))
                    + Cardinality(Fibre(x, xy, Eq, k)) + 1
<1>1. N \in Nat /\ DOMAIN x = 1..N /\ xy \in Seq(Int)
  OBVIOUS
<1>2. \A k \in 1..N : f[k] = up(k)
  BY <1>1, RankCounts
<1> HIDE DEF xy, N
<1>3. \A m \in Nat : m + 1 \in 1..N =>
         /\ Won(m) \in Nat /\ Drawn(m) \in Nat
         /\ Cardinality(Fibre(x, xy, Gt, m + 1)) \in Nat
         /\ Cardinality(Fibre(x, xy, Eq, m + 1)) \in Nat
         /\ Won(m + 1) = Won(m) + Cardinality(Fibre(x, xy, Gt, m + 1))
         /\ Drawn(m + 1) = Drawn(m) + Cardinality(Fibre(x, xy, Eq, m + 1))
  BY <1>1, FibreAdds
<1>4. f \in [1..N -> Int]
  <2>1. ASSUME NEW k \in 1..N PROVE f[k] \in Int
    <3>1. k - 1 \in Nat /\ (k - 1) + 1 = k
      BY <1>1
    <3>2. /\ Cardinality(Fibre(x, xy, Gt, k)) \in Nat
          /\ Cardinality(Fibre(x, xy, Eq, k)) \in Nat
      BY <1>3, <3>1
    <3> HIDE DEF f
    <3>3. QED
      BY <1>2, <3>2
  <2>2. QED
    BY <1>1, <2>1
<1> HIDE DEF f
<1>5. PICK sum \in [0..N -> Int] : /\ sum[0] = 0
                                   /\ \A k \in 1..N : sum[k] = sum[k - 1] + f[k]
                                   /\ Total(f, N) = sum[N]
  BY <1>1, <1>4, PartialSums
<1> DEFINE S == {m \in Nat : m <= N =>
                    sum[m] = 2 * Won(m) + Drawn(m) + m}
<1>6. 0 \in S
  <2>1. FirstMeet(x, xy, Gt, 0) = {} /\ FirstMeet(x, xy, Eq, 0) = {}
    BY <1>1 DEF FirstMeet, Meet
  <2>2. Won(0) = 0 /\ Drawn(0) = 0
    BY <2>1, FS_EmptySet
  <2> HIDE DEF Won, Drawn
  <2>3. QED
    BY <1>5, <2>2
<1>7. ASSUME NEW m \in Nat, m \in S PROVE m + 1 \in S
  <2>1. SUFFICES ASSUME m + 1 <= N
                 PROVE  sum[m + 1] = 2 * Won(m + 1) + Drawn(m + 1) + (m + 1)
    OBVIOUS
  <2>2. m + 1 \in 1..N /\ (m + 1) - 1 = m /\ m <= N
    BY <1>1, <2>1
  <2>3. sum[m + 1] = sum[m] + up(m + 1)
    BY <1>2, <1>5, <2>2
  <2> DEFINE w == Won(m)
             d == Drawn(m)
             c == Cardinality(Fibre(x, xy, Gt, m + 1))
             e == Cardinality(Fibre(x, xy, Eq, m + 1))
             ww == Won(m + 1)
             dd == Drawn(m + 1)
  <2>4. /\ sum[m + 1] = sum[m] + (2 * c + e + 1)
        /\ sum[m] = 2 * w + d + m
    BY <1>7, <2>2, <2>3
  <2>5. /\ w \in Nat /\ d \in Nat /\ c \in Nat /\ e \in Nat
        /\ ww = w + c /\ dd = d + e
    BY <1>3, <2>2
  <2>6. sum[m + 1] = 2 * ww + dd + (m + 1)
    <3> HIDE DEF w, d, c, e, ww, dd
    <3>1. QED
      BY <2>4, <2>5
  <2>7. QED
    BY <2>6
<1>8. N \in S
  <2> HIDE DEF S
  <2>1. QED
    BY <1>1, <1>6, <1>7, Induct
<1>9. FirstMeet(x, xy, Gt, N) = Meet(x, xy, Gt)
      /\ FirstMeet(x, xy, Eq, N) = Meet(x, xy, Eq)
  BY <1>1 DEF FirstMeet, Meet
<1>10. QED
  BY <1>1, <1>5, <1>8, <1>9 DEF xy, f, N

LEMMA UIsPairs ==
  ASSUME NEW x \in Seq(Int), NEW y \in Seq(Int)
  PROVE  DoubleU(x, y) = 2 * Cardinality(Meet(x, y, Gt))
                         + Cardinality(Meet(x, y, Eq))
<1>1. DoubleU(x, y) =
        2 * Cardinality(Meet(x, x \o y, Gt)) + Cardinality(Meet(x, x \o y, Eq))
        + Len(x) - Len(x) * (Len(x) + 1)
  <2> DEFINE total == Total([k \in DOMAIN x |-> DoubleRank(x \o y, k)], Len(x))
  <2>1. DoubleU(x, y) = total - Len(x) * (Len(x) + 1)
    BY DEF DoubleU
  <2>2. total =
          2 * Cardinality(Meet(x, x \o y, Gt)) + Cardinality(Meet(x, x \o y, Eq))
          + Len(x)
    BY RankSum
  <2>3. /\ Cardinality(Meet(x, x \o y, Gt)) \in Nat
        /\ Cardinality(Meet(x, x \o y, Eq)) \in Nat
        /\ Len(x) \in Nat /\ Len(x) * (Len(x) + 1) \in Nat
    <3>1. x \o y \in Seq(Int) /\ Len(x) \in Nat
      OBVIOUS
    <3>2. Len(x) * (Len(x) + 1) \in Nat
      BY <3>1
    <3>3. QED
      BY <3>1, <3>2, MeetFinite
  <2> HIDE DEF total
  <2>4. QED
    BY <2>1, <2>2, <2>3
<1>2. /\ Cardinality(Meet(x, x \o y, Gt)) =
           Cardinality(Meet(x, x, Gt)) + Cardinality(Meet(x, y, Gt))
      /\ Cardinality(Meet(x, x \o y, Eq)) =
           Cardinality(Meet(x, x, Eq)) + Cardinality(Meet(x, y, Eq))
  BY MeetConcat
<1>3. 2 * Cardinality(Meet(x, x, Gt)) + Cardinality(Meet(x, x, Eq))
        = Len(x) * Len(x)
  BY MeetSelf
<1>4. /\ Cardinality(Meet(x, x, Gt)) \in Nat /\ Cardinality(Meet(x, x, Eq)) \in Nat
      /\ Cardinality(Meet(x, y, Gt)) \in Nat /\ Cardinality(Meet(x, y, Eq)) \in Nat
      /\ Len(x) \in Nat
  BY MeetFinite
<1>5. Len(x) * (Len(x) + 1) = Len(x) * Len(x) + Len(x)
  BY <1>4
<1>6. QED
  BY <1>1, <1>2, <1>3, <1>4, <1>5

(* Computed from the average ranks of tied values, U is the number of pairs *)
(* the first sample wins, ties for half, for samples of any size.           *)
THEOREM UIsNumberOfPairs == Spec => []UCountsPairs
<1>1. InputsHeld => UCountsPairs
  <2> SUFFICES ASSUME InputsHeld PROVE UCountsPairs
    OBVIOUS
  <2>1. a \in Seq(Int) /\ b \in Seq(Int)
    BY DEF InputsHeld
  <2>2. /\ \A k \in DOMAIN a : a[k] \in Int
        /\ \A k \in DOMAIN b : b[k] \in Int
    BY <2>1
  <2>3. /\ Meet(a, b, Gt)
             = {p \in (DOMAIN a) \X (DOMAIN b) : a[p[1]] > b[p[2]]}
        /\ Meet(a, b, Eq)
             = {p \in (DOMAIN a) \X (DOMAIN b) : a[p[1]] = b[p[2]]}
    BY <2>2 DEF Meet, Gt, Eq
  <2>4. QED
    BY <2>1, <2>3, UIsPairs DEF UCountsPairs
<1>2. QED
  BY <1>1, InputsInvariant, PTL

-----------------------------------------------------------------------------
(* The tie term counts triples of equal values: t^3 of them to a block.     *)
Triples(s) ==
    {p \in ((DOMAIN s) \X (DOMAIN s)) \X (DOMAIN s) :
        s[p[1][1]] = s[p[1][2]] /\ s[p[1][2]] = s[p[2]]}

(* The positions in the blocks of the first m, and the triples there.       *)
Covered(s, m) == {k \in DOMAIN s : \E l \in DOMAIN s : l <= m /\ s[l] = s[k]}
CoveredTriples(s, m) == {p \in Triples(s) : p[2] \in Covered(s, m)}

LEMMA CubeSize ==
  ASSUME NEW S, IsFiniteSet(S)
  PROVE  /\ Cardinality(S) \in Nat
         /\ IsFiniteSet((S \X S) \X S)
         /\ Cardinality((S \X S) \X S)
              = Cardinality(S) * Cardinality(S) * Cardinality(S)
<1>1. /\ IsFiniteSet(S \X S)
      /\ Cardinality(S \X S) = Cardinality(S) * Cardinality(S)
  BY FS_Product
<1>2. /\ IsFiniteSet((S \X S) \X S)
      /\ Cardinality((S \X S) \X S) = Cardinality(S \X S) * Cardinality(S)
  BY <1>1, FS_Product
<1>3. QED
  BY <1>1, <1>2, FS_CardinalityType

LEMMA BlockAdds ==
  ASSUME NEW s \in Seq(Int), NEW m \in Nat, m + 1 \in DOMAIN s
  PROVE  /\ Cardinality(Covered(s, m)) \in Nat
         /\ Cardinality(CoveredTriples(s, m)) \in Nat
         /\ BlockTerm(s, m + 1) \in Int
         /\ Cardinality(CoveredTriples(s, m + 1)) - Cardinality(Covered(s, m + 1))
              = Cardinality(CoveredTriples(s, m)) - Cardinality(Covered(s, m))
                + BlockTerm(s, m + 1)
<1> DEFINE D == DOMAIN s
           B == {k \in D : s[k] = s[m + 1]}
           Cube == (B \X B) \X B
           C == Covered(s, m)
           R == CoveredTriples(s, m)
           t == Cardinality(B)
           first == ~\E l \in 1..m : s[l] = s[m + 1]
<1>1. /\ IsFiniteSet(D) /\ D = 1..Len(s) /\ Len(s) \in Nat /\ 1..m \subseteq D
  BY DomainFinite
<1>2. IsFiniteSet(B) /\ IsFiniteSet(C)
  BY <1>1, FS_Subset DEF Covered
<1>3. IsFiniteSet(R)
  <2>1. IsFiniteSet((D \X D) \X D)
    BY <1>1, CubeSize
  <2>2. R \in SUBSET ((D \X D) \X D)
    BY DEF CoveredTriples, Triples
  <2>3. QED
    BY <2>1, <2>2, FS_Subset
<1>4. /\ t \in Nat /\ IsFiniteSet(Cube) /\ Cardinality(Cube) = t * t * t
  BY <1>2, CubeSize
<1>5. BlockTerm(s, m + 1) = IF first THEN t * t * t - t ELSE 0
  <2>1. (m + 1) - 1 = m
    OBVIOUS
  <2>2. QED
    BY <2>1 DEF BlockTerm, Ties
<1>6. CASE ~first
  <2>1. Covered(s, m + 1) = C
    <3>1. ASSUME NEW k \in D, NEW l \in D, l <= m + 1, s[l] = s[k]
          PROVE  \E j \in D : j <= m /\ s[j] = s[k]
      BY <1>1, <1>6, <3>1
    <3>2. \A l \in D : l <= m => l <= m + 1
      BY <1>1
    <3>3. QED
      BY <3>1, <3>2 DEF Covered
  <2>2. CoveredTriples(s, m + 1) = R
    BY <2>1 DEF CoveredTriples
  <2>3. Cardinality(C) \in Nat /\ Cardinality(R) \in Nat
    BY <1>2, <1>3, FS_CardinalityType
  <2>4. QED
    BY <1>5, <1>6, <2>1, <2>2, <2>3
<1>7. CASE first
  <2>1. C \cap B = {} /\ C \cup B = Covered(s, m + 1)
    <3>1. ASSUME NEW k \in D
          PROVE  /\ ~(k \in C /\ k \in B)
                 /\ k \in Covered(s, m + 1) <=> k \in C \/ k \in B
      <4>1. ~(k \in C /\ k \in B)
        BY <1>1, <1>7 DEF Covered
      <4>2. ASSUME k \in Covered(s, m + 1) PROVE k \in C \/ k \in B
        BY <1>1, <4>2 DEF Covered
      <4>3. ASSUME k \in C PROVE k \in Covered(s, m + 1)
        BY <1>1, <4>3 DEF Covered
      <4>4. ASSUME k \in B PROVE k \in Covered(s, m + 1)
        BY <1>1, <4>4 DEF Covered
      <4>5. QED
        BY <4>1, <4>2, <4>3, <4>4
    <3>2. C \subseteq D /\ B \subseteq D /\ Covered(s, m + 1) \subseteq D
      BY DEF Covered
    <3> HIDE DEF C, B, D
    <3>3. QED
      BY <3>1, <3>2
  <2>2. R \cap Cube = {} /\ R \cup Cube = CoveredTriples(s, m + 1)
    <3>1. R \cap Cube = {}
      BY <2>1 DEF CoveredTriples
    <3>2. Cube \subseteq CoveredTriples(s, m + 1)
      <4>1. Cube \subseteq Triples(s)
        BY DEF Triples
      <4>2. \A p \in Cube : p[2] \in Covered(s, m + 1)
        BY <2>1
      <4>3. QED
        BY <4>1, <4>2 DEF CoveredTriples
    <3>3. R \subseteq CoveredTriples(s, m + 1)
      BY <2>1 DEF CoveredTriples
    <3>4. ASSUME NEW p \in CoveredTriples(s, m + 1), p \notin R PROVE p \in Cube
      <4>1. p \in Triples(s) /\ p[2] \in B
        BY <2>1, <3>4 DEF CoveredTriples
      <4>2. /\ p \in (D \X D) \X D
            /\ s[p[1][1]] = s[m + 1] /\ s[p[1][2]] = s[m + 1]
        BY <4>1 DEF Triples
      <4>3. QED
        BY <4>1, <4>2
    <3>5. QED
      BY <3>1, <3>2, <3>3, <3>4
  <2>3. /\ Cardinality(C) \in Nat
        /\ Cardinality(Covered(s, m + 1)) = Cardinality(C) + t
    BY <1>2, <2>1, DisjointUnion
  <2>4. /\ Cardinality(R) \in Nat
        /\ Cardinality(CoveredTriples(s, m + 1)) = Cardinality(R) + t * t * t
    <3> HIDE DEF R, Cube, t
    <3>1. QED
      BY <1>3, <1>4, <2>2, DisjointUnion
  <2>5. t * t * t \in Nat
    BY <1>4
  <2>6. BlockTerm(s, m + 1) = t * t * t - t
    BY <1>5, <1>7
  <2> DEFINE cube == t * t * t
  <2>7. QED
    <3>1. cube \in Nat
      BY <2>5
    <3> HIDE DEF cube, t, C, R
    <3>2. QED
      BY <1>4, <2>3, <2>4, <2>6, <3>1 DEF cube, C, R
<1>8. QED
  BY <1>6, <1>7

LEMMA TieTermCounts ==
  ASSUME NEW s \in Seq(Int)
  PROVE  /\ Cardinality(Triples(s)) \in Nat
         /\ TieTerm(s) = Cardinality(Triples(s)) - Len(s)
<1> DEFINE N == Len(s)
           f == [k \in DOMAIN s |-> BlockTerm(s, k)]
<1>1. /\ N \in Nat /\ DOMAIN s = 1..N
      /\ IsFiniteSet(DOMAIN s) /\ Cardinality(DOMAIN s) = N
  BY DomainFinite
<1>2. \A k \in 1..N : k - 1 \in Nat /\ (k - 1) + 1 = k
  BY <1>1
<1>3. f \in [1..N -> Int]
  BY <1>1, <1>2, BlockAdds
<1>4. \A k \in 1..N : f[k] = BlockTerm(s, k)
  BY <1>1
<1> HIDE DEF f, N
<1>5. PICK sum \in [0..N -> Int] : /\ sum[0] = 0
                                   /\ \A k \in 1..N : sum[k] = sum[k - 1] + f[k]
                                   /\ Total(f, N) = sum[N]
  BY <1>1, <1>3, PartialSums
<1> DEFINE S == {m \in Nat : m <= N =>
                    sum[m] = Cardinality(CoveredTriples(s, m))
                             - Cardinality(Covered(s, m))}
<1>6. 0 \in S
  <2>1. Covered(s, 0) = {}
    BY <1>1 DEF Covered
  <2>2. CoveredTriples(s, 0) = {}
    BY <2>1 DEF CoveredTriples
  <2>3. /\ Cardinality(CoveredTriples(s, 0)) = 0
        /\ Cardinality(Covered(s, 0)) = 0
    BY <2>1, <2>2, FS_EmptySet
  <2>4. QED
    BY <1>5, <2>3
<1>7. ASSUME NEW m \in Nat, m \in S PROVE m + 1 \in S
  <2>1. SUFFICES ASSUME m + 1 <= N
                 PROVE  sum[m + 1] = Cardinality(CoveredTriples(s, m + 1))
                                     - Cardinality(Covered(s, m + 1))
    OBVIOUS
  <2>2. m + 1 \in 1..N /\ (m + 1) - 1 = m /\ m <= N
    BY <1>1, <2>1
  <2>3. sum[m + 1] = sum[m] + BlockTerm(s, m + 1)
    BY <1>4, <1>5, <2>2
  <2>4. sum[m] = Cardinality(CoveredTriples(s, m)) - Cardinality(Covered(s, m))
    BY <1>7, <2>2
  <2>5. /\ BlockTerm(s, m + 1) \in Int
        /\ Cardinality(CoveredTriples(s, m)) \in Nat
        /\ Cardinality(Covered(s, m)) \in Nat
        /\ Cardinality(CoveredTriples(s, m + 1)) - Cardinality(Covered(s, m + 1))
             = Cardinality(CoveredTriples(s, m)) - Cardinality(Covered(s, m))
               + BlockTerm(s, m + 1)
    BY <1>1, <2>2, BlockAdds
  <2>6. QED
    BY <2>3, <2>4, <2>5
<1>8. N \in S
  <2> HIDE DEF S
  <2>1. QED
    BY <1>1, <1>6, <1>7, Induct
<1>9. Covered(s, N) = DOMAIN s
  BY <1>1 DEF Covered
<1>10. CoveredTriples(s, N) = Triples(s)
  BY <1>9 DEF CoveredTriples, Triples
<1>11. Cardinality(Triples(s)) \in Nat
  <2>1. IsFiniteSet(((DOMAIN s) \X (DOMAIN s)) \X (DOMAIN s))
    BY <1>1, CubeSize
  <2>2. Triples(s) \in SUBSET (((DOMAIN s) \X (DOMAIN s)) \X (DOMAIN s))
    BY DEF Triples
  <2>3. QED
    BY <2>1, <2>2, FS_Subset, FS_CardinalityType
<1>12. sum[N] = Cardinality(Triples(s)) - N
  BY <1>1, <1>8, <1>9, <1>10
<1>13. QED
  BY <1>5, <1>11, <1>12 DEF TieTerm, f, N

LEMMA TriplesOfAll ==
  ASSUME NEW s \in Seq(Int)
  PROVE  LET len == Len(s)
         IN  /\ Cardinality(Triples(s)) <= len * len * len
             /\ Cardinality(Triples(s)) = len * len * len
                  <=> \A k, l \in DOMAIN s : s[k] = s[l]
<1> DEFINE D == DOMAIN s
           All == (D \X D) \X D
<1>1. IsFiniteSet(D) /\ Cardinality(D) = Len(s) /\ Len(s) \in Nat
  BY DomainFinite
<1>2. IsFiniteSet(All) /\ Cardinality(All) = Len(s) * Len(s) * Len(s)
  BY <1>1, CubeSize
<1>3. Triples(s) \in SUBSET All
  BY DEF Triples
<1>4. /\ Cardinality(Triples(s)) <= Cardinality(All)
      /\ Cardinality(Triples(s)) = Cardinality(All) => Triples(s) = All
  BY <1>2, <1>3, FS_Subset
<1>5. ASSUME Triples(s) = All, NEW k \in D, NEW l \in D PROVE s[k] = s[l]
  <2>1. <<<<k, k>>, l>> \in Triples(s)
    BY <1>5
  <2>2. QED
    BY <2>1 DEF Triples
<1>6. (\A k, l \in D : s[k] = s[l]) => Triples(s) = All
  BY DEF Triples
<1> HIDE DEF All
<1>7. QED
  BY <1>2, <1>4, <1>5, <1>6

LEMMA PositiveProduct ==
  ASSUME NEW x \in Nat \ {0}, NEW y \in Nat
  PROVE  x * y \in Nat /\ (x * y = 0 <=> y = 0)
OBVIOUS

(* The variance that U is divided by is never negative, and is zero only    *)
(* when every value of both samples is the same, for samples of any size.   *)
THEOREM VarianceIsPositive == Spec => []VarianceZeroOnlyIfConstant
<1>1. InputsHeld => VarianceZeroOnlyIfConstant
  <2> SUFFICES ASSUME InputsHeld, a # <<>>, b # <<>>
               PROVE  LET all == a \o b
                      IN  /\ ScaledVariance(a, b) >= 0
                          /\ ScaledVariance(a, b) = 0
                               <=> \A k, l \in DOMAIN all : all[k] = all[l]
    BY DEF VarianceZeroOnlyIfConstant
  <2> DEFINE all == a \o b
             len == Len(all)
             cube == len * len * len
             triples == Cardinality(Triples(all))
             const == \A k, l \in DOMAIN all : all[k] = all[l]
             la == Len(a)
             lb == Len(b)
  <2>1. /\ all \in Seq(Int) /\ len \in Nat
        /\ la \in Nat \ {0} /\ lb \in Nat \ {0}
    BY DEF InputsHeld
  <2>2. triples <= cube /\ (triples = cube <=> const)
    <3> HIDE DEF all
    <3>1. QED
      BY <2>1, TriplesOfAll
  <2>3. triples \in Nat /\ TieTerm(all) = triples - len
    <3> HIDE DEF all
    <3>1. QED
      BY <2>1, TieTermCounts
  <2>4. ScaledVariance(a, b) = la * lb * ((len + 1) * len * (len - 1) - TieTerm(all))
    BY DEF ScaledVariance
  <2>5. (len + 1) * len * (len - 1) = cube - len /\ cube \in Nat
    <3> HIDE DEF all, len
    <3>1. (len + 1) * len * (len - 1) = len * len * len - len
      BY <2>1
    <3>2. len * len * len \in Nat
      BY <2>1
    <3>3. QED
      BY <3>1, <3>2
  <2> HIDE DEF all, len, cube, triples, const, la, lb
  <2>6. ScaledVariance(a, b) = la * lb * (cube - triples)
    <3>1. (cube - len) - (triples - len) = cube - triples
      BY <2>1, <2>3, <2>5
    <3>2. QED
      BY <2>3, <2>4, <2>5, <3>1
  <2>7. cube - triples \in Nat /\ (cube - triples = 0 <=> const)
    BY <2>2, <2>3, <2>5
  <2>8. la * lb \in Nat \ {0}
    BY <2>1, PositiveProduct
  <2>9. /\ (la * lb) * (cube - triples) \in Nat
        /\ (la * lb) * (cube - triples) = 0 <=> const
    BY <2>7, <2>8, PositiveProduct
  <2>10. QED
    BY <2>6, <2>9 DEF const, all
<1>2. QED
  BY <1>1, InputsInvariant, PTL

-----------------------------------------------------------------------------
(* The rows of a weights file that are kept for a run, and what each gives. *)
Kept(f, k, s, e) ==
    s <= f[k].ts /\ f[k].ts <= e /\ Len(f[k].weights) >= Columns
Read(f, k) == SubSeq(f[k].weights, 1, Columns)

LEMMA FirstColumns ==
  ASSUME NEW w \in Seq(Int), Len(w) >= Columns
  PROVE  SubSeq(w, 1, Columns) \in Seq(Int)
<1>1. Columns \in Nat /\ \A k \in 1..Columns : k \in 1..Len(w) /\ w[k] \in Int
  BY InputsAssumption
<1>2. SubSeq(w, 1, Columns) = [k \in 1..Columns |-> w[k]]
  BY <1>1
<1>3. QED
  BY <1>1, <1>2

(* read_weights_csv row by row.                                             *)
LEMMA RowByRow ==
  ASSUME NEW f \in Seq(Rows), NEW s \in Int, NEW e \in Int
  PROVE  \E rows :
            /\ rows[0] = <<>>
            /\ \A k \in 1..Len(f) :
                  rows[k] = IF Kept(f, k, s, e)
                            THEN Append(rows[k - 1], Read(f, k))
                            ELSE rows[k - 1]
            /\ \A k \in 0..Len(f) : rows[k] \in Seq(Seq(Int))
            /\ WeightRows(f, Columns, s, e) = rows[Len(f)]
<1> DEFINE N == Len(f)
           X == Seq(Seq(Int))
           Rec(g) == g = [k \in 0..N |->
                            IF k = 0 THEN <<>>
                            ELSE IF /\ s <= f[k].ts /\ f[k].ts <= e
                                    /\ Len(f[k].weights) >= Columns
                                 THEN Append(g[k - 1], SubSeq(f[k].weights, 1, Columns))
                                 ELSE g[k - 1]]
           step == [p \in (1..N) \X X |->
                      IF Kept(f, p[1], s, e) THEN Append(p[2], Read(f, p[1]))
                      ELSE p[2]]
           chosen == CHOOSE g : Rec(g)
<1>1. N \in Nat /\ \A k \in 1..N : f[k] \in Rows
  OBVIOUS
<1>2. \A k \in 1..N : Kept(f, k, s, e) => Read(f, k) \in Seq(Int)
  <2>1. ASSUME NEW k \in 1..N, Kept(f, k, s, e) PROVE Read(f, k) \in Seq(Int)
    <3>1. f[k].weights \in Seq(Int) /\ Len(f[k].weights) >= Columns
      BY <1>1, <2>1 DEF Rows, Kept
    <3>2. QED
      BY <3>1, FirstColumns DEF Read
  <2>2. QED
    BY <2>1
<1>3. StepOn(step, N, X) /\ <<>> \in X
  <2>1. ASSUME NEW k \in 1..N, NEW x \in X, Kept(f, k, s, e)
        PROVE  Append(x, Read(f, k)) \in X
    BY <1>2, <2>1
  <2>2. <<>> \in X
    OBVIOUS
  <2> HIDE DEF X
  <2>3. QED
    BY <2>1, <2>2 DEF StepOn
<1>4. PICK g : Follows(g, N, X, <<>>, step)
  <2> HIDE DEF step, X
  <2>1. QED
    BY <1>1, <1>3, Recursion
<1>5. g \in [0..N -> X] /\ g[0] = <<>>
  BY <1>4 DEF Follows
<1>6. \A k \in 1..N : k - 1 \in 0..N /\ k # 0
  BY <1>1
<1>7. \A k \in 1..N : g[k] = IF Kept(f, k, s, e)
                             THEN Append(g[k - 1], Read(f, k)) ELSE g[k - 1]
  <2> HIDE DEF X
  <2>1. QED
    BY <1>4, <1>5, <1>6 DEF Follows
<1>8. Rec(g)
  <2>1. ASSUME NEW k \in 0..N
        PROVE  g[k] = IF k = 0 THEN <<>>
                      ELSE IF /\ s <= f[k].ts /\ f[k].ts <= e
                              /\ Len(f[k].weights) >= Columns
                           THEN Append(g[k - 1], SubSeq(f[k].weights, 1, Columns))
                           ELSE g[k - 1]
    <3>1. CASE k = 0
      BY <1>5, <3>1
    <3>2. CASE k # 0
      <4>1. k \in 1..N
        BY <3>2
      <4>2. QED
        BY <1>7, <3>2, <4>1, Zenon DEF Kept, Read
    <3>3. QED
      BY <3>1, <3>2
  <2> HIDE DEF X
  <2>2. g = [k \in 0..N |-> g[k]]
    BY <1>5
  <2>3. QED
    BY <2>1, <2>2, Zenon
<1>9. Rec(chosen)
  BY <1>8, Zenon
<1>10. WeightRows(f, Columns, s, e) = chosen[N]
  BY DEF WeightRows
<1> HIDE DEF chosen
<1>11. /\ chosen = [k \in 0..N |->
                      IF k = 0 THEN <<>>
                      ELSE IF /\ s <= f[k].ts /\ f[k].ts <= e
                              /\ Len(f[k].weights) >= Columns
                           THEN Append(chosen[k - 1], SubSeq(f[k].weights, 1, Columns))
                           ELSE chosen[k - 1]]
  BY <1>9
<1>12. \A k \in 0..N :
          chosen[k] = IF k = 0 THEN <<>>
                      ELSE IF /\ s <= f[k].ts /\ f[k].ts <= e
                              /\ Len(f[k].weights) >= Columns
                           THEN Append(chosen[k - 1], SubSeq(f[k].weights, 1, Columns))
                           ELSE chosen[k - 1]
  BY <1>11, Zenon
<1>13. chosen[0] = <<>>
  <2>1. 0 \in 0..N
    BY <1>1
  <2>2. QED
    BY <1>12, <2>1
<1>14. \A k \in 1..N : chosen[k] = IF Kept(f, k, s, e)
                                   THEN Append(chosen[k - 1], Read(f, k))
                                   ELSE chosen[k - 1]
  <2>1. \A k \in 1..N : k \in 0..N /\ k # 0
    BY <1>1
  <2>2. QED
    BY <1>12, <2>1, Zenon DEF Kept, Read
<1>15. \A k \in 0..N : chosen[k] \in X
  <2> DEFINE set == {k \in Nat : k <= N => chosen[k] \in X}
  <2>1. 0 \in set
    BY <1>1, <1>3, <1>13
  <2>2. ASSUME NEW k \in Nat, k \in set PROVE k + 1 \in set
    <3> SUFFICES ASSUME k + 1 <= N PROVE chosen[k + 1] \in X
      OBVIOUS
    <3>1. k + 1 \in 1..N /\ (k + 1) - 1 = k /\ k + 1 \in 0..N /\ chosen[k] \in X
      BY <1>1, <2>2
    <3>2. CASE Kept(f, k + 1, s, e)
      <4>1. Read(f, k + 1) \in Seq(Int)
        BY <1>2, <3>1, <3>2
      <4>2. Append(chosen[k], Read(f, k + 1)) \in X
        BY <3>1, <4>1
      <4>3. QED
        BY <1>14, <3>1, <3>2, <4>2
    <3>3. CASE ~Kept(f, k + 1, s, e)
      BY <1>14, <3>1, <3>3
    <3>4. QED
      BY <3>2, <3>3
  <2> HIDE DEF set
  <2>3. \A k \in Nat : k \in set
    BY <2>1, <2>2, Induct
  <2>4. QED
    BY <1>1, <2>3 DEF set
<1>16. QED
  BY <1>10, <1>13, <1>14, <1>15, Zenon

(* One row more adds at most one change, to the rows read and to the file's.*)
LEMMA CountAppend ==
  ASSUME NEW r \in Seq(Seq(Int)), NEW v \in Seq(Int)
  PROVE  /\ CountWeightChanges(r) \in Nat
         /\ CountWeightChanges(Append(r, v)) =
              CountWeightChanges(r)
                + (IF r # <<>> /\ r[Len(r)] # v THEN 1 ELSE 0)
<1> DEFINE len == Len(r)
           more == Append(r, v)
           A == {k \in DOMAIN r : k > 1 /\ r[k] # r[k - 1]}
           B == {k \in DOMAIN more : k > 1 /\ more[k] # more[k - 1]}
<1>1. /\ len \in Nat /\ DOMAIN r = 1..len /\ DOMAIN more = 1..(len + 1)
      /\ more[len + 1] = v /\ \A k \in 1..len : more[k] = r[k]
      /\ r # <<>> <=> len > 0
  OBVIOUS
<1>2. IsFiniteSet(A) /\ Cardinality(A) \in Nat /\ len + 1 \notin A
  <2>1. IsFiniteSet(1..len)
    BY <1>1, FS_Interval
  <2>2. A \in SUBSET (1..len) /\ len + 1 \notin A
    BY <1>1
  <2>3. QED
    BY <2>1, <2>2, FS_Subset, FS_CardinalityType
<1>3. \A k \in 1..len : k \in B <=> k \in A
  <2>1. \A k \in 1..len : k > 1 => k - 1 \in 1..len
    BY <1>1
  <2> HIDE DEF more, len
  <2>2. \A k \in 1..len : k > 1 => more[k] = r[k] /\ more[k - 1] = r[k - 1]
    BY <1>1, <2>1
  <2>3. \A k \in 1..len : k \in 1..(len + 1)
    BY <1>1
  <2>4. QED
    BY <1>1, <2>2, <2>3
<1>4. len + 1 \in B <=> (r # <<>> /\ r[len] # v)
  <2>1. CASE len = 0
    BY <1>1, <2>1
  <2>2. CASE len > 0
    <3>1. (len + 1) - 1 = len /\ len \in 1..len /\ len + 1 \in 1..(len + 1)
          /\ len + 1 > 1
      BY <1>1, <2>2
    <3>2. more[len] = r[len] /\ r # <<>>
      BY <1>1, <2>2, <3>1
    <3> HIDE DEF more, len
    <3>3. QED
      BY <1>1, <3>1, <3>2
  <2>3. QED
    BY <1>1, <2>1, <2>2
<1>5. B = IF r # <<>> /\ r[len] # v THEN A \cup {len + 1} ELSE A
  <2>1. \A k \in B : k \in 1..len \/ k = len + 1
    BY <1>1
  <2>2. \A k \in A : k \in 1..len
    BY <1>1
  <2> HIDE DEF A, B, more, len
  <2>3. CASE r # <<>> /\ r[len] # v
    <3>1. len + 1 \in B
      BY <1>4, <2>3
    <3>2. B = A \cup {len + 1}
      BY <1>3, <2>1, <2>2, <3>1
    <3>3. QED
      BY <2>3, <3>2, Zenon
  <2>4. CASE ~(r # <<>> /\ r[len] # v)
    <3>1. len + 1 \notin B
      BY <1>4, <2>4
    <3>2. B = A
      BY <1>3, <2>1, <2>2, <3>1
    <3>3. QED
      BY <2>4, <3>2, Zenon
  <2>5. QED
    BY <2>3, <2>4, Zenon
<1>6. Cardinality(A \cup {len + 1}) = Cardinality(A) + 1
  BY <1>2, FS_AddElement
<1>7. CountWeightChanges(r) = Cardinality(A) /\ CountWeightChanges(more) = Cardinality(B)
  BY DEF CountWeightChanges
<1> HIDE DEF A, B, more
<1>8. QED
  BY <1>2, <1>5, <1>6, <1>7 DEF len, more

ChangedAt(f, s, e, k) ==
    /\ k > 1 /\ f[k].weights # f[k - 1].weights
    /\ s <= f[k].ts /\ f[k].ts <= e
ChangesUpto(f, s, e, m) == {k \in 1..m : ChangedAt(f, s, e, k)}

LEMMA ChangesAdd ==
  ASSUME NEW f, NEW s, NEW e, NEW m \in Nat
  PROVE  /\ Cardinality(ChangesUpto(f, s, e, m)) \in Nat
         /\ Cardinality(ChangesUpto(f, s, e, m + 1)) =
              Cardinality(ChangesUpto(f, s, e, m))
                + (IF ChangedAt(f, s, e, m + 1) THEN 1 ELSE 0)
<1> DEFINE A == ChangesUpto(f, s, e, m)
           B == ChangesUpto(f, s, e, m + 1)
<1>1. IsFiniteSet(A) /\ Cardinality(A) \in Nat /\ m + 1 \notin A
  <2>1. IsFiniteSet(1..m)
    BY FS_Interval
  <2>2. A \in SUBSET (1..m) /\ m + 1 \notin A
    BY DEF ChangesUpto
  <2>3. QED
    BY <2>1, <2>2, FS_Subset, FS_CardinalityType
<1>2. B = IF ChangedAt(f, s, e, m + 1) THEN A \cup {m + 1} ELSE A
  <2>1. 1..(m + 1) = (1..m) \cup {m + 1}
    OBVIOUS
  <2>2. QED
    BY <2>1, Zenon DEF ChangesUpto
<1>3. Cardinality(A \cup {m + 1}) = Cardinality(A) + 1
  BY <1>1, FS_AddElement
<1> HIDE DEF A, B
<1>4. QED
  BY <1>1, <1>2, <1>3 DEF A, B

(* What is known of r, the rows read of the file's first m: if there are    *)
(* any, the m-th row is not before the window; a row that is kept is the    *)
(* last of them; a change that is counted is one of the file, and the file  *)
(* is one ahead while its last row was too short to be read; and if no row  *)
(* is, the file is ahead by the change to the first row read at most.       *)
Short(f, e, m, r) == r # <<>> /\ f[m].ts <= e /\ ~(Len(f[m].weights) >= Columns)

Tracks(f, s, e, m, r) ==
    LET counted == CountWeightChanges(r)
        changes == Cardinality(ChangesUpto(f, s, e, m))
    IN  /\ r # <<>> => m >= 1 /\ s <= f[m].ts
        /\ m >= 1 /\ Kept(f, m, s, e) => r # <<>> /\ r[Len(r)] = Read(f, m)
        /\ counted + (IF Short(f, e, m, r) THEN 1 ELSE 0) <= changes
        /\ (\A k \in DOMAIN f : Len(f[k].weights) = Columns) =>
              /\ r = <<>> => changes = 0
              /\ changes <= counted + 1

LEMMA TracksFirst ==
  ASSUME NEW f \in Seq(Rows), NEW s \in Int, NEW e \in Int
  PROVE  Tracks(f, s, e, 0, <<>>)
<1>1. ChangesUpto(f, s, e, 0) = {}
  BY DEF ChangesUpto
<1>2. {k \in DOMAIN <<>> : k > 1 /\ (<<>>)[k] # (<<>>)[k - 1]} = {}
  OBVIOUS
<1>3. CountWeightChanges(<<>>) = 0 /\ Cardinality(ChangesUpto(f, s, e, 0)) = 0
  BY <1>1, <1>2, FS_EmptySet, Zenon DEF CountWeightChanges
<1>4. QED
  BY <1>3 DEF Tracks, Short

LEMMA TracksStep ==
  ASSUME NEW f \in Seq(Rows), NEW s \in Int, NEW e \in Int,
         \A k, l \in DOMAIN f : k <= l => f[k].ts <= f[l].ts,
         NEW m \in Nat, m + 1 <= Len(f),
         NEW r \in Seq(Seq(Int)), Tracks(f, s, e, m, r)
  PROVE  Tracks(f, s, e, m + 1,
                IF Kept(f, m + 1, s, e) THEN Append(r, Read(f, m + 1)) ELSE r)
<1> DEFINE kept == Kept(f, m + 1, s, e)
           read == Read(f, m + 1)
           next == IF kept THEN Append(r, read) ELSE r
           c == CountWeightChanges(r)
           c2 == CountWeightChanges(next)
           d == Cardinality(ChangesUpto(f, s, e, m))
           d2 == Cardinality(ChangesUpto(f, s, e, m + 1))
           changed == ChangedAt(f, s, e, m + 1)
           whole == \A k \in DOMAIN f : Len(f[k].weights) = Columns
           t == f[m].ts
           t2 == f[m + 1].ts
           w == f[m].weights
           w2 == f[m + 1].weights
           last == r[Len(r)]
<1>1. /\ Len(f) \in Nat /\ DOMAIN f = 1..Len(f)
      /\ m + 1 \in DOMAIN f /\ f[m + 1] \in Rows
      /\ m >= 1 => m \in DOMAIN f /\ f[m] \in Rows
  OBVIOUS
<1>2. /\ t2 \in Int /\ w2 \in Seq(Int) /\ Len(w2) \in Nat
      /\ m >= 1 => t \in Int /\ w \in Seq(Int) /\ Len(w) \in Nat /\ t <= t2
  <2>1. m >= 1 => t <= t2
    BY <1>1
  <2>2. \A x \in Seq(Int) : Len(x) \in Nat
    OBVIOUS
  <2>3. QED
    BY <1>1, <2>1, <2>2 DEF Rows
<1>3. kept => read \in Seq(Int)
  <2>1. kept => Len(w2) >= Columns
    BY DEF Kept
  <2>2. QED
    BY <1>2, <2>1, FirstColumns DEF Read
<1>4. /\ c \in Nat
      /\ kept => c2 = c + (IF r # <<>> /\ last # read THEN 1 ELSE 0)
      /\ ~kept => c2 = c
  <2>1. kept => CountWeightChanges(Append(r, read)) =
                  c + (IF r # <<>> /\ last # read THEN 1 ELSE 0)
    BY <1>3, CountAppend
  <2>2. c \in Nat
    BY CountAppend, <<>> \in Seq(Int)
  <2>3. QED
    BY <2>1, <2>2
<1>5. /\ d \in Nat /\ d2 \in Nat
      /\ d2 = d + (IF changed THEN 1 ELSE 0)
  BY ChangesAdd, m + 1 \in Nat
<1>6. kept => next # <<>> /\ next[Len(next)] = read
  <2>1. \A v \in Seq(Int) : /\ Append(r, v) # <<>>
                            /\ Append(r, v)[Len(Append(r, v))] = v
    <3>1. ASSUME NEW v \in Seq(Int)
          PROVE  Append(r, v) # <<>> /\ Append(r, v)[Len(Append(r, v))] = v
      <4> DEFINE X == Seq(Int)
      <4>1. r \in Seq(X) /\ v \in X
        OBVIOUS
      <4> HIDE DEF X
      <4>2. Len(Append(r, v)) = Len(r) + 1 /\ Len(r) \in Nat
        BY <4>1
      <4>3. Append(r, v)[Len(r) + 1] = v
        BY <4>1
      <4>4. Len(<<>>) = 0 /\ 0 # Len(r) + 1
        BY <4>2
      <4>5. QED
        BY <4>2, <4>3, <4>4, Zenon
    <3>2. QED
      BY <3>1
  <2>2. QED
    BY <1>3, <2>1
<1>7. /\ r # <<>> => m >= 1 /\ s <= t
      /\ m >= 1 /\ Kept(f, m, s, e) => r # <<>> /\ last = Read(f, m)
      /\ c + (IF Short(f, e, m, r) THEN 1 ELSE 0) <= d
      /\ whole => (r = <<>> => d = 0) /\ d <= c + 1
  BY DEF Tracks
(* Two rows that are read differently are different.                        *)
<1>8. m >= 1 /\ Read(f, m) # read => w # w2
  BY DEF Read
<1>9. (m + 1) - 1 = m /\ m + 1 >= 1
  OBVIOUS
<1>10. changed <=> m >= 1 /\ w2 # w /\ s <= t2 /\ t2 <= e
  <2>1. m + 1 > 1 <=> m >= 1
    OBVIOUS
  <2>2. QED
    BY <1>9, <2>1, Zenon DEF ChangedAt
<1>11. kept <=> s <= t2 /\ t2 <= e /\ Len(w2) >= Columns
  BY DEF Kept
(* A row in the window after one that is read: the one before it is in the  *)
(* window too, and was either read or too short.                            *)
<1>12. ASSUME r # <<>>, t2 <= e
       PROVE  /\ m >= 1 /\ s <= t2
              /\ \/ Len(w) >= Columns /\ last = Read(f, m)
                 \/ ~(Len(w) >= Columns) /\ Short(f, e, m, r)
  <2>1. m >= 1 /\ s <= t
    BY <1>7, <1>12
  <2>2. t <= e /\ s <= t2
    BY <1>2, <1>12, <2>1
  <2>3. Len(w) >= Columns => Kept(f, m, s, e)
    BY <2>1, <2>2 DEF Kept
  <2>4. QED
    BY <1>7, <1>12, <2>1, <2>2, <2>3, Zenon DEF Short
<1>13. next # <<>> => s <= t2
  BY <1>2, <1>7, <1>11
<1>14. c2 + (IF Short(f, e, m + 1, next) THEN 1 ELSE 0) <= d2
  <2>1. CASE kept
    <3>1. ~Short(f, e, m + 1, next)
      BY <1>11, <2>1 DEF Short
    <3>2. CASE r # <<>> /\ last # read
      <4>1. t2 <= e /\ s <= t2
        BY <1>11, <2>1
      <4>2. m >= 1 /\ (Short(f, e, m, r) \/ last = Read(f, m))
        BY <1>12, <3>2, <4>1
      <4>3. Short(f, e, m, r) \/ changed
        BY <1>8, <1>10, <3>2, <4>1, <4>2
      <4> HIDE DEF kept, read, next, c, c2, d, d2, changed, last
      <4>4. c2 = c + 1
        BY <1>4, <2>1, <3>2
      <4>5. QED
        BY <1>4, <1>5, <1>7, <3>1, <4>3, <4>4
    <3>3. CASE ~(r # <<>> /\ last # read)
      <4> HIDE DEF kept, read, next, c, c2, d, d2, changed, last
      <4>1. c2 = c
        BY <1>4, <2>1, <3>3
      <4>2. QED
        BY <1>4, <1>5, <1>7, <3>1, <4>1
    <3>4. QED
      BY <3>2, <3>3
  <2>2. CASE ~kept
    <3>1. next = r /\ c2 = c
      BY <1>4, <2>2
    <3>2. CASE Short(f, e, m + 1, next)
      <4>1. r # <<>> /\ t2 <= e /\ ~(Len(w2) >= Columns)
        BY <3>1, <3>2 DEF Short
      <4>2. Short(f, e, m, r) \/ (m >= 1 /\ Len(w) >= Columns /\ s <= t2)
        BY <1>12, <4>1
      <4>3. Short(f, e, m, r) \/ changed
        BY <1>10, <4>1, <4>2
      <4> HIDE DEF kept, read, next, c, c2, d, d2, changed, last
      <4>4. QED
        BY <1>4, <1>5, <1>7, <3>1, <3>2, <4>3
    <3>3. CASE ~Short(f, e, m + 1, next)
      <4> HIDE DEF kept, read, next, c, c2, d, d2, changed, last
      <4>1. QED
        BY <1>4, <1>5, <1>7, <3>1, <3>3
    <3>4. QED
      BY <3>2, <3>3
  <2>3. QED
    BY <2>1, <2>2
<1>15. ASSUME whole
       PROVE  (next = <<>> => d2 = 0) /\ d2 <= c2 + 1
  <2>1. Len(w2) = Columns /\ (m >= 1 => Len(w) = Columns)
    BY <1>1, <1>15
  <2>2. Len(w2) >= Columns /\ (m >= 1 => Len(w) >= Columns)
    <3>1. \A i \in Nat : i = Columns => i >= Columns
      BY InputsAssumption
    <3> HIDE DEF w, w2
    <3>2. QED
      BY <1>2, <2>1, <3>1, Zenon
  <2>3. changed => kept
    BY <1>10, <1>11, <2>2
  <2>4. /\ read = w2
        /\ m >= 1 => Read(f, m) = w
    <3>1. \A x \in Seq(Int) : SubSeq(x, 1, Len(x)) = x
      OBVIOUS
    <3>2. QED
      BY <1>2, <2>1, <3>1, Zenon DEF Read
  <2>5. CASE kept
    <3>1. next # <<>>
      BY <1>6, <2>5
    <3>2. r # <<>> /\ changed => last # read
      BY <1>10, <1>11, <1>12, <2>2, <2>4, <2>5
    <3>3. (r = <<>> => d = 0) /\ d <= c + 1
      BY <1>7, <1>15
    <3> HIDE DEF kept, read, next, c, c2, d, d2, changed, last, whole
    <3>4. QED
      BY <1>4, <1>5, <2>5, <3>1, <3>2, <3>3
  <2>6. CASE ~kept
    <3>1. next = r /\ c2 = c /\ ~changed
      BY <1>4, <2>3, <2>6
    <3>2. (r = <<>> => d = 0) /\ d <= c + 1
      BY <1>7, <1>15
    <3> HIDE DEF kept, read, next, c, c2, d, d2, changed, last, whole
    <3>3. QED
      BY <1>5, <3>1, <3>2
  <2>7. QED
    BY <2>5, <2>6
<1>16. QED
  <2> HIDE DEF next, kept, read
  <2>1. next # <<>> => m + 1 >= 1 /\ s <= f[m + 1].ts
    BY <1>9, <1>13
  <2>2. m + 1 >= 1 /\ Kept(f, m + 1, s, e) => next # <<>> /\ next[Len(next)] = Read(f, m + 1)
    BY <1>6 DEF kept, read
  <2>3. Tracks(f, s, e, m + 1, next)
    BY <1>14, <1>15, <2>1, <2>2, Zenon DEF Tracks
  <2>4. QED
    BY <2>3 DEF next, kept, read

(* "Undercounts by at most one per algorithm per run": on every weights     *)
(* file in order of time and every window, CountWeightChanges of what       *)
(* read_weights_csv keeps is no more than the file's changes, and one less  *)
(* at most if all rows are of the header's pool.                            *)
THEOREM ChangesCounted == Spec => []UndercountsByOne
<1>1. ASSUME InputsHeld PROVE UndercountsByOne
  <2>1. ASSUME NEW s \in 0..MaxTime, NEW e \in 0..MaxTime
        PROVE  LET changes == {k \in DOMAIN file :
                                 /\ k > 1 /\ file[k].weights # file[k - 1].weights
                                 /\ s <= file[k].ts /\ file[k].ts <= e}
                   counted == CountWeightChanges(WeightRows(file, Columns, s, e))
               IN  /\ counted <= Cardinality(changes)
                   /\ (\A k \in DOMAIN file : Len(file[k].weights) = Columns)
                         => counted >= Cardinality(changes) - 1
    <3> DEFINE N == Len(file)
    <3>1. /\ file \in Seq(Rows) /\ N \in Nat /\ DOMAIN file = 1..N
          /\ s \in Int /\ e \in Int
          /\ \A k, l \in DOMAIN file : k <= l => file[k].ts <= file[l].ts
      BY <1>1, InputsAssumption DEF InputsHeld
    <3>2. PICK rows :
            /\ rows[0] = <<>>
            /\ \A k \in 1..N : rows[k] = IF Kept(file, k, s, e)
                                         THEN Append(rows[k - 1], Read(file, k))
                                         ELSE rows[k - 1]
            /\ \A k \in 0..N : rows[k] \in Seq(Seq(Int))
            /\ WeightRows(file, Columns, s, e) = rows[N]
      BY <3>1, RowByRow
    <3> DEFINE S == {m \in Nat : m <= N => Tracks(file, s, e, m, rows[m])}
    <3>3. 0 \in S
      BY <3>1, <3>2, TracksFirst
    <3>4. ASSUME NEW m \in Nat, m \in S PROVE m + 1 \in S
      <4> SUFFICES ASSUME m + 1 <= N PROVE Tracks(file, s, e, m + 1, rows[m + 1])
        OBVIOUS
      <4>1. m \in 0..N /\ m + 1 \in 1..N /\ (m + 1) - 1 = m
        BY <3>1
      <4>2. Tracks(file, s, e, m, rows[m]) /\ rows[m] \in Seq(Seq(Int))
        BY <3>2, <3>4, <4>1
      <4>3. Tracks(file, s, e, m + 1,
                   IF Kept(file, m + 1, s, e)
                   THEN Append(rows[m], Read(file, m + 1)) ELSE rows[m])
        <5> DEFINE r == rows[m]
        <5> HIDE DEF r
        <5>1. m + 1 <= Len(file)
          OBVIOUS
        <5>2. QED
          BY <3>1, <4>2, <5>1, TracksStep DEF r
      <4>4. QED
        BY <3>2, <4>1, <4>3
    <3> HIDE DEF S
    <3>5. \A m \in Nat : m \in S
      BY <3>3, <3>4, Induct
    <3>6. Tracks(file, s, e, N, rows[N])
      BY <3>1, <3>5 DEF S
    <3> DEFINE c == CountWeightChanges(rows[N])
               d == Cardinality(ChangesUpto(file, s, e, N))
               whole == \A k \in DOMAIN file : Len(file[k].weights) = Columns
    <3>7. c \in Nat /\ d \in Nat
      <4>1. rows[N] \in Seq(Seq(Int))
        BY <3>1, <3>2
      <4>2. QED
        BY <3>1, <4>1, CountAppend, ChangesAdd, <<>> \in Seq(Int)
    <3>8. /\ c + (IF Short(file, e, N, rows[N]) THEN 1 ELSE 0) <= d
          /\ whole => d <= c + 1
      BY <3>6 DEF Tracks
    <3>9. {k \in DOMAIN file :
             /\ k > 1 /\ file[k].weights # file[k - 1].weights
             /\ s <= file[k].ts /\ file[k].ts <= e} = ChangesUpto(file, s, e, N)
      BY <3>1, Zenon DEF ChangesUpto, ChangedAt
    <3>10. c <= d /\ (whole => c >= d - 1)
      <4> HIDE DEF c, d, whole
      <4>1. QED
        BY <3>7, <3>8
    <3>11. QED
      BY <3>2, <3>9, <3>10, Zenon
  <2>2. QED
    BY <2>1 DEF UndercountsByOne
<1>2. QED
  BY <1>1, InputsInvariant, PTL

-----------------------------------------------------------------------------
(* What Only selects: the elements at an increasing sequence of positions,  *)
(* and there is one such sequence only.                                     *)
Enumerates(p, len, K) ==
    /\ len \in Nat
    /\ p \in [1..len -> K]
    /\ \A i, j \in 1..len : i < j => p[i] < p[j]
    /\ \A k \in K : \E i \in 1..len : p[i] = k

Along(s, p, len) == [i \in 1..len |-> s[p[i]]]
Picks(x, s, K) == \E len, p : Enumerates(p, len, K) /\ x = Along(s, p, len)

LEMMA EnumeratesNext ==
  ASSUME NEW K, K \subseteq Nat, NEW p, NEW q, NEW l, NEW m,
         Enumerates(p, l, K), Enumerates(q, m, K),
         NEW i \in Nat, i + 1 <= l, i + 1 <= m,
         \A j \in 1..i : p[j] = q[j]
  PROVE  q[i + 1] <= p[i + 1]
<1> USE DEF Enumerates
<1>1. i + 1 \in 1..l /\ i + 1 \in 1..m /\ l \in Nat /\ m \in Nat
  OBVIOUS
<1>2. p[i + 1] \in K /\ p[i + 1] \in Nat
  BY <1>1
<1>3. PICK j \in 1..m : q[j] = p[i + 1]
  BY <1>2
<1>4. q[j] \in Nat /\ q[i + 1] \in Nat
  BY <1>1, <1>3
<1>5. CASE j <= i
  <2>1. j \in 1..l /\ j < i + 1 /\ p[j] = q[j]
    BY <1>1, <1>5
  <2>2. p[j] < p[i + 1]
    BY <1>1, <2>1
  <2>3. QED
    BY <1>2, <1>3, <2>1, <2>2
<1>6. CASE j = i + 1
  BY <1>3, <1>4, <1>6
<1>7. CASE j > i + 1
  <2>1. q[i + 1] < q[j]
    BY <1>1, <1>7
  <2>2. QED
    BY <1>3, <1>4, <2>1
<1>8. QED
  BY <1>1, <1>5, <1>6, <1>7

LEMMA EnumeratesShorter ==
  ASSUME NEW K, K \subseteq Nat, NEW p, NEW q, NEW l, NEW m,
         Enumerates(p, l, K), Enumerates(q, m, K),
         \A j \in 1..l : j <= m => p[j] = q[j]
  PROVE  m <= l
<1> USE DEF Enumerates
<1>1. SUFFICES ASSUME l < m PROVE FALSE
  OBVIOUS
<1>2. l + 1 \in 1..m /\ q[l + 1] \in K
  BY <1>1
<1>3. PICK j \in 1..l : p[j] = q[l + 1]
  BY <1>2
<1>4. j \in 1..m /\ j < l + 1 /\ p[j] = q[j]
  BY <1>1, <1>3
<1>5. q[j] < q[l + 1] /\ q[j] \in Nat
  BY <1>2, <1>4
<1>6. QED
  BY <1>3, <1>4, <1>5

LEMMA EnumeratesOnce ==
  ASSUME NEW K, K \subseteq Nat, NEW p, NEW q, NEW l, NEW m,
         Enumerates(p, l, K), Enumerates(q, m, K)
  PROVE  l = m /\ p = q
<1> DEFINE S == {i \in Nat : \A j \in 1..i : j <= l /\ j <= m => p[j] = q[j]}
<1>1. l \in Nat /\ m \in Nat /\ p \in [1..l -> K] /\ q \in [1..m -> K]
  BY DEF Enumerates
<1>2. 0 \in S
  OBVIOUS
<1>3. ASSUME NEW i \in Nat, i \in S PROVE i + 1 \in S
  <2>1. \A j \in 1..i : j <= l /\ j <= m => p[j] = q[j]
    BY <1>3
  <2>2. ASSUME i + 1 <= l, i + 1 <= m PROVE p[i + 1] = q[i + 1]
    <3>1. \A j \in 1..i : p[j] = q[j] /\ q[j] = p[j]
      BY <1>1, <2>1, <2>2
    <3>2. q[i + 1] <= p[i + 1]
      BY <2>2, <3>1, EnumeratesNext
    <3>3. p[i + 1] <= q[i + 1]
      BY <2>2, <3>1, EnumeratesNext
    <3>4. p[i + 1] \in Nat /\ q[i + 1] \in Nat
      <4>1. i + 1 \in 1..l /\ i + 1 \in 1..m
        BY <1>1, <2>2
      <4>2. QED
        BY <1>1, <4>1
    <3>5. QED
      BY <3>2, <3>3, <3>4
  <2>3. \A j \in 1..(i + 1) : j \in 1..i \/ j = i + 1
    OBVIOUS
  <2>4. QED
    BY <2>1, <2>2, <2>3
<1> HIDE DEF S
<1>4. \A i \in Nat : i \in S
  BY <1>2, <1>3, Induct
<1>5. \A j \in 1..l : j <= m => p[j] = q[j]
  BY <1>1, <1>4 DEF S
<1>6. \A j \in 1..m : j <= l => q[j] = p[j]
  BY <1>1, <1>5
<1>7. m <= l /\ l <= m
  BY <1>5, <1>6, EnumeratesShorter
<1>8. l = m
  BY <1>1, <1>7
<1>9. QED
  BY <1>1, <1>5, <1>8

LEMMA OnlyByElement ==
  ASSUME NEW X, NEW s \in Seq(X), NEW S
  PROVE  \E some :
            /\ some[0] = <<>>
            /\ \A k \in 1..Len(s) : some[k] = IF s[k] \in S
                                              THEN Append(some[k - 1], s[k])
                                              ELSE some[k - 1]
            /\ Only(s, S) = some[Len(s)]
<1> DEFINE N == Len(s)
           Y == Seq(X)
           Rec(g) == g = [k \in 0..N |->
                            IF k = 0 THEN <<>>
                            ELSE IF s[k] \in S THEN Append(g[k - 1], s[k])
                                 ELSE g[k - 1]]
           step == [p \in (1..N) \X Y |->
                      IF s[p[1]] \in S THEN Append(p[2], s[p[1]]) ELSE p[2]]
           chosen == CHOOSE g : Rec(g)
<1>1. N \in Nat /\ \A k \in 1..N : s[k] \in X
  OBVIOUS
<1>2. StepOn(step, N, Y) /\ <<>> \in Y
  <2>1. <<>> \in Y /\ \A x \in X, y \in Y : Append(y, x) \in Y
    OBVIOUS
  <2> HIDE DEF Y
  <2>2. QED
    BY <1>1, <2>1 DEF StepOn
<1>3. PICK g : Follows(g, N, Y, <<>>, step)
  <2> HIDE DEF step, Y
  <2>1. QED
    BY <1>1, <1>2, Recursion
<1>4. g \in [0..N -> Y] /\ g[0] = <<>>
  BY <1>3 DEF Follows
<1>5. \A k \in 1..N : k - 1 \in 0..N /\ k # 0 /\ k \in 0..N
  BY <1>1
<1>6. \A k \in 1..N : g[k] = IF s[k] \in S THEN Append(g[k - 1], s[k])
                             ELSE g[k - 1]
  <2> HIDE DEF Y
  <2>1. QED
    BY <1>3, <1>4, <1>5 DEF Follows
<1>7. Rec(g)
  <2>1. ASSUME NEW k \in 0..N
        PROVE  g[k] = IF k = 0 THEN <<>>
                      ELSE IF s[k] \in S THEN Append(g[k - 1], s[k]) ELSE g[k - 1]
    <3>1. CASE k = 0
      BY <1>4, <3>1
    <3>2. CASE k # 0
      <4>1. k \in 1..N
        BY <3>2
      <4>2. QED
        BY <1>6, <3>2, <4>1, Zenon
    <3>3. QED
      BY <3>1, <3>2
  <2> HIDE DEF Y
  <2>2. g = [k \in 0..N |-> g[k]]
    BY <1>4
  <2>3. QED
    BY <2>1, <2>2, Zenon
<1>8. Rec(chosen)
  BY <1>7, Zenon
<1>9. Only(s, S) = chosen[N]
  BY DEF Only
<1> HIDE DEF chosen
<1>10. \A k \in 0..N :
          chosen[k] = IF k = 0 THEN <<>>
                      ELSE IF s[k] \in S THEN Append(chosen[k - 1], s[k])
                           ELSE chosen[k - 1]
  <2>1. chosen = [k \in 0..N |->
                    IF k = 0 THEN <<>>
                    ELSE IF s[k] \in S THEN Append(chosen[k - 1], s[k])
                         ELSE chosen[k - 1]]
    BY <1>8
  <2>2. QED
    BY <2>1, Zenon
<1>11. chosen[0] = <<>>
  <2>1. 0 \in 0..N
    BY <1>1
  <2>2. QED
    BY <1>10, <2>1
<1>12. \A k \in 1..N : chosen[k] = IF s[k] \in S THEN Append(chosen[k - 1], s[k])
                                   ELSE chosen[k - 1]
  BY <1>5, <1>10, Zenon
<1>13. QED
  BY <1>9, <1>11, <1>12, Zenon

LEMMA OnlyPositions ==
  ASSUME NEW X, NEW s \in Seq(X), NEW S
  PROVE  Picks(Only(s, S), s, {k \in DOMAIN s : s[k] \in S})
<1> DEFINE N == Len(s)
           K(m) == {k \in 1..m : s[k] \in S}
<1>1. PICK some : /\ some[0] = <<>>
                  /\ \A k \in 1..N : some[k] = IF s[k] \in S
                                               THEN Append(some[k - 1], s[k])
                                               ELSE some[k - 1]
                  /\ Only(s, S) = some[N]
  BY OnlyByElement
<1>2. N \in Nat /\ DOMAIN s = 1..N /\ \A k \in 1..N : s[k] \in X
  OBVIOUS
<1> DEFINE T == {m \in Nat : m <= N => Picks(some[m], s, K(m))}
<1>3. 0 \in T
  <2>1. Enumerates(<<>>, 0, K(0))
    BY DEF Enumerates
  <2>2. some[0] = Along(s, <<>>, 0)
    BY <1>1 DEF Along
  <2>3. Picks(some[0], s, K(0))
    BY <2>1, <2>2, Zenon DEF Picks
  <2>4. QED
    BY <2>3
<1>4. ASSUME NEW m \in Nat, m \in T PROVE m + 1 \in T
  <2> SUFFICES ASSUME m + 1 <= N PROVE Picks(some[m + 1], s, K(m + 1))
    OBVIOUS
  <2>1. m + 1 \in 1..N /\ (m + 1) - 1 = m
    BY <1>2
  <2>2. PICK len, p : Enumerates(p, len, K(m)) /\ some[m] = Along(s, p, len)
    <3>1. Picks(some[m], s, K(m))
      BY <1>2, <1>4
    <3>2. QED
      BY <3>1, Zenon DEF Picks
  <2>3. CASE s[m + 1] \notin S
    <3>1. K(m + 1) = K(m)
      BY <2>3
    <3>2. some[m + 1] = some[m]
      BY <1>1, <2>1, <2>3
    <3>3. QED
      BY <2>2, <3>1, <3>2, Zenon DEF Picks
  <2>4. CASE s[m + 1] \in S
    <3> DEFINE q == [i \in 1..(len + 1) |-> IF i = len + 1 THEN m + 1 ELSE p[i]]
               new == Along(s, q, len + 1)
    <3>1. /\ len \in Nat /\ p \in [1..len -> K(m)]
          /\ \A i, j \in 1..len : i < j => p[i] < p[j]
          /\ \A k \in K(m) : \E i \in 1..len : p[i] = k
      BY <2>2 DEF Enumerates
    <3>2. K(m + 1) = K(m) \cup {m + 1}
      BY <2>4
    <3>3. q \in [1..(len + 1) -> K(m + 1)]
      BY <3>1, <3>2
    <3>4. ASSUME NEW i \in 1..(len + 1), NEW j \in 1..(len + 1), i < j
          PROVE  q[i] < q[j]
      <4>1. i \in 1..len /\ q[i] = p[i] /\ p[i] \in 1..m
        BY <3>1, <3>4
      <4>2. CASE j = len + 1
        BY <4>1, <4>2
      <4>3. CASE j # len + 1
        BY <3>1, <3>4, <4>1, <4>3
      <4>4. QED
        BY <4>2, <4>3
    <3>5. ASSUME NEW k \in K(m + 1) PROVE \E i \in 1..(len + 1) : q[i] = k
      <4>1. CASE k = m + 1
        <5>1. len + 1 \in 1..(len + 1) /\ q[len + 1] = m + 1
          BY <3>1
        <5>2. QED
          BY <4>1, <5>1
      <4>2. CASE k \in K(m)
        <5>1. PICK i \in 1..len : p[i] = k
          BY <3>1, <4>2
        <5>2. i \in 1..(len + 1) /\ q[i] = k
          BY <3>1, <5>1
        <5>3. QED
          BY <5>2
      <4>3. QED
        BY <3>2, <4>1, <4>2
    <3>6. Enumerates(q, len + 1, K(m + 1))
      <4> HIDE DEF q
      <4>1. len + 1 \in Nat
        BY <3>1
      <4>2. QED
        BY <3>3, <3>4, <3>5, <4>1, Zenon DEF Enumerates
    <3>7. some[m + 1] = Append(some[m], s[m + 1])
      BY <1>1, <2>1, <2>4
    <3>8. \A i \in 1..len : s[p[i]] \in X
      BY <1>2, <2>1, <3>1
    <3>9. some[m] \in Seq(X) /\ Len(some[m]) = len
      BY <2>2, <3>1, <3>8 DEF Along
    <3>10. s[m + 1] \in X
      BY <1>2, <2>1
    <3>11. Append(some[m], s[m + 1]) = new
      <4>1. /\ DOMAIN Append(some[m], s[m + 1]) = 1..(len + 1)
            /\ Append(some[m], s[m + 1])[len + 1] = s[m + 1]
            /\ \A i \in 1..len : Append(some[m], s[m + 1])[i] = some[m][i]
            /\ Append(some[m], s[m + 1]) \in Seq(X)
        BY <3>9, <3>10
      <4>2. \A i \in 1..len : new[i] = s[p[i]] /\ some[m][i] = s[p[i]]
        BY <2>2, <3>1 DEF Along
      <4>3. new[len + 1] = s[m + 1] /\ DOMAIN new = 1..(len + 1)
        BY <3>1 DEF Along
      <4>4. \A i \in 1..(len + 1) : i \in 1..len \/ i = len + 1
        BY <3>1
      <4>5. new = [i \in DOMAIN new |-> new[i]]
        BY DEF Along
      <4> DEFINE old == Append(some[m], s[m + 1])
      <4>6. old \in Seq(X) /\ DOMAIN old = 1..(len + 1)
        BY <4>1
      <4> HIDE DEF new, old, q
      <4>7. old = [i \in DOMAIN old |-> old[i]]
        BY <4>6
      <4>8. \A i \in 1..(len + 1) : old[i] = new[i]
        BY <4>1, <4>2, <4>3, <4>4, Zenon DEF old
      <4>9. old = new
        BY <4>3, <4>5, <4>6, <4>7, <4>8
      <4>10. QED
        BY <4>9 DEF old
    <3> HIDE DEF q
    <3>12. QED
      BY <3>6, <3>7, <3>11, Zenon DEF Picks
  <2>5. QED
    BY <2>3, <2>4
<1> HIDE DEF T
<1>5. \A m \in Nat : m \in T
  BY <1>3, <1>4, Induct
<1>6. Picks(some[N], s, K(N))
  <2>1. N \in T /\ N <= N
    BY <1>2, <1>5
  <2>2. QED
    BY <2>1, Zenon DEF T
<1>7. QED
  BY <1>1, <1>2, <1>6, Zenon

-----------------------------------------------------------------------------
(* StableSort, one insertion after the other.                               *)
Ahead(first, x, before) == {i \in DOMAIN first : <<x, first[i]>> \notin before}
Inserted(first, x, before) ==
    InsertAt(first, 1 + Cardinality(Ahead(first, x, before)), x)

LEMMA InsertedAt ==
  ASSUME NEW X, NEW first \in Seq(X), NEW x \in X, NEW before
  PROVE  LET c == Cardinality(Ahead(first, x, before))
             y == Inserted(first, x, before)
         IN  /\ c \in 0..Len(first)
             /\ y \in Seq(X) /\ Len(y) = Len(first) + 1
             /\ \A i \in 1..c : y[i] = first[i]
             /\ y[c + 1] = x
             /\ \A i \in (c + 2)..(Len(first) + 1) : y[i] = first[i - 1]
<1> DEFINE A == Ahead(first, x, before)
           c == Cardinality(A)
           N == Len(first)
           y == Inserted(first, x, before)
<1>1. N \in Nat /\ DOMAIN first = 1..N
  OBVIOUS
<1>2. c \in 0..N
  <2>1. IsFiniteSet(1..N) /\ Cardinality(1..N) = N
    BY <1>1, FS_Interval
  <2>2. A \in SUBSET (1..N)
    BY <1>1 DEF Ahead
  <2>3. IsFiniteSet(A) /\ c <= N
    BY <2>1, <2>2, FS_Subset
  <2>4. c \in Nat
    BY <2>3, FS_CardinalityType
  <2> HIDE DEF c
  <2>5. QED
    BY <1>1, <2>3, <2>4
<1>3. y = (SubSeq(first, 1, (1 + c) - 1) \o <<x>>) \o SubSeq(first, 1 + c, N)
  BY DEF Inserted, InsertAt
<1> HIDE DEF c, y
<1> DEFINE u == SubSeq(first, 1, c)
           v == SubSeq(first, c + 1, N)
<1>4. y = (u \o <<x>>) \o v
  <2>1. (1 + c) - 1 = c /\ 1 + c = c + 1
    BY <1>2
  <2>2. QED
    BY <1>3, <2>1
<1>5. /\ u \in Seq(X) /\ Len(u) = c
      /\ \A i \in 1..c : u[i] = first[i]
  BY <1>1, <1>2
<1>6. /\ v \in Seq(X) /\ Len(v) = N - c
      /\ \A i \in 1..(N - c) : v[i] = first[c + i]
  <2> DEFINE d == c + 1
  <2>1. d \in 1..(N + 1)
    BY <1>1, <1>2
  <2>2. /\ SubSeq(first, d, N) \in Seq(X) /\ Len(SubSeq(first, d, N)) = N - d + 1
        /\ \A i \in 1..(N - d + 1) : SubSeq(first, d, N)[i] = first[d + i - 1]
    <3> HIDE DEF d
    <3>1. QED
      BY <1>1, <2>1
  <2>3. N - d + 1 = N - c
    BY <1>1, <1>2
  <2>4. \A i \in 1..(N - c) : d + i - 1 = c + i
    BY <1>1, <1>2
  <2> HIDE DEF d
  <2>5. QED
    BY <2>2, <2>3, <2>4 DEF d
<1> HIDE DEF u, v
<1> DEFINE w == u \o <<x>>
<1>7. /\ w \in Seq(X) /\ Len(w) = c + 1 /\ w[c + 1] = x
      /\ \A i \in 1..c : w[i] = u[i]
  BY <1>2, <1>5
<1> HIDE DEF w
<1>8. y = w \o v
  BY <1>4 DEF w
<1>9. /\ y \in Seq(X) /\ Len(y) = N + 1
      /\ \A i \in 1..(c + 1) : y[i] = w[i]
      /\ \A i \in (c + 2)..(N + 1) : y[i] = v[i - (c + 1)]
  BY <1>1, <1>2, <1>6, <1>7, <1>8
<1>10. \A i \in (c + 2)..(N + 1) :
          i - (c + 1) \in 1..(N - c) /\ c + (i - (c + 1)) = i - 1
  BY <1>1, <1>2
<1>11. \A i \in (c + 2)..(N + 1) : y[i] = first[i - 1]
  BY <1>6, <1>9, <1>10
<1>12. \A i \in 1..c : i \in 1..(c + 1)
  BY <1>2
<1>13. c + 1 \in 1..(c + 1)
  BY <1>2
<1>14. QED
  BY <1>2, <1>5, <1>7, <1>9, <1>11, <1>12, <1>13 DEF c, y

LEMMA SortByElement ==
  ASSUME NEW X, NEW s \in Seq(X), NEW before
  PROVE  \E sorted :
            /\ sorted[0] = <<>>
            /\ \A k \in 1..Len(s) :
                  sorted[k] = Inserted(sorted[k - 1], s[k], before)
            /\ \A k \in 0..Len(s) : sorted[k] \in Seq(X)
            /\ StableSort(s, before) = sorted[Len(s)]
<1> DEFINE N == Len(s)
           Y == Seq(X)
           Rec(g) == g = [k \in 0..N |->
                            IF k = 0 THEN <<>>
                            ELSE Inserted(g[k - 1], s[k], before)]
           step == [p \in (1..N) \X Y |-> Inserted(p[2], s[p[1]], before)]
           chosen == CHOOSE g : Rec(g)
<1>1. N \in Nat /\ \A k \in 1..N : s[k] \in X
  OBVIOUS
<1>2. \A k \in 1..N, y \in Y : Inserted(y, s[k], before) \in Y
  BY <1>1, InsertedAt
<1>3. StepOn(step, N, Y) /\ <<>> \in Y
  <2>1. <<>> \in Y
    OBVIOUS
  <2> HIDE DEF Y
  <2>2. QED
    BY <1>2, <2>1 DEF StepOn
<1>4. PICK g : Follows(g, N, Y, <<>>, step)
  <2> HIDE DEF step, Y
  <2>1. QED
    BY <1>1, <1>3, Recursion
<1>5. g \in [0..N -> Y] /\ g[0] = <<>>
  BY <1>4 DEF Follows
<1>6. \A k \in 1..N : k - 1 \in 0..N /\ k # 0 /\ k \in 0..N
  BY <1>1
<1>7. \A k \in 1..N : g[k] = Inserted(g[k - 1], s[k], before)
  <2> HIDE DEF Y
  <2>1. QED
    BY <1>4, <1>5, <1>6 DEF Follows
<1>8. Rec(g)
  <2>1. ASSUME NEW k \in 0..N
        PROVE  g[k] = IF k = 0 THEN <<>> ELSE Inserted(g[k - 1], s[k], before)
    <3>1. CASE k = 0
      BY <1>5, <3>1
    <3>2. CASE k # 0
      <4>1. k \in 1..N
        BY <3>2
      <4>2. QED
        BY <1>7, <3>2, <4>1, Zenon
    <3>3. QED
      BY <3>1, <3>2
  <2> HIDE DEF Y
  <2>2. g = [k \in 0..N |-> g[k]]
    BY <1>5
  <2>3. QED
    BY <2>1, <2>2, Zenon
<1>9. Rec(chosen)
  BY <1>8, Zenon
<1>10. StableSort(s, before) = chosen[N]
  BY Zenon DEF StableSort, Inserted, Ahead
<1> HIDE DEF chosen
<1>11. \A k \in 0..N : chosen[k] = IF k = 0 THEN <<>>
                                   ELSE Inserted(chosen[k - 1], s[k], before)
  <2>1. chosen = [k \in 0..N |-> IF k = 0 THEN <<>>
                                 ELSE Inserted(chosen[k - 1], s[k], before)]
    BY <1>9
  <2>2. QED
    BY <2>1, Zenon
<1>12. chosen[0] = <<>>
  <2>1. 0 \in 0..N
    BY <1>1
  <2>2. QED
    BY <1>11, <2>1
<1>13. \A k \in 1..N : chosen[k] = Inserted(chosen[k - 1], s[k], before)
  BY <1>6, <1>11, Zenon
<1> DEFINE T == {m \in Nat : m <= N => chosen[m] \in Y}
<1>14. 0 \in T
  BY <1>3, <1>12
<1>15. ASSUME NEW m \in Nat, m \in T PROVE m + 1 \in T
  <2> SUFFICES ASSUME m + 1 <= N PROVE chosen[m + 1] \in Y
    OBVIOUS
  <2> HIDE DEF Y
  <2>1. m + 1 \in 1..N /\ (m + 1) - 1 = m /\ chosen[m] \in Y
    BY <1>1, <1>15
  <2>2. QED
    BY <1>2, <1>13, <2>1
<1> HIDE DEF T
<1>16. \A m \in Nat : m \in T
  BY <1>14, <1>15, Induct
<1>17. \A k \in 0..N : chosen[k] \in Y
  BY <1>1, <1>16 DEF T
<1>18. QED
  BY <1>10, <1>12, <1>13, <1>17, Zenon

(* Sorting loses and adds nothing, ...                                      *)
LEMMA SortElements ==
  ASSUME NEW X, NEW s \in Seq(X), NEW before
  PROVE  /\ StableSort(s, before) \in Seq(X)
         /\ Len(StableSort(s, before)) = Len(s)
         /\ ToSet(StableSort(s, before)) = ToSet(s)
<1> DEFINE N == Len(s)
<1>1. PICK sorted :
         /\ sorted[0] = <<>>
         /\ \A k \in 1..N : sorted[k] = Inserted(sorted[k - 1], s[k], before)
         /\ \A k \in 0..N : sorted[k] \in Seq(X)
         /\ StableSort(s, before) = sorted[N]
  BY SortByElement
<1>2. N \in Nat /\ DOMAIN s = 1..N /\ \A k \in 1..N : s[k] \in X
  OBVIOUS
<1> DEFINE Upto(m) == {s[k] : k \in 1..m}
           T == {m \in Nat : m <= N => /\ Len(sorted[m]) = m
                                       /\ ToSet(sorted[m]) = Upto(m)}
<1>3. 0 \in T
  <2>1. Len(sorted[0]) = 0 /\ ToSet(sorted[0]) = {}
    BY <1>1 DEF ToSet
  <2>2. QED
    BY <2>1
<1>4. ASSUME NEW m \in Nat, m \in T PROVE m + 1 \in T
  <2> SUFFICES ASSUME m + 1 <= N
               PROVE  /\ Len(sorted[m + 1]) = m + 1
                      /\ ToSet(sorted[m + 1]) = Upto(m + 1)
    OBVIOUS
  <2> DEFINE first == sorted[m]
             y == sorted[m + 1]
             x == s[m + 1]
             c == Cardinality(Ahead(first, x, before))
  <2>1. m + 1 \in 1..N /\ (m + 1) - 1 = m /\ m \in 0..N
    BY <1>2
  <2>2. first \in Seq(X) /\ x \in X /\ Len(first) = m /\ ToSet(first) = Upto(m)
    BY <1>1, <1>2, <1>4, <2>1
  <2>3. y = Inserted(first, x, before)
    BY <1>1, <2>1
  <2> HIDE DEF first, y, x
  <2>4. /\ c \in 0..m /\ y \in Seq(X) /\ Len(y) = m + 1
        /\ \A i \in 1..c : y[i] = first[i]
        /\ y[c + 1] = x
        /\ \A i \in (c + 2)..(m + 1) : y[i] = first[i - 1]
    <3>1. \A i \in (c + 2)..(Len(first) + 1) : y[i] = first[i - 1]
      <4>1. \A i \in (c + 2)..(Len(first) + 1) :
               Inserted(first, x, before)[i] = first[i - 1]
        BY <2>2, InsertedAt
      <4> HIDE DEF c
      <4>2. QED
        BY <2>3, <4>1, Zenon
    <3>2. /\ c \in 0..Len(first) /\ y \in Seq(X) /\ Len(y) = Len(first) + 1
          /\ \A i \in 1..c : y[i] = first[i]
          /\ y[c + 1] = x
      BY <2>2, <2>3, InsertedAt
    <3> HIDE DEF c
    <3>3. QED
      BY <2>2, <3>1, <3>2
  <2> HIDE DEF c
  <2>5. ToSet(y) = ToSet(first) \cup {x}
    <3>1. DOMAIN y = 1..(m + 1) /\ DOMAIN first = 1..m
      BY <2>2, <2>4
    <3>2. ASSUME NEW i \in 1..(m + 1) PROVE y[i] \in ToSet(first) \cup {x}
      <4>1. CASE i \in 1..c
        <5>1. i \in 1..m
          BY <2>4, <4>1
        <5>2. QED
          BY <2>4, <3>1, <4>1, <5>1 DEF ToSet
      <4>2. CASE i = c + 1
        BY <2>4, <4>2
      <4>3. CASE i \in (c + 2)..(m + 1)
        <5>1. i - 1 \in 1..m
          BY <2>4, <4>3
        <5>2. QED
          BY <2>4, <3>1, <4>3, <5>1 DEF ToSet
      <4>4. QED
        BY <2>4, <4>1, <4>2, <4>3
    <3>3. ASSUME NEW i \in 1..m PROVE first[i] \in ToSet(y)
      <4>1. CASE i \in 1..c
        <5>1. i \in 1..(m + 1)
          OBVIOUS
        <5>2. QED
          BY <2>4, <3>1, <4>1, <5>1 DEF ToSet
      <4>2. CASE ~(i \in 1..c)
        <5>1. i + 1 \in (c + 2)..(m + 1) /\ i + 1 \in 1..(m + 1) /\ (i + 1) - 1 = i
          BY <2>4, <4>2
        <5>2. y[i + 1] = first[i]
          BY <2>4, <5>1
        <5>3. QED
          BY <3>1, <5>1, <5>2 DEF ToSet
      <4>3. QED
        BY <4>1, <4>2
    <3>4. x \in ToSet(y)
      <4>1. c + 1 \in 1..(m + 1)
        BY <2>4
      <4>2. QED
        BY <2>4, <3>1, <4>1 DEF ToSet
    <3>5. \A z \in ToSet(y) : z \in ToSet(first) \cup {x}
      BY <3>1, <3>2 DEF ToSet
    <3>6. \A z \in ToSet(first) : z \in ToSet(y)
      BY <3>1, <3>3 DEF ToSet
    <3>7. QED
      BY <3>4, <3>5, <3>6
  <2>6. Upto(m + 1) = Upto(m) \cup {x}
    <3>1. 1..(m + 1) = (1..m) \cup {m + 1}
      OBVIOUS
    <3>2. QED
      BY <3>1 DEF x
  <2>7. QED
    BY <2>2, <2>4, <2>5, <2>6 DEF y
<1> HIDE DEF T
<1>5. \A m \in Nat : m \in T
  BY <1>3, <1>4, Induct
<1>6. Len(sorted[N]) = N /\ ToSet(sorted[N]) = Upto(N)
  <2>1. N \in T /\ N <= N
    BY <1>2, <1>5
  <2>2. QED
    BY <2>1 DEF T
<1>7. ToSet(s) = Upto(N)
  BY <1>2 DEF ToSet
<1>8. sorted[N] \in Seq(X)
  BY <1>1, <1>2
<1>9. QED
  BY <1>1, <1>6, <1>7, <1>8

(* ... leaves alone what is in order, ...                                   *)
LEMMA SortKeeps ==
  ASSUME NEW X, NEW s \in Seq(X), NEW before,
         \A i, j \in DOMAIN s : i < j => <<s[j], s[i]>> \notin before
  PROVE  StableSort(s, before) = s
<1> DEFINE N == Len(s)
<1>1. PICK sorted :
         /\ sorted[0] = <<>>
         /\ \A k \in 1..N : sorted[k] = Inserted(sorted[k - 1], s[k], before)
         /\ \A k \in 0..N : sorted[k] \in Seq(X)
         /\ StableSort(s, before) = sorted[N]
  BY SortByElement
<1>2. N \in Nat /\ DOMAIN s = 1..N /\ \A k \in 1..N : s[k] \in X
  OBVIOUS
<1> DEFINE T == {m \in Nat : m <= N => /\ Len(sorted[m]) = m
                                       /\ \A i \in 1..m : sorted[m][i] = s[i]}
<1>3. 0 \in T
  BY <1>1
<1>4. ASSUME NEW m \in Nat, m \in T PROVE m + 1 \in T
  <2> SUFFICES ASSUME m + 1 <= N
               PROVE  /\ Len(sorted[m + 1]) = m + 1
                      /\ \A i \in 1..(m + 1) : sorted[m + 1][i] = s[i]
    OBVIOUS
  <2> DEFINE first == sorted[m]
             y == sorted[m + 1]
             x == s[m + 1]
             c == Cardinality(Ahead(first, x, before))
  <2>1. m + 1 \in 1..N /\ (m + 1) - 1 = m /\ m \in 0..N
    BY <1>2
  <2>2. /\ first \in Seq(X) /\ x \in X /\ Len(first) = m
        /\ \A i \in 1..m : first[i] = s[i]
    BY <1>1, <1>2, <1>4, <2>1
  <2>3. y = Inserted(first, x, before)
    BY <1>1, <2>1
  <2>4. \A i \in 1..m : <<x, s[i]>> \notin before
    BY <1>2, <2>1
  <2> HIDE DEF first, y, x
  <2>5. /\ c \in 0..m /\ y \in Seq(X) /\ Len(y) = m + 1
        /\ \A i \in 1..c : y[i] = first[i]
        /\ y[c + 1] = x
    BY <2>2, <2>3, InsertedAt
  <2>6. Ahead(first, x, before) = 1..m
    BY <2>2, <2>4 DEF Ahead
  <2>7. c = m
    BY <2>6, FS_Interval
  <2> HIDE DEF c
  <2>8. \A i \in 1..(m + 1) : i \in 1..m \/ i = m + 1
    OBVIOUS
  <2>9. QED
    BY <2>2, <2>5, <2>7, <2>8 DEF x, y
<1> HIDE DEF T
<1>5. \A m \in Nat : m \in T
  BY <1>3, <1>4, Induct
<1>6. Len(sorted[N]) = N /\ \A i \in 1..N : sorted[N][i] = s[i]
  <2>1. N \in T /\ N <= N
    BY <1>2, <1>5
  <2>2. QED
    BY <2>1 DEF T
<1>7. sorted[N] \in Seq(X)
  BY <1>1, <1>2
<1> DEFINE y == sorted[N]
<1> HIDE DEF y
<1>8. y = s
  <2>1. y \in Seq(X) /\ Len(y) = Len(s) /\ \A i \in 1..Len(s) : y[i] = s[i]
    BY <1>6, <1>7 DEF y
  <2>2. QED
    BY <2>1
<1>9. QED
  BY <1>1, <1>8 DEF y

(* ... and puts in order what its relation can order.                       *)
Orders(before, X) ==
    /\ \A x, y \in X : <<x, y>> \in before => <<y, x>> \notin before
    /\ \A x, y, z \in X : <<x, y>> \notin before /\ <<y, z>> \notin before
                              => <<x, z>> \notin before
InOrder(s, before) == \A i, j \in DOMAIN s : i < j => <<s[j], s[i]>> \notin before

LEMMA Initial ==
  ASSUME NEW len \in Nat, NEW K \in SUBSET (1..len),
         \A k \in K, j \in 1..len : j < k => j \in K
  PROVE  K = 1..Cardinality(K)
<1> DEFINE T == {m \in Nat : \A j \in 1..m : j \in K}
<1>1. 0 \in T
  OBVIOUS
<1>2. \E m \in Nat : m \in T /\ m + 1 \notin T
  <2>1. SUFFICES ASSUME \A m \in Nat : m \in T => m + 1 \in T PROVE FALSE
    OBVIOUS
  <2> HIDE DEF T
  <2>2. \A m \in Nat : m \in T
    BY <1>1, <2>1, Induct
  <2>3. len + 1 \in T /\ len + 1 \in 1..(len + 1)
    BY <2>2
  <2>4. len + 1 \in K
    BY <2>3 DEF T
  <2>5. QED
    BY <2>4
<1>3. PICK m \in Nat : m \in T /\ m + 1 \notin T
  BY <1>2
<1>4. \A j \in 1..m : j \in K
  BY <1>3
<1>5. m + 1 \notin K
  <2>1. \A j \in 1..(m + 1) : j \in 1..m \/ j = m + 1
    OBVIOUS
  <2>2. QED
    BY <1>3, <1>4, <2>1
<1>6. \A k \in K : k \in 1..m
  <2>1. ASSUME NEW k \in K, ~(k \in 1..m) PROVE FALSE
    <3>1. k \in 1..len /\ k > m
      BY <2>1
    <3>2. k # m + 1
      BY <1>5
    <3>3. m + 1 < k /\ m + 1 \in 1..len
      BY <3>1, <3>2
    <3>4. QED
      BY <1>5, <3>3
  <2>2. QED
    BY <2>1
<1>7. K = 1..m
  BY <1>4, <1>6
<1>8. Cardinality(1..m) = m
  BY FS_Interval
<1>9. QED
  BY <1>7, <1>8

LEMMA InsertOrders ==
  ASSUME NEW X, NEW first \in Seq(X), NEW x \in X, NEW before,
         Orders(before, X), InOrder(first, before)
  PROVE  InOrder(Inserted(first, x, before), before)
<1> DEFINE A == Ahead(first, x, before)
           c == Cardinality(A)
           N == Len(first)
           y == Inserted(first, x, before)
<1>1. /\ c \in 0..N /\ y \in Seq(X) /\ Len(y) = N + 1
      /\ \A i \in 1..c : y[i] = first[i]
      /\ y[c + 1] = x
      /\ \A i \in (c + 2)..(N + 1) : y[i] = first[i - 1]
  BY InsertedAt
<1>2. N \in Nat /\ DOMAIN first = 1..N /\ \A i \in 1..N : first[i] \in X
  OBVIOUS
<1>3. A = 1..c
  <2>1. ASSUME NEW k \in A, NEW j \in 1..N, j < k PROVE j \in A
    <3>1. k \in 1..N /\ <<x, first[k]>> \notin before
      BY <1>2 DEF Ahead
    <3>2. <<first[k], first[j]>> \notin before
      BY <1>2, <2>1, <3>1 DEF InOrder
    <3>3. first[k] \in X /\ first[j] \in X
      BY <1>2, <3>1
    <3>4. <<x, first[j]>> \notin before
      BY <3>1, <3>2, <3>3 DEF Orders
    <3>5. QED
      BY <1>2, <3>4 DEF Ahead
  <2>2. A \in SUBSET (1..N)
    BY <1>2 DEF Ahead
  <2> HIDE DEF A
  <2>3. QED
    BY <1>2, <2>1, <2>2, Initial
<1> HIDE DEF A, c, y
<1>4. \A i \in 1..c : <<x, first[i]>> \notin before
  BY <1>3 DEF A, Ahead
<1>5. \A i \in (c + 1)..N : <<first[i], x>> \notin before
  <2>1. ASSUME NEW i \in (c + 1)..N PROVE <<first[i], x>> \notin before
    <3>1. i \in 1..N /\ i \notin 1..c
      BY <1>1, <1>2
    <3>2. <<x, first[i]>> \in before
      BY <1>2, <1>3, <3>1 DEF A, Ahead
    <3>3. QED
      BY <1>2, <3>1, <3>2 DEF Orders
  <2>2. QED
    BY <2>1
<1>6. ASSUME NEW i \in 1..(N + 1), NEW j \in 1..(N + 1), i < j
      PROVE  <<y[j], y[i]>> \notin before
  <2>1. CASE j \in 1..c
    <3>1. i \in 1..c /\ i \in 1..N /\ j \in 1..N
      BY <1>1, <1>2, <1>6, <2>1
    <3>2. QED
      BY <1>1, <1>2, <1>6, <2>1, <3>1 DEF InOrder
  <2>2. CASE j = c + 1
    <3>1. i \in 1..c
      BY <1>1, <1>6, <2>2
    <3>2. QED
      BY <1>1, <1>4, <2>2, <3>1
  <2>3. CASE j \in (c + 2)..(N + 1)
    <3>1. j - 1 \in (c + 1)..N /\ j - 1 \in 1..N /\ y[j] = first[j - 1]
      BY <1>1, <1>2, <2>3
    <3>2. CASE i \in 1..c
      <4>1. i \in 1..N /\ i < j - 1 /\ y[i] = first[i]
        BY <1>1, <1>2, <3>1, <3>2
      <4>2. QED
        BY <1>2, <3>1, <4>1 DEF InOrder
    <3>3. CASE i = c + 1
      BY <1>1, <1>5, <3>1, <3>3
    <3>4. CASE i \in (c + 2)..(N + 1)
      <4>1. i - 1 \in 1..N /\ i - 1 < j - 1 /\ y[i] = first[i - 1]
        BY <1>1, <1>2, <1>6, <3>4
      <4>2. QED
        BY <1>2, <3>1, <4>1 DEF InOrder
    <3>5. QED
      BY <1>1, <1>2, <3>2, <3>3, <3>4
  <2>4. QED
    BY <1>1, <1>2, <2>1, <2>2, <2>3
<1>7. DOMAIN y = 1..(N + 1)
  BY <1>1
<1>8. InOrder(y, before)
  BY <1>6, <1>7 DEF InOrder
<1>9. QED
  BY <1>8 DEF y

LEMMA SortOrders ==
  ASSUME NEW X, NEW s \in Seq(X), NEW before, Orders(before, X)
  PROVE  InOrder(StableSort(s, before), before)
<1> DEFINE N == Len(s)
<1>1. PICK sorted :
         /\ sorted[0] = <<>>
         /\ \A k \in 1..N : sorted[k] = Inserted(sorted[k - 1], s[k], before)
         /\ \A k \in 0..N : sorted[k] \in Seq(X)
         /\ StableSort(s, before) = sorted[N]
  BY SortByElement
<1>2. N \in Nat /\ \A k \in 1..N : s[k] \in X
  OBVIOUS
<1> DEFINE T == {m \in Nat : m <= N => InOrder(sorted[m], before)}
<1>3. 0 \in T
  BY <1>1 DEF InOrder
<1>4. ASSUME NEW m \in Nat, m \in T PROVE m + 1 \in T
  <2> SUFFICES ASSUME m + 1 <= N PROVE InOrder(sorted[m + 1], before)
    OBVIOUS
  <2>1. m + 1 \in 1..N /\ (m + 1) - 1 = m /\ m \in 0..N
    BY <1>2
  <2>2. sorted[m] \in Seq(X) /\ s[m + 1] \in X /\ InOrder(sorted[m], before)
    BY <1>1, <1>2, <1>4, <2>1
  <2>3. sorted[m + 1] = Inserted(sorted[m], s[m + 1], before)
    BY <1>1, <2>1
  <2>4. QED
    BY <2>2, <2>3, InsertOrders
<1> HIDE DEF T
<1>5. \A m \in Nat : m \in T
  BY <1>3, <1>4, Induct
<1>6. N \in T /\ N <= N
  BY <1>2, <1>5
<1>7. QED
  BY <1>1, <1>6 DEF T

(* What Only selects is what is in both, and its first is the first one.    *)
LEMMA OnlyElements ==
  ASSUME NEW X, NEW s \in Seq(X), NEW S
  PROVE  /\ Only(s, S) \in Seq(X)
         /\ ToSet(Only(s, S)) = ToSet(s) \cap S
         /\ Only(s, S) # <<>> =>
              \E i \in DOMAIN s : /\ s[i] \in S /\ Head(Only(s, S)) = s[i]
                                  /\ \A j \in DOMAIN s : s[j] \in S => i <= j
<1> DEFINE K == {k \in DOMAIN s : s[k] \in S}
           some == Only(s, S)
<1>1. DOMAIN s = 1..Len(s) /\ Len(s) \in Nat /\ \A k \in DOMAIN s : s[k] \in X
  OBVIOUS
<1>2. PICK len, p : Enumerates(p, len, K) /\ some = Along(s, p, len)
  <2>1. Picks(some, s, K)
    BY OnlyPositions
  <2>2. QED
    BY <2>1, Zenon DEF Picks
<1>3. /\ len \in Nat /\ p \in [1..len -> K]
      /\ \A i, j \in 1..len : i < j => p[i] < p[j]
      /\ \A k \in K : \E i \in 1..len : p[i] = k
  BY <1>2 DEF Enumerates
<1>4. \A i \in 1..len : p[i] \in DOMAIN s /\ s[p[i]] \in S
  BY <1>3
<1>5. some = [i \in 1..len |-> s[p[i]]]
  BY <1>2 DEF Along
<1> HIDE DEF some
<1>6. some \in Seq(X)
  BY <1>1, <1>3, <1>4, <1>5
<1>7. DOMAIN some = 1..len /\ \A i \in 1..len : some[i] = s[p[i]]
  BY <1>5
<1>8. ToSet(some) = ToSet(s) \cap S
  <2>1. \A x \in ToSet(some) : x \in ToSet(s) /\ x \in S
    BY <1>4, <1>7 DEF ToSet
  <2>2. ASSUME NEW k \in DOMAIN s, s[k] \in S PROVE s[k] \in ToSet(some)
    <3>1. PICK i \in 1..len : p[i] = k
      BY <1>3, <2>2
    <3>2. QED
      BY <1>7, <3>1 DEF ToSet
  <2>3. \A x \in ToSet(s) : x \in S => x \in ToSet(some)
    BY <2>2 DEF ToSet
  <2>4. QED
    BY <2>1, <2>3
<1>9. ASSUME some # <<>>
      PROVE  \E i \in DOMAIN s : /\ s[i] \in S /\ Head(some) = s[i]
                                 /\ \A j \in DOMAIN s : s[j] \in S => i <= j
  <2>1. 1 \in 1..len
    BY <1>3, <1>5, <1>6, <1>9
  <2>2. Head(some) = s[p[1]]
    BY <1>6, <1>7, <1>9, <2>1
  <2>3. ASSUME NEW j \in DOMAIN s, s[j] \in S PROVE p[1] <= j
    <3>1. PICK i \in 1..len : p[i] = j
      BY <1>3, <2>3
    <3>2. p[1] \in Nat /\ j \in Nat
      BY <1>1, <1>4, <2>1
    <3>3. CASE i = 1
      BY <3>1, <3>2, <3>3
    <3>4. CASE i # 1
      <4>1. 1 < i
        BY <3>4
      <4>2. p[1] < p[i]
        BY <1>3, <2>1, <4>1
      <4>3. QED
        BY <3>1, <3>2, <4>2
    <3>5. QED
      BY <3>3, <3>4
  <2>4. QED
    BY <1>4, <2>1, <2>2, <2>3
<1>10. QED
  BY <1>6, <1>8, <1>9 DEF some

-----------------------------------------------------------------------------
(* Charts across runs.                                                      *)
RepeatsOf(used, rps, algo) ==
    Only(used, {run \in ToSet(used) :
                  run.rps = rps /\ RunMean(logs[algo], run, Hosts) # None})

(* shape_charts.py pairs the repeats of two algorithms by position, "so     *)
(* index i on each side always comes from the same run": as long as no      *)
(* clean run has data of one of them only, whatever else the logs hold.     *)
THEOREM PairsAreOfOneRun == Spec => []PairsMatchUnlessGap
<1>1. ASSUME LogsHeld, NEW p \in DeltaPairs
      PROVE  LET Measured(run, algo) == RunMean(logs[algo], run, Hosts) # None
                 gap == \E k \in DOMAIN runs :
                           /\ ~runs[k].interrupted
                           /\ Measured(runs[k], p[1]) # Measured(runs[k], p[2])
                 buckets == CollectRunMeans(runs, logs, Hosts)
             IN  \A rps \in DOMAIN buckets :
                     LET pairs == PairedRepeats(buckets[rps], p[1], p[2])
                     IN  gap \/ \A k \in DOMAIN pairs :
                                   pairs[k][1].run = pairs[k][2].run
  <2> DEFINE one == p[1]
             other == p[2]
             Measured(run, algo) == RunMean(logs[algo], run, Hosts) # None
             used == Only(runs, {run \in ToSet(runs) :
                        /\ ~run.interrupted
                        /\ \E algo \in AlgoNames : Measured(run, algo)})
             buckets == CollectRunMeans(runs, logs, Hosts)
             gap == \E k \in DOMAIN runs :
                       /\ ~runs[k].interrupted
                       /\ Measured(runs[k], one) # Measured(runs[k], other)
  <2>names. one \in AlgoNames /\ other \in AlgoNames
    BY InputsAssumption
  <2>1. SUFFICES ASSUME ~gap, NEW rps \in DOMAIN buckets
                 PROVE  LET pairs == PairedRepeats(buckets[rps], one, other)
                        IN  \A k \in DOMAIN pairs : pairs[k][1].run = pairs[k][2].run
    BY Zenon
  <2> HIDE DEF one, other
  <2>2. runs \in Seq(ToSet(runs))
    <3>1. \A X : \A x \in Seq(X) : x \in Seq(ToSet(x))
      BY DEF ToSet
    <3>2. runs \in Seq(RunRecord)
      <4>1. <<>> \in Seq(RunRecord)
        OBVIOUS
      <4>2. QED
        BY <1>1, <4>1, InputsAssumption DEF LogsHeld
    <3>3. QED
      BY <3>1, <3>2
  <2>3. used \in Seq(ToSet(runs)) /\ \A run \in ToSet(used) :
           ~run.interrupted /\ \E k \in DOMAIN runs : run = runs[k]
    <3>1. \A S : /\ Only(runs, S) \in Seq(ToSet(runs))
                 /\ ToSet(Only(runs, S)) = ToSet(runs) \cap S
      BY <2>2, OnlyElements
    <3>2. used \in Seq(ToSet(runs)) /\ \A run \in ToSet(used) :
             run \in ToSet(runs) /\ ~run.interrupted
      BY <3>1
    <3>3. \A run \in ToSet(runs) : \E k \in DOMAIN runs : run = runs[k]
      BY DEF ToSet
    <3>4. QED
      BY <3>2, <3>3
  <2>4. \A run \in ToSet(used) : Measured(run, one) <=> Measured(run, other)
    BY <2>1, <2>3
  <2> HIDE DEF used
  <2>5. RepeatsOf(used, rps, one) = RepeatsOf(used, rps, other)
    <3>1. {run \in ToSet(used) : run.rps = rps /\ Measured(run, one)} =
            {run \in ToSet(used) : run.rps = rps /\ Measured(run, other)}
      BY <2>4
    <3>2. QED
      BY <3>1, Zenon DEF RepeatsOf
  <2>6. buckets = [r \in {used[k].rps : k \in DOMAIN used} |->
                     [algo \in AlgoNames |->
                        [k \in DOMAIN RepeatsOf(used, r, algo) |->
                           [run  |-> RepeatsOf(used, r, algo)[k].index,
                            mean |-> RunMean(logs[algo],
                                             RepeatsOf(used, r, algo)[k], Hosts)]]]]
    BY Zenon DEF CollectRunMeans, RepeatsOf, used
  <2> DEFINE repeats == RepeatsOf(used, rps, one)
             Side(algo) == [k \in DOMAIN repeats |->
                              [run  |-> repeats[k].index,
                               mean |-> RunMean(logs[algo], repeats[k], Hosts)]]
  <2>7. buckets[rps][one] = Side(one) /\ buckets[rps][other] = Side(other)
    <3>1. one \in AlgoNames /\ other \in AlgoNames
      BY <2>names
    <3>2. rps \in {used[k].rps : k \in DOMAIN used}
      BY <2>1, <2>6
    <3>3. /\ RepeatsOf(used, rps, one) = repeats
          /\ RepeatsOf(used, rps, other) = repeats
      BY <2>5
    <3> HIDE DEF repeats, buckets
    <3>4. QED
      BY <2>6, <3>1, <3>2, <3>3
  <2>8. repeats \in Seq(ToSet(runs))
    <3>1. ASSUME NEW S PROVE Only(used, S) \in Seq(ToSet(runs))
      BY <2>3, OnlyElements
    <3>2. QED
      BY <3>1 DEF RepeatsOf
  <2> HIDE DEF repeats
  <2>9. \A algo : Len(Side(algo)) = Len(repeats) /\ DOMAIN repeats = 1..Len(repeats)
                  /\ Len(repeats) \in Nat
    BY <2>8
  <2> DEFINE x == buckets[rps][one]
             y == buckets[rps][other]
             pairs == PairedRepeats(buckets[rps], one, other)
  <2>10. /\ Len(x) = Len(repeats) /\ Len(y) = Len(repeats)
         /\ \A k \in 1..Len(repeats) : x[k].run = y[k].run
    BY <2>7, <2>9
  <2> HIDE DEF x, y, buckets
  <2>11. pairs = [k \in 1..Len(repeats) |-> <<x[k], y[k]>>]
    <3>1. pairs = Zip(x, y)
      BY DEF PairedRepeats, x, y
    <3> HIDE DEF pairs
    <3>2. Len(repeats) <= Len(repeats)
      BY <2>9
    <3>3. QED
      BY <2>10, <3>1, <3>2 DEF Zip
  <2> HIDE DEF pairs
  <2>12. \A k \in DOMAIN pairs : pairs[k][1].run = pairs[k][2].run
    BY <2>10, <2>11
  <2>13. QED
    BY <2>12 DEF pairs
<1>2. LogsHeld => PairsMatchUnlessGap
  BY <1>1, Zenon DEF PairsMatchUnlessGap
<1>3. QED
  BY <1>2, LogsInvariant, PTL

-----------------------------------------------------------------------------
(* The records of a run.                                                    *)
Records == {Parse(l, Hosts) : l \in Logged}
Timed(l) == Len(l.tried) = 1 /\ l.times # <<None>>

LEMMA ParsedRecord ==
  ASSUME NEW l \in Logged
  PROVE  LET r == Parse(l, Hosts)
         IN  /\ r.ts = l.ts /\ r.ts \in Int
             /\ r.time \in Int \cup {None} /\ r.offset \in Int \cup {None}
             /\ r.time # None => r.offset # None
             /\ r.time # None <=> Timed(l)
             /\ Timed(l) => r.time = Head(l.times)
             /\ Head(l.tried) \in DOMAIN Hosts => r.host = Hosts[Head(l.tried)]
<1> DEFINE r == Parse(l, Hosts)
           T == Int \cup {None}
<1>1. /\ l.ts \in Int /\ l.tried \in Seq(Addresses) /\ l.times \in Seq(T)
      /\ l.offset \in T /\ Fits(l.tried, l.times, l.offset)
  BY DEF Logged, Line
<1>2. /\ Len(l.tried) \in Nat /\ Len(l.tried) = Len(l.times) /\ Len(l.tried) >= 1
      /\ Len(l.times) = 1 /\ l.times # <<None>> => l.offset # None
  BY <1>1 DEF Fits
<1>4. /\ r.ts = l.ts /\ r.offset = l.offset
      /\ Head(l.tried) \in DOMAIN Hosts => r.host = Hosts[Head(l.tried)]
      /\ r.time = IF Len(l.times) = 1 THEN Head(l.times) ELSE None
  <2> DEFINE times == l.times
             first == Head(l.tried)
  <2>1. r = [ts |-> l.ts, host |-> IF first \in DOMAIN Hosts THEN Hosts[first] ELSE first,
             offset |-> l.offset, time |-> ParseSeconds(times)]
    BY DEF Parse
  <2> HIDE DEF r
  <2>2. QED
    BY <2>1 DEF ParseSeconds
<1> HIDE DEF r
<1>5. ASSUME Len(l.times) = 1
      PROVE  Head(l.times) \in T /\ (Head(l.times) = None <=> l.times = <<None>>)
  <2> DEFINE y == l.times
  <2>1. y \in Seq(T) /\ Len(y) = 1
    BY <1>1, <1>5
  <2> HIDE DEF y, T
  <2>2. Head(y) = y[1] /\ y[1] \in T
    BY <2>1
  <2>3. y = <<y[1]>>
    BY <2>1
  <2>4. y = <<None>> => y[1] = None
    OBVIOUS
  <2>5. y[1] = None => y = <<None>>
    BY <2>3, Zenon
  <2>6. QED
    BY <2>2, <2>4, <2>5, Zenon DEF y
<1>6. r.time # None <=> Timed(l)
  BY <1>2, <1>4, <1>5 DEF Timed
<1>7. r.time \in T
  BY <1>4, <1>5
<1>8. r.time # None => r.offset # None
  BY <1>2, <1>4, <1>5
<1>9. Timed(l) => r.time = Head(l.times)
  BY <1>2, <1>4 DEF Timed
<1>10. QED
  BY <1>1, <1>4, <1>6, <1>7, <1>8, <1>9 DEF r

LEMMA RecordsOf ==
  ASSUME NEW log \in Seq(Logged), NEW run
  PROVE  ParseAccessLog(log, run, Hosts) \in Seq(Records)
<1> DEFINE InRun(line) == line.whole /\ run.start <= line.ts /\ line.ts <= run.end
           kept == Only(log, {line \in ToSet(log) : InRun(line)})
           parsed == [k \in DOMAIN kept |-> Parse(kept[k], Hosts)]
           earlier == {p \in ToSet(parsed) \X ToSet(parsed) : p[1].ts < p[2].ts}
<1>1. kept \in Seq(Logged)
  <2>1. \A S : Only(log, S) \in Seq(Logged)
    BY OnlyElements
  <2>2. QED
    BY <2>1
<1>2. ParseAccessLog(log, run, Hosts) = StableSort(parsed, earlier)
  BY Zenon DEF ParseAccessLog
<1> HIDE DEF kept
<1>3. parsed \in Seq(Records)
  <2>1. DOMAIN kept = 1..Len(kept) /\ Len(kept) \in Nat
        /\ \A k \in DOMAIN kept : kept[k] \in Logged
    BY <1>1
  <2>2. \A k \in DOMAIN kept : Parse(kept[k], Hosts) \in Records
    BY <2>1 DEF Records
  <2>3. QED
    BY <2>1, <2>2
<1> HIDE DEF parsed, earlier
<1>4. StableSort(parsed, earlier) \in Seq(Records)
  BY <1>3, SortElements
<1>5. QED
  BY <1>2, <1>4

LEMMA TimesOf ==
  ASSUME NEW records \in Seq(Records)
  PROVE  /\ Times(records) \in Seq(Int)
         /\ Times(records) # <<>> <=> \E k \in DOMAIN records : records[k].time # None
<1> DEFINE timed == Only(records, {r \in ToSet(records) : r.time # None})
<1>1. timed \in Seq(Records) /\ ToSet(timed) = {r \in ToSet(records) : r.time # None}
  <2>1. \A S : /\ Only(records, S) \in Seq(Records)
               /\ ToSet(Only(records, S)) = ToSet(records) \cap S
    BY OnlyElements
  <2>2. QED
    BY <2>1
<1>2. Times(records) = [k \in DOMAIN timed |-> timed[k].time]
  BY DEF Times
<1> HIDE DEF timed
<1>3. DOMAIN timed = 1..Len(timed) /\ Len(timed) \in Nat
      /\ \A k \in DOMAIN timed : timed[k] \in Records
  BY <1>1
<1>4. \A k \in DOMAIN timed : timed[k].time \in Int
  <2>1. \A r \in Records : r.time \in Int \cup {None}
    BY ParsedRecord DEF Records
  <2>2. \A k \in DOMAIN timed : timed[k] \in ToSet(timed)
    BY DEF ToSet
  <2>3. QED
    BY <1>1, <1>3, <2>1, <2>2
<1>5. Times(records) \in Seq(Int)
  BY <1>2, <1>3, <1>4
<1>6. Times(records) # <<>> <=> timed # <<>>
  BY <1>1, <1>2, <1>3
<1>7. timed # <<>> <=> ToSet(timed) # {}
  BY <1>1, <1>3 DEF ToSet
<1>8. ToSet(timed) # {} <=> \E k \in DOMAIN records : records[k].time # None
  BY <1>1 DEF ToSet
<1>9. QED
  BY <1>5, <1>6, <1>7, <1>8

LEMMA OffsetsOf ==
  ASSUME NEW records \in Seq(Records)
  PROVE  /\ Offsets(records) \in Seq(Int)
         /\ Offsets(records) # <<>> <=>
               \E k \in DOMAIN records : records[k].offset # None
<1> DEFINE known == Only(records, {r \in ToSet(records) : r.offset # None})
<1>1. known \in Seq(Records) /\ ToSet(known) = {r \in ToSet(records) : r.offset # None}
  <2>1. \A S : /\ Only(records, S) \in Seq(Records)
               /\ ToSet(Only(records, S)) = ToSet(records) \cap S
    BY OnlyElements
  <2>2. QED
    BY <2>1
<1>2. Offsets(records) = [k \in DOMAIN known |-> known[k].offset]
  BY DEF Offsets
<1> HIDE DEF known
<1>3. DOMAIN known = 1..Len(known) /\ Len(known) \in Nat
      /\ \A k \in DOMAIN known : known[k] \in Records
  BY <1>1
<1>4. \A k \in DOMAIN known : known[k].offset \in Int
  <2>1. \A r \in Records : r.offset \in Int \cup {None}
    BY ParsedRecord DEF Records
  <2>2. \A k \in DOMAIN known : known[k] \in ToSet(known)
    BY DEF ToSet
  <2>3. QED
    BY <1>1, <1>3, <2>1, <2>2
<1>5. Offsets(records) \in Seq(Int)
  BY <1>2, <1>3, <1>4
<1>6. Offsets(records) # <<>> <=> known # <<>>
  BY <1>1, <1>2, <1>3
<1>7. known # <<>> <=> ToSet(known) # {}
  BY <1>1, <1>3 DEF ToSet
<1>8. ToSet(known) # {} <=> \E k \in DOMAIN records : records[k].offset # None
  BY <1>1 DEF ToSet
<1>9. QED
  BY <1>5, <1>6, <1>7, <1>8

-----------------------------------------------------------------------------
(* Something in one of the sequences is in all of them together.            *)
LEMMA FlattenKeeps ==
  ASSUME NEW ss \in Seq(Seq(Int)), NEW one \in DOMAIN ss, ss[one] # <<>>
  PROVE  FlattenSeq(ss) # <<>>
<1> DEFINE N == Len(ss)
           Y == Seq(Int)
           Rec(g) == g = [i \in 1..N |-> IF i = 1 THEN ss[i] ELSE g[i - 1] \o ss[i]]
           step == [p \in (1..N) \X Y |-> p[2] \o ss[p[1]]]
           chosen == CHOOSE g : Rec(g)
<1>1. N \in Nat /\ DOMAIN ss = 1..N /\ one \in 1..N /\ \A k \in 1..N : ss[k] \in Y
  OBVIOUS
<1>2. /\ <<>> \in Y /\ \A x \in Y : <<>> \o x = x
      /\ \A x, y \in Y : x \o y \in Y /\ Len(x \o y) = Len(x) + Len(y)
      /\ \A x \in Y : Len(x) \in Nat /\ (x # <<>> <=> Len(x) > 0)
  OBVIOUS
<1> HIDE DEF Y
<1>3. StepOn(step, N, Y)
  BY <1>1, <1>2 DEF StepOn
<1>4. PICK f : Follows(f, N, Y, <<>>, step)
  <2> HIDE DEF step
  <2>1. QED
    BY <1>1, <1>2, <1>3, Recursion
<1>5. f \in [0..N -> Y] /\ f[0] = <<>>
  BY <1>4 DEF Follows
<1>6. \A k \in 1..N : k - 1 \in 0..N /\ k \in 0..N
  BY <1>1
<1>7. \A k \in 1..N : f[k] = f[k - 1] \o ss[k]
  BY <1>4, <1>5, <1>6 DEF Follows
<1> DEFINE g == [k \in 1..N |-> f[k]]
<1>8. Rec(g)
  <2>1. ASSUME NEW k \in 1..N
        PROVE  g[k] = IF k = 1 THEN ss[k] ELSE g[k - 1] \o ss[k]
    <3>1. CASE k = 1
      <4>1. f[k] = f[0] \o ss[k] /\ ss[k] \in Y
        BY <1>1, <1>7, <3>1
      <4>2. f[k] = ss[k]
        BY <1>2, <1>5, <4>1
      <4>3. QED
        BY <3>1, <4>2
    <3>2. CASE k # 1
      <4>1. k - 1 \in 1..N
        BY <3>2
      <4>2. g[k - 1] = f[k - 1] /\ g[k] = f[k] /\ f[k] = f[k - 1] \o ss[k]
        BY <1>7, <4>1
      <4> HIDE DEF g
      <4>3. QED
        BY <3>2, <4>2
    <3>3. QED
      BY <3>1, <3>2
  <2>2. g = [k \in 1..N |-> g[k]]
    OBVIOUS
  <2> HIDE DEF g
  <2>3. QED
    BY <2>1, <2>2, Zenon
<1>9. Rec(chosen)
  BY <1>8, Zenon
<1>10. FlattenSeq(ss) = chosen[N]
  <2>1. Len(ss) # 0
    BY <1>1
  <2>2. QED
    BY <2>1, Zenon DEF FlattenSeq
<1> HIDE DEF chosen
<1>11. \A k \in 1..N : chosen[k] = IF k = 1 THEN ss[k] ELSE chosen[k - 1] \o ss[k]
  <2>1. chosen = [i \in 1..N |-> IF i = 1 THEN ss[i] ELSE chosen[i - 1] \o ss[i]]
    BY <1>9
  <2>2. QED
    BY <2>1, Zenon
<1> DEFINE T == {m \in Nat : m + 1 <= N =>
                    /\ chosen[m + 1] \in Y
                    /\ one <= m + 1 => Len(chosen[m + 1]) > 0}
<1>12. 0 \in T
  <2> SUFFICES ASSUME 1 <= N
               PROVE  chosen[1] \in Y /\ (one <= 1 => Len(chosen[1]) > 0)
    OBVIOUS
  <2>1. 1 \in 1..N /\ chosen[1] = ss[1]
    BY <1>1, <1>11
  <2>2. one <= 1 => one = 1
    BY <1>1
  <2>3. QED
    BY <1>1, <1>2, <2>1, <2>2
<1>13. ASSUME NEW m \in Nat, m \in T PROVE m + 1 \in T
  <2> DEFINE k == (m + 1) + 1
  <2> SUFFICES ASSUME k <= N PROVE chosen[k] \in Y /\ (one <= k => Len(chosen[k]) > 0)
    OBVIOUS
  <2>1. k \in 1..N /\ k # 1 /\ k - 1 = m + 1 /\ m + 1 <= N
    BY <1>1
  <2>2. chosen[m + 1] \in Y /\ (one <= m + 1 => Len(chosen[m + 1]) > 0)
    BY <1>13, <2>1
  <2>3. chosen[k] = chosen[m + 1] \o ss[k] /\ ss[k] \in Y
    BY <1>1, <1>11, <2>1
  <2>4. /\ chosen[k] \in Y /\ Len(chosen[k]) = Len(chosen[m + 1]) + Len(ss[k])
        /\ Len(chosen[m + 1]) \in Nat /\ Len(ss[k]) \in Nat
    BY <1>2, <2>2, <2>3
  <2>5. one <= k => one <= m + 1 \/ one = k
    BY <1>1
  <2>6. one = k => Len(ss[k]) > 0
    BY <1>2, <2>3
  <2> HIDE DEF k
  <2>7. CASE one <= m + 1
    <3>1. Len(chosen[m + 1]) > 0
      BY <2>2, <2>7, Zenon
    <3>2. \A x : \A y, z \in Nat : x = y + z /\ y > 0 => x > 0
      OBVIOUS
    <3>3. Len(chosen[k]) > 0
      BY <2>4, <3>1, <3>2, Zenon
    <3>4. QED
      BY <2>4, <3>3, Zenon
  <2>8. CASE one = k
    BY <2>4, <2>6, <2>8
  <2>9. QED
    BY <2>4, <2>5, <2>7, <2>8
<1> HIDE DEF T
<1>14. \A m \in Nat : m \in T
  BY <1>12, <1>13, Induct
<1>15. chosen[N] \in Y /\ Len(chosen[N]) > 0
  <2>1. N - 1 \in T /\ (N - 1) + 1 = N /\ one <= N
    BY <1>1, <1>14
  <2>2. QED
    BY <1>1, <2>1 DEF T
<1>16. QED
  BY <1>2, <1>10, <1>15

LEMMA AnalyzeAlgoFields ==
  ASSUME NEW log, NEW run
  PROVE  LET d == AnalyzeAlgo(log, run, Hosts)
         IN  /\ d.records = ParseAccessLog(log, run, Hosts)
             /\ d.buckets = RecordBuckets(d.records, run)
             /\ d.times = Times(d.records)
             /\ DOMAIN d.means = {i \in DOMAIN d.buckets : Times(d.buckets[i]) # <<>>}
BY DEF AnalyzeAlgo

(* Wherever the chart of a run has a point of an algorithm's curve it has   *)
(* the pool's degradation beside it, whichever algorithms have data.        *)
THEOREM OverlaySpans == Spec => []OverlaySpansCurves
<1>1. ASSUME LogsHeld PROVE OverlaySpansCurves
  <2> SUFFICES ASSUME NEW r \in DOMAIN runs, NEW algo \in AlgoNames,
                      NEW i \in DOMAIN Report(runs[r])[algo].means
               PROVE  i \in DOMAIN DegradationByWindow(Report(runs[r]))
    BY DEF OverlaySpansCurves
  <2> DEFINE run == runs[r]
             data == Report(run)
             BucketsOf(name) == data[name].buckets
             RecordsOfAlgo(name) == ParseAccessLog(logs[name], run, Hosts)
  <2>1. \A name \in AlgoNames :
           /\ data[name] = AnalyzeAlgo(logs[name], run, Hosts)
           /\ BucketsOf(name) = RecordBuckets(RecordsOfAlgo(name), run)
           /\ DOMAIN data[name].means =
                {w \in DOMAIN BucketsOf(name) : Times(BucketsOf(name)[w]) # <<>>}
    <3>1. \A name \in AlgoNames : data[name] = AnalyzeAlgo(logs[name], run, Hosts)
      BY DEF Report, PerAlgo
    <3> HIDE DEF data, run
    <3>2. QED
      BY <3>1, AnalyzeAlgoFields
  <2>2. \A name \in AlgoNames : RecordsOfAlgo(name) \in Seq(Records)
    BY <1>1, RecordsOf DEF LogsHeld
  <2>3. \A name \in AlgoNames : \A w \in DOMAIN BucketsOf(name) :
           BucketsOf(name)[w] \in Seq(Records)
    <3>1. ASSUME NEW name \in AlgoNames, NEW w \in DOMAIN BucketsOf(name)
          PROVE  BucketsOf(name)[w] \in Seq(Records)
      <4> DEFINE records == RecordsOfAlgo(name)
                 mine == {q \in ToSet(records) : (q.ts - run.start) \div run.tick = w}
      <4>1. records \in Seq(Records)
        BY <2>2
      <4>2. RecordBuckets(records, run)[w] = Only(records, mine)
        <5>1. w \in DOMAIN RecordBuckets(records, run)
          BY <2>1, <3>1
        <5> HIDE DEF records, run
        <5>2. QED
          BY <5>1 DEF RecordBuckets
      <4> HIDE DEF records, mine
      <4>3. Only(records, mine) \in Seq(Records)
        BY <4>1, OnlyElements
      <4>4. QED
        BY <2>1, <4>2, <4>3 DEF records
    <3>2. QED
      BY <3>1
  <2>4. i \in DOMAIN BucketsOf(algo) /\ Times(BucketsOf(algo)[i]) # <<>>
    BY <2>1
  <2> DEFINE records == BucketsOf(algo)[i]
  <2>5. records \in Seq(Records)
    BY <2>3, <2>4
  <2>6. Offsets(records) # <<>>
    <3>1. PICK k \in DOMAIN records : records[k].time # None
      <4> HIDE DEF records
      <4>1. QED
        BY <2>4, <2>5, TimesOf DEF records
    <3> HIDE DEF records
    <3>2. records[k] \in Records
      BY <2>5
    <3>3. records[k].offset # None
      BY <3>1, <3>2, ParsedRecord DEF Records
    <3>4. QED
      BY <2>5, <3>3, OffsetsOf
  <2> DEFINE Part(k) == IF i \in DOMAIN BucketsOf(Algos[k])
                        THEN Offsets(BucketsOf(Algos[k])[i]) ELSE <<>>
             parts == [k \in DOMAIN Algos |-> Part(k)]
  <2>7. DOMAIN Algos = 1..Len(Algos) /\ Len(Algos) \in Nat
        /\ \A k \in DOMAIN Algos : Algos[k] \in AlgoNames
    BY ReportAssumption
  <2>8. parts \in Seq(Seq(Int))
    <3>1. ASSUME NEW k \in DOMAIN Algos PROVE Part(k) \in Seq(Int)
      <4>1. CASE i \in DOMAIN BucketsOf(Algos[k])
        <5> DEFINE bucket == BucketsOf(Algos[k])[i]
        <5>1. bucket \in Seq(Records)
          BY <2>3, <2>7, <4>1
        <5> HIDE DEF bucket
        <5>2. Offsets(bucket) \in Seq(Int)
          BY <5>1, OffsetsOf
        <5>3. Part(k) = Offsets(bucket)
          BY <4>1 DEF bucket
        <5>4. QED
          BY <5>2, <5>3
      <4>2. CASE i \notin DOMAIN BucketsOf(Algos[k])
        BY <4>2
      <4>3. QED
        BY <4>1, <4>2
    <3>2. QED
      BY <2>7, <3>1
  <2>9. PICK one \in DOMAIN Algos : Algos[one] = algo
    BY DEF AlgoNames, ToSet
  <2>10. parts[one] # <<>> /\ one \in DOMAIN parts
    BY <2>4, <2>6, <2>9
  <2> HIDE DEF parts
  <2>11. FlattenSeq(parts) # <<>>
    BY <2>8, <2>10, FlattenKeeps
  <2>12. i \in UNION {DOMAIN data[name].buckets : name \in AlgoNames}
    BY <2>4
  <2> HIDE DEF data
  <2>13. DOMAIN DegradationByWindow(data) =
           {w \in UNION {DOMAIN data[name].buckets : name \in AlgoNames} :
              FlattenSeq([k \in DOMAIN Algos |->
                  IF w \in DOMAIN data[Algos[k]].buckets
                  THEN Offsets(data[Algos[k]].buckets[w]) ELSE <<>>]) # <<>>}
    BY DEF DegradationByWindow
  <2>14. i \in DOMAIN DegradationByWindow(data)
    BY <2>11, <2>12, <2>13, Zenon DEF parts
  <2>15. QED
    BY <2>14 DEF data
<1>2. QED
  BY <1>1, LogsInvariant, PTL

-----------------------------------------------------------------------------
(* Means as fractions: Lower is an order in which what is not lower than    *)
(* what is not lower is not lower.                                          *)
LEMMA ScaledUp ==
  ASSUME NEW x \in Int, NEW y \in Int, NEW c \in Nat
  PROVE  x >= y => x * c >= y * c
<1>1. SUFFICES ASSUME x >= y PROVE x * c >= y * c
  OBVIOUS
<1>2. PICK d \in Nat : x = y + d
  <2>1. x - y \in Nat /\ x = y + (x - y)
    BY <1>1
  <2>2. QED
    BY <2>1
<1>3. x * c = y * c + d * c
  BY <1>2
<1>4. d * c \in Nat /\ y * c \in Int
  OBVIOUS
<1>5. QED
  BY <1>3, <1>4

LEMMA CrossMultiplied ==
  ASSUME NEW x \in Int, NEW y \in Int, NEW z \in Int,
         NEW l \in Nat \ {0}, NEW m \in Nat \ {0}, NEW k \in Nat \ {0},
         x * m >= y * l, y * k >= z * m
  PROVE  x * k >= z * l
<1>1. (x * m) * k >= (y * l) * k
  BY ScaledUp
<1>2. (y * k) * l >= (z * m) * l
  BY ScaledUp
<1>3. (y * l) * k = (y * k) * l /\ (x * m) * k = (x * k) * m
      /\ (z * m) * l = (z * l) * m
  OBVIOUS
<1>4. (x * k) * m >= (z * l) * m
  BY <1>1, <1>2, <1>3
<1> DEFINE p == x * k
           q == z * l
<1>5. p \in Int /\ q \in Int
  OBVIOUS
<1>6. p * m >= q * m
  BY <1>4
<1> HIDE DEF p, q
<1>7. ASSUME q >= p + 1 PROVE FALSE
  <2>1. q * m >= (p + 1) * m
    BY <1>5, <1>7, ScaledUp
  <2>2. (p + 1) * m = p * m + m
    BY <1>5
  <2>3. QED
    BY <1>5, <1>6, <2>1, <2>2
<1>8. p >= q
  BY <1>5, <1>7
<1>9. QED
  BY <1>8 DEF p, q

LEMMA MeanOfSome ==
  ASSUME NEW s \in Seq(Int), s # <<>>
  PROVE  Mean(s).sum \in Int /\ Mean(s).n \in Nat \ {0}
<1>1. Len(s) \in Nat \ {0} /\ s \in [1..Len(s) -> Int]
  OBVIOUS
<1>2. Total(s, Len(s)) \in Int
  <2>1. PICK sum \in [0..Len(s) -> Int] : Total(s, Len(s)) = sum[Len(s)]
    BY <1>1, PartialSums
  <2>2. QED
    BY <1>1, <2>1
<1>3. QED
  BY <1>1, <1>2 DEF Mean

(* The two contenders of the report are the best of their groups, and they  *)
(* are there as soon as both groups have data: after the stable sort by     *)
(* mean, the first of either group is nowhere above one of the same group.  *)
THEOREM ContendersAreBest == Spec => []HeadToHeadIsBest
<1>1. ASSUME LogsHeld, NEW r \in DOMAIN runs
      PROVE  LET data == Report(runs[r])
                 measured == {algo \in AlgoNames : HasStats(data[algo])}
                 pair == HeadToHead(data)
                 MeanOf(algo) == Mean(data[algo].times)
             IN  /\ Control \in measured =>
                      AgainstControl(data) \cup {Control} = measured
                 /\ (measured \subseteq Adaptive \/ measured \cap Adaptive = {})
                      <=> pair = <<>>
                 /\ pair # <<>> =>
                      /\ pair[1] \in measured \cap Adaptive
                      /\ pair[2] \in measured \ Adaptive
                      /\ \A algo \in measured :
                            ~Lower(MeanOf(algo),
                                   MeanOf(pair[IF algo \in Adaptive THEN 1 ELSE 2]))
  <2> DEFINE data == Report(runs[r])
             measured == {algo \in AlgoNames : HasStats(data[algo])}
             means == [algo \in AlgoNames |-> Mean(data[algo].times)]
             lower == {p \in measured \X measured : Lower(means[p[1]], means[p[2]])}
             ranked == StableSort(Only(Algos, measured), lower)
             builtin == Only(ranked, AlgoNames \ Adaptive)
             adaptive == Only(ranked, Adaptive)
  <2>1. \A algo \in measured : /\ algo \in AlgoNames
                               /\ means[algo].sum \in Int
                               /\ means[algo].n \in Nat \ {0}
    <3>1. ASSUME NEW algo \in measured
          PROVE  means[algo].sum \in Int /\ means[algo].n \in Nat \ {0}
      <4> DEFINE records == ParseAccessLog(logs[algo], runs[r], Hosts)
      <4>1. data[algo] = AnalyzeAlgo(logs[algo], runs[r], Hosts)
        BY DEF Report, PerAlgo
      <4>2. records \in Seq(Records)
        BY <1>1, RecordsOf DEF LogsHeld
      <4> HIDE DEF data, records
      <4>3. data[algo].times = Times(records)
        BY <4>1, AnalyzeAlgoFields DEF records
      <4>4. data[algo].times \in Seq(Int)
        BY <4>2, <4>3, TimesOf
      <4>5. data[algo].times # <<>> /\ means[algo] = Mean(data[algo].times)
        BY DEF HasStats
      <4>6. QED
        BY <4>4, <4>5, MeanOfSome
    <3>2. QED
      BY <3>1
  <2>2. RankAlgos(data) = ranked
    <3>1. lower = {p \in measured \X measured :
                     Lower(Mean(data[p[1]].times), Mean(data[p[2]].times))}
      OBVIOUS
    <3> HIDE DEF lower, data
    <3>2. QED
      BY <3>1 DEF RankAlgos
  <2>3. HeadToHead(data) = IF builtin = <<>> \/ adaptive = <<>> THEN <<>>
                           ELSE <<Head(adaptive), Head(builtin)>>
    <3> HIDE DEF ranked, data
    <3>1. QED
      BY <2>2 DEF HeadToHead
  <2>4. Control \in measured => AgainstControl(data) \cup {Control} = measured
    BY DEF AgainstControl
  <2> HIDE DEF data
  <2>5. Only(Algos, measured) \in Seq(measured)
        /\ ToSet(Only(Algos, measured)) = measured
    <3> DEFINE some == Only(Algos, measured)
    <3>1. Algos \in Seq(AlgoNames) /\ ToSet(Algos) = AlgoNames /\ measured \subseteq AlgoNames
      BY ReportAssumption DEF AlgoNames
    <3> HIDE DEF measured
    <3>2. some \in Seq(AlgoNames) /\ ToSet(some) = AlgoNames \cap measured
      BY <3>1, OnlyElements
    <3> HIDE DEF some
    <3>3. \A k \in DOMAIN some : some[k] \in measured
      BY <3>2 DEF ToSet
    <3>4. QED
      BY <3>1, <3>2, <3>3 DEF some
  <2>6. Orders(lower, measured)
    <3> DEFINE S(x) == means[x].sum
               C(x) == means[x].n
    <3>1. \A x, y \in measured : <<x, y>> \in lower <=> S(x) * C(y) < S(y) * C(x)
      BY DEF Lower
    <3> HIDE DEF lower, means, measured
    <3>2. ASSUME NEW x \in measured, NEW y \in measured, <<x, y>> \in lower
          PROVE  <<y, x>> \notin lower
      <4>1. S(x) * C(y) \in Int /\ S(y) * C(x) \in Int
        BY <2>1
      <4>2. QED
        BY <3>1, <3>2, <4>1
    <3>3. ASSUME NEW x \in measured, NEW y \in measured, NEW z \in measured,
                 <<x, y>> \notin lower, <<y, z>> \notin lower
          PROVE  <<x, z>> \notin lower
      <4>1. /\ S(x) \in Int /\ S(y) \in Int /\ S(z) \in Int
            /\ C(x) \in Nat \ {0} /\ C(y) \in Nat \ {0} /\ C(z) \in Nat \ {0}
        BY <2>1
      <4>2. ~(S(x) * C(y) < S(y) * C(x)) /\ ~(S(y) * C(z) < S(z) * C(y))
        BY <3>1, <3>3
      <4>3. S(x) * C(y) >= S(y) * C(x) /\ S(y) * C(z) >= S(z) * C(y)
        BY <4>1, <4>2
      <4>4. S(x) * C(z) >= S(z) * C(x)
        BY <4>1, <4>3, CrossMultiplied
      <4>5. ~(S(x) * C(z) < S(z) * C(x))
        BY <4>1, <4>4
      <4>6. QED
        BY <3>1, <4>5
    <3>4. QED
      BY <3>2, <3>3 DEF Orders
  <2>7. ranked \in Seq(measured) /\ ToSet(ranked) = measured /\ InOrder(ranked, lower)
    <3> HIDE DEF measured, lower
    <3>1. QED
      BY <2>5, <2>6, SortElements, SortOrders
  <2>8. \A x, y \in measured :
           Lower(Mean(data[x].times), Mean(data[y].times)) => <<x, y>> \in lower
    BY <2>1
  <2>9. \A x \in measured : <<x, x>> \notin lower
    <3> HIDE DEF measured, lower
    <3>1. QED
      BY <2>6 DEF Orders
  <2>10. measured \subseteq AlgoNames
    OBVIOUS
  <2> HIDE DEF measured, lower, ranked
  <2>11. \A S : /\ Only(ranked, S) = <<>> <=> measured \cap S = {}
                /\ Only(ranked, S) # <<>> =>
                     /\ Head(Only(ranked, S)) \in measured \cap S
                     /\ \A x \in measured \cap S :
                           <<x, Head(Only(ranked, S))>> \notin lower
    <3>1. SUFFICES ASSUME NEW S
                   PROVE  /\ Only(ranked, S) = <<>> <=> measured \cap S = {}
                          /\ Only(ranked, S) # <<>> =>
                               /\ Head(Only(ranked, S)) \in measured \cap S
                               /\ \A x \in measured \cap S :
                                     <<x, Head(Only(ranked, S))>> \notin lower
      OBVIOUS
    <3> DEFINE some == Only(ranked, S)
    <3>2. some \in Seq(measured) /\ ToSet(some) = measured \cap S
      BY <2>7, OnlyElements
    <3>3. some # <<>> => \E i \in DOMAIN ranked :
                           /\ ranked[i] \in S /\ Head(some) = ranked[i]
                           /\ \A j \in DOMAIN ranked : ranked[j] \in S => i <= j
      BY <2>7, OnlyElements
    <3> HIDE DEF some
    <3>4. some = <<>> <=> measured \cap S = {}
      BY <3>2 DEF ToSet
    <3>5. ASSUME some # <<>>
          PROVE  /\ Head(some) \in measured \cap S
                 /\ \A x \in measured \cap S : <<x, Head(some)>> \notin lower
      <4>1. PICK i \in DOMAIN ranked :
                   /\ ranked[i] \in S /\ Head(some) = ranked[i]
                   /\ \A j \in DOMAIN ranked : ranked[j] \in S => i <= j
        BY <3>3, <3>5
      <4>2. ranked[i] \in measured
        BY <2>7
      <4>3. ASSUME NEW x \in measured \cap S PROVE <<x, ranked[i]>> \notin lower
        <5>1. PICK j \in DOMAIN ranked : ranked[j] = x
          BY <2>7 DEF ToSet
        <5>2. i <= j
          BY <4>1, <5>1
        <5>3. i \in Nat /\ j \in Nat
          BY <2>7
        <5>4. CASE i = j
          BY <2>9, <5>1, <5>4
        <5>5. CASE i # j
          <6>1. i < j
            BY <5>2, <5>3, <5>5
          <6>2. QED
            BY <2>7, <5>1, <6>1 DEF InOrder
        <5>6. QED
          BY <5>4, <5>5
      <4>4. QED
        BY <4>1, <4>2, <4>3
    <3>6. QED
      BY <3>4, <3>5 DEF some
  <2> DEFINE pair == HeadToHead(data)
  <2>12. /\ builtin = <<>> <=> measured \cap (AlgoNames \ Adaptive) = {}
         /\ adaptive = <<>> <=> measured \cap Adaptive = {}
    BY <2>11
  <2>13. (measured \subseteq Adaptive \/ measured \cap Adaptive = {}) <=> pair = <<>>
    <3>1. \A x, y : <<x, y>> # <<>>
      OBVIOUS
    <3>2. pair = <<>> <=> builtin = <<>> \/ adaptive = <<>>
      BY <2>3, <3>1
    <3> HIDE DEF pair, builtin, adaptive
    <3>3. QED
      BY <2>10, <2>12, <3>2
  <2>14. ASSUME pair # <<>>
         PROVE  /\ pair[1] \in measured \cap Adaptive
                /\ pair[2] \in measured \ Adaptive
                /\ \A algo \in measured :
                      ~Lower(Mean(data[algo].times),
                             Mean(data[pair[IF algo \in Adaptive THEN 1 ELSE 2]].times))
    <3>1. builtin # <<>> /\ adaptive # <<>>
          /\ pair[1] = Head(adaptive) /\ pair[2] = Head(builtin)
      BY <2>3, <2>14
    <3>2. /\ pair[1] \in measured \cap Adaptive
          /\ \A x \in measured \cap Adaptive : <<x, pair[1]>> \notin lower
          /\ pair[2] \in measured \cap (AlgoNames \ Adaptive)
          /\ \A x \in measured \cap (AlgoNames \ Adaptive) : <<x, pair[2]>> \notin lower
      BY <2>11, <3>1
    <3> HIDE DEF pair, builtin, adaptive
    <3>3. ASSUME NEW algo \in measured
          PROVE  ~Lower(Mean(data[algo].times),
                        Mean(data[pair[IF algo \in Adaptive THEN 1 ELSE 2]].times))
      <4>1. CASE algo \in Adaptive
        BY <2>8, <3>2, <4>1
      <4>2. CASE algo \notin Adaptive
        BY <2>8, <2>10, <3>2, <4>2
      <4>3. QED
        BY <4>1, <4>2
    <3>4. QED
      BY <3>2, <3>3
  <2>15. QED
    BY <2>4, <2>13, <2>14 DEF data, measured
<1>2. LogsHeld => HeadToHeadIsBest
  BY <1>1 DEF HeadToHeadIsBest
<1>3. QED
  BY <1>2, LogsInvariant, PTL

-----------------------------------------------------------------------------
(* Selecting among the selected: the positions of the positions.            *)
Through(p, q, m) == [i \in 1..m |-> p[q[i]]]

LEMMA EnumeratesThrough ==
  ASSUME NEW K, K \subseteq Nat, NEW p, NEW len, Enumerates(p, len, K),
         NEW M, M \subseteq 1..len, NEW q, NEW m, Enumerates(q, m, M)
  PROVE  Enumerates(Through(p, q, m), m, {p[j] : j \in M})
<1> DEFINE c == Through(p, q, m)
           P == {p[j] : j \in M}
<1>1. /\ len \in Nat /\ p \in [1..len -> K]
      /\ \A i, j \in 1..len : i < j => p[i] < p[j]
  BY DEF Enumerates
<1>2. /\ m \in Nat /\ q \in [1..m -> M]
      /\ \A i, j \in 1..m : i < j => q[i] < q[j]
      /\ \A k \in M : \E i \in 1..m : q[i] = k
  BY DEF Enumerates
<1>3. c = [i \in 1..m |-> p[q[i]]]
  BY DEF Through
<1> HIDE DEF c
<1>4. c \in [1..m -> P]
  BY <1>2, <1>3
<1>5. ASSUME NEW i \in 1..m, NEW j \in 1..m, i < j PROVE c[i] < c[j]
  <2>1. q[i] < q[j] /\ q[i] \in 1..len /\ q[j] \in 1..len
    BY <1>2, <1>5
  <2>2. QED
    BY <1>1, <1>3, <2>1
<1>6. ASSUME NEW x \in P PROVE \E i \in 1..m : c[i] = x
  <2>1. PICK k \in M : x = p[k]
    OBVIOUS
  <2>2. PICK i \in 1..m : q[i] = k
    BY <1>2
  <2>3. c[i] = x
    BY <1>3, <2>1, <2>2
  <2>4. QED
    BY <2>3
<1> HIDE DEF P
<1>7. Enumerates(c, m, P)
  BY <1>2, <1>4, <1>5, <1>6 DEF Enumerates
<1>8. QED
  BY <1>7 DEF c, P

TimesOfLines(log, run, records) ==
    LET own == Only(log, {l \in ToSet(log) :
                 /\ l.whole /\ run.start <= l.ts /\ l.ts <= run.end
                 /\ Len(l.tried) = 1 /\ l.times # <<None>>})
        timed == Only(records, {r \in ToSet(records) : r.time # None})
    IN  /\ Len(timed) = Len(own)
        /\ \A i \in DOMAIN own :
              LET ip == Head(own[i].tried)
              IN  /\ timed[i].time = Head(own[i].times)
                  /\ ip \in DOMAIN Hosts => timed[i].host = Hosts[ip]

(* The lines of a run that have a time are, one by one, the records that    *)
(* have one: the records are already in the order of time, so that sorting  *)
(* them changes nothing, and of the log's positions only one increasing     *)
(* sequence goes through those of the timed lines.                          *)
LEMMA TimedLines ==
  ASSUME NEW log \in Seq(Logged), NEW run,
         \A k, l \in DOMAIN log : k <= l => log[k].ts <= log[l].ts
  PROVE  TimesOfLines(log, run, ParseAccessLog(log, run, Hosts))
<1> DEFINE InRun(line) == line.whole /\ run.start <= line.ts /\ line.ts <= run.end
           mine == {line \in ToSet(log) : InRun(line)}
           kept == Only(log, mine)
           parsed == [k \in DOMAIN kept |-> Parse(kept[k], Hosts)]
           earlier == {x \in ToSet(parsed) \X ToSet(parsed) : x[1].ts < x[2].ts}
           records == ParseAccessLog(log, run, Hosts)
           answered == {l \in ToSet(log) :
                          /\ l.whole /\ run.start <= l.ts /\ l.ts <= run.end
                          /\ Len(l.tried) = 1 /\ l.times # <<None>>}
           own == Only(log, answered)
           withTime == {r \in ToSet(parsed) : r.time # None}
           timed == Only(parsed, withTime)
           KP == {k \in DOMAIN log : log[k] \in mine}
           KO == {k \in DOMAIN log : log[k] \in answered}
           KT == {k \in DOMAIN parsed : parsed[k] \in withTime}
<1>1. records = StableSort(parsed, earlier)
  BY Zenon DEF ParseAccessLog
<1>2. PICK len, p : Enumerates(p, len, KP) /\ kept = Along(log, p, len)
  <2>1. Picks(kept, log, KP)
    BY OnlyPositions
  <2>2. QED
    BY <2>1, Zenon DEF Picks
<1>3. PICK size, o : Enumerates(o, size, KO) /\ own = Along(log, o, size)
  <2>1. Picks(own, log, KO)
    BY OnlyPositions
  <2>2. QED
    BY <2>1, Zenon DEF Picks
<1>4. DOMAIN log = 1..Len(log) /\ Len(log) \in Nat
      /\ \A k \in DOMAIN log : log[k] \in Logged /\ log[k] \in ToSet(log)
  BY DEF ToSet
<1>5. KP \subseteq DOMAIN log /\ KO = {k \in KP : Timed(log[k])}
      /\ KP \subseteq Nat /\ KO \subseteq Nat
  BY <1>4 DEF Timed
<1>6. kept \in Seq(Logged)
  BY OnlyElements
<1> HIDE DEF mine, answered, kept, own, KP, KO
<1>7. /\ len \in Nat /\ p \in [1..len -> KP]
      /\ \A i, j \in 1..len : i < j => p[i] < p[j]
      /\ \A k \in KP : \E i \in 1..len : p[i] = k
  BY <1>2 DEF Enumerates
<1>8. /\ DOMAIN kept = 1..len
      /\ \A i \in 1..len : kept[i] = log[p[i]] /\ p[i] \in DOMAIN log
  BY <1>2, <1>5, <1>7 DEF Along
<1>9. /\ parsed \in Seq(Records) /\ DOMAIN parsed = 1..len
      /\ \A i \in 1..len : parsed[i] = Parse(log[p[i]], Hosts)
  <2>1. \A i \in 1..len : Parse(kept[i], Hosts) \in Records
    BY <1>6, <1>8 DEF Records
  <2>2. Len(kept) = len
    BY <1>6, <1>7, <1>8
  <2>3. parsed = [i \in 1..len |-> Parse(kept[i], Hosts)]
    BY <1>8
  <2>4. len \in Nat
    BY <1>7
  <2> HIDE DEF parsed
  <2>5. parsed \in Seq(Records) /\ DOMAIN parsed = 1..len
    BY <2>1, <2>3, <2>4
  <2>6. \A i \in 1..len : parsed[i] = Parse(log[p[i]], Hosts)
    BY <1>8, <2>3
  <2>7. QED
    BY <2>5, <2>6
<1>10. \A i \in 1..len : /\ parsed[i].ts = log[p[i]].ts /\ parsed[i].ts \in Int
                         /\ parsed[i].time # None <=> Timed(log[p[i]])
  BY <1>4, <1>8, <1>9, ParsedRecord
<1>11. records = parsed
  <2>1. ASSUME NEW i \in DOMAIN parsed, NEW j \in DOMAIN parsed, i < j
        PROVE  <<parsed[j], parsed[i]>> \notin earlier
    <3>1. p[i] < p[j] /\ p[i] \in DOMAIN log /\ p[j] \in DOMAIN log
      BY <1>7, <1>8, <1>9, <2>1
    <3>2. p[i] <= p[j]
      BY <1>4, <3>1
    <3>3. log[p[i]].ts <= log[p[j]].ts
      BY <3>1, <3>2
    <3>4. ~(parsed[j].ts < parsed[i].ts)
      <4>1. parsed[i].ts <= parsed[j].ts /\ parsed[i].ts \in Int /\ parsed[j].ts \in Int
        BY <1>9, <1>10, <3>3
      <4>2. QED
        BY <4>1
    <3> HIDE DEF parsed
    <3>5. QED
      BY <3>4
  <2> HIDE DEF parsed, earlier
  <2>2. QED
    BY <1>1, <1>9, <2>1, SortKeeps
<1>12. PICK m, q : Enumerates(q, m, KT) /\ timed = Along(parsed, q, m)
  <2>1. Picks(timed, parsed, KT)
    <3> HIDE DEF parsed
    <3>1. QED
      BY <1>9, OnlyPositions
  <2>2. QED
    BY <2>1, Zenon DEF Picks
<1>13. KT = {i \in 1..len : Timed(log[p[i]])}
  <2>1. KT = {i \in DOMAIN parsed : parsed[i].time # None}
    BY DEF ToSet
  <2> HIDE DEF parsed, KT
  <2>2. QED
    BY <1>9, <1>10, <2>1
<1> HIDE DEF parsed, earlier, records, withTime, KT, timed
<1>14. /\ m \in Nat /\ q \in [1..m -> KT]
       /\ \A k \in KT : \E i \in 1..m : q[i] = k
  BY <1>12 DEF Enumerates
<1>15. {p[j] : j \in KT} = KO
  BY <1>5, <1>7, <1>13
<1> DEFINE c == Through(p, q, m)
<1>16. Enumerates(c, m, KO)
  <2>1. KT \subseteq 1..len
    BY <1>13
  <2> HIDE DEF c
  <2>2. Enumerates(c, m, {p[j] : j \in KT})
    BY <1>2, <1>5, <1>12, <2>1, EnumeratesThrough DEF c
  <2>3. QED
    BY <1>15, <2>2, Zenon
<1> HIDE DEF c
<1>17. m = size /\ c = o
  BY <1>3, <1>5, <1>16, EnumeratesOnce
<1>18. own \in Seq(Logged) /\ DOMAIN own = 1..m /\ Len(own) = m
  <2>1. own \in Seq(Logged)
    BY OnlyElements DEF own
  <2>2. DOMAIN own = 1..m
    BY <1>3, <1>17 DEF Along
  <2>3. QED
    BY <1>14, <2>1, <2>2
<1>19. timed \in Seq(Records) /\ DOMAIN timed = 1..m /\ Len(timed) = m
  <2>1. timed \in Seq(Records)
    BY <1>9, OnlyElements DEF timed
  <2>2. DOMAIN timed = 1..m
    BY <1>12 DEF Along
  <2>3. QED
    BY <1>14, <2>1, <2>2
<1>20. ASSUME NEW i \in 1..m
       PROVE  /\ timed[i].time = Head(own[i].times)
              /\ Head(own[i].tried) \in DOMAIN Hosts =>
                    timed[i].host = Hosts[Head(own[i].tried)]
  <2>1. q[i] \in 1..len /\ Timed(log[p[q[i]]]) /\ log[p[q[i]]] \in Logged
    BY <1>4, <1>8, <1>13, <1>14
  <2>2. timed[i] = parsed[q[i]]
    BY <1>12 DEF Along
  <2>3. parsed[q[i]] = Parse(log[p[q[i]]], Hosts)
    BY <1>9, <2>1
  <2>4. own[i] = log[o[i]] /\ o[i] = p[q[i]]
    BY <1>3, <1>17 DEF Along, Through, c
  <2>5. QED
    BY <2>1, <2>2, <2>3, <2>4, ParsedRecord
<1>21. /\ Len(timed) = Len(own)
       /\ \A i \in DOMAIN own :
             /\ timed[i].time = Head(own[i].times)
             /\ Head(own[i].tried) \in DOMAIN Hosts =>
                   timed[i].host = Hosts[Head(own[i].tried)]
  BY <1>18, <1>19, <1>20
<1>22. timed = Only(records, {r \in ToSet(records) : r.time # None})
  BY <1>11, Zenon DEF timed, withTime
<1>23. QED
  BY <1>21, <1>22 DEF TimesOfLines, own, answered, records

(* No time is charged to a backend that did not take it: the records with a *)
(* time are the requests of the run that their first backend answered, in   *)
(* their order, each with that backend's name and time.                     *)
THEOREM TimesAreTheirHosts == Spec => []TimedByNamedHost
<1>1. ASSUME LogsHeld PROVE TimedByNamedHost
  <2>1. ASSUME NEW k \in DOMAIN runs, NEW algo \in AlgoNames
        PROVE  TimesOfLines(logs[algo], runs[k], Report(runs[k])[algo].records)
    <3> DEFINE log == logs[algo]
               run == runs[k]
               records == Report(run)[algo].records
    <3>1. log \in Seq(Logged) /\ \A i, j \in DOMAIN log : i <= j => log[i].ts <= log[j].ts
      BY <1>1 DEF LogsHeld
    <3>2. Report(run)[algo] = AnalyzeAlgo(log, run, Hosts)
      BY DEF Report, PerAlgo
    <3> HIDE DEF log, run
    <3>3. records = ParseAccessLog(log, run, Hosts)
      BY <3>2, AnalyzeAlgoFields
    <3> HIDE DEF records
    <3>4. TimesOfLines(log, run, records)
      <4> HIDE DEF log
      <4>1. TimesOfLines(log, run, ParseAccessLog(log, run, Hosts))
        BY <3>1, TimedLines
      <4>2. QED
        BY <3>3, <4>1, Zenon
    <3>5. QED
      BY <3>4 DEF log, run, records
  <2>2. QED
    BY <2>1, Zenon DEF TimedByNamedHost, TimesOfLines
<1>2. QED
  BY <1>1, LogsInvariant, PTL
=============================================================================
