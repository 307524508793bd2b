------------------------------ MODULE Analysis ------------------------------
(***************************************************************************)
(* LogReader's computations and Report's results on every input there can   *)
(* be: the inputs are the state, and a step makes one of them longer.  What *)
(* the analysis promises of its results is stated at the end.               *)
(***************************************************************************)
EXTENDS Report

CONSTANTS Values,     \* measured times
          Vectors,    \* the weights of a row
          Columns,    \* how many backends the header of the weights names
          Hosts,      \* ip_to_host.json: the names of addresses
          Addresses,  \* all addresses, those without a name included
          Requests,   \* what a line says of a request, except its time
          Stamps,     \* the times of access-log lines
          RunLogs,    \* what runs.log may hold
          DeltaPairs, \* DELTA_PAIRS: the algorithms compared across runs
          Topics,     \* the computations an instance is about
          MaxSample,  \* bound: both samples together
          MaxN,       \* bound: the size of a sample whose ranks are computed
          MaxTime,    \* bound: time stamps of weights
          MaxRows,    \* bound: rows of a weights file
          MaxLines,   \* bound: lines of all access logs together
          MaxOfOne    \* bound: lines of one access log

RunRecord == [index : Nat, start : Int, end : Int, tick : Nat \ {0}, rps : Nat,
              interrupted : BOOLEAN]

ASSUME InputsAssumption ==
    /\ Values \subseteq Int /\ Stamps \subseteq Nat /\ MaxTime \in Nat
    /\ Vectors \subseteq Seq(Int) /\ Columns \in Nat \ {0}
    /\ RunLogs \subseteq Seq(RunRecord)
    /\ DeltaPairs \subseteq AlgoNames \X AlgoNames

(* NGINX writes a time for each address it tried; a backend that has        *)
(* answered has sent its offset.                                            *)
ASSUME RequestsAssumption ==
    \A q \in Requests :
        /\ q.tried \in Seq(Addresses) /\ q.times \in Seq(Int \cup {None})
        /\ Len(q.tried) = Len(q.times) /\ Len(q.times) >= 1
        /\ q.offset \in Int \cup {None} /\ q.whole \in BOOLEAN
        /\ Len(q.times) = 1 /\ q.times # <<None>> => q.offset # None

VARIABLES topic,   \* which computation this behaviour is about
          a, b,    \* two samples
          n,       \* the size of a sample
          file,    \* the rows of a weights file
          logs,    \* logs[algo]: an access log
          runs     \* runs.log

vars == <<topic, a, b, n, file, logs, runs>>

Init ==
    /\ topic \in Topics
    /\ a = <<>> /\ b = <<>>
    /\ n = 1
    /\ file = <<>>
    /\ logs = [algo \in AlgoNames |-> <<>>]
    /\ runs \in IF topic = "report" THEN RunLogs ELSE {<<>>}

GrowSample ==
    /\ topic = "samples"
    /\ Len(a) + Len(b) < MaxSample
    /\ \E v \in Values : \/ a' = Append(a, v) /\ b' = b
                         \/ b' = Append(b, v) /\ a' = a
    /\ UNCHANGED <<topic, n, file, logs, runs>>

GrowN ==
    /\ topic = "percentile"
    /\ n < MaxN
    /\ n' = n + 1
    /\ UNCHANGED <<topic, a, b, file, logs, runs>>

(* Rows of the header's pool, and of others.                                *)
GrowFile ==
    /\ topic = "changes"
    /\ Len(file) < MaxRows
    /\ \E t \in 0..MaxTime, weights \in Vectors :
          /\ file # <<>> => t >= Last(file).ts
          /\ file' = Append(file, [ts |-> t, weights |-> weights])
    /\ UNCHANGED <<topic, a, b, n, logs, runs>>

(* A request ends, and NGINX writes its line.                               *)
LineOf(q, t) == [ts |-> t, tried |-> q.tried, times |-> q.times,
                 offset |-> q.offset, whole |-> q.whole]

Serve ==
    /\ topic = "report"
    /\ FoldFunction(+, 0, [algo \in AlgoNames |-> Len(logs[algo])]) < MaxLines
    /\ \E algo \in AlgoNames, t \in Stamps, q \in Requests :
          /\ Len(logs[algo]) < MaxOfOne
          /\ logs[algo] # <<>> => t >= Last(logs[algo]).ts
          /\ logs' = [logs EXCEPT ![algo] = Append(@, LineOf(q, t))]
    /\ UNCHANGED <<topic, a, b, n, file, runs>>

Next == GrowSample \/ GrowN \/ GrowFile \/ Serve

Spec == Init /\ [][Next]_vars

-----------------------------------------------------------------------------
Percents == {50, 90, 95, 99}
CeilDiv(x, y) == (x + y - 1) \div y
NearestRankOf(pct) == CeilDiv(pct * n, 100)

(* The rank a percentile is read at lies in the sample and is the nearest   *)
(* rank or the one below it; p50, p90, p95 and p99 come in that order.      *)
RankCloseToNearest ==
    /\ \A p \in Percents :
          /\ Rank(n, p) \in 1..n
          /\ Rank(n, p) \in {NearestRankOf(p) - 1, NearestRankOf(p)}
    /\ \A p, q \in Percents : p <= q => Rank(n, p) <= Rank(n, q)

(* U, computed from ranks, is what the test defines it to be: the number of *)
(* pairs in which the first sample's value is the larger, ties for half.    *)
UCountsPairs ==
    DoubleU(a, b) =
        2 * Cardinality({p \in (DOMAIN a) \X (DOMAIN b) : a[p[1]] > b[p[2]]})
        + Cardinality({p \in (DOMAIN a) \X (DOMAIN b) : a[p[1]] = b[p[2]]})

(* The tie-corrected variance is never negative, and zero only where "every *)
(* value [is] identical": the guard before the square root and the division *)
(* lets every other pair of samples through.                                *)
VarianceZeroOnlyIfConstant ==
    LET all == a \o b
    IN  (a # <<>> /\ b # <<>> /\ Len(all) > 1) =>
            /\ ScaledVariance(a, b) >= 0
            /\ ScaledVariance(a, b) = 0 <=> \A k, l \in DOMAIN all : all[k] = all[l]

(* "Undercounts by at most one per algorithm per run": the changes the      *)
(* whole file shows in a run's window, and those counted inside it.  Rows   *)
(* of another pool can only hide changes, never add one.                    *)
UndercountsByOne ==
    \A s \in 0..MaxTime, e \in 0..MaxTime :
        LET changes == {k \in DOMAIN file :
                          /\ k > 1 /\ file[k].weights # file[k - 1].weights
                          /\ s <= file[k].ts /\ file[k].ts <= e}
            counted == CountWeightChanges(WeightRows(file, Columns, s, e))
        IN  /\ counted <= Cardinality(changes)
            /\ (\A k \in DOMAIN file : Len(file[k].weights) = Columns)
                  => counted >= Cardinality(changes) - 1

-----------------------------------------------------------------------------
Report(run) == PerAlgo(logs, run, Hosts)

(* No time is charged to a backend that did not take it: a record that has  *)
(* one is a request its first backend answered, and every such request of   *)
(* the run is in the statistics.  (A request that failed over is counted    *)
(* for the backend tried first, without a time.)                            *)
TimedByNamedHost ==
    \A k \in DOMAIN runs, algo \in AlgoNames :
        LET run == runs[k]
            records == Report(run)[algo].records
            own == Only(logs[algo], {l \in ToSet(logs[algo]) :
                     /\ l.whole /\ run.start <= l.ts /\ l.ts <= run.end
                     /\ Len(l.tried) = 1 /\ l.times # <<None>>})
            timed == Only(records, {r \in ToSet(records) : r.time # None})
        IN  /\ Len(timed) = Len(own)
            /\ \A i \in DOMAIN own :
                  LET ip == Head(own[i].tried)
                  IN  /\ timed[i].time = Head(own[i].times)
                      /\ ip \in DOMAIN Hosts => timed[i].host = Hosts[ip]

(* Wherever the chart of a run has a point of any algorithm's curve, it has *)
(* the pool's degradation beside it, control or no control.                 *)
OverlaySpansCurves ==
    \A k \in DOMAIN runs :
        LET data == Report(runs[k])
        IN  \A algo \in AlgoNames :
                DOMAIN data[algo].means \subseteq DOMAIN DegradationByWindow(data)

(* The report's two contenders are the best of their groups: one of them is *)
(* the best of all, and nobody in either group has a lower mean.  Both are  *)
(* there as soon as both groups have data, whether or not the control has;  *)
(* if it has, no algorithm that has data too goes without a comparison.     *)
HeadToHeadIsBest ==
    \A k \in DOMAIN runs :
        LET data == Report(runs[k])
            measured == {algo \in AlgoNames : HasStats(data[algo])}
            pair == HeadToHead(data)
            MeanOf(algo) == Mean(data[algo].times)
        IN  /\ Control \in measured =>
                 AgainstControl(data) \cup {Control} = measured
            /\ (measured \subseteq Adaptive \/ measured \cap Adaptive = {})
                 <=> pair = <<>>
            /\ pair # <<>> =>
                 /\ pair[1] \in measured \cap Adaptive
                 /\ pair[2] \in measured \ Adaptive
                 /\ \A algo \in measured :
                       ~Lower(MeanOf(algo),
                              MeanOf(pair[IF algo \in Adaptive THEN 1 ELSE 2]))

(* A difference on the chart across runs is that of two means of one run,   *)
(* as long as no clean run measured one of the two algorithms only.  ("so   *)
(* index i on each side always comes from the same run": not without that.) *)
PairsMatchUnlessGap ==
    LET Measured(run, algo) == RunMean(logs[algo], run, Hosts) # None
        Gap(p) == \E k \in DOMAIN runs :
                     /\ ~runs[k].interrupted
                     /\ Measured(runs[k], p[1]) # Measured(runs[k], p[2])
        buckets == CollectRunMeans(runs, logs, Hosts)
    IN  \A p \in DeltaPairs : \A rps \in DOMAIN buckets :
            LET pairs == PairedRepeats(buckets[rps], p[1], p[2])
            IN  Gap(p) \/ \A k \in DOMAIN pairs : pairs[k][1].run = pairs[k][2].run
=============================================================================
