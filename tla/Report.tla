------------------------------- MODULE Report -------------------------------
(***************************************************************************)
(* What the analysis makes of the files an experiment leaves behind:        *)
(* log_reader.py's parsing, the report and charts of analysis/analyze.py    *)
(* for one run, and analysis/shape_charts.py's charts across runs.  A mean  *)
(* is kept as its sum and count.  Layout, the resampling itself and the     *)
(* drawing of a chart are left out; what is compared with what, and what a  *)
(* chart's points are made of, is not.                                      *)
(*                                                                          *)
(* A line of an access log: whether all seven fields are there, its time,   *)
(* the addresses tried, one header time for each of them (None for "-"),    *)
(* and the offset header of the answer.                                     *)
(* A run, a line of runs.log: index, start, end, tick, rps, interrupted.    *)
(***************************************************************************)
EXTENDS LogReader, SequencesExt

CONSTANTS Algos,     \* discover_algos: the algorithms' names, in order
          Adaptive,  \* ADAPTIVE_ALGO_NAMES
          Control,   \* CONTROL_ALGO
          None

AlgoNames == ToSet(Algos)

ASSUME ReportAssumption == Algos \in Seq(AlgoNames) /\ None \notin Int

-----------------------------------------------------------------------------
(* The elements of s that are in S, in their order: [x for x in s if ...].   *)
(* (SelectSeq takes an operator, about which nothing can be proved here.)    *)
Only(s, S) ==
    LET some[k \in 0..Len(s)] ==
            IF k = 0 THEN <<>>
            ELSE IF s[k] \in S THEN Append(some[k - 1], s[k]) ELSE some[k - 1]
    IN  some[Len(s)]

(* list.sort: s in the order of before, a set of pairs; an element goes      *)
(* after those before it that it is not before.                              *)
StableSort(s, before) ==
    LET sorted[k \in 0..Len(s)] ==
            IF k = 0 THEN <<>>
            ELSE LET first == sorted[k - 1]
                     ahead == {i \in DOMAIN first : <<s[k], first[i]>> \notin before}
                 IN  InsertAt(first, 1 + Cardinality(ahead), s[k])
    IN  sorted[Len(s)]

-----------------------------------------------------------------------------
(* parse_access_log.                                                        *)

(* Mutant: the time of a request that failed over is that of the last try.  *)
ParseLastTime(times) == Last(times)

(* A list of times is no float: the field is None like a "-".               *)
ParseSeconds(times) == IF Len(times) = 1 THEN Head(times) ELSE None

Parse(line, hosts) ==
    LET first == Head(line.tried)
    IN  [ts     |-> line.ts,
         host   |-> IF first \in DOMAIN hosts THEN hosts[first] ELSE first,
         offset |-> line.offset,
         time   |-> ParseSeconds(line.times)]

ParseAccessLog(log, run, hosts) ==
    LET InRun(line) == line.whole /\ run.start <= line.ts /\ line.ts <= run.end
        kept == Only(log, {line \in ToSet(log) : InRun(line)})
        records == [k \in DOMAIN kept |-> Parse(kept[k], hosts)]
        earlier == {p \in ToSet(records) \X ToSet(records) : p[1].ts < p[2].ts}
    IN  StableSort(records, earlier)

-----------------------------------------------------------------------------
(* analyze_algo and algo_result_from_records.                               *)

Mean(s) == IF s = <<>> THEN None
                       ELSE [sum |-> Total(s, Len(s)), n |-> Len(s)]
Lower(x, y) == x.sum * y.n < y.sum * x.n

Times(records) ==
    LET timed == Only(records, {r \in ToSet(records) : r.time # None})
    IN  [k \in DOMAIN timed |-> timed[k].time]

Offsets(records) ==
    LET known == Only(records, {r \in ToSet(records) : r.offset # None})
    IN  [k \in DOMAIN known |-> known[k].offset]

(* The run's complete windows that have a record, each with its records.    *)
RecordBuckets(records, run) ==
    LET Since(r) == r.ts - run.start
        stamps == [k \in DOMAIN records |-> Since(records[k])]
    IN  [i \in DOMAIN Buckets(stamps, run.tick, run.end - run.start) |->
            Only(records, {r \in ToSet(records) : Since(r) \div run.tick = i})]

AnalyzeAlgo(log, run, hosts) ==
    LET records == ParseAccessLog(log, run, hosts)
        buckets == RecordBuckets(records, run)
        timed == {i \in DOMAIN buckets : Times(buckets[i]) # <<>>}
    IN  [records |-> records,
         buckets |-> buckets,
         times   |-> Times(records),
         means   |-> [i \in timed |-> Mean(Times(buckets[i]))]]

PerAlgo(logs, run, hosts) ==
    [algo \in AlgoNames |-> AnalyzeAlgo(logs[algo], run, hosts)]

HasStats(data) == data.times # <<>>

(* The degradation overlay.  Mutant: only the control's requests count.     *)
DegradationOfControl(perAlgo) ==
    LET buckets == perAlgo[Control].buckets
    IN  [i \in {j \in DOMAIN buckets : Offsets(buckets[j]) # <<>>} |->
            Mean(Offsets(buckets[i]))]

DegradationByWindow(perAlgo) ==
    LET Pooled(i) ==
            FlattenSeq([k \in DOMAIN Algos |->
                LET buckets == perAlgo[Algos[k]].buckets
                IN  IF i \in DOMAIN buckets THEN Offsets(buckets[i]) ELSE <<>>])
        windows == UNION {DOMAIN perAlgo[algo].buckets : algo \in AlgoNames}
    IN  [i \in {j \in windows : Pooled(j) # <<>>} |-> Mean(Pooled(i))]

-----------------------------------------------------------------------------
(* write_stats_report: the ranking, the best of either group, and the       *)
(* comparisons with the control.                                            *)

(* Mutant: algorithms are ranked by their requests.                         *)
RankedByCount(perAlgo) ==
    LET measured == {algo \in AlgoNames : HasStats(perAlgo[algo])}
        more == {p \in measured \X measured :
                    Len(perAlgo[p[1]].times) > Len(perAlgo[p[2]].times)}
    IN  StableSort(Only(Algos, measured), more)

RankAlgos(perAlgo) ==
    LET measured == {algo \in AlgoNames : HasStats(perAlgo[algo])}
        MeanOf(algo) == Mean(perAlgo[algo].times)
        lower == {p \in measured \X measured : Lower(MeanOf(p[1]), MeanOf(p[2]))}
    IN  StableSort(Only(Algos, measured), lower)

HeadToHead(perAlgo) ==
    LET ranked == RankAlgos(perAlgo)
        builtin == Only(ranked, AlgoNames \ Adaptive)
        adaptive == Only(ranked, Adaptive)
    IN  IF builtin = <<>> \/ adaptive = <<>> THEN <<>>
        ELSE <<Head(adaptive), Head(builtin)>>

AgainstControl(perAlgo) ==
    IF Control \in AlgoNames /\ HasStats(perAlgo[Control])
    THEN {algo \in AlgoNames \ {Control} : HasStats(perAlgo[algo])}
    ELSE {}

-----------------------------------------------------------------------------
(* shape_charts.py.  A value of a chart is a run's mean; the run's index is *)
(* kept beside it to say whose it is.                                       *)

RunMean(log, run, hosts) == Mean(Times(ParseAccessLog(log, run, hosts)))

CollectRunMeans(runs, logs, hosts) ==
    LET RunHas(run, algo) == RunMean(logs[algo], run, hosts) # None
        used == Only(runs, {run \in ToSet(runs) :
                    ~run.interrupted /\ \E algo \in AlgoNames : RunHas(run, algo)})
        Repeats(rps, algo) ==
            Only(used, {run \in ToSet(used) : run.rps = rps /\ RunHas(run, algo)})
    IN  [rps \in {used[k].rps : k \in DOMAIN used} |->
            [algo \in AlgoNames |->
                LET repeats == Repeats(rps, algo)
                IN  [k \in DOMAIN repeats |->
                        [run  |-> repeats[k].index,
                         mean |-> RunMean(logs[algo], repeats[k], hosts)]]]]

(* Mutant: repeats are paired by value.                                     *)
PairedByValue(bucket, a, b) ==
    LET Sorted(s) == StableSort(s, {p \in ToSet(s) \X ToSet(s) :
                                        Lower(p[1].mean, p[2].mean)})
    IN  Zip(Sorted(bucket[a]), Sorted(bucket[b]))

(* The pairs whose differences are plotted: by position, like zip().        *)
PairedRepeats(bucket, a, b) == Zip(bucket[a], bucket[b])
=============================================================================
