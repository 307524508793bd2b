# A TLA+ model of nginx-lb-tests

nginx-lb-tests compares load-balancing methods. A controller container runs
NGINX, one location path per method; four of the methods are *dynamic*: a Python
thread per algorithm reads that algorithm's access log, computes integer weights
for the backends, writes them to an NGINX upstream file and reloads NGINX.
Experiment runs send traffic to all paths at once, leave a record in `runs.log`,
and are analysed afterwards from the access logs and the weight histories.

This directory holds TLA+ modules of that program, TLC configurations that check
them on small instances, and TLAPS proofs of theorems that hold for every value of
the constants. Every definition that stands for code is listed in `PROJECT.json`
under `map`, with the lines it stands for. Paths below are relative to the
repository root.

## 1. The system

| Part | State it keeps | Operations | What is hard |
|---|---|---|---|
| Weight application: `controller/config_writer.py`, `controller/nginx/upstream_conf.py` | per algorithm: `<algo>.upstream.conf`, `<algo>.state.json` (weights, change count), `<algo>.weights.csv` | `apply_weights`: compare, write the conf atomically, signal NGINX, write the state, append a row | four threads, one NGINX; four effects in a row, any of which may raise; the container may stop between any two of them; the comparison is with the state file, not with what NGINX runs |
| Sampling loop: `controller/sampler.py` | `_log_offsets`, the algorithm instance, `ip_to_host.json` | wake at a tick, snapshot the addresses, read new lines, probe silent backends, update, apply; retry, give up | a failed attempt has already moved the offset; retries repeat side effects; the log may be deleted under the offset; the thread must not die |
| Algorithms: `controller/algorithms/` | ACO: pheromone per backend; Markov: nothing | `update(observations)` gives weights | rounding, clamping, an iteration that is cut off |
| Traffic generator: `controller/traffic_generator.py` | tick index, `stop_event`, a thread and a pool per path, `runs.log` | `run`: count the index, start, tick, stop, drain, stamp, record, analyse; signal handlers | shutdown against submitting threads, requests that never come back, interruption at any moment, the order of timestamps and drain |
| Experiment control: `run_experiment.py` | none of its own | `run`, `status`, `analyze`, `purge` | `purge` checks, asks, then deletes files that others keep state about |
| Run isolation and statistics: `analysis/log_reader.py` | none | selecting a run and its lines, percentiles, Mann-Whitney U, windows, change counts | ties, ranks, boundaries of runs and windows |
| Boot configuration: `controller/nginx/generate_config.py` | the conf files | placeholder weights and location blocks at every boot | what it overwrites against what survives a restart |
| Lifecycle: `controller/entrypoint.py`, `controller/validate_backends.py`, priming in `controller/sampler.py` | the NGINX process, the signal handlers | validate, configure, start NGINX, install the handlers, validate again, prime, start the loops, wait | NGINX serves before priming is over; signals at any step; a ping shows less than the probe of priming asks for; files that an earlier container left |
| Backend simulator: `backend/server.py` | the current latency offset, its start and its dwell, under a lock; the ground-truth log | `current_degradation_offset_ms` in a thread per request | a random walk that only requests advance, several of them at once or none for a long time |
| Hosts, names, paths: `controller/common.py`, the snapshot in `controller/sampler.py` | `ip_to_host.json`, shared by the four sampling threads | resolve names, replace the snapshot | NGINX, the sampler and the analysis resolve a name at different moments, and backends move |
| Reports and charts: `analysis/analyze.py`, `analysis/shape_charts.py` | none | a run's statistics, rankings, comparisons, charts across runs | lines of requests that failed over, windows without data, runs in which an algorithm is missing |

How they meet: a sampling thread calls `apply_weights`, which signals the NGINX
master; NGINX's access log is what the sampling loop and the analysis read;
`traffic_generator.py` is a process of its own beside the controller's (`docker
exec`), and shares with it only NGINX and the log directory; `run_experiment.py`
runs on the host, sees processes through `docker top` and deletes from the shared
log directory: `runs.log` and the access logs, but also `state.json`, `weights.csv`,
`ip_to_host.json`, the temporary files beside them and the backends' ground-truth
logs, under the threads that keep them.

What makes each part correct:

* weight application: NGINX never loads half a file, loads the last one written,
  the change counter counts changes that happened, the history tells the truth;
* sampling loop: every logged line is used exactly once, whatever fails; the loop
  outlives any failure;
* algorithms: a faster backend gets no smaller weight, the weights mean what the
  documents say, the state stays bounded;
* traffic generator: nothing accepted is lost, no load after the end, a run ends
  and leaves its record, its lines are told apart from any other run's;
* statistics: the textbook definition, at ties and boundaries too;
* reports: a time is put down to the backend that took it, what is compared is
  comparable, a chart's two curves cover the same windows;
* lifecycle: NGINX never runs on a pool that was not there, the container ends only
  for a reason and ends with NGINX, priming replaces the placeholder;
* backend simulator: the logged timeline alone explains every answer;
* names: a line of the log is put down to the backend that answered it, whatever the
  three resolutions disagree about.

`PROJECT.json` lists the parts with their state of work, and under `hazards` each
of the difficulties above at its line, with the properties aimed at it, or with
the reason why none is.

## 2. The modules

| Module | What it is |
|---|---|
| `ConfigWriter` | `apply_weights` of every dynamic algorithm at once, and the NGINX master |
| `WindowFeed` | what a sampling loop promises: windows that close over the log, each line once |
| `SamplingLoop` | the loop itself; implements `WindowFeed` |
| `TrafficRun` | invocations of the traffic generator one after another, purge, and how the analysis tells the runs apart |
| `Lifecycle` | the container from validation to its end, restarts included |
| `BackendDrift` | one backend's latency offset, a thread per request |
| `Addressing` | names and addresses: NGINX's, the sampling threads', the snapshot's |
| `Rounding`, `LogReader` | Python's `round`, and the computations of `log_reader.py` |
| `Report` | what `log_reader.py`, `analyze.py` and `shape_charts.py` make of the logs and records |
| `Analysis` | every input of the two, grown step by step, and what the analysis promises of its results |
| `Algorithm`, `Aco`, `Markov` | the weights' clamp, the ant colony, the Markov chain |
| `...Proofs` | the theorems about `ConfigWriter`, `SamplingLoop`, `TrafficRun`, `Lifecycle`, `BackendDrift`, `Addressing`, `Analysis`, and both algorithms (`AlgorithmProofs`) |
| `MC...` | model values, sets of faults and symmetries for TLC; `MCAnalysis` has the requests, runs and rows its inputs are made of; `MCAlgorithms` feeds the same windows to both algorithms |

The modules meet where the components do: `Lifecycle` ends where `SamplingLoop`
begins, and takes `apply_weights` as one step where `ConfigWriter` has seven;
`SamplingLoop` and `Addressing` are the same window, once with its offset and its
failures and once with its addresses; `TrafficRun` and `Report` are the two readers of
`runs.log`; `Report` extends `LogReader`, and `Analysis` both.

Faults are a constant: `Faults` is the set of those that can happen, and each
run says which it allows. A theorem that needs some of them absent says so in its
`ASSUME`. Definitions commented "Mutant" are not part of a specification: each is
a form the definition after it would have with a plausible mistake in the code,
and shows which property would notice.

### ConfigWriter

| Code | Model |
|---|---|
| `<algo>.upstream.conf.tmp`, `.upstream.conf`, `.state.json`, `.weights.csv` | `tmp`, `conf`, `state`, `history` |
| where a thread is in `apply_weights`, its local `state` dict and new weights | `pc`, `call` |
| a pending SIGHUP; the master's load; what the workers use | `hup`; `master`, `unread`, `fetched`; `running` |
| `read_state`, `changed` | `Call` |
| `write_upstream_conf`: open, write, `os.replace` | `OpenTmp`, `WriteTmp`, `Replace` |
| `reload_nginx`; `_write_state`; `_append_weight_history` | `SignalReload`; `SaveState`; `AppendHistory` |
| an exception, caught by the sampling loop | `Raise` |
| `generate_config.main` at a container start | `Boot` |

A vector of weights is a model value, a file is whole or `Torn`. The state file is
written with a temporary file and a rename too; nobody else reads it while it is
written, so that is one step. NGINX is external: it notices a signal, reads the
files one after another while the threads go on writing, and switches to what it
read, or rejects it. Signals coalesce. Threads signal one master, so that one
algorithm's load reads another's file at any moment of its replacement. A `.conf.tmp`
that a failed call leaves behind is overwritten by the next call before anything reads
it, and the model forgets it.

`PurgeState` and `PurgeHistory` are `cmd_purge`'s deletion of `state.json` and
`weights.csv`, file by file and at any step of the call that is in progress: purge
looks for a traffic run, and the sampling threads go on. The conf files are in another
directory. `Purged` is the set of algorithms whose files a purge may reach.

Four variables are history: `lost`, the algorithms whose conf a failed reload has left
unread, until a signal is sent for any of them; `apart`, those whose conf file may
differ from the weights saved for it, because a change raised before it was saved or a
restart wrote the placeholder, until the next change that is saved; `taken`, the count
that a purge has deleted since the call in progress read it (the call will save it
again, so that `Known`, the saved count and this one, is what the counter goes on from);
and `uncounted`, the algorithms whose csv has rows, or is about to get one, of changes
that were counted in a `state.json` a purge took.

### SamplingLoop and WindowFeed

A line of the log is the backend it measures, or `Unusable` if
`parse_window_observations` skips it. NGINX appends a line with one write, so the
loop never reads half a line. `Read` stands for `read_new_window_lines`, whose
`f.tell()` moves the offset at once, `Probe` for one direct probe, `Fail` for the
`except` branch, wherever it is entered from; a backend that is down fails the
window only if no line speaks for it. `fed` and `folded` are history variables:
how many completed windows, and how many `algorithm.update` calls, a line was part
of; they stop counting at two. One loop is modelled because the four share nothing
but `ip_to_host.json`, which `Addressing` has. `skipped` is what a purge costs: the
lines of the new log below the offset that was kept for the old one, which are never
read; a failed window gives some of them back. `again` is what a failed
`apply_weights` costs: the retry deposits those lines a second time.

`Committed` maps the loop to `WindowFeed`: outside a window it is the offset, and
inside one the offset that a failure restores. A window closes in `Complete`; a
purge and a restart are steps of the abstraction too, and all else the loop does is a
stutter.

### TrafficRun

| Code | Model |
|---|---|
| `runs.log`, `<algo>.access.log` | `runs`, `log[p]` |
| the main thread's position and variables | `pc`, `index`, `start`, `end`, `tick`, `wake` |
| `interrupted`, `stop_event` | `interrupted`, `stop` |
| `path_traffic_loop` and its executor | `loop[p]`, `pool[p]`, `queued[p]`, `waiting[p]` |
| requests whose client has gone and that NGINX has still to log | `abandoned[p]` |
| lines of this invocation that only a deleted file has (history) | `gone[p]` |
| an exception has ended, or is ending, the process (history) | `failed` |
| `cmd_purge` between its check and its deletion; files NGINX holds open although deleted | `purging`; `unlinked` |

The thread of a path runs at any pace, so that pacing by `--rps` is one of the
behaviours. `Shutdown` and `Join` are the two halves of
`executor.shutdown(wait=True)`, pool after pool in any order. A signal does not end
a `time.sleep`. Python's daemon threads die with the process (`ProcessGone`).
`SubmitRaises` is the `RuntimeError` of `submit` after shutdown.

A run reads the change counts three times, and `read_state` opens a file that it has
seen exist: a purge in between makes it raise. So may printing the status line and
writing the record (`raise`). The `try` around the ticks has a `finally` and no
`except`: `TickRaises` stops and drains like an end of the run, and `Unwind` then ends
the process without a record; `BaselineRaises` and `RecordRaises` end it at once.
`MayRaise` allows these while a purge is deleting, whatever the faults.
`blind` is `docker top` failing, which purge takes for "no run": it may then delete
under a live run.

About NGINX, the model assumes that a line is stamped no later than the client has
its response (NGINX stamps with the time its event loop has cached), and that it
notices a closed connection sooner than the next `docker exec` starts a process.
After a purge NGINX writes into the deleted files until its next reload.

"Run these one at a time" (`README.md:115`): two invocations at once are outside
the model, since nothing in the code prevents or handles them.

### Lifecycle

| Code | Model |
|---|---|
| `entrypoint.main`, then `sampler.main` | `pc`, in the order of `Steps`; `wait` is `nginx_proc.wait()` |
| `validate`: host, attempts, `unreachable` | `at`, `tries`, `bad`; `Ping`, `Refuse`, `Validated`, for both callers |
| `probe_all_backends`, `run_priming` | `ProbeHost`, `ProbeRaises`, `Prime` |
| a sampling window's effect while main waits | `Window` |
| `forward_signal`; a signal without the handlers | `ForwardSignal`; `Killed` |
| files, which outlive the container, and conf files, which are written anew | `state`; `conf` |

A purge deletes an algorithm's `state.json` at any step (`Purge`), and may take a
temporary file of priming, which nothing catches there (`PrimeRaises`).

A backend is `serving`, only `up` (its host answers a ping and its port nothing) or
`gone` (its name does not resolve either), and changes at any step. `End` is the end
of PID 1, which takes NGINX with it. `trouble`, `answered` and `carried` are history
variables, all counted from the container's start.

### BackendDrift

`Acquire`, `Advance`, `Redraw` and `Return` are the body of
`current_degradation_offset_ms`: the lock with its clock reading, one turn of the
`while`, and the return, so that a walk over several dwells is several steps. `log` is
the ground-truth log, whose appends may fail, unseen (`_log_transition` passes over an
`OSError`), and which a purge deletes; `whole` is history and says that it has lost no
row. A draw is any offset and any dwell of the two constants; the
distributions are not modelled. `LockHeld` in the proofs is the lock's meaning: who
walks is its holder.

### Addressing

| Code | Model |
|---|---|
| what a name resolves to now; what NGINX resolved at its last load | `addr`; `used` |
| the access logs | `log`: first address, whether it is the only one, and who really answered |
| `resolve_ip_to_host_map`, name by name | `Resolve`, `mapping[t]` |
| `write_ip_to_host_snapshot` | `OpenTmp`, `WriteTmp`, `Replace`, `ReplaceRaises`; `file` |
| `cmd_purge` | `Purge` for the snapshot and the temporary files, `PurgeLogs` |
| `parse_window_observations` | `Read`, `observed[t]` |
| `fill_sparse_observations` and `apply_weights` with its reload | `Apply` |

Docker gives an address to one container at a time and may give it to another
later: `owners` remembers who has had it. `taken` remembers whose temporary file a
purge has deleted; its rename then raises, and the attempt is over. Log lines are a set here, since only what
a line says matters.

### LogReader, Report, Analysis, Aco, Markov

These are the computations, as operators. Floats are replaced by exact integers:
doubled ranks, a variance scaled by its denominator, a mean as its sum and its
count, pheromone as `level/scale`, probabilities in units of `1/Precision`, rounded
down. `Rounding` has Python's rounding of halves to even, which is what decides a
rank. `Markov` makes the power iteration one step at a time, as the loop does, with
its tolerance and its cap. In `Report` a line of a log has one address and one header
time for each backend tried, which is what NGINX writes for a request that failed
over; two times are no number, and the record then has none.

List comprehensions and sorting are the operators `Only` and `StableSort` of
`Report`. They take the set of wanted elements and the set of ordered pairs where the
community modules' take an operator, and recur as functions do, so that they can be
proved about. `Analysis` keeps what the files hold as its state: samples, rows of a
weights file, access logs and `runs.log`; a step appends to one of them. What a
request's line may say (`Requests`), what `runs.log` may hold (`RunLogs`), the rows
(`Vectors`) and the pairs of the charts (`DeltaPairs`) are constants, about which the
theorems assume no more than that a backend that answered sent its offset.

## 3. What the runs show

| Run | Shows |
|---|---|
| `writer_faults` | Two threads, two vectors, every fault at every step; purges for one of the threads. `NeverTorn`: no load ever sees a half-written file. `RunningCurrent`: a signal that coalesces with another loses no update, and a reload that failed costs no more than the wait for the next one of any thread. `CountedChangeOnDisk`: apart from a purge, and the save of a call that had read the count before it, the counter moves by one, and only with the conf file already changed. `HistoryWithinCount`: what can be recounted from the csv never exceeds the counter, unless a purge took the counter and left rows (`uncounted`). `RowIsOnDisk`: a history row is what the conf file holds, save where a change that raised half-way or a restart has set the two apart (`apart`) and no change has been saved since. |
| `writer_updates` | No faults, fairness. `ConfReachesNginx`: what is written is routed with or superseded. |
| `loop` | Failing probes, reads and applications, outages, purges and restarts, at any step. `ExactlyOnce`: each line is in exactly one completed window, those a purge has put below the offset excepted; `FoldedOnce`: the algorithm learns from each line at most once, unless `apply_weights` raised right after it had; `FeedSpec`: the loop implements `WindowFeed`; `WindowEnds`: by completing or by being given up; `OutageRecovers`: after an outage each line is still used. |
| `traffic_isolation` | Two invocations, interrupted, killed or raising anywhere, and purges, those that do not see the run included. `NoForeignLine` and `AnsweredCounted`: the timestamps tell exactly which line belongs to which run; `IndexSelectsRun`: no two records share an index. |
| `traffic_drain` | Two paths against the shutdown, every fault but `blind`. `AcceptedIsSent`: nothing a pool accepted is dropped, and a purge loses no more than the lines it deletes and those NGINX still writes into deleted files; `LeavesRecord`: an armed run leaves its record although NGINX may answer nothing, unless it is killed or a tick or the record raises. |
| `analysis` | On all small inputs. `UCountsPairs`: U, from ranks, is the number of pairs; `VarianceZeroOnlyIfConstant`: the guard before the division lets every other sample through; `RankCloseToNearest`: ranks are within one of the nearest rank, and ordered; `UndercountsByOne`: a run's weight changes miss at most the first. On all sets of four lines of three algorithms over two runs: `TimedByNamedHost`: a failed-over request's time is never charged to the backend tried first, and all other times are to theirs; `OverlaySpansCurves`: the degradation overlay has a point wherever a curve has; `HeadToHeadIsBest`: the report's contenders are the best of their groups; `PairsMatchUnlessGap`: paired repeats are of one run, unless a run lacks one of the two algorithms. |
| `algorithms` | All sequences of three windows over three backends. `FasterNeverLighter`: a never-slower backend has no smaller weight; `Balanced`: the pheromone is bounded; `ScaledStationary`: the power iteration's result is the stationary distribution in closed form; `FollowsLatency`: its weights follow the latencies; `SettledIsStationary`: an iteration that stops before its cap is near that distribution, and has not merely stopped moving; `SumsToOne`: no iteration makes or loses probability, so that nothing need be normalised again. |
| `lifecycle` | Hosts that come and go, NGINX dying, signals, restarts and purges at any step. `NotHalfStarted`: NGINX runs only on a pool that has answered since the start; `ExitsForCause`: the container never ends because of its own history; `PrimedOnDisk`: after priming a placeholder is left only where the earlier container had saved the same weights (and a purge may since have deleted them); `EndsWithNginx`. |
| `drift` | Two requests at once, quiet periods of several dwells, failed appends and purges. `TimelineKept`: a log that has lost no row gives the drift's state; `TimelineExplains`: an answer is the offset such a log has for the request's time; `LockReleased`. |
| `addressing` | Two sampling threads, one snapshot, backends that move and are lost, purges. `OwnTmpFile`, `SnapshotWhole`: no thread loses its temporary file to another, or tears the snapshot; `AttributedRight`: a time is put down to the backend that took it, by the window and by the analysis, unless its address has been two backends'. |

Two runs end in a counterexample. Each checks a sentence of the repository that
the code does not keep (`findings` in `PROJECT.json`):

* `purge_live`: purge looks for a live run before its prompt and deletes after it;
  a run started in between loses the lines its index was counted from
  (`AGENT.md:172`). This is also why `IndexSelectsRun` is stated for histories
  without such a purge.
* `dns_refresh`: a window that ends on the weights it began with does not reload
  NGINX, which then keeps a recreated backend's old address; `AGENT.md:51` has the
  dynamic paths "reloaded every sampling window".

Other places where the code does less than a sentence says have no run of their own.
The properties above are stated so that they hold, and the exception in each is the
place:

* `README.md:43`, every dynamic path starts "from algorithm-derived weights on their
  very first proxied request, not the equal-weight placeholder": NGINX serves the
  placeholder from its start to the end of priming, and after a restart priming may
  compute what `state.json` already has, write nothing, and leave the placeholder in
  place (`PrimedOnDisk`).
* `README.md:140`, "isn't reachable on `BACKEND_PORT`": the host's answer to a ping is
  validated, and not the port (`up` in `Lifecycle`).
* `README.md:161`, "a clean restart at run 1": purge leaves the sampler's offset in
  memory as it is, and the new logs' lines below it are never read (`skipped` in
  `SamplingLoop`). Nor is the change count always new: a call that had read
  `state.json` before the purge saves the old count again (`taken` in `ConfigWriter`).
* `run_experiment.py:163-166`, purge refuses while a run is live: a run that a purge
  did not see may end without a record, because `read_state` raises in a tick and
  nothing catches it (`failed` in `TrafficRun`).
* `AGENT.md:108`, which wants the mapping NGINX was using: the snapshot is the
  sampler's resolution, and no longer NGINX's once a backend has moved (`owners` in
  `Addressing`).
* `log_reader.py:263` and `:282`: the "nearest rank" is `round`, not the ceiling, and
  may be one lower (`RankCloseToNearest`).
* `log_reader.py:203-213`: rows of a larger pool are cut to the header's columns and
  not skipped; changes between them may be hidden (`UndercountsByOne`).
* `shape_charts.py:124-127`: index i on each side is the same run only if no run
  lacks an algorithm (`PairsMatchUnlessGap`).

### Bounds

Bounds are constants, named in each module, and only limit counters that would
grow for ever. Two algorithms are enough for interference through NGINX, because
an algorithm's thread touches nothing of another's but the master; two vectors and
a placeholder, for "changed", "changed back" and "unchanged". `writer_updates` takes
the placeholder to be one of the vectors, which it may be; `writer_faults` takes one
apart. `MaxRows` and `MaxChanges` are bounds for each algorithm: in `writer_faults`
the one whose files are purged has two changes and the other one, which signals,
raises and is restarted like the first. After two rows and a purge the first begins
again with none, so that a csv and a count of different ages meet. Three log lines over two backends give windows that are empty, have
one backend missing, or have both, each before and after a failure; three attempts
are the code's number. Two invocations on
one path give every order of a run that left a record and one that did not; two
paths give a pool that is closing while another is open. A worker per path makes
requests queue. In `traffic_isolation` time passes on its own up to `MaxTime`, and
beyond it as far as a sleep needs. Ranks are checked up to 400 values, where every
pattern of the four percentages' halves has come round (they repeat every 200).
The three latencies of `algorithms` differ by factors of up to six; see below.
Two hosts in `lifecycle` are one that is found missing and one that is there, before
it or after it; two pings are a retry. In `drift` the clock runs to 4 and dwells are
one to three, so that a request may come before, at and after a dwell's end, and walk
over up to four of them, with another request waiting. In `addressing` three addresses
for two backends are one that is free; three moves are enough for a backend to leave
and return elsewhere and for another to take its old address. Four lines over three
algorithms and two runs give `analysis` windows and runs in which an algorithm has no
data, only failed-over requests, or both.

### Symmetry and fairness

Symmetry is used in runs without liveness only: backends, algorithms and vectors
are interchangeable there. Fairness is weak fairness throughout:

* `ConfigWriter`: a thread inside `apply_weights` goes on, since it waits for files
  and a child process only; the master serves its signal. Nothing makes a window
  begin.
* `SamplingLoop`: the loop's thread goes on; probes have a timeout, so that every
  call returns or raises. Nothing is assumed of NGINX or the backends;
  `OutageRecovers` assumes in its own statement that the outage ends.
* `Lifecycle`: main's thread goes on, since pings and probes have timeouts. Nothing is
  assumed of backends, signals or the operator.
* `BackendDrift`: a thread that has the lock or can have it goes on. No request need
  come, and no order of getting the lock is assumed.
* `TrafficRun`: the main thread and the pools' workers are scheduled, time passes,
  a request that is not answered times out. NGINX need not answer, traffic threads
  need not run.

`CHECK_DEADLOCK FALSE` stands where the system may really stop: after the last
invocation a bound allows, and in the runs over inputs. `ConfigWriter` and
`BackendDrift` have a `BoundReached` action instead, so that any other deadlock is an
error.

## 4. What is proved

TLAPS checks these for any algorithms, vectors, backends, logs and bounds. Besides the
modules' own assumptions on constants (sentinels differ from real values; bounds are
naturals) each theorem has the assumption named here.

| Theorem | Statement | Faults it excludes |
|---|---|---|
| `ConfigWriterProofs!TypeCorrect` | `TypeOK` | none |
| `ReloadsWholeFiles` | `NeverTorn` | none |
| `CountFollowsDisk` | `CountedChangeOnDisk` | none |
| `RecountIsBounded` | `HistoryWithinCount` | none |
| `NoLostReload` | `RunningCurrent` | none |
| `RowsAreOnDisk` | `RowIsOnDisk` | none |
| `SamplingLoopProofs!TypeCorrect` | `TypeOK`, with the bound on attempts | none |
| `LinesExactlyOnce` | `ExactlyOnce` | none |
| `LinesFoldedOnce` | `FoldedOnce` | none |
| `ImplementsFeed` | `Spec => FeedSpec` | none |
| `TrafficRunProofs!TypeCorrect` | the types of all variables | none |
| `RunsAreIsolated` | `NoForeignLine` | none |
| `AnswersAreCounted` | `AnsweredCounted` | none |
| `IndexSelects` | `IndexSelectsRun` | none |
| `IndexWrongOnlyIfSwept` | `IndexIsNextLine`, until a purge takes `runs.log` from under a run | none |
| `IndexesAreLines` | `IndexIsNextLine` | `purge` |
| `AcceptedRequestsAreSent` | `AcceptedIsSent` | none |
| `LifecycleProofs!TypeCorrect` | `TypeOK` | none |
| `NeverHalfStarted` | `NotHalfStarted` | none |
| `ExitsOnlyForCause` | `ExitsForCause` | none |
| `PrimingReachesDisk` | `PrimedOnDisk` | none |
| `BackendDriftProofs!TypeCorrect` | `TypeOK` | none |
| `AnswersInForce` | `[][InForce]_vars` | none |
| `LogKeepsTimeline` | `TimelineKept` | none |
| `LogExplainsAnswers` | `TimelineExplains` | none |
| `AddressingProofs!TypeCorrect` | `TypeOK` | - |
| `TmpFilesAreOwn` | `OwnTmpFile` | - |
| `SnapshotsAreWhole` | `SnapshotWhole` | - |
| `AttributionIsRight` | `AttributedRight` | - |
| `AlgorithmProofs!FasterIsNeverLighter` | `FasterNeverLighter` | - |
| `PheromoneIsBalanced` | `Balanced` | - |
| `DistributionSumsToOne` | `SumsToOne` | - |
| `PairIsEven` | `EvenPair`: of two backends each always has one half | - |
| `SharesAreStationary` | an iteration from any multiple of the closed form gives it again | - |
| `FasterHasLargerShare` | in the closed form the faster of two has no smaller share, and a greater one if there is a third | - |
| `SharesAreUnique` | a distribution that an iteration leaves as it is, without rounding, has the closed form's proportions | - |
| `SettledLoopIsStationary` | `SettledIsStationary` | - |
| `SettledWeightsAreScaled` | `ScaledStationary` for every loop that stops before its cap; assumes `WeightsResolved` | - |
| `SettledWeightsFollowLatency` | `FollowsLatency` for every loop that stops before its cap; assumes `SharesResolved` | - |
| `AnalysisProofs!PercentilesInSample` | `RankCloseToNearest` | - |
| `UIsNumberOfPairs` | `UCountsPairs` | - |
| `VarianceIsPositive` | `VarianceZeroOnlyIfConstant` | - |
| `ChangesCounted` | `UndercountsByOne` | - |
| `TimesAreTheirHosts` | `TimedByNamedHost` | - |
| `OverlaySpans` | `OverlaySpansCurves` | - |
| `ContendersAreBest` | `HeadToHeadIsBest` | - |
| `PairsAreOfOneRun` | `PairsMatchUnlessGap` | - |

One theorem excludes a fault, the one that breaks its property: a purge that takes
`runs.log` from under a run is what the counterexample of `purge_live` shows, and
`IndexWrongOnlyIfSwept` proves that it is the only cause. Everywhere else a fault's
effect is in the property itself, by a history variable that says where it has struck
(`lost`, `apart`, `uncounted`, `gone`, `swept`, `failed`, `skipped`, `again`, `whole`).

Two theorems about `Markov` assume that a unit of probability is small against what it
has to tell apart. `WeightsResolved` (for weights to the nearest integer) and
`SharesResolved(b)` (for the difference of two shares, with no score above `b`) are
conditions on the constants alone; `MCAlgorithms` has TLC evaluate both for its
instance. The code's numbers are far on their side: with a tolerance of 1e-9, and
rounding small against it, the first holds for any pool one could have, and
the second for `4e-9 * b^2 * n^2` below one, that is scores of up to a thousand with ten
backends.

The invariants are not inductive as they stand. For `ConfigWriter` the argument is as
follows; a purge may delete the count or the rows at each of these steps.

* `CallHeld`: inside a call the weights are a vector, and at the rename the
  temporary file holds exactly them. With it `TypeOK` is inductive, and a torn file
  cannot be renamed.
* `CountHeld` relates the call's counter to `Known` by `pc`: one more until a
  changed vector is saved, and at `reload` the conf file has it. The step property
  of the counter follows.
* `HistoryHeld`: unless the algorithm is `uncounted`, the changes in the csv, plus one
  if its last row differs from the saved weights, are at most `Known`. The extra term
  pays for the row that is appended next, and survives its loss. While a purge has
  taken the state that a call has read, there are no saved weights to compare with:
  then the call's own weights take their place if they are unchanged, and its counter
  pays for them if they are not.
* `DiskHeld`: between `reload` and `append` the conf file holds the call's weights,
  otherwise the saved ones, if any; of an algorithm that is `apart` it says nothing, but
  a changed call past its reload is about to end that.
* `RunningCurrent` is inductive by itself, because it names what a signal still owes:
  a pending signal, a thread about to send one, a load that has the file to read, or
  `lost`. What a failed reload leaves behind is in `lost` and nowhere else.

For `SamplingLoop`, `OffsetHeld` places the offset and the lines read by `pc`,
`BatchHeld` says that the lines read are exactly those between the two offsets, and
`FoldHeld` that a line has been learnt from only if it is committed, in the batch
being applied, or one whose application raised. The refinement has a step lemma: each
action closes a window, appends a line, purges, regains lines a purge had hidden,
restarts or stutters.

For `TrafficRun` the argument is one about times. `WorkHeld` says where work can be
left: no request is queued or waiting in a closed pool, nor without a client when an
invocation begins. `TimesHeld` places every line and every record on the clock and
against the invocation in progress, and keeps them `Apart`: an earlier invocation's
line is older than a record's start, a later one's newer than its end, and its own
answered ones lie between. `IndexHeld`: until a purge has taken `runs.log` from under
a run, a record's index is its line. A run that raises ends like one that is killed,
but with its pools drained. `SentHeld` balances what a pool has accepted
against what is queued, waiting, without a client, logged or in a deleted file: a purge
moves lines from the log to `gone`, and a line written while the files NGINX has open
are deleted ones goes there at once.

For `Lifecycle`, `ValidHeld` says which hosts have answered by the host `validate` has
come to; `CauseHeld` that a host which is not serving, an unreachable list and an
NGINX that has ended are each a trouble that was recorded; `PrimeHeld` what conf and
state are for the algorithms primed and those still to be.

For `BackendDrift`, `LockHeld` says that only the holder is inside the walk and that
the walk never passes the call's time. The theorem is about steps: a call returns the
offset whose dwell its time falls in, and only the holder changes the drift. That the
log explains the answers is the sum of all such steps: `Timeline` adds that the last row of
a log that is `whole` is the state in force, or the one a walk has just left, and that its rows
date one another (`Dated`: a row is in force from the end of the dwell of the one before
it), so that a time has one row, and a row that is appended takes no earlier time from
another.

For `Addressing`, `OwnersHeld` says that every host named anywhere (by an answer, a
mapping, the snapshot or a line) has once owned the address it is named for. Two hosts
named for one address are then two owners, which is the exception. `OwnTmpFile` and
`SnapshotWhole` are inductive together with `OpenFiles`: between its open and its rename
a temporary file is there, unless a purge has taken it.

For `Aco`, `LevelsHeld` says that levels are positive and bounded, so that there is a
largest one, and that a backend never slower than another never has the lower level.
Every window preserves it because multiplying and dividing are monotone; that the
weights follow the levels is the monotony of Python's rounding (`Rounding`) and of the
clamp. `Balanced` is inductive: a step takes the part `RateNum/RateDen` off
the level and adds at most what the fastest latency deposits.

For `Markov` the sums are the community modules' `SumFunctionOnSet`, a recursive
function that takes the elements in the order a CHOOSE gives them. `SumsExist` shows
that there is such a function (by induction on cardinality), `SumsOfSmaller` that it
does not depend on the set it was started from, and `SumRemove` that any element can be
taken out first; the rest (`SumPlus`, `SumTimes`, `SumSwap`, `SumAtMost`, `SumFloor`)
follows from `SumRemove` by `SubsetInduction`, induction over the subsets of a finite
set. `SumsToOne` then adds up the matrix by rows instead of by columns: a row hands
on what its backend had, less one unit at most for each entry (`IterationKeepsTotal`).
`SharesAreStationary` is what makes `ScaledStationary` a statement about the code's
matrix and not about a formula beside it: the closed form it compares with is a fixed
point of `NextPi`, exactly and for any number of backends. `FasterHasLargerShare` is
"faster backend, higher score" (`ALGORITHMS.md:30`) carried through the rows' different
normalisations. `SharesAreUnique` is that there is no other fixed point.

`SettledIsStationary` is about the loop's own test. A small last step tells that the
vector has stopped moving; that it has then arrived is a property of this matrix. The
argument eliminates the eigenvectors: with `z[i] = pi[i] / OthersTotal(i)` on a common
multiple of the rows' totals (`CommonMultiple`), an iteration gives
`next[j] = Score(j) * (Z - z[j])`, where `Z` is the sum of all `z`, so that a next value
near `pi[j] = OthersTotal(j) * z[j]` means that `z[j]` times the scores' total is
nearly `Score(j) * Z` (`NearBalance`). Summing over the backends eliminates `Z` and
leaves the share (`ProportionalUpTo`); the distances of the step and the units rounded off
add up to `Slack`. Nothing in it depends on how far apart the latencies are: they
decide how many rounds it takes to settle, not where. The weights then follow:
`RoundNear` and `WeightNear` carry the bound through Python's rounding, and
`GreaterShareHasMore` compares the gap between two shares, at least one in whole
scores, with the slack. `PairIsEven` is the limit of it: with two backends the comparison is an
equality, and the chain's weights say nothing about the latencies.

For `Analysis` the invariants only type the inputs: `InputsHeld` and `LogsHeld` say
that rows and lines are in the order of time and that a line is one NGINX can write.
The work is in lemmas about the operators, for inputs of any length. The prover cannot
instantiate an induction theorem that takes a predicate, so `Induct` states induction
for a set of naturals (from the least number outside it) and `Recursion` that a
function defined step by step exists; every recursive definition is unfolded with
these two. On them rest:

* Counting. `Meet(x, y, T)` are the pairs of positions whose values are in the
  relation `T`; ranks and U are such counts (`RankSum`, `UIsPairs`). The tie term
  counts the triples of positions whose values are equal, less one for each position
  (`TieTermCounts`), so that the variance is zero only if all triples are of equals.
* Reading rows. `Tracks` relates the rows read so far to the changes the file shows so
  far: a row that was skipped is a change not yet counted.
* Selecting. `OnlyPositions`: what `Only` selects stands at an increasing sequence of
  positions, and there is one such sequence only (`EnumeratesOnce`). Hence selecting
  among the selected is one selection, and the records with a time are the lines
  with one.
* Sorting. `SortElements`: nothing is added or lost; `SortKeeps`: a list in order stays
  as it is; `SortOrders`: what can be ordered is in order. That means can be
  ordered is `CrossMultiplied`, since they are compared as fractions.

Model-checked only:

* liveness (`ConfReachesNginx`, `WindowEnds`, `OutageRecovers`, `LeavesRecord`,
  `EndsWithNginx`, `LockReleased`), which is beyond the prover;
* `ScaledStationary` and `FollowsLatency` of a loop that its cap cuts off after
  `STATIONARY_ITERATIONS`. For every value of the constants they are false there: how
  fast the chain converges is a matter of its eigenvalues and of the latencies. On
  the run's instance every loop settles in fewer than seventy rounds.

The type invariant of `ConfigWriter` is proved and no longer an invariant of a run.

## 5. What is not modelled

* Layout and formats: JSON, CSV, the text of the NGINX files, tables, plots. Reading
  host lists and path names from files (`common.py`) is parsing; they are constants.
* The normal tail (`erf`) and the bootstrap's random resamples: real-valued and
  random. Rows of the logs that do not parse are skipped by the code, and are
  `Unusable` or absent here.
* NGINX inside: only when it resolves names, reads files, answers, logs and reopens.
* `algorithms/stub.py` (a constant that nothing uses), `run_experiment.py status` and
  `analyze` (they change nothing), images and Compose files (deployment).
* The distributions of offsets and dwells, and the latency itself: any value of a
  small set. A mean dwell of zero is excluded by `DwellAssumption`; the code does not
  check it, and would draw for ever.
* A purge that deletes some of the files and then fails, in `TrafficRun`, `SamplingLoop`
  and `Lifecycle`, where its deletion is one step for each set of files the module has;
  `ConfigWriter` and `Addressing` take it file by file.
* A `weights.csv` without its header: `_append_weight_history` looks whether the file
  exists, and a purge between this and the `open` leaves a new file that begins with a
  row. The row itself is there, which is what `ConfigWriter` says; the analysis would
  take it for the header, and `Report` has no such file.
* A line of `runs.log` or of `weights.csv` that a full disk cuts short: a write is done
  or not done here.
* Latencies more than about fifteen times apart for `Markov`. The chain is then
  close to periodic, the 200 iterations end before it settles, and
  `ScaledStationary` need not hold; it is listed as a hazard. What is proved of a loop
  that settles holds for any latencies.
* Two traffic generators at once (see `TrafficRun`).

## 6. Plan

Done, in the order of importance: `ConfigWriter` (the path every weight takes),
`SamplingLoop` with its abstraction, `TrafficRun`, the computations, `Lifecycle`,
`BackendDrift`, `Addressing`, `Report`, and the proofs: of what every part that
changes state keeps, and of the analysis for inputs of any size.

Left: a composition of `SamplingLoop` and `ConfigWriter` over one algorithm, so that a
failed `apply_weights` is the writer's own failure and the retry its next call; `again`
then follows from where the writer raised. And a bound on the latencies' ratio under
which 200 iterations always settle, which needs the chain's second eigenvalue.
