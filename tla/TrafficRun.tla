----------------------------- MODULE TrafficRun -----------------------------
(***************************************************************************)
(* Experiment runs: one invocation after another of traffic_generator.py,   *)
(* each with a thread per path that submits requests to that path's pool, a *)
(* main thread that counts ticks, drains the pools and appends the run's    *)
(* record to runs.log, and log_reader.py, which afterwards tells the runs   *)
(* apart in the shared access logs by the records' timestamps alone.        *)
(* "Run these one at a time": two invocations never overlap here.           *)
(***************************************************************************)
EXTENDS Integers, Sequences, FiniteSets

CONSTANTS Paths,     \* read_location_paths()
          Ticks,     \* duration_ticks
          Workers,   \* max_workers of a path's pool
          Faults,    \* which of the faults below can happen
          MaxRuns,   \* bound: invocations
          MaxSent,   \* bound: requests of a path in one invocation
          MaxTime    \* bound: when time stops passing without a reason to

(* signal: SIGINT or SIGTERM once the handlers are installed;               *)
(* kill:   the process disappears: a signal before the handlers, SIGKILL,   *)
(*         the container stopping;                                          *)
(* raise:  a statement of the main thread raises (a full disk, an output    *)
(*         that is closed);                                                 *)
(* purge:  `run_experiment.py purge` with its check and its deletion;       *)
(* blind:  `docker top` fails, which the check takes for "no run".          *)
AllFaults == {"signal", "kill", "raise", "purge", "blind"}

ASSUME FaultsAssumption == Faults \subseteq AllFaults
ASSUME TicksAssumption == Ticks \in Nat \ {0}
ASSUME WorkersAssumption == Workers \in Nat \ {0}
ASSUME BoundsAssumption == {MaxRuns, MaxSent, MaxTime} \subseteq Nat

VARIABLES
    clock,       \* now_ms(), in units of one tick
    \* the files
    runs,        \* runs.log
    log,         \* log[p]: the access log of path p
    \* the main thread
    pc,          \* its next step, "idle" when there is no process
    inv,         \* the number of the invocation, never reused
    index,       \* run_index
    start,       \* start_ts_ms
    end,         \* end_ts_ms
    tick,        \* tick_index
    wake,        \* when the sleep of the current tick is over
    interrupted, \* set by handle_signal
    stop,        \* stop_event
    \* the threads and the pools
    loop,        \* loop[p]: the next step of path_traffic_loop
    pool,        \* pool[p]: the executor
    queued,      \* queued[p]: submitted requests no worker has taken
    waiting,     \* waiting[p]: workers waiting for a response
    \* NGINX
    abandoned,   \* abandoned[p]: requests whose client is gone, not logged yet
    unlinked,    \* the log files it has open are deleted ones
    \* the operator
    purging,     \* cmd_purge has checked, and not deleted yet
    \* history, for the properties
    submitted,   \* submitted[p]: requests the pool accepted in this invocation
    gone,        \* gone[p]: lines of this invocation in files that were deleted
    killed,      \* the last invocation was killed
    failed,      \* an exception has ended the last invocation, or will
    swept        \* a purge has deleted the files from under a run

files   == <<runs, log>>
main    == <<inv, index, start, end, tick, wake>>
signals == <<interrupted, stop>>
threads == <<loop, pool>>
work    == <<queued, waiting, abandoned>>
history == <<submitted, gone, killed, failed, swept>>
purge   == <<unlinked, purging>>
others  == <<signals, threads, work, purge, history>>
vars == <<clock, runs, log, pc, inv, index, start, end, tick, wake, interrupted,
          stop, loop, pool, queued, waiting, abandoned, unlinked, purging,
          submitted, gone, killed, failed, swept>>

Steps == {"idle", "boot", "begin", "arm", "ticks", "asleep", "drain", "record",
          "analyze"}
Armed == {"ticks", "asleep", "drain", "record"}
All(x) == [p \in Paths |-> x]

Init ==
    /\ clock = 0
    /\ runs = <<>> /\ log = All(<<>>)
    /\ pc = "idle"
    /\ inv = 0 /\ index = 0 /\ start = 0 /\ end = 0 /\ tick = 0 /\ wake = 0
    /\ interrupted = FALSE /\ stop = FALSE
    /\ loop = All("off") /\ pool = All("closed")
    /\ queued = All(0) /\ waiting = All(0) /\ abandoned = All(0)
    /\ unlinked = FALSE /\ purging = FALSE
    /\ submitted = All(0) /\ gone = All(0)
    /\ killed = FALSE /\ failed = FALSE /\ swept = FALSE

-----------------------------------------------------------------------------
(* traffic_generator.run, in the main thread.                               *)

(* `docker exec`.  A process takes a moment to start, and NGINX notices a   *)
(* closed connection sooner than that.                                      *)
Invoke ==
    /\ pc = "idle"
    /\ inv < MaxRuns
    /\ abandoned = All(0)
    /\ pc' = "boot"
    /\ inv' = inv + 1
    /\ clock' = clock + 1
    /\ gone' = All(0) /\ killed' = FALSE /\ failed' = FALSE
    /\ UNCHANGED <<files, index, start, end, tick, wake, signals, threads, work,
                   purge, submitted, swept>>

(* No path, or a backend that validate finds unreachable: sys.exit(1).      *)
Refuse ==
    /\ pc = "boot"
    /\ pc' = "idle"
    /\ UNCHANGED <<clock, files, main, others>>

(* Mutant: the lines are counted and the one to come is forgotten.          *)
NextRunIndexLast ==
    /\ pc = "boot"
    /\ index' = IF runs = <<>> THEN 1 ELSE Len(runs)
    /\ pc' = "begin"
    /\ UNCHANGED <<clock, files, inv, start, end, tick, wake, others>>

(* next_run_index.                                                          *)
NextRunIndex ==
    /\ pc = "boot"
    /\ index' = Len(runs) + 1
    /\ pc' = "begin"
    /\ UNCHANGED <<clock, files, inv, start, end, tick, wake, others>>

(* The start timestamp, the baseline of the change counts, the pools and    *)
(* the threads.                                                             *)
Start ==
    /\ pc = "begin"
    /\ start' = clock
    /\ pool' = All("open")
    /\ loop' = All("check")
    /\ pc' = "arm"
    /\ UNCHANGED <<clock, files, inv, index, end, tick, wake, signals, work, purge,
                   history>>

(* signal.signal, twice.                                                    *)
Arm ==
    /\ pc = "arm"
    /\ pc' = "ticks"
    /\ UNCHANGED <<clock, files, main, others>>

Sleep ==
    /\ pc = "ticks"
    /\ tick < Ticks
    /\ ~interrupted
    /\ wake' = clock + 1
    /\ pc' = "asleep"
    /\ UNCHANGED <<clock, files, inv, index, start, end, tick, others>>

(* A signal does not end the sleep: it is resumed after the handler.        *)
Wake ==
    /\ pc = "asleep"
    /\ clock >= wake
    /\ tick' = tick + 1
    /\ wake' = 0
    /\ pc' = "ticks"
    /\ UNCHANGED <<clock, files, inv, index, start, end, others>>

(* read_state looks for state.json before it opens it, and a purge may      *)
(* delete it in between; anything may raise that writes.                    *)
MayRaise == "raise" \in Faults \/ purging

(* The tick's change counts or its status line raise: nothing catches that, *)
(* but the `finally` comes first.                                           *)
TickRaises ==
    /\ pc = "asleep"
    /\ clock >= wake
    /\ MayRaise
    /\ tick' = tick + 1
    /\ wake' = 0
    /\ stop' = TRUE
    /\ failed' = TRUE
    /\ pc' = "drain"
    /\ UNCHANGED <<clock, files, inv, index, start, end, interrupted, threads,
                   work, purge, submitted, gone, killed, swept>>

(* The loop is over: the `finally`.                                         *)
Finish ==
    /\ pc = "ticks"
    /\ tick = Ticks \/ interrupted
    /\ stop' = TRUE
    /\ pc' = "drain"
    /\ UNCHANGED <<clock, files, main, interrupted, threads, work, purge, history>>

(* Mutant: shutdown with cancel_futures=True.                               *)
ShutdownCancels(p) ==
    /\ pc = "drain"
    /\ pool[p] = "open"
    /\ \A q \in Paths : pool[q] # "closing"
    /\ pool' = [pool EXCEPT ![p] = "closing"]
    /\ queued' = [queued EXCEPT ![p] = 0]
    /\ UNCHANGED <<clock, files, pc, main, signals, loop, waiting, abandoned,
                   purge, history>>

(* executor.shutdown(wait=True), one pool after the other: from here on the *)
(* pool accepts nothing ...                                                 *)
Shutdown(p) ==
    /\ pc = "drain"
    /\ pool[p] = "open"
    /\ \A q \in Paths : pool[q] # "closing"
    /\ pool' = [pool EXCEPT ![p] = "closing"]
    /\ UNCHANGED <<clock, files, pc, main, signals, loop, work, purge, history>>

(* Mutant: shutdown with wait=False.                                        *)
JoinAtOnce(p) ==
    /\ pc = "drain"
    /\ pool[p] = "closing"
    /\ pool' = [pool EXCEPT ![p] = "closed"]
    /\ UNCHANGED <<clock, files, pc, main, signals, loop, work, purge, history>>

(* ... and here its workers have finished what it had accepted.             *)
Join(p) ==
    /\ pc = "drain"
    /\ pool[p] = "closing"
    /\ queued[p] = 0 /\ waiting[p] = 0
    /\ pool' = [pool EXCEPT ![p] = "closed"]
    /\ UNCHANGED <<clock, files, pc, main, signals, loop, work, purge, history>>

(* The end timestamp.                                                       *)
Stamp ==
    /\ pc = "drain"
    /\ pool = All("closed")
    /\ ~failed
    /\ end' = clock
    /\ pc' = "record"
    /\ UNCHANGED <<clock, files, inv, index, start, tick, wake, others>>

(* write_run_record.  (inv is not in the file: it tells the properties whose *)
(* record it is.)                                                           *)
WriteRecord ==
    /\ pc = "record"
    /\ runs' = Append(runs, [index |-> index, inv |-> inv, start |-> start,
                             end |-> end, interrupted |-> interrupted])
    /\ pc' = "analyze"
    /\ UNCHANGED <<clock, log, main, others>>

(* What goes with the process: its variables, its daemon threads, its pools. *)
ProcessGone ==
    /\ pc' = "idle"
    /\ index' = 0 /\ start' = 0 /\ end' = 0 /\ tick' = 0 /\ wake' = 0
    /\ interrupted' = FALSE /\ stop' = FALSE
    /\ loop' = All("off") /\ pool' = All("closed")
    /\ queued' = All(0) /\ waiting' = All(0)
    /\ submitted' = All(0)

EndProcess ==
    /\ ProcessGone
    /\ UNCHANGED <<clock, files, inv, abandoned, purge, gone, killed, swept>>

(* An exception ends the process: while it reads the baseline of the change *)
(* counts, once the pools have drained after TickRaises, or in the change   *)
(* counts of the record or its writing.  None of them leaves a record.      *)
BaselineRaises == pc = "begin"  /\ MayRaise /\ failed' = TRUE /\ EndProcess
RecordRaises   == pc = "record" /\ MayRaise /\ failed' = TRUE /\ EndProcess

Unwind ==
    /\ pc = "drain"
    /\ pool = All("closed")
    /\ failed
    /\ failed' = failed
    /\ EndProcess

(* invoke_analysis, which raises nothing, and the end of the process.       *)
Exit == pc = "analyze" /\ failed' = failed /\ EndProcess

(* handle_signal.                                                           *)
Signal ==
    /\ "signal" \in Faults
    /\ pc \in Armed
    /\ ~interrupted
    /\ interrupted' = TRUE
    /\ stop' = TRUE
    /\ UNCHANGED <<clock, files, pc, main, threads, work, purge, history>>

(* The process disappears, and its connections with it.                     *)
Kill ==
    /\ "kill" \in Faults
    /\ pc # "idle"
    /\ ProcessGone
    /\ abandoned' = [p \in Paths |-> abandoned[p] + waiting[p]]
    /\ killed' = TRUE
    /\ UNCHANGED <<clock, files, inv, purge, gone, failed, swept>>

-----------------------------------------------------------------------------
(* path_traffic_loop, at any pace.                                          *)

CheckStop(p) ==
    /\ loop[p] = "check"
    /\ stop \/ submitted[p] < MaxSent
    /\ loop' = [loop EXCEPT ![p] = IF stop THEN "off" ELSE "submit"]
    /\ UNCHANGED <<clock, files, pc, main, signals, pool, work, purge, history>>

Submit(p) ==
    /\ loop[p] = "submit"
    /\ pool[p] = "open"
    /\ queued' = [queued EXCEPT ![p] = @ + 1]
    /\ submitted' = [submitted EXCEPT ![p] = @ + 1]
    /\ loop' = [loop EXCEPT ![p] = "check"]
    /\ UNCHANGED <<clock, files, pc, main, signals, pool, waiting, abandoned,
                   purge, gone, killed, failed, swept>>

(* submit raises RuntimeError once the pool is shut down, and the daemon    *)
(* thread dies of it.                                                       *)
SubmitRaises(p) ==
    /\ loop[p] = "submit"
    /\ pool[p] # "open"
    /\ loop' = [loop EXCEPT ![p] = "off"]
    /\ UNCHANGED <<clock, files, pc, main, signals, pool, work, purge, history>>

(* send_request, in a worker.                                               *)
Send(p) ==
    /\ queued[p] > 0
    /\ waiting[p] < Workers
    /\ queued' = [queued EXCEPT ![p] = @ - 1]
    /\ waiting' = [waiting EXCEPT ![p] = @ + 1]
    /\ UNCHANGED <<clock, files, pc, main, signals, threads, abandoned, purge,
                   history>>

(* The line goes to the file NGINX has open, deleted or not.                *)
LogLine(p, answered) ==
    \/ /\ unlinked
       /\ gone' = [gone EXCEPT ![p] = @ + 1]
       /\ UNCHANGED log
    \/ /\ ~unlinked
       /\ log' = [log EXCEPT ![p] =
                     Append(@, [inv |-> inv, ts |-> clock, answered |-> answered])]
       /\ UNCHANGED gone

(* NGINX answers, stamps the line and logs it.                              *)
Answer(p) ==
    /\ waiting[p] > 0
    /\ waiting' = [waiting EXCEPT ![p] = @ - 1]
    /\ LogLine(p, TRUE)
    /\ UNCHANGED <<clock, runs, pc, main, signals, threads, queued, abandoned,
                   purge, submitted, killed, failed, swept>>

(* Mutant: the connection has no timeout.                                   *)
NoTimeout(p) == FALSE /\ UNCHANGED vars

(* REQUEST_TIMEOUT_SECONDS pass first: the OSError is swallowed.            *)
Timeout(p) ==
    /\ waiting[p] > 0
    /\ waiting' = [waiting EXCEPT ![p] = @ - 1]
    /\ abandoned' = [abandoned EXCEPT ![p] = @ + 1]
    /\ UNCHANGED <<clock, files, pc, main, signals, threads, queued, purge,
                   history>>

(* NGINX logs the request whose client has gone, when it notices.           *)
LogAbandoned(p) ==
    /\ abandoned[p] > 0
    /\ abandoned' = [abandoned EXCEPT ![p] = @ - 1]
    /\ LogLine(p, FALSE)
    /\ UNCHANGED <<clock, runs, pc, main, signals, threads, queued, waiting,
                   purge, submitted, killed, failed, swept>>

-----------------------------------------------------------------------------
(* cmd_purge: the check for a live process and, after the prompt, the       *)
(* deletion of everything in ./logs.                                        *)

(* A run has counted its index and not yet written it.                      *)
Indexed == pc \in {"begin", "arm"} \cup Armed

(* The lines of the last invocation.                                        *)
Own(p) == {k \in DOMAIN log[p] : log[p][k].inv = inv}

PurgeCheck ==
    /\ "purge" \in Faults
    /\ ~purging
    /\ pc = "idle" \/ "blind" \in Faults
    /\ purging' = TRUE
    /\ UNCHANGED <<clock, files, pc, main, signals, threads, work, unlinked,
                   history>>

PurgeDelete ==
    /\ purging
    /\ purging' = FALSE
    /\ runs' = <<>>
    /\ log' = All(<<>>)
    /\ unlinked' = TRUE
    /\ swept' = (swept \/ Indexed)
    /\ gone' = [p \in Paths |-> gone[p] + Cardinality(Own(p))]
    /\ UNCHANGED <<clock, pc, main, signals, threads, work, submitted, killed,
                   failed>>

(* NGINX opens new files when it is next reloaded.                          *)
Reopen ==
    /\ unlinked
    /\ unlinked' = FALSE
    /\ UNCHANGED <<clock, files, pc, main, signals, threads, work, purging,
                   history>>

Time ==
    /\ clock < MaxTime \/ (pc = "asleep" /\ clock < wake)
    /\ clock' = clock + 1
    /\ UNCHANGED <<files, pc, main, others>>

Main ==
    \/ Refuse \/ NextRunIndex \/ Start \/ Arm \/ Sleep \/ Wake \/ Finish
    \/ (\E p \in Paths : Shutdown(p) \/ Join(p))
    \/ Stamp \/ WriteRecord \/ Unwind \/ Exit

Raises == BaselineRaises \/ TickRaises \/ RecordRaises

Traffic ==
    \E p \in Paths : \/ CheckStop(p) \/ Submit(p) \/ SubmitRaises(p) \/ Send(p)
                     \/ Answer(p) \/ Timeout(p) \/ LogAbandoned(p)

Next ==
    \/ Main \/ Raises \/ Traffic \/ Time
    \/ Invoke \/ Signal \/ Kill \/ PurgeCheck \/ PurgeDelete \/ Reopen

Spec == Init /\ [][Next]_vars

(* The main thread and the workers are scheduled and sleeps end; a request  *)
(* is answered or times out, but NGINX owes nobody an answer, and nothing   *)
(* is assumed of the traffic threads or the operator.                       *)
FairSpec ==
    /\ Spec
    /\ WF_vars(Main)
    /\ WF_vars(Time)
    /\ \A p \in Paths : WF_vars(Send(p)) /\ WF_vars(Timeout(p))

-----------------------------------------------------------------------------
(* log_reader.py.                                                           *)

(* Mutant: lines after the run's end are not dropped.                       *)
RecordsFromStart(r, p) == {k \in DOMAIN log[p] : r.start <= log[p][k].ts}

(* parse_access_log: the lines of path p stamped within run r.              *)
Records(r, p) ==
    {k \in DOMAIN log[p] : r.start <= log[p][k].ts /\ log[p][k].ts <= r.end}

(* select_run by index: the first record that has it.                       *)
SelectRun(n) ==
    runs[CHOOSE i \in DOMAIN runs :
            /\ runs[i].index = n
            /\ \A j \in 1..(i - 1) : runs[j].index # n]

-----------------------------------------------------------------------------
(* Run isolation, one way: what the analysis counts into a run was sent by  *)
(* that run, and not by a later one or by one that left no record.          *)
NoForeignLine ==
    \A i \in DOMAIN runs, p \in Paths : \A k \in Records(runs[i], p) :
        log[p][k].inv = runs[i].inv

(* Run isolation, the other way: every answered request of a recorded run   *)
(* is counted into it, those still queued when its last tick ended included. *)
AnsweredCounted ==
    \A i \in DOMAIN runs, p \in Paths : \A k \in DOMAIN log[p] :
        log[p][k].inv = runs[i].inv /\ log[p][k].answered =>
            k \in Records(runs[i], p)

(* Nothing a pool accepted is dropped: once the end is stamped, each        *)
(* request has been logged, if only in a file a purge has deleted, or has    *)
(* lost its client to the timeout.                                          *)
AcceptedIsSent ==
    pc \in {"record", "analyze"} =>
        \A p \in Paths :
            submitted[p] = Cardinality(Own(p)) + gone[p] + abandoned[p]

(* A run asked for by its index is the run that was given it: two records   *)
(* never share one, whatever happened to the runs that left none; unless a  *)
(* purge took runs.log from under a run (IndexIsNextLine).                  *)
IndexSelectsRun ==
    ~swept => \A i \in DOMAIN runs : SelectRun(runs[i].index) = runs[i]

(* purge "refuses to delete `./logs` out from under a live run", whose       *)
(* record would land in a file whose line count no longer matches its index. *)
IndexIsNextLine ==
    Indexed => index = Len(runs) + 1

(* Once its handlers are installed a run leaves a record, interrupted or    *)
(* not, even if NGINX never answers another request; unless it is killed or *)
(* a tick, or the record itself, raises: then it drains its pools all the   *)
(* same, and ends without one.                                              *)
LeavesRecord ==
    \A n \in 1..MaxRuns :
        (pc \in Armed /\ inv = n) ~>
            \/ inv = n /\ pc = "idle" /\ (killed \/ failed)
            \/ \E i \in DOMAIN runs : runs[i].inv = n
=============================================================================
