---------------------------- MODULE SamplingLoop ----------------------------
(***************************************************************************)
(* One algorithm's sampling_loop (controller/sampler.py): wake at a tick,   *)
(* read the access-log lines NGINX has added since the last window, probe   *)
(* the backends no line speaks for, feed the algorithm and apply what it    *)
(* answers; retry a failed window a few times, then give it up.             *)
(*                                                                          *)
(* The four loops share nothing that is modelled here (each has its own     *)
(* access log, offset and algorithm instance), so one of them is enough;    *)
(* what apply_weights does is ConfigWriter's subject.                       *)
(***************************************************************************)
EXTENDS Integers, Sequences

CONSTANTS Hosts,       \* the backends of upstream-hosts.txt
          Unusable,    \* a line parse_window_observations skips
          MaxAttempts, \* WINDOW_RETRY_ATTEMPTS
          Faults,      \* which of the faults below can happen
          MaxLines     \* bound: lines in the access log

(* io:      resolving, writing the ip_to_host snapshot or reading the log   *)
(*          may raise;                                                      *)
(* apply:   apply_weights may raise, after the algorithm was updated;       *)
(* purge:   `run_experiment.py purge` may delete the log directory's files; *)
(* restart: the controller may stop and start again.                        *)
(* A backend may always stop and start.                                     *)
AllFaults == {"io", "apply", "purge", "restart"}

ASSUME FaultsAssumption == Faults \subseteq AllFaults
ASSUME AttemptsAssumption == MaxAttempts \in Nat \ {0}
ASSUME BoundAssumption == MaxLines \in Nat
ASSUME UnusableAssumption == Unusable \notin Hosts

VARIABLES
    \* the environment
    log,      \* the access log: for each line the backend it measures
    up,       \* the backends that answer
    \* the process
    offset,   \* _log_offsets[algo_name], in lines
    pc,       \* the loop's next step, "sleep" between windows
    attempt,  \* the attempt number
    before,   \* offset_before_window
    batch,    \* the lines this attempt has read, by number
    obs,      \* the backends `observations` has an entry for
    \* history, for the properties
    fed,      \* fed[i]: completed windows that line i was part of
    folded,   \* folded[i]: algorithm.update calls that line i was part of
    skipped,  \* lines 1..skipped of this log are below an older log's offset
    again     \* the lines of windows whose apply_weights raised

window  == <<before, batch, obs>>
history == <<fed, folded, skipped, again>>
vars    == <<log, up, offset, pc, attempt, before, batch, obs, fed, folded,
             skipped, again>>

Lines == 1..MaxLines
Steps == {"sleep", "snapshot", "read", "fill", "apply"}

Zero == [i \in Lines |-> 0]
Plural == 2                    \* bound: the history counters saturate here
Count(f, S) ==
    [i \in Lines |-> IF i \in S /\ f[i] < Plural THEN f[i] + 1 ELSE f[i]]

Init ==
    /\ log = <<>>
    /\ up = Hosts
    /\ offset = 0
    /\ pc = "sleep"
    /\ attempt = 1
    /\ before = 0
    /\ batch = {}
    /\ obs = {}
    /\ fed = Zero
    /\ folded = Zero
    /\ skipped = 0
    /\ again = {}

-----------------------------------------------------------------------------
(* sampling_loop.                                                           *)

(* The tick: the sleep ends and the offset is remembered for the retries.   *)
Wake ==
    /\ pc = "sleep"
    /\ before' = offset
    /\ attempt' = 1
    /\ pc' = "snapshot"
    /\ UNCHANGED <<log, up, offset, batch, obs, history>>

(* write_ip_to_host_snapshot.                                               *)
Snapshot ==
    /\ pc = "snapshot"
    /\ pc' = "read"
    /\ UNCHANGED <<log, up, offset, attempt, window, history>>

ReadFrom(start) ==
    /\ pc = "read"
    /\ batch' = (start + 1)..Len(log)
    /\ offset' = IF Len(log) > offset THEN Len(log) ELSE offset
    /\ obs' = {log[i] : i \in batch'} \ {Unusable}
    /\ pc' = "fill"
    /\ UNCHANGED <<log, up, attempt, before, history>>

(* Mutant: no f.seek(offset).                                               *)
ReadFromStart == ReadFrom(0)

(* read_new_window_lines and parse_window_observations: everything from the *)
(* offset to the end of the file.  A file shorter than the offset, or none, *)
(* gives no line and leaves the offset where it is.                         *)
Read == ReadFrom(offset)

(* fill_sparse_observations: one direct probe for a backend without lines.  *)
Probe(h) ==
    /\ pc = "fill"
    /\ h \in up \ obs
    /\ obs' = obs \cup {h}
    /\ UNCHANGED <<log, up, offset, pc, attempt, before, batch, history>>

(* algorithm.update(observations).                                          *)
Update ==
    /\ pc = "fill"
    /\ obs = Hosts
    /\ folded' = Count(folded, batch)
    /\ pc' = "apply"
    /\ UNCHANGED <<log, up, offset, attempt, window, fed, skipped, again>>

CompleteAt(end) ==
    /\ pc = "apply"
    /\ fed' = Count(fed, batch)
    /\ offset' = end
    /\ pc' = "sleep"
    /\ batch' = {}
    /\ obs' = {}
    /\ UNCHANGED <<log, up, attempt, before, folded, skipped, again>>

(* Mutant: the offset is restored in a `finally`, not in the `except`.      *)
CompleteRestoresOffset == CompleteAt(before)

(* config_writer.apply_weights returns and the window is complete; what the *)
(* loop does not use again is dropped.                                      *)
Complete == CompleteAt(offset)

(* When an attempt fails.                                                   *)
Fails ==
    \/ "io" \in Faults /\ pc \in {"snapshot", "read"}
    \/ pc = "fill" /\ Hosts \ (up \cup obs) # {}
    \/ "apply" \in Faults /\ pc = "apply"

(* The attempt ends at the offset `back`, and the step `next` and attempt n *)
(* follow.                                                                  *)
FailTo(back, next, n) ==
    /\ Fails
    /\ offset' = back
    /\ pc' = next
    /\ attempt' = n
    /\ batch' = {}
    /\ obs' = {}
    /\ skipped' = IF skipped > before THEN before ELSE skipped
    /\ again' = IF pc = "apply" THEN again \cup batch ELSE again
    /\ UNCHANGED <<log, up, before, fed, folded>>

(* Mutants: `_log_offsets[algo_name] = offset_before_window` is missing;    *)
(* retries without end; an exception that is not caught.                    *)
FailKeepsOffset == FailTo(offset, "snapshot", MaxAttempts)
FailForever     == FailTo(before, "snapshot", attempt)
FailKillsThread == FailTo(before, "dead", attempt)

(* An exception: the offset goes back, and the attempt is repeated or, the  *)
(* last one, the window given up.                                           *)
Fail ==
    IF attempt < MaxAttempts THEN FailTo(before, "snapshot", attempt + 1)
                             ELSE FailTo(before, "sleep", attempt)

-----------------------------------------------------------------------------
(* The environment.                                                         *)

(* NGINX logs a request, answered by a backend that is up or by none.       *)
Serve(x) ==
    /\ Len(log) < MaxLines
    /\ log' = Append(log, x)
    /\ UNCHANGED <<up, offset, pc, attempt, window, history>>

HostDown(h) ==
    /\ h \in up
    /\ up' = up \ {h}
    /\ UNCHANGED <<log, offset, pc, attempt, window, history>>

HostUp(h) ==
    /\ h \in Hosts \ up
    /\ up' = up \cup {h}
    /\ UNCHANGED <<log, offset, pc, attempt, window, history>>

(* cmd_purge, at any moment: the file goes, with the lines in it, and NGINX *)
(* starts another at its next reload; _log_offsets stays.  The line numbers *)
(* of batch and of the history are the new file's from here on.             *)
Purge ==
    /\ "purge" \in Faults
    /\ log # <<>>
    /\ log' = <<>>
    /\ batch' = {}
    /\ fed' = Zero
    /\ folded' = Zero
    /\ skipped' = offset
    /\ again' = {}
    /\ UNCHANGED <<up, offset, pc, attempt, before, obs>>

(* The controller restarts: _log_offsets and the algorithm's memory are     *)
(* gone, the access log is not, and priming, which every backend answers,   *)
(* leaves the loop at its sleep.                                            *)
Restart ==
    /\ "restart" \in Faults
    /\ up = Hosts
    /\ offset' = 0
    /\ pc' = "sleep"
    /\ attempt' = 1
    /\ before' = 0
    /\ batch' = {}
    /\ obs' = {}
    /\ fed' = Zero
    /\ folded' = Zero
    /\ skipped' = 0
    /\ again' = {}
    /\ UNCHANGED <<log, up>>

Loop ==
    \/ Wake \/ Snapshot \/ Read \/ (\E h \in Hosts : Probe(h)) \/ Update
    \/ Complete \/ Fail

Environment ==
    \/ \E x \in up \cup {Unusable} : Serve(x)
    \/ \E h \in Hosts : HostDown(h) \/ HostUp(h)
    \/ Purge \/ Restart

Next == Loop \/ Environment

Spec == Init /\ [][Next]_vars

(* The thread is scheduled, sleeps end and calls return or raise (probes    *)
(* have a timeout).  Nothing is assumed of NGINX or the backends.           *)
FairSpec == Spec /\ WF_vars(Loop)

-----------------------------------------------------------------------------
TypeOK ==
    /\ log \in Seq(Hosts \cup {Unusable})
    /\ Len(log) <= MaxLines
    /\ up \subseteq Hosts
    /\ offset \in 0..MaxLines
    /\ pc \in Steps
    /\ attempt \in 1..MaxAttempts
    /\ before \in 0..MaxLines
    /\ batch \subseteq Lines
    /\ obs \subseteq Hosts
    /\ fed \in [Lines -> 0..Plural]
    /\ folded \in [Lines -> 0..Plural]
    /\ skipped \in 0..MaxLines
    /\ again \subseteq Lines

(* How many lines, from the first, completed windows account for.  Outside  *)
(* a window that is the offset; inside, what the offset goes back to.       *)
Committed == IF pc = "sleep" THEN offset ELSE before

(* Every line belongs to exactly one completed window, up to the committed  *)
(* offset, and to none after it, however many attempts were interrupted     *)
(* after the read had already moved the offset ("attempt 2 silently miss    *)
(* whatever lines attempt 1 already consumed").  The only lines that are    *)
(* never read are those a purge has put below the offset of the old file.   *)
ExactlyOnce ==
    \A i \in Lines : fed[i] = IF skipped < i /\ i <= Committed THEN 1 ELSE 0

(* The algorithm deposits every line's latency at most once, unless         *)
(* apply_weights raised after it was deposited, and has done so for each    *)
(* line of a completed window.                                              *)
FoldedOnce ==
    \A i \in Lines : fed[i] <= folded[i] /\ (i \in again \/ folded[i] <= 1)

(* A window ends, by completing or by being given up after MaxAttempts:     *)
(* "fast stop: bounded, quick retries".                                     *)
WindowEnds == (pc # "sleep") ~> (pc = "sleep")

(* An outage costs no observation: if the backends are up for good from     *)
(* some moment on, attempts stop failing and nobody purges or restarts any  *)
(* more, every line of the log, from before, during or after the outage,    *)
(* reaches a completed window, a purge's skipped lines excepted.            *)
Healthy == <>[](up = Hosts) /\ <>[][~Fail /\ ~Purge /\ ~Restart]_vars
OutageRecovers ==
    Healthy => \A i \in Lines :
        []<>(Len(log) < i \/ i <= skipped \/ fed[i] >= 1)

(* The abstract loop; SamplingLoop implements it.                           *)
Feed == INSTANCE WindowFeed WITH logged <- Len(log), taken <- Committed
FeedSpec == Feed!Spec
=============================================================================
