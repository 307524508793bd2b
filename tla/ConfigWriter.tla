---------------------------- MODULE ConfigWriter ----------------------------
(***************************************************************************)
(* How a vector of weights gets from a sampling window into NGINX:          *)
(* controller/config_writer.py (apply_weights and everything it calls),     *)
(* controller/nginx/upstream_conf.py (the atomic file write) and the        *)
(* placeholder files of controller/nginx/generate_config.py.                *)
(*                                                                          *)
(* One thread per dynamic algorithm runs apply_weights on files of its own; *)
(* the NGINX master, a separate process, is shared by all of them and reads *)
(* every algorithm's file at each reload, whichever thread asked for it.    *)
(***************************************************************************)
EXTENDS Integers, Sequences, FiniteSets

CONSTANTS Algos,        \* the dynamic algorithms, one sampling thread each
          Vectors,      \* the weight vectors an algorithm can compute
          Placeholder,  \* the equal-weight vector generate_config writes
          NoWeights,    \* state["weights"] before the first window: None
          Torn,         \* a file truncated by open(.., "w") and not yet closed
          NoFile,       \* no <conf>.tmp in the directory
          Faults,       \* which of the faults below can happen
          Purged,       \* the algorithms whose files a purge may reach
          MaxRows,      \* bound: MaxRows[a] rows of a's weights.csv
          MaxChanges    \* bound: MaxChanges[a] for a's change count

(* raise:  any step of apply_weights may raise (disk full, no fork);        *)
(*         the sampling loop catches it.                                    *)
(* reload: `nginx -s reload` may exit non-zero, and the master may reject   *)
(*         what it reads and keep its previous configuration.               *)
(* stop:   the container may stop at any point and be started again.        *)
AllFaults == {"raise", "reload", "stop"}

(* A conf file's content: weights, or a truncated file.                     *)
Contents == Vectors \cup {Placeholder, Torn}

ASSUME FaultsAssumption == Faults \subseteq AllFaults
ASSUME PurgedAssumption == Purged \subseteq Algos
ASSUME BoundAssumption == {MaxRows, MaxChanges} \subseteq [Algos -> Nat]
ASSUME SentinelAssumption ==
    /\ Torn \notin Vectors \cup {Placeholder}
    /\ NoWeights \notin Vectors
    /\ NoFile \notin Contents

VARIABLES
    \* files
    tmp,      \* tmp[a]: <algo>.upstream.conf.tmp, while a call is at it: one
              \* that a failed call leaves is overwritten unread
    conf,     \* conf[a]: <algo>.upstream.conf
    state,    \* state[a]: <algo>.state.json
    history,  \* history[a]: the rows of <algo>.weights.csv, oldest first
    \* the threads
    pc,       \* pc[a]: the next step of a's apply_weights, "idle" outside it
    call,     \* call[a]: the new weights, the count of the `state` dict, and
              \* the local `changed`
    \* the NGINX master
    hup,      \* a SIGHUP is pending
    master,   \* "steady", or "loading" while it reads the files
    unread,   \* the algorithms whose file this load has still to read
    fetched,  \* fetched[a]: what this load has read (or the last one left)
    running,  \* running[a]: what the workers route with
    \* history, which no action reads
    lost,     \* the algorithms whose conf a failed reload left unread, and
              \* no signal sent since will have read
    apart,    \* the algorithms whose conf a call replaced before it raised,
              \* or a boot reset, and no change has been saved since
    taken,    \* taken[a]: the count a purge has deleted since the call a is
              \* in read it, and before that call has saved it again
    uncounted \* the algorithms whose csv has, or is about to have, rows of
              \* changes that were counted in a state.json a purge took

files   == <<tmp, conf, state, history>>
threads == <<pc, call>>
nginx   == <<hup, master, unread, fetched, running>>
purged  == <<taken, uncounted>>
ghosts  == <<lost, apart, purged>>
vars    == <<tmp, conf, state, history, pc, call, hup, master, unread,
             fetched, running, lost, apart, taken, uncounted>>

Steps == {"idle", "open", "write", "replace", "reload", "save", "append"}

(* read_state with no file, and what `call` holds between two calls.        *)
Fresh  == [weights |-> NoWeights, count |-> 0]
NoCall == [weights |-> NoWeights, count |-> 0, changed |-> FALSE]

Init ==
    /\ tmp = [a \in Algos |-> NoFile]
    /\ conf = [a \in Algos |-> Placeholder]
    /\ state = [a \in Algos |-> Fresh]
    /\ history = [a \in Algos |-> <<>>]
    /\ pc = [a \in Algos |-> "idle"]
    /\ call = [a \in Algos |-> NoCall]
    /\ hup = FALSE
    /\ master = "steady"
    /\ unread = {}
    /\ fetched = conf
    /\ running = conf
    /\ lost = {}
    /\ apart = {}
    /\ taken = [a \in Algos |-> 0]
    /\ uncounted = {}

-----------------------------------------------------------------------------
(* apply_weights, one action per effect another process can see.            *)

InBounds(a) == Len(history[a]) < MaxRows[a] /\ state[a].count < MaxChanges[a]

(* apply_weights up to its first effect, with the new weights w and the     *)
(* count n.  A read_state that finds the file gone between looking and      *)
(* opening raises before anything has happened, which is no step at all.    *)
Begin(a, w, n) ==
    LET changed == state[a].weights # w
    IN  /\ pc[a] = "idle"
        /\ InBounds(a)
        /\ call' = [call EXCEPT ![a] =
                       [weights |-> w, count |-> n, changed |-> changed]]
        /\ pc' = [pc EXCEPT ![a] = IF changed THEN "open" ELSE "save"]
        /\ UNCHANGED <<files, nginx, ghosts>>

(* Mutant: `change_count += 1` outside `if changed`.                        *)
CallCountsEveryWindow(a, w) == Begin(a, w, state[a].count + 1)

(* Mutant: the first weights are not counted as a change.                   *)
CallDoesNotCountFirst(a, w) ==
    Begin(a, w, IF state[a].weights \in {w, NoWeights}
                THEN state[a].count ELSE state[a].count + 1)

(* read_state, then `changed`: the comparison is with the last weights      *)
(* *saved*, never with the conf file.                                       *)
Call(a, w) ==
    Begin(a, w, IF state[a].weights # w
                THEN state[a].count + 1 ELSE state[a].count)

(* Mutant: the conf file itself is opened for writing.                      *)
OpenConfInPlace(a) ==
    /\ pc[a] = "open"
    /\ tmp' = [tmp EXCEPT ![a] = Torn]
    /\ conf' = [conf EXCEPT ![a] = Torn]
    /\ pc' = [pc EXCEPT ![a] = "write"]
    /\ UNCHANGED <<state, history, call, nginx, ghosts>>

(* write_upstream_conf: open(tmp_path, "w") ...                             *)
OpenTmp(a) ==
    /\ pc[a] = "open"
    /\ tmp' = [tmp EXCEPT ![a] = Torn]
    /\ pc' = [pc EXCEPT ![a] = "write"]
    /\ UNCHANGED <<conf, state, history, call, nginx, ghosts>>

(* ... f.write(content) and close ...                                       *)
WriteTmp(a) ==
    /\ pc[a] = "write"
    /\ tmp' = [tmp EXCEPT ![a] = call[a].weights]
    /\ pc' = [pc EXCEPT ![a] = "replace"]
    /\ UNCHANGED <<conf, state, history, call, nginx, ghosts>>

(* Mutant: reload_nginx() is never called.                                  *)
ReplaceWithoutReload(a) ==
    /\ pc[a] = "replace"
    /\ conf' = [conf EXCEPT ![a] = tmp[a]]
    /\ tmp' = [tmp EXCEPT ![a] = NoFile]
    /\ pc' = [pc EXCEPT ![a] = "save"]
    /\ UNCHANGED <<state, history, call, nginx, ghosts>>

(* ... os.replace(tmp_path, path).                                          *)
Replace(a) ==
    /\ pc[a] = "replace"
    /\ conf' = [conf EXCEPT ![a] = tmp[a]]
    /\ tmp' = [tmp EXCEPT ![a] = NoFile]
    /\ pc' = [pc EXCEPT ![a] = "reload"]
    /\ UNCHANGED <<state, history, call, nginx, ghosts>>

(* No signal for a's conf will come; one that is pending serves as well.    *)
GiveUp(a) == lost' = IF hup THEN lost ELSE lost \cup {a}

(* Mutant: no signal is sent while a reload is in progress.                 *)
SignalUnlessLoading(a) ==
    /\ pc[a] = "reload"
    /\ hup' = (hup \/ master = "steady")
    /\ pc' = [pc EXCEPT ![a] = "save"]
    /\ UNCHANGED <<files, call, master, unread, fetched, running, ghosts>>

(* A raise or a stop ends the calls of the threads in A: a count that a     *)
(* purge took from under them stays lost, and rows it counted may remain.   *)
AbandonCalls(A) ==
    /\ pc' = [a \in Algos |-> IF a \in A THEN "idle" ELSE pc[a]]
    /\ call' = [a \in Algos |-> IF a \in A THEN NoCall ELSE call[a]]
    /\ tmp' = [a \in Algos |-> IF a \in A THEN NoFile ELSE tmp[a]]
    /\ taken' = [a \in Algos |-> IF a \in A THEN 0 ELSE taken[a]]
    /\ uncounted' =
          uncounted \cup {a \in A : taken[a] # 0 /\ history[a] # <<>>}

(* Mutant: apply_weights returns when the reload fails.                     *)
ReturnOnFailedReload(a) ==
    /\ pc[a] = "reload"
    /\ \/ /\ hup' = TRUE
          /\ pc' = [pc EXCEPT ![a] = "save"]
          /\ UNCHANGED <<tmp, call, purged>>
       \/ hup' = hup /\ AbandonCalls({a})
    /\ UNCHANGED <<conf, state, history, master, unread, fetched, running, lost,
                   apart>>

(* reload_nginx: a non-zero exit is logged, and apply_weights goes on.      *)
SignalReload(a) ==
    /\ pc[a] = "reload"
    /\ \/ hup' = TRUE /\ lost' = {}
       \/ "reload" \in Faults /\ hup' = hup /\ GiveUp(a)
    /\ pc' = [pc EXCEPT ![a] = "save"]
    /\ UNCHANGED <<files, call, master, unread, fetched, running, apart,
                   purged>>

(* _write_state: a temporary file of its own and os.replace, so one step.   *)
(* It writes the dict that was read at the call, whatever became of the     *)
(* file since.                                                              *)
SaveState(a) ==
    /\ pc[a] = "save"
    /\ state' = [state EXCEPT ![a] = [weights |-> call[a].weights,
                                      count   |-> call[a].count]]
    /\ pc' = [pc EXCEPT ![a] = "append"]
    /\ apart' = IF call[a].changed THEN apart \ {a} ELSE apart
    /\ taken' = [taken EXCEPT ![a] = 0]
    /\ UNCHANGED <<tmp, conf, history, call, nginx, lost, uncounted>>

(* _append_weight_history, and the return.                                  *)
AppendHistory(a) ==
    /\ pc[a] = "append"
    /\ history' = [history EXCEPT ![a] = Append(@, call[a].weights)]
    /\ pc' = [pc EXCEPT ![a] = "idle"]
    /\ call' = [call EXCEPT ![a] = NoCall]
    /\ UNCHANGED <<tmp, conf, state, nginx, ghosts>>

(* A purge that takes state.json.tmp before its os.replace makes that raise *)
(* also where nothing else is at fault.                                     *)
MayRaise(a) ==
    \/ "raise" \in Faults
    \/ a \in Purged /\ pc[a] = "save"

(* The step at pc[a] raises instead of taking effect; sampling_loop's       *)
(* `except Exception` catches it, and its retry is another Call.            *)
Raise(a) ==
    /\ MayRaise(a)
    /\ pc[a] # "idle"
    /\ AbandonCalls({a})
    /\ IF pc[a] = "reload" THEN GiveUp(a) ELSE lost' = lost
    /\ apart' = IF pc[a] \in {"reload", "save"} /\ call[a].changed
                THEN apart \cup {a} ELSE apart
    /\ UNCHANGED <<conf, state, history, nginx>>

-----------------------------------------------------------------------------
(* run_experiment.py purge: state.json and weights.csv are log files like   *)
(* the others, and it looks for a traffic run, not for the sampling         *)
(* threads, which go on.  os.remove of each file it has listed, one after   *)
(* the other in any order, and no more of them once a removal raises; the   *)
(* conf files are in another directory and stay.                            *)

(* The steps at which a call still holds the dict it has read and not saved. *)
Unsaved == {"open", "write", "replace", "reload", "save"}

PurgeState(a) ==
    /\ a \in Purged
    /\ state[a] # Fresh
    /\ state' = [state EXCEPT ![a] = Fresh]
    /\ IF pc[a] \in Unsaved
       THEN /\ taken' = [taken EXCEPT ![a] = state[a].count]
            /\ uncounted' = uncounted
       ELSE /\ taken' = taken
            /\ uncounted' = IF history[a] # <<>> \/ pc[a] = "append"
                            THEN uncounted \cup {a} ELSE uncounted
    /\ UNCHANGED <<tmp, conf, history, threads, nginx, lost, apart>>

PurgeHistory(a) ==
    /\ a \in Purged
    /\ history[a] # <<>>
    /\ history' = [history EXCEPT ![a] = <<>>]
    /\ uncounted' = IF pc[a] = "append" /\ state[a] = Fresh
                    THEN uncounted ELSE uncounted \ {a}
    /\ UNCHANGED <<tmp, conf, state, threads, nginx, lost, apart, taken>>

-----------------------------------------------------------------------------
(* The NGINX master (external): signals coalesce into one flag, the files   *)
(* are read one after the other while threads go on writing, and the new    *)
(* configuration takes over as a whole or not at all.                       *)

ReloadBegin ==
    /\ master = "steady" /\ hup
    /\ hup' = FALSE
    /\ master' = "loading"
    /\ unread' = Algos
    /\ UNCHANGED <<files, threads, fetched, running, ghosts>>

ReadConf(a) ==
    /\ master = "loading" /\ a \in unread
    /\ fetched' = [fetched EXCEPT ![a] = conf[a]]
    /\ unread' = unread \ {a}
    /\ lost' = lost \ {a}
    /\ UNCHANGED <<files, threads, hup, master, running, apart, purged>>

ReloadCommit ==
    /\ master = "loading" /\ unread = {}
    /\ running' = fetched
    /\ master' = "steady"
    /\ UNCHANGED <<files, threads, hup, unread, fetched, ghosts>>

ReloadReject ==
    /\ "reload" \in Faults
    /\ master = "loading"
    /\ fetched' = running
    /\ unread' = {}
    /\ master' = "steady"
    /\ lost' = IF hup THEN {} ELSE {a \in Algos : conf[a] # running[a]}
    /\ UNCHANGED <<files, threads, hup, running, apart, purged>>

(* The container stops and starts: generate_config.main rewrites every conf *)
(* with the placeholder and NGINX starts on it; state.json and weights.csv  *)
(* are on the mounted log directory and stay.                               *)
Boot ==
    /\ "stop" \in Faults
    /\ conf' = [a \in Algos |-> Placeholder]
    /\ AbandonCalls(Algos)
    /\ hup' = FALSE
    /\ master' = "steady"
    /\ unread' = {}
    /\ fetched' = conf'
    /\ running' = conf'
    /\ lost' = {}
    /\ apart' = {a \in Algos : state[a].weights \notin {NoWeights, Placeholder}}
    /\ UNCHANGED <<state, history>>

(* Every thread has reached its bound and NGINX has caught up: the model    *)
(* stops there, so that any other deadlock is a real one.                   *)
BoundReached ==
    /\ \A a \in Algos : pc[a] = "idle" /\ ~InBounds(a)
    /\ master = "steady" /\ ~hup
    /\ UNCHANGED vars

Apply(a) ==
    \/ OpenTmp(a) \/ WriteTmp(a) \/ Replace(a) \/ SignalReload(a)
    \/ SaveState(a) \/ AppendHistory(a)

Master == ReloadBegin \/ (\E a \in Algos : ReadConf(a)) \/ ReloadCommit

Next ==
    \/ \E a \in Algos : (\E w \in Vectors : Call(a, w)) \/ Apply(a) \/ Raise(a)
    \/ \E a \in Algos : PurgeState(a) \/ PurgeHistory(a)
    \/ Master \/ ReloadReject
    \/ Boot
    \/ BoundReached

Spec == Init /\ [][Next]_vars

(* A thread inside apply_weights is scheduled until it returns (the call    *)
(* blocks on nothing but files and a child that exits), and the master      *)
(* serves its signal.  Nothing obliges a window to call.                    *)
FairSpec == Spec /\ (\A a \in Algos : WF_vars(Apply(a))) /\ WF_vars(Master)

-----------------------------------------------------------------------------
(* Types.  The saved count and the count in memory can exceed neither the   *)
(* windows nor each other by more than one; conf may be Torn here, and      *)
(* NeverTorn below says that it is not.                                     *)
TypeOK ==
    /\ tmp \in [Algos -> Contents \cup {NoFile}]
    /\ conf \in [Algos -> Contents]
    /\ state \in [Algos -> [weights : Vectors \cup {NoWeights}, count : Nat]]
    /\ history \in [Algos -> Seq(Vectors)]
    /\ pc \in [Algos -> Steps]
    /\ call \in [Algos -> [weights : Vectors \cup {NoWeights}, count : Nat,
                           changed : BOOLEAN]]
    /\ hup \in BOOLEAN
    /\ master \in {"steady", "loading"}
    /\ unread \subseteq Algos
    /\ fetched \in [Algos -> Contents]
    /\ running \in [Algos -> Contents]
    /\ lost \subseteq Algos
    /\ apart \subseteq Algos
    /\ taken \in [Algos -> Nat]
    /\ uncounted \subseteq Algos

(* No reload, of whichever thread and at whatever moment, reads a half-     *)
(* written conf: write_upstream_conf's "so a concurrent `nginx -s reload`   *)
(* never reads a half-written file", with every fault allowed.              *)
NeverTorn ==
    \A a \in Algos : Torn \notin {conf[a], fetched[a], running[a]}

(* The count that is saved, or that the call in progress read before a      *)
(* purge took the file and will save again.                                 *)
Known(a) == state[a].count + taken[a]

(* apply_weights' change count, whatever exceptions, failed reloads,        *)
(* restarts and purges come in between: a purge of state.json starts it     *)
(* anew, unless a call has already read it, which saves it again; nothing   *)
(* else moves it except a change whose weights are already in the conf      *)
(* file, and that by one.                                                   *)
CountStep ==
    \A a \in Algos :
        state'[a].count # Known(a) =>
            \/ state'[a] = Fresh
            \/ state'[a].count = Known(a) + 1 /\ state'[a].weights = conf[a]
CountedChangeOnDisk == [][CountStep]_state

(* The rows of a csv at which the weights differ from the row before; the   *)
(* first row differs from nothing.                                          *)
LastRow(h) == IF h = <<>> THEN NoWeights ELSE h[Len(h)]
ChangeRows(h) ==
    {i \in 1..Len(h) : i = 1 \/ (i > 1 /\ h[i] # h[i-1])}

(* What analysis recounts from weights.csv never exceeds the counter of     *)
(* state.json: a change may be lost from the csv (an exception or a stop    *)
(* between _write_state and _append_weight_history), never from the count.  *)
(* Only a purge can part them, by deleting a state.json that no call holds  *)
(* and leaving, or not yet deleting, rows; deleting the csv too mends it.   *)
HistoryWithinCount ==
    \A a \in Algos :
        a \in uncounted \/ Cardinality(ChangeRows(history[a])) <= Known(a)

(* The row apply_weights appends is the conf file's content: weights.csv    *)
(* holds "what's actually in the `.conf` file" (AGENT.md, per-window        *)
(* weight history).  Whatever goes wrong, this is so again from the next    *)
(* change that is saved: only between a call that raised half-way, or a     *)
(* restart, and that change can a row tell of weights that are not there.   *)
RowStep ==
    \A a \in Algos :
        Len(history'[a]) > Len(history[a]) =>
            a \in apart \/ LastRow(history'[a]) = conf[a]
RowIsOnDisk == [][RowStep]_vars

(* Coalesced signals lose no update: unless a reload is still owed for an   *)
(* algorithm, NGINX routes with its conf file, or is loading and will.  A   *)
(* reload that failed, which reload_nginx forgets, costs no more than the   *)
(* wait for the next load, whichever thread asks for it.                    *)
RunningCurrent ==
    \A a \in Algos :
        \/ a \in lost
        \/ hup
        \/ pc[a] = "reload"
        \/ master = "steady" /\ running[a] = conf[a]
        \/ master = "loading" /\ (a \in unread \/ fetched[a] = conf[a])

(* Every vector written to a conf is in the end routed with, or superseded. *)
ConfReachesNginx ==
    \A a \in Algos, w \in Vectors :
        (conf[a] = w) ~> (running[a] = w \/ conf[a] # w)
=============================================================================
