----------------------------- MODULE Addressing -----------------------------
(***************************************************************************)
(* Who answered a request.  upstream-hosts.txt has names, NGINX and its     *)
(* access log have addresses: NGINX resolves the names when it loads its    *)
(* configuration, each sampling thread resolves them again every window     *)
(* (common.resolve_ip_to_host_map) and leaves the result in ip_to_host.json *)
(* (sampler.write_ip_to_host_snapshot) for the analysis, while backends are *)
(* recreated under other addresses.  Which lines a window reads is          *)
(* SamplingLoop's subject: here it reads them all.                          *)
(***************************************************************************)
EXTENDS Naturals, FiniteSets

CONSTANTS N,         \* hosts 1..N, the lines of upstream-hosts.txt
          Addresses, \* the network's addresses
          Threads,   \* the sampling threads
          None,      \* no address, no host, no file
          Torn,      \* a file opened for writing and not yet closed
          MaxMoves,  \* bound: backends removed or recreated
          MaxLines   \* bound: different lines in the access logs

ASSUME AddressingAssumption ==
    /\ N \in Nat \ {0}
    /\ MaxMoves \in Nat /\ MaxLines \in Nat
    /\ None \notin Addresses \cup Threads \cup Nat

Hosts == 1..N
Maps == [Addresses -> Hosts \cup {None}]
Unmapped == [x \in Addresses |-> None]

Snapshot == "ip_to_host.json"
ASSUME DistinctAssumption ==
    /\ Torn # None /\ {None, Torn} \cap Maps = {}
    /\ Snapshot \notin Threads

(* A line of an access log: the first address, whether it is the only one,  *)
(* and (for the properties) the backend that answered.                      *)
Line == [first : Addresses, only : BOOLEAN, by : Hosts \cup {None}]

VARIABLES
    addr,     \* addr[h]: what the name resolves to
    moves,    \* how often a backend has been removed or recreated
    owners,   \* history: the hosts that have had an address
    used,     \* used[h]: what NGINX resolved the name to
    log,      \* the lines of the access logs
    file,     \* file[f]: the snapshot and the threads' temporary files
    pc,       \* pc[t]: the next step of t's window
    next,     \* next[t]: the host t resolves next
    mapping,  \* mapping[t]: ip_to_host
    observed, \* observed[t]: the lines t has used, each with the host it names
    taken     \* history: the threads whose temporary file a purge has deleted

vars == <<addr, moves, owners, used, log, file, pc, next, mapping, observed,
          taken>>

Steps == {"sleep", "resolve", "open", "write", "replace", "read", "apply"}

Init ==
    /\ addr \in [Hosts -> Addresses]
    /\ \A h, g \in Hosts : addr[h] = addr[g] => h = g
    /\ moves = 0
    /\ owners = [x \in Addresses |-> {h \in Hosts : addr[h] = x}]
    /\ used = addr
    /\ log = {}
    /\ file = [f \in Threads \cup {Snapshot} |-> None]
    /\ pc = [t \in Threads |-> "sleep"]
    /\ next = [t \in Threads |-> 1]
    /\ mapping = [t \in Threads |-> Unmapped]
    /\ observed = [t \in Threads |-> {}]
    /\ taken = {}

-----------------------------------------------------------------------------
(* Backends and NGINX (external).                                           *)

(* A container is removed, or created again under a free address.           *)
Move(h, x) ==
    /\ addr[h] # x
    /\ moves < MaxMoves
    /\ moves' = moves + 1
    /\ \A g \in Hosts : addr[g] # x \/ x = None
    /\ addr' = [addr EXCEPT ![h] = x]
    /\ owners' = [y \in Addresses |->
                    IF y = x THEN owners[y] \cup {h} ELSE owners[y]]
    /\ UNCHANGED <<used, log, file, pc, next, mapping, observed, taken>>

(* A request is sent to used[h], and to the next server if nobody is there. *)
Answers(x) == IF \E g \in Hosts : addr[g] = x
              THEN CHOOSE g \in Hosts : addr[g] = x ELSE None

Serve(h, k) ==
    /\ \E line \in Line :
          /\ line.first = used[h]
          /\ line.only = (Answers(used[h]) # None)
          /\ line.by = IF line.only THEN Answers(used[h]) ELSE Answers(used[k])
          /\ log' = log \cup {line}
    /\ Cardinality(log') <= MaxLines
    /\ UNCHANGED <<addr, moves, owners, used, file, pc, next, mapping, observed,
                   taken>>

-----------------------------------------------------------------------------
(* A window of the sampling thread t.                                       *)

Goto(t, step) == pc' = [pc EXCEPT ![t] = step]
Outside == <<addr, moves, owners, log>>

Wake(t) ==
    /\ pc[t] = "sleep"
    /\ Goto(t, "resolve")
    /\ UNCHANGED <<Outside, used, file, next, mapping, observed, taken>>

(* resolve_ip_to_host_map, name by name: one that does not resolve is left  *)
(* out, one at an address seen before takes it over.                        *)
Resolve(t) ==
    /\ pc[t] = "resolve"
    /\ LET x == addr[next[t]]
       IN  mapping' = IF x = None THEN mapping
                      ELSE [mapping EXCEPT ![t][x] = next[t]]
    /\ next' = [next EXCEPT ![t] = (@ % N) + 1]
    /\ Goto(t, IF next[t] = N THEN "open" ELSE "resolve")
    /\ UNCHANGED <<Outside, used, file, observed, taken>>

(* Mutants: the temporary name is one for all threads; there is none.       *)
TmpShared(t) == CHOOSE u \in Threads : TRUE
TmpInPlace(t) == Snapshot

(* {IP_TO_HOST_PATH}.tmp.{pid}.{thread id}                                  *)
Tmp(t) == t

Put(t, content, step) ==
    /\ file' = [file EXCEPT ![Tmp(t)] = content]
    /\ Goto(t, step)
    /\ UNCHANGED <<Outside, used, next, mapping, observed>>

OpenTmp(t) == pc[t] = "open" /\ Put(t, Torn, "write") /\ UNCHANGED taken

(* What is written into a file that has been deleted goes with it.          *)
WriteTmp(t) ==
    /\ pc[t] = "write"
    /\ Put(t, IF file[Tmp(t)] = None THEN None ELSE mapping[t], "replace")
    /\ UNCHANGED taken

(* os.replace ...                                                           *)
Replace(t) ==
    /\ pc[t] = "replace"
    /\ file[Tmp(t)] # None
    /\ file' = [file EXCEPT ![Snapshot] = file[Tmp(t)], ![Tmp(t)] = None]
    /\ Goto(t, "read")
    /\ UNCHANGED <<Outside, used, next, mapping, observed, taken>>

(* ... which raises without the temporary file: the attempt is over, and    *)
(* the next one starts again.                                               *)
ReplaceRaises(t) ==
    /\ pc[t] = "replace"
    /\ file[Tmp(t)] = None
    /\ mapping' = [mapping EXCEPT ![t] = Unmapped]
    /\ taken' = taken \ {t}
    /\ Goto(t, "sleep")
    /\ UNCHANGED <<Outside, used, file, next, observed>>

ReadLines(t, lines) ==
    /\ pc[t] = "read"
    /\ observed' = [observed EXCEPT ![t] =
          {[line |-> l, host |-> mapping[t][l.first]] : l \in lines}]
    /\ Goto(t, "apply")
    /\ UNCHANGED <<Outside, used, file, next, mapping, taken>>

Named(t) == {l \in log : mapping[t][l.first] # None}

(* Mutant: of several header times the last one is taken.                   *)
ReadLastTime(t) == ReadLines(t, {l \in Named(t) : l.by # None})

(* parse_window_observations: the first address names the backend; a line   *)
(* without a time, or with one per attempt, is not a number and is skipped. *)
Read(t) == ReadLines(t, {l \in Named(t) : l.only})

(* fill_sparse_observations asks the unobserved hosts by name, and raises   *)
(* if one does not answer; else the weights may have changed, and then      *)
(* NGINX is reloaded, which succeeds if all names resolve.                  *)
Apply(t, changed) ==
    /\ pc[t] = "apply"
    /\ used' = IF /\ changed
                  /\ Hosts = {h \in Hosts : addr[h] # None}
               THEN addr ELSE used
    /\ changed => \A h \in Hosts : addr[h] # None \/
                    \E o \in observed[t] : o.host = h
    /\ observed' = [observed EXCEPT ![t] = {}]
    /\ mapping' = [mapping EXCEPT ![t] = Unmapped]
    /\ Goto(t, "sleep")
    /\ UNCHANGED <<Outside, file, next, taken>>

-----------------------------------------------------------------------------
(* run_experiment.py purge deletes what it finds in the log directory, file *)
(* by file: the access logs, the snapshot, and a temporary file between its *)
(* open and its rename.                                                     *)

Purge(f) ==
    /\ file[f] # None
    /\ file' = [file EXCEPT ![f] = None]
    /\ taken' = taken \cup
          {t \in Threads : Tmp(t) = f /\ pc[t] \in {"write", "replace"}}
    /\ UNCHANGED <<Outside, used, pc, next, mapping, observed>>

PurgeLogs ==
    /\ log # {}
    /\ log' = {}
    /\ UNCHANGED <<addr, moves, owners, used, file, pc, next, mapping, observed,
                   taken>>

Window(t) ==
    \/ Wake(t) \/ Resolve(t) \/ OpenTmp(t) \/ WriteTmp(t)
    \/ Replace(t) \/ ReplaceRaises(t)
    \/ Read(t) \/ (\E changed \in BOOLEAN : Apply(t, changed))

Next ==
    \/ \E h \in Hosts, x \in Addresses \cup {None} : Move(h, x)
    \/ \E h, k \in Hosts : Serve(h, k)
    \/ \E t \in Threads : Window(t)
    \/ \E f \in Threads \cup {Snapshot} : Purge(f)
    \/ PurgeLogs

Spec == Init /\ [][Next]_vars

-----------------------------------------------------------------------------
TypeOK ==
    /\ addr \in [Hosts -> Addresses \cup {None}]
    /\ moves \in 0..MaxMoves
    /\ owners \in [Addresses -> SUBSET Hosts]
    /\ used \in [Hosts -> Addresses]
    /\ log \subseteq Line
    /\ file \in [Threads \cup {Snapshot} -> Maps \cup {None, Torn}]
    /\ pc \in [Threads -> Steps]
    /\ next \in [Threads -> Hosts]
    /\ mapping \in [Threads -> Maps]
    /\ observed \in [Threads -> SUBSET [line : Line, host : Hosts]]
    /\ taken \subseteq Threads

(* The file a thread renames is the one it wrote, whole, whatever the other *)
(* threads do: none can "steal each other's tmp file".  Only a purge can    *)
(* take it, and then there is none.                                         *)
OwnTmpFile ==
    \A t \in Threads : pc[t] = "replace" =>
        file[Tmp(t)] = IF t \in taken THEN None ELSE mapping[t]

(* The analysis, whenever it looks, finds no snapshot or a whole one.       *)
SnapshotWhole == file[Snapshot] # Torn

(* A time is put down to the backend that took it, by a window and by the   *)
(* analysis with the snapshot it finds, however names, addresses and        *)
(* NGINX's own resolution have moved apart, unless the address has been two *)
(* backends'.                                                               *)
Right(l, h) == h = l.by \/ Cardinality(owners[l.first]) > 1
AttributedRight ==
    /\ \A t \in Threads : \A o \in observed[t] : Right(o.line, o.host)
    /\ \A l \in log :
          l.only /\ file[Snapshot] \in Maps /\ file[Snapshot][l.first] # None =>
              Right(l, file[Snapshot][l.first])

(* AGENT.md: the dynamic paths are "reloaded every sampling window, so DNS  *)
(* stays fresh as a side effect".                                           *)
Fresh ==
    \A t \in Threads :
        (pc[t] = "apply" /\ pc'[t] = "sleep") =>
            used' = addr \/ \E h \in Hosts : addr[h] = None
WindowsKeepDnsFresh == [][Fresh]_vars
=============================================================================
