------------------------------ MODULE Lifecycle ------------------------------
(***************************************************************************)
(* The container's boot and end (controller/entrypoint.py, with             *)
(* validate_backends, generate_config and the priming half of sampler):     *)
(* validate, write the placeholder confs, start NGINX, install the signal   *)
(* handlers, validate again, prime every algorithm, start the sampling      *)
(* loops, wait for NGINX to end.  Backends come and go, NGINX may die,      *)
(* signals arrive, the operator starts the container again and purges the   *)
(* log directory, state.json with it, at any step.                          *)
(* One apply_weights is one step here; ConfigWriter takes it apart.         *)
(***************************************************************************)
EXTENDS Naturals

CONSTANTS N,            \* hosts 1..N, the lines of upstream-hosts.txt
          Algos,        \* the dynamic algorithms
          Vectors,      \* the weights an algorithm can compute
          Placeholder,  \* the equal weights generate_config writes
          NoWeights,    \* state["weights"] without a state.json
          Retries,      \* VALIDATE_RETRIES
          Faults        \* which of the faults below can happen

(* host:  a backend may stop, be removed from the network, or come back;    *)
(* nginx: the NGINX process may end by itself;                              *)
(* stop:  signals, the kill that follows one, and another start;            *)
(* purge: run_experiment.py purge, which asks for no more than that no      *)
(*        traffic run be seen.                                              *)
AllFaults == {"host", "nginx", "stop", "purge"}

ASSUME FaultsAssumption == Faults \subseteq AllFaults
ASSUME SizeAssumption == N \in Nat \ {0} /\ Retries \in Nat \ {0}
ASSUME SentinelAssumption == {Placeholder, NoWeights} \cap Vectors = {}

VARIABLES
    \* the environment
    host,     \* host[h]: "serving", "up" (answers a ping only) or "gone"
    nginx,    \* "down" or "running"
    running,  \* running[a]: the weights NGINX routes a's path with
    \* files: conf is written again at every boot, state.json is kept
    conf, state,
    \* the controller
    pc,       \* the next step of main
    at,       \* the host validate has come to, N + 1 at its end
    tries,    \* the pings of that host that have failed
    bad,      \* `unreachable`
    seen,     \* the hosts `observations` has an entry for
    todo,     \* the algorithms run_priming has still to update
    armed,    \* the signal handlers are installed
    \* history, for the properties
    answered, \* the hosts that have answered a ping since this start
    carried,  \* state at this start
    trouble   \* since this start something outside went wrong

files  == <<conf, state>>
ghosts == <<answered, carried, trouble>>
vars   == <<host, nginx, running, conf, state, pc, at, tries, bad, seen, todo,
            armed, answered, carried, trouble>>

Hosts == 1..N
Checks == {"validate", "revalidate"}
Steps == Checks \cup {"off", "configure", "start", "poll", "arm", "probe",
                      "prime", "wait", "exited"}
Alive == pc \notin {"off", "exited"}
AllResolve == \A h \in Hosts : host[h] # "gone"

Init ==
    /\ host = [h \in Hosts |-> "serving"]
    /\ nginx = "down"
    /\ running = [a \in Algos |-> Placeholder]
    /\ conf = running
    /\ state = [a \in Algos |-> NoWeights]
    /\ pc = "off"
    /\ at = 1 /\ tries = 0 /\ bad = {}
    /\ seen = {} /\ todo = {}
    /\ armed = FALSE
    /\ answered = {}
    /\ carried = state
    /\ trouble = FALSE

(* docker compose up, or a restart: NGINX and the memory are new.           *)
Start ==
    /\ pc = "off" \/ (pc = "exited" /\ "stop" \in Faults)
    /\ pc' = "validate"
    /\ at' = 1 /\ tries' = 0 /\ bad' = {}
    /\ seen' = {} /\ todo' = {}
    /\ answered' = {}
    /\ carried' = state
    /\ trouble' = (\E h \in Hosts : host[h] # "serving")
    /\ UNCHANGED <<host, nginx, running, files, armed>>

(* PID 1 ends, and the kernel ends every process of the container.          *)
End ==
    /\ pc' = "exited"
    /\ nginx' = "down"
    /\ armed' = FALSE
    /\ at' = 1 /\ tries' = 0 /\ bad' = {}
    /\ seen' = {} /\ todo' = {}
    /\ UNCHANGED <<host, running, files, answered, carried>>

Exit == End /\ UNCHANGED trouble

-----------------------------------------------------------------------------
(* validate_backends.validate, at boot and again in sampler.main.           *)

(* An attempt with the outcome ok: the next host, another attempt, or after *)
(* the last one an entry in the list of the unreachable.                    *)
PingAt(ok) ==
    /\ pc \in Checks /\ at \in Hosts
    /\ IF ok
       THEN at' = at + 1 /\ tries' = 0 /\ bad' = bad
       ELSE IF tries + 1 < Retries
       THEN at' = at /\ tries' = tries + 1 /\ bad' = bad
       ELSE at' = at + 1 /\ tries' = 0 /\ bad' = bad \cup {at}
    /\ answered' = IF host[at] # "gone" THEN answered \cup {at} ELSE answered
    /\ UNCHANGED <<host, nginx, running, files, pc, seen, todo, armed,
                   carried, trouble>>

(* Mutant: `ok = False` stands before the loop over the hosts.              *)
PingOkKept == PingAt(host[at] # "gone" \/ answered # {})

(* ping_once: only that the host answers, not its port.                     *)
Ping == PingAt(host[at] # "gone")

(* `if unreachable: ... sys.exit(1)`, in both callers.                      *)
Refuse == pc \in Checks /\ at > N /\ bad # {} /\ Exit

Validated ==
    /\ pc \in Checks /\ at > N /\ bad = {}
    /\ pc' = IF pc = "validate" THEN "configure" ELSE "probe"
    /\ at' = 1
    /\ UNCHANGED <<host, nginx, running, files, tries, bad, seen, todo, armed,
                   ghosts>>

-----------------------------------------------------------------------------
(* entrypoint.main and sampler.main.                                        *)

Goto(next) ==
    /\ pc' = next
    /\ UNCHANGED <<host, at, tries, bad, seen, ghosts>>

(* generate_config.main: every algorithm starts on the placeholder.         *)
Configure ==
    /\ pc = "configure"
    /\ conf' = [a \in Algos |-> Placeholder]
    /\ Goto("start")
    /\ UNCHANGED <<nginx, running, state, todo, armed>>

(* start_nginx: Popen.  NGINX resolves every name as it loads the conf and  *)
(* does not start if one does not; if it starts it serves at once.          *)
StartNginx ==
    /\ pc = "start"
    /\ IF AllResolve
       THEN nginx' = "running" /\ running' = conf
       ELSE UNCHANGED <<nginx, running>>
    /\ Goto("poll")
    /\ UNCHANGED <<files, todo, armed>>

(* ... and poll after the grace second.                                     *)
NginxStarted ==
    /\ pc = "poll" /\ nginx = "running"
    /\ Goto("arm")
    /\ UNCHANGED <<nginx, running, files, todo, armed>>

NginxDidNotStart == pc = "poll" /\ nginx = "down" /\ Exit

(* signal.signal(SIGTERM, ..), signal.signal(SIGINT, ..).                   *)
Arm ==
    /\ pc = "arm"
    /\ armed' = TRUE
    /\ Goto("revalidate")
    /\ UNCHANGED <<nginx, running, files, todo>>

(* probe_all_backends: one direct_probe per host, over HTTP ...             *)
ProbeHost(h) ==
    /\ pc = "probe" /\ h \in Hosts \ seen
    /\ host[h] = "serving"
    /\ seen' = seen \cup {h}
    /\ pc' = IF seen' = Hosts THEN "prime" ELSE "probe"
    /\ todo' = Algos
    /\ UNCHANGED <<host, nginx, running, files, at, tries, bad, armed, ghosts>>

(* ... which nothing catches.                                               *)
ProbeRaises ==
    /\ pc = "probe" /\ (\E h \in Hosts \ seen : host[h] # "serving")
    /\ Exit

(* apply_weights for the weights w: when they differ from the saved ones    *)
(* the conf is written and NGINX reloaded.  It keeps what it has if it is   *)
(* gone or a name does not resolve, and that is only logged.                *)
Apply(a, w, changed) ==
    /\ conf' = IF changed THEN [conf EXCEPT ![a] = w] ELSE conf
    /\ running' = IF changed /\ nginx = "running" /\ AllResolve
                  THEN conf' ELSE running
    /\ state' = [state EXCEPT ![a] = w]

PrimeUnless(a, unchanged) ==
    /\ pc = "prime" /\ a \in todo
    /\ \E w \in Vectors : Apply(a, w, w \notin unchanged)
    /\ todo' = todo \ {a}
    /\ Goto(IF todo' = {} THEN "wait" ELSE "prime")
    /\ UNCHANGED <<nginx, armed>>

(* Mutant: the weights are compared after they have been put in `state`.    *)
PrimeComparesLate(a) == PrimeUnless(a, Vectors)

(* run_priming's loop; the last algorithm's is followed by                  *)
(* start_sampling_loops and the return to entrypoint's wait.                *)
Prime(a) == PrimeUnless(a, {state[a]})

(* A purge takes a temporary file of the priming (the snapshot's, or a      *)
(* state.json's) before it is renamed, and nothing catches what that        *)
(* raises.  A conf that has been written by then is written anew by the     *)
(* next boot before anything reads it.                                      *)
PrimeRaises ==
    /\ "purge" \in Faults
    /\ pc = "prime" \/ (pc = "probe" /\ seen = {})
    /\ End
    /\ trouble' = TRUE

(* A sampling window's apply_weights, while main waits.                     *)
Window(a) ==
    /\ pc = "wait"
    /\ \E w \in Vectors : Apply(a, w, w # state[a])
    /\ UNCHANGED <<host, nginx, pc, at, tries, bad, seen, todo, armed, ghosts>>

(* Mutants: main returns without waiting; it waits for good, as sampler's   *)
(* own __main__ does.                                                       *)
ReturnAtOnce == pc = "wait" /\ Exit
WaitForGood == FALSE

(* nginx_proc.wait() returns.                                               *)
WaitReturns == pc = "wait" /\ nginx = "down" /\ Exit

-----------------------------------------------------------------------------
(* The environment (external).                                              *)

HostChanges(h, s) ==
    /\ "host" \in Faults /\ host[h] # s
    /\ host' = [host EXCEPT ![h] = s]
    /\ trouble' = (trouble \/ s # "serving")
    /\ UNCHANGED <<nginx, running, files, pc, at, tries, bad, seen, todo,
                   armed, answered, carried>>

NginxEnds ==
    /\ nginx = "running"
    /\ nginx' = "down"
    /\ trouble' = TRUE
    /\ UNCHANGED <<host, running, files, pc, at, tries, bad, seen, todo, armed,
                   answered, carried>>

NginxDies == "nginx" \in Faults /\ NginxEnds

(* SIGTERM or SIGINT with the handlers installed: forward_signal, and       *)
(* NGINX ends.  main goes on with whatever it was doing.                    *)
ForwardSignal == "stop" \in Faults /\ armed /\ NginxEnds

(* SIGINT without the handlers (KeyboardInterrupt), or the kill that        *)
(* follows a SIGTERM: a PID 1 without a handler for it never gets that.     *)
Killed == "stop" \in Faults /\ Alive /\ End /\ trouble' = TRUE

(* run_experiment.py purge: a's state.json is deleted.                      *)
Purge(a) ==
    /\ "purge" \in Faults
    /\ state[a] # NoWeights
    /\ state' = [state EXCEPT ![a] = NoWeights]
    /\ UNCHANGED <<host, nginx, running, conf, pc, at, tries, bad, seen, todo,
                   armed, ghosts>>

Main ==
    \/ Ping \/ Refuse \/ Validated
    \/ Configure \/ StartNginx \/ NginxStarted \/ NginxDidNotStart \/ Arm
    \/ (\E h \in Hosts : ProbeHost(h)) \/ ProbeRaises
    \/ (\E a \in Algos : Prime(a))
    \/ WaitReturns

Environment ==
    \/ Start
    \/ \E h \in Hosts, s \in {"serving", "up", "gone"} : HostChanges(h, s)
    \/ NginxDies \/ ForwardSignal \/ Killed \/ PrimeRaises
    \/ \E a \in Algos : Purge(a)

Next == Main \/ (\E a \in Algos : Window(a)) \/ Environment

Spec == Init /\ [][Next]_vars

(* main runs: pings and probes have timeouts, subprocesses end.  Nothing is *)
(* assumed of the backends, the signals or the operator.                    *)
FairSpec == Spec /\ WF_vars(Main)

-----------------------------------------------------------------------------
TypeOK ==
    /\ host \in [Hosts -> {"serving", "up", "gone"}]
    /\ nginx \in {"down", "running"}
    /\ running \in [Algos -> Vectors \cup {Placeholder}]
    /\ conf \in [Algos -> Vectors \cup {Placeholder}]
    /\ state \in [Algos -> Vectors \cup {NoWeights}]
    /\ pc \in Steps
    /\ at \in 1..(N + 1)
    /\ tries \in 0..(Retries - 1)
    /\ bad \subseteq Hosts
    /\ seen \subseteq Hosts
    /\ todo \subseteq Algos
    /\ armed \in BOOLEAN
    /\ answered \subseteq Hosts
    /\ carried \in [Algos -> Vectors \cup {NoWeights}]
    /\ trouble \in BOOLEAN

(* NGINX only ever runs on a pool of which every host has answered since    *)
(* this start: the container exits "rather than starting half-broken".      *)
NotHalfStarted == nginx = "running" => answered = Hosts

(* The container ends only for a reason outside it: a backend that was not  *)
(* serving at some time since the start, NGINX's death, a signal, or a      *)
(* purge in the middle of priming; never because of what an earlier boot    *)
(* left, or of the order of its own steps.                                  *)
ExitsForCause == pc = "exited" => trouble

(* Once priming is over, the only algorithms whose conf is still the        *)
(* placeholder are those for which apply_weights computed what the          *)
(* container before had already saved, and still has, but for a purge.      *)
PrimedOnDisk ==
    pc = "wait" => \A a \in Algos :
        conf[a] = Placeholder =>
            carried[a] # NoWeights /\ state[a] \in {carried[a], NoWeights}

(* A signal the handlers forward, or NGINX's own death, ends the container  *)
(* whatever main is doing: "exiting with NGINX's exit code when it stops".  *)
EndsWithNginx == (armed /\ nginx = "down") ~> (pc = "exited")

=============================================================================
