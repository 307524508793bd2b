---------------------------- MODULE BackendDrift ----------------------------
(***************************************************************************)
(* One backend's latency offset (backend/server.py): it is drawn anew after *)
(* every dwell, but only a request makes it so.  ThreadingHTTPServer gives   *)
(* each request a thread; the first to hold the lock walks through all the  *)
(* dwells that have passed, and every realized offset is a row of the       *)
(* ground-truth log, which is configured here (DEGRADATION_LOG_PATH).       *)
(***************************************************************************)
EXTENDS Integers, Sequences

CONSTANTS Threads,   \* request threads
          Free,      \* the holder of a free lock
          Offsets,   \* what _draw_offset_ms returns
          Dwells,    \* what _draw_dwell_seconds returns, in the clock's unit
          Faults,    \* which of the faults below can happen
          MaxTime    \* bound: the clock

(* append: the append of a row may fail, and the OSError is passed over;    *)
(* purge:  run_experiment.py purge deletes the log with the others.         *)
AllFaults == {"append", "purge"}
ASSUME FaultsAssumption == Faults \subseteq AllFaults

(* DEGRADATION_MEAN_DWELL_SECONDS > 0: with a dwell of zero the while loop  *)
(* does not end.                                                            *)
ASSUME DwellAssumption == Dwells \subseteq Nat \ {0}
ASSUME DriftAssumption == MaxTime \in Nat /\ Free \notin Threads

VARIABLES
    clock,    \* time.monotonic() - START_TIME
    holder,   \* who holds _degradation_lock
    offset,   \* _current_offset_ms
    started,  \* _offset_started_at - START_TIME
    dwell,    \* _offset_dwell_seconds
    log,      \* the rows of DEGRADATION_LOG_PATH
    pc,       \* pc[t]: the next step of t's request, "idle" between two
    now,      \* now[t]: the time t's call goes by
    offset_ms, \* offset_ms[t]: what the call returned
    whole     \* history: the log has every row that has been drawn

drift == <<offset, started, dwell>>
file  == <<log, whole>>
vars  == <<clock, holder, offset, started, dwell, log, pc, now, offset_ms,
           whole>>

Steps == {"idle", "lock", "walk", "redraw", "reply"}
Row == [offset : Offsets, dwell : Dwells]

Init ==
    /\ clock = 0
    /\ holder = Free
    /\ offset \in Offsets
    /\ dwell \in Dwells
    /\ started = 0
    /\ \/ whole = TRUE /\ log = <<[offset |-> offset, dwell |-> dwell]>>
       \/ "append" \in Faults /\ whole = FALSE /\ log = <<>>
    /\ pc = [t \in Threads |-> "idle"]
    /\ now = [t \in Threads |-> 0]
    /\ offset_ms = [t \in Threads |-> offset]

Goto(t, next) == pc' = [pc EXCEPT ![t] = next]

(* do_GET, for either path that asks for the offset.                        *)
Request(t) ==
    /\ pc[t] = "idle"
    /\ Goto(t, "lock")
    /\ UNCHANGED <<clock, holder, drift, file, now, offset_ms>>

AcquireIf(t, can) ==
    /\ pc[t] = "lock" /\ can
    /\ holder' = t
    /\ now' = [now EXCEPT ![t] = clock]
    /\ Goto(t, "walk")
    /\ UNCHANGED <<clock, drift, file, offset_ms>>

(* Mutant: no lock.                                                         *)
AcquireUnlocked(t) == AcquireIf(t, TRUE)

(* with _degradation_lock: now = time.monotonic().                          *)
Acquire(t) == AcquireIf(t, holder = Free)

(* while now - _offset_started_at >= _offset_dwell_seconds: ... +=          *)
Advance(t) ==
    /\ pc[t] = "walk"
    /\ now[t] - started >= dwell
    /\ started' = started + dwell
    /\ Goto(t, "redraw")
    /\ UNCHANGED <<clock, holder, offset, dwell, file, now, offset_ms>>

Draw ==
    /\ offset' \in Offsets
    /\ dwell' \in Dwells
    /\ \/ log' = Append(log, [offset |-> offset', dwell |-> dwell'])
          /\ whole' = whole
       \/ "append" \in Faults /\ log' = log /\ whole' = FALSE

(* Mutant: `if` for `while`.                                                *)
RedrawOnce(t) ==
    /\ pc[t] = "redraw"
    /\ Draw
    /\ Goto(t, "reply")
    /\ holder' = Free
    /\ offset_ms' = [offset_ms EXCEPT ![t] = offset']
    /\ UNCHANGED <<clock, started, now>>

(* The new offset and dwell are drawn and logged, and the test repeated.    *)
Redraw(t) ==
    /\ pc[t] = "redraw"
    /\ Draw
    /\ Goto(t, "walk")
    /\ UNCHANGED <<clock, holder, started, now, offset_ms>>

ReturnLeaving(t, next) ==
    /\ pc[t] = "walk"
    /\ now[t] - started < dwell
    /\ holder' = next
    /\ offset_ms' = [offset_ms EXCEPT ![t] = offset]
    /\ Goto(t, "reply")
    /\ UNCHANGED <<clock, drift, file, now>>

(* Mutant: acquire() and release() without `with`, and a return between.    *)
ReturnHolding(t) == ReturnLeaving(t, t)

Return(t) == ReturnLeaving(t, Free)

(* The sleep of max(0, base + offset) and the response.                     *)
Reply(t) ==
    /\ pc[t] = "reply"
    /\ Goto(t, "idle")
    /\ UNCHANGED <<clock, holder, drift, file, now, offset_ms>>

(* run_experiment.py purge; the next append starts the file again.          *)
Purge ==
    /\ "purge" \in Faults
    /\ log # <<>>
    /\ log' = <<>>
    /\ whole' = FALSE
    /\ UNCHANGED <<clock, holder, drift, pc, now, offset_ms>>

Tick ==
    /\ clock < MaxTime
    /\ clock' = clock + 1
    /\ UNCHANGED <<holder, drift, file, pc, now, offset_ms>>

(* Time goes on, unseen, beyond the bound.                                  *)
BoundReached == clock = MaxTime /\ UNCHANGED vars

Step(t) ==
    \/ Acquire(t) \/ Advance(t) \/ Redraw(t) \/ Return(t) \/ Reply(t)

Next ==
    \/ \E t \in Threads : Request(t) \/ Step(t)
    \/ Purge \/ Tick \/ BoundReached

Spec == Init /\ [][Next]_vars

(* Request threads run; nothing obliges a request to come.                  *)
FairSpec == Spec /\ (\A t \in Threads : WF_vars(Step(t)))

-----------------------------------------------------------------------------
TypeOK ==
    /\ clock \in 0..MaxTime
    /\ holder \in Threads \cup {Free}
    /\ offset \in Offsets
    /\ started \in Nat
    /\ dwell \in Dwells
    /\ log \in Seq(Row)
    /\ pc \in [Threads -> Steps]
    /\ now \in [Threads -> 0..MaxTime]
    /\ offset_ms \in [Threads -> Offsets]
    /\ whole \in BOOLEAN

(* When each row of a log took effect, by the dwells of the rows before it. *)
Since(rows) ==
    LET since[i \in DOMAIN rows] ==
          IF i = 1 THEN 0 ELSE since[i - 1] + rows[i - 1].dwell
    IN  since

(* The log alone gives the drift's state, unless an append or a purge has   *)
(* lost a row: each offset starts when the last one's dwell ends, however   *)
(* late a request came to draw it and however many came at once             *)
(* ("reproducible via the logged realized timeline").                       *)
TimelineKept ==
    whole /\ (\A t \in Threads : pc[t] # "redraw") =>
        /\ log[Len(log)] = [offset |-> offset, dwell |-> dwell]
        /\ started = Since(log)[Len(log)]

(* What a request is answered with is what a log with all its rows says was *)
(* in force at the time the request saw, and not the offset some quiet      *)
(* period left behind.                                                      *)
TimelineExplains ==
    whole => \A t \in Threads : pc[t] = "reply" =>
        \E i \in DOMAIN log :
            /\ log[i].offset = offset_ms[t]
            /\ now[t] \in Since(log)[i]..(Since(log)[i] + log[i].dwell - 1)

(* The lock comes free again however many dwells a call has to walk.        *)
LockReleased == \A t \in Threads : (holder = t) ~> (holder # t)
=============================================================================
