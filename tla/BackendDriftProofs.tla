------------------------- MODULE BackendDriftProofs -------------------------
(***************************************************************************)
(* What holds of BackendDrift for any request threads, offsets, dwells and  *)
(* bound.  Since is recursive: that it has a value, and one value only, is  *)
(* proved along with the log, a row at a time.  Appends may fail and purges *)
(* delete the log throughout.                                               *)
(***************************************************************************)
EXTENDS BackendDrift, WellFoundedInduction, TLAPS

LEMMA Rows ==
  /\ <<>> \in Seq(Row)
  /\ \A row \in Row : <<row>> \in Seq(Row)
  /\ \A rows \in Seq(Row), row \in Row : Append(rows, row) \in Seq(Row)
OBVIOUS

LEMMA InitType == Init => TypeOK
<1> SUFFICES ASSUME Init PROVE TypeOK
  OBVIOUS
<1>1. [offset |-> offset, dwell |-> dwell] \in Row
  BY DEF Init, Row
<1>2. log \in Seq(Row) /\ whole \in BOOLEAN
  BY <1>1, Rows DEF Init
<1>3. QED
  BY <1>2, DriftAssumption DEF Init, TypeOK, Steps

LEMMA NextType == TypeOK /\ [Next]_vars => TypeOK'
<1> SUFFICES ASSUME TypeOK, [Next]_vars PROVE TypeOK'
  OBVIOUS
<1> USE DriftAssumption, DwellAssumption
    DEF TypeOK, Steps, Goto, drift, file
<1>1. ASSUME NEW t \in Threads, Request(t) \/ Reply(t) PROVE TypeOK'
  BY <1>1 DEF Request, Reply
<1>2. ASSUME NEW t \in Threads, Acquire(t) PROVE TypeOK'
  BY <1>2 DEF Acquire, AcquireIf
<1>3. ASSUME NEW t \in Threads, Advance(t) PROVE TypeOK'
  <2>1. started' \in Nat
    BY <1>3 DEF Advance
  <2>2. QED
    BY <1>3, <2>1 DEF Advance
<1>4. ASSUME NEW t \in Threads, Redraw(t) PROVE TypeOK'
  <2>1. [offset |-> offset', dwell |-> dwell'] \in Row
    BY <1>4 DEF Redraw, Draw, Row
  <2>2. log' \in Seq(Row)
    <3>1. PICK row \in Row : log' = Append(log, row) \/ log' = log
      BY <1>4, <2>1 DEF Redraw, Draw
    <3>2. QED
      BY <3>1, Rows
  <2>3. whole' \in BOOLEAN
    BY <1>4 DEF Redraw, Draw
  <2>4. QED
    BY <1>4, <2>2, <2>3 DEF Redraw, Draw
<1>5. ASSUME NEW t \in Threads, Return(t) PROVE TypeOK'
  BY <1>5 DEF Return, ReturnLeaving
<1>6. CASE Tick
  <2>1. clock' \in 0..MaxTime
    BY <1>6 DEF Tick
  <2>2. QED
    BY <1>6, <2>1 DEF Tick
<1>7. CASE Purge
  BY <1>7, Rows DEF Purge
<1>8. CASE BoundReached \/ UNCHANGED vars
  BY <1>8 DEF BoundReached, vars
<1>9. QED
  BY <1>1, <1>2, <1>3, <1>4, <1>5, <1>6, <1>7, <1>8 DEF Next, Step

(* The types hold in every reachable state.                                 *)
THEOREM TypeCorrect == Spec => []TypeOK
<1>1. QED
  BY InitType, NextType, PTL DEF Spec

-----------------------------------------------------------------------------
(* The lock's holder is the one thread in the walk, and the walk never      *)
(* passes the time the holder has read, nor that time the clock.            *)
LockHeld ==
    /\ \A t \in Threads : pc[t] \in {"walk", "redraw"} => holder = t
    /\ \A t \in Threads : holder = t => started <= now[t] /\ now[t] <= clock
    /\ started <= clock

LEMMA InitLockHeld == Init => LockHeld
BY DriftAssumption DEF Init, LockHeld

LEMMA NextLockHeld == TypeOK /\ LockHeld /\ [Next]_vars => LockHeld'
<1> SUFFICES ASSUME TypeOK, LockHeld, [Next]_vars PROVE LockHeld'
  OBVIOUS
<1> USE DriftAssumption, DwellAssumption
    DEF TypeOK, LockHeld, Steps, Goto, drift, file
<1>1. ASSUME NEW t \in Threads, Request(t) \/ Reply(t) PROVE LockHeld'
  BY <1>1 DEF Request, Reply
<1>2. ASSUME NEW t \in Threads, Acquire(t) PROVE LockHeld'
  BY <1>2 DEF Acquire, AcquireIf
<1>3. ASSUME NEW t \in Threads, Advance(t) PROVE LockHeld'
  BY <1>3 DEF Advance
<1>4. ASSUME NEW t \in Threads, Redraw(t) PROVE LockHeld'
  BY <1>4 DEF Redraw
<1>5. ASSUME NEW t \in Threads, Return(t) PROVE LockHeld'
  BY <1>5 DEF Return, ReturnLeaving
<1>6. CASE Tick
  BY <1>6 DEF Tick
<1>7. CASE Purge
  BY <1>7 DEF Purge
<1>8. CASE BoundReached \/ UNCHANGED vars
  BY <1>8 DEF BoundReached, vars
<1>9. QED
  BY <1>1, <1>2, <1>3, <1>4, <1>5, <1>6, <1>7, <1>8 DEF Next, Step

(* A call returns the offset whose dwell the call's own time falls in, and  *)
(* nothing but the thread that walks changes offset, start or dwell.        *)
InForce ==
    /\ \A t \in Threads : Return(t) =>
          offset_ms'[t] = offset /\ now[t] \in started..(started + dwell - 1)
    /\ drift' # drift => \E t \in Threads : holder = t /\ holder' = t

LEMMA StepInForce == TypeOK /\ LockHeld /\ [Next]_vars => [InForce]_vars
<1> SUFFICES ASSUME TypeOK, LockHeld, Next PROVE InForce
  BY DEF vars
<1>1. ASSUME NEW t \in Threads, Return(t)
      PROVE  offset_ms'[t] = offset /\ now[t] \in started..(started + dwell - 1)
  <2>1. holder = t /\ started <= now[t] /\ now[t] < started + dwell
    BY <1>1, DwellAssumption, DriftAssumption
       DEF LockHeld, TypeOK, Return, ReturnLeaving
  <2>2. QED
    BY <1>1, <2>1, DwellAssumption, DriftAssumption
       DEF TypeOK, Return, ReturnLeaving
<1>2. ASSUME drift' # drift PROVE \E t \in Threads : holder = t /\ holder' = t
  <2>1. PICK t \in Threads : Advance(t) \/ Redraw(t)
    BY <1>2 DEF Next, Step, Request, Acquire, AcquireIf, Return, ReturnLeaving,
                Reply, Purge, Tick, BoundReached, drift, vars
  <2>2. QED
    BY <2>1 DEF Advance, Redraw, LockHeld
<1>3. QED
  BY <1>1, <1>2 DEF InForce

(* However many requests come at once and however long none came, an answer *)
(* is the offset in force at its request's time, from a walk that no other  *)
(* thread has disturbed.                                                    *)
THEOREM AnswersInForce == Spec => [][InForce]_vars
<1>1. Spec => []LockHeld
  BY TypeCorrect, InitLockHeld, NextLockHeld, PTL DEF Spec
<1>2. QED
  BY <1>1, TypeCorrect, StepInForce, PTL DEF Spec

-----------------------------------------------------------------------------
(* The equation that defines Since, and what it says of a log.              *)
IsSince(f, rows) ==
    f = [i \in DOMAIN rows |-> IF i = 1 THEN 0 ELSE f[i - 1] + rows[i - 1].dwell]

Dated(rows) ==
    /\ IsSince(Since(rows), rows)
    /\ Since(rows) \in [DOMAIN rows -> Nat]

LEMMA SinceChosen ==
  ASSUME NEW rows, NEW f, IsSince(f, rows) PROVE IsSince(Since(rows), rows)
BY DEF IsSince, Since

LEMMA LeastNat ==
  ASSUME NEW S, S \subseteq Nat, S # {}
  PROVE  \E n \in S : \A m \in S : n <= m
<1>1. PICK n \in S : \A m \in S : ~(<<m, n>> \in OpToRel(<, Nat))
  BY NatLessThanWellFounded, WFMin
<1>2. \A m \in S : ~(m < n)
  BY <1>1 DEF OpToRel
<1>3. QED
  BY <1>2

(* What a log with all its rows says so far: its last row is the state in   *)
(* force, or the one a walk has just left, and the answers under way have   *)
(* their row.                                                               *)
Timeline ==
    whole =>
        /\ Len(log) > 0
        /\ Dated(log)
        /\ TimelineKept
        /\ \A t \in Threads : pc[t] = "redraw" =>
              started = Since(log)[Len(log)] + log[Len(log)].dwell
        /\ TimelineExplains

LEMMA InitTimeline == Init => Timeline
<1> SUFFICES ASSUME Init, whole PROVE Timeline
  BY DEF Timeline
<1>1. Len(log) = 1 /\ DOMAIN log = {1}
  BY DEF Init
<1>2. IsSince([i \in {1} |-> 0], log)
  BY <1>1 DEF IsSince
<1>3. IsSince(Since(log), log)
  BY <1>2, SinceChosen
<1>4. Since(log) = [i \in {1} |-> 0]
  BY <1>1, <1>3 DEF IsSince
<1>5. QED
  BY <1>1, <1>3, <1>4 DEF Init, Dated, Timeline, TimelineKept, TimelineExplains

(* Another row leaves the times of the rows before it as they were.         *)
LEMMA SinceAppend ==
  ASSUME NEW rows \in Seq(Row), Len(rows) > 0, Dated(rows), NEW row \in Row,
         NEW more, more = Append(rows, row)
  PROVE  /\ Dated(more)
         /\ \A i \in DOMAIN rows : Since(more)[i] = Since(rows)[i]
         /\ Since(more)[Len(rows) + 1] =
              Since(rows)[Len(rows)] + rows[Len(rows)].dwell
<1> DEFINE n == Len(rows)
           old == Since(rows)
           new == Since(more)
           last == old[n] + rows[n].dwell
           g == [i \in 1..(n + 1) |-> IF i <= n THEN old[i] ELSE last]
<1>1. n \in Nat \ {0} /\ DOMAIN rows = 1..n /\ DOMAIN more = 1..(n + 1)
  OBVIOUS
<1>2. \A i \in 1..n : more[i] = rows[i] /\ rows[i].dwell \in Nat
  <2>1. ASSUME NEW i \in 1..n PROVE rows[i] \in Row /\ more[i] = rows[i]
    BY <1>1
  <2>2. QED
    BY <2>1, DwellAssumption DEF Row
<1>3. old \in [1..n -> Nat] /\ last \in Nat
  BY <1>1, <1>2 DEF Dated
<1>4. \A i \in 1..n : old[i] = IF i = 1 THEN 0 ELSE old[i - 1] + rows[i - 1].dwell
  BY <1>1 DEF Dated, IsSince
<1> HIDE DEF n, old, new
<1>5. g = [i \in 1..(n + 1) |-> IF i = 1 THEN 0 ELSE g[i - 1] + more[i - 1].dwell]
  <2>1. ASSUME NEW i \in 1..(n + 1)
        PROVE  g[i] = IF i = 1 THEN 0 ELSE g[i - 1] + more[i - 1].dwell
    <3>1. i # 1 => i - 1 \in 1..n /\ g[i - 1] = old[i - 1]
      BY <1>1, <2>1
    <3>2. CASE i = n + 1
      BY <1>1, <1>2, <3>1, <3>2
    <3>3. CASE i \in 1..n
      BY <1>1, <1>2, <1>4, <3>1, <3>3
    <3>4. QED
      BY <1>1, <3>2, <3>3
  <2> HIDE DEF g
  <2>2. g = [i \in 1..(n + 1) |-> g[i]]
    BY DEF g
  <2>3. QED
    BY <2>1, <2>2
<1>6. IsSince(new, more)
  <2>1. IsSince(g, more)
    BY <1>1, <1>5 DEF IsSince
  <2>2. QED
    BY <2>1, SinceChosen DEF new
<1>7. \A i \in 1..(n + 1) :
         new[i] = IF i = 1 THEN 0 ELSE new[i - 1] + more[i - 1].dwell
  BY <1>1, <1>6 DEF IsSince
<1>8. \A i \in 1..n : new[i] = old[i]
  <2> DEFINE Moved == {j \in 1..n : new[j] # old[j]}
  <2>1. SUFFICES ASSUME Moved # {} PROVE FALSE
    OBVIOUS
  <2>2. PICK i \in Moved : \A j \in Moved : i <= j
    <3>1. Moved \subseteq Nat
      BY <1>1
    <3>2. QED
      BY <2>1, <3>1, LeastNat
  <2>3. CASE i = 1
    BY <1>1, <1>4, <1>7, <2>2, <2>3
  <2>4. CASE i # 1
    <3>1. i - 1 \in 1..n /\ i \in 1..(n + 1)
      BY <1>1, <2>2, <2>4
    <3>2. new[i - 1] = old[i - 1]
      BY <2>2, <3>1
    <3>3. new[i] = new[i - 1] + more[i - 1].dwell
      BY <1>7, <2>4, <3>1
    <3>4. old[i] = old[i - 1] + rows[i - 1].dwell
      BY <1>4, <2>2, <2>4
    <3>5. QED
      BY <1>2, <2>2, <3>1, <3>2, <3>3, <3>4
  <2>5. QED
    BY <2>3, <2>4
<1>9. new[n + 1] = last
  BY <1>1, <1>2, <1>7, <1>8
<1>10. new \in [1..(n + 1) -> Nat]
  <2>1. new = [i \in 1..(n + 1) |-> new[i]]
    BY <1>1, <1>6 DEF IsSince
  <2>2. \A i \in 1..(n + 1) : new[i] \in Nat
    BY <1>1, <1>3, <1>8, <1>9
  <2>3. QED
    BY <2>1, <2>2
<1>11. QED
  BY <1>1, <1>6, <1>8, <1>9, <1>10 DEF Dated, n, old, new

LEMMA NextTimeline ==
  TypeOK /\ LockHeld /\ Timeline /\ [Next]_vars => Timeline'
<1> SUFFICES ASSUME TypeOK, LockHeld, Timeline, [Next]_vars, whole'
             PROVE  Timeline'
  BY DEF Timeline
<1>1. whole
  BY DEF Next, Step, Request, Acquire, AcquireIf, Advance, Redraw, Draw, Return,
         ReturnLeaving, Reply, Purge, Tick, BoundReached, file, vars, TypeOK
<1> USE <1>1 DEF file
<1>2. ASSUME NEW t \in Threads, Request(t) \/ Reply(t) PROVE Timeline'
  <2>1. /\ UNCHANGED <<offset, started, dwell, log, now, offset_ms>>
        /\ \A u \in Threads : pc'[u] = pc[u] \/ pc'[u] \in {"lock", "idle"}
        /\ \A u \in Threads : pc[u] = "redraw" => pc'[u] = "redraw"
    BY <1>2 DEF Request, Reply, Goto, drift, TypeOK
  <2>2. QED
    BY <2>1 DEF Timeline, TimelineKept, TimelineExplains
<1>3. ASSUME NEW t \in Threads, Acquire(t) PROVE Timeline'
  <2>1. /\ UNCHANGED <<offset, started, dwell, log, offset_ms>>
        /\ \A u \in Threads : (pc'[u] = "redraw") = (pc[u] = "redraw")
        /\ \A u \in Threads :
              pc'[u] = "reply" => pc[u] = "reply" /\ now'[u] = now[u]
    BY <1>3 DEF Acquire, AcquireIf, Goto, drift, TypeOK
  <2>2. TimelineKept'
    BY <2>1 DEF Timeline, TimelineKept
  <2>3. TimelineExplains'
    BY <2>1 DEF Timeline, TimelineExplains
  <2>4. QED
    BY <2>1, <2>2, <2>3 DEF Timeline
<1>4. ASSUME NEW t \in Threads, Advance(t) PROVE Timeline'
  <2>1. \A u \in Threads : pc[u] # "redraw"
    BY <1>4 DEF Advance, LockHeld
  <2>2. /\ log[Len(log)].dwell = dwell /\ started = Since(log)[Len(log)]
    BY <2>1 DEF Timeline, TimelineKept
  <2>3. /\ UNCHANGED <<offset, dwell, log, now, offset_ms>>
        /\ started' = started + dwell
        /\ pc' = [pc EXCEPT ![t] = "redraw"]
    BY <1>4 DEF Advance, Goto
  <2>4. TimelineKept'
    BY <2>3 DEF TimelineKept, TypeOK
  <2>5. \A u \in Threads : pc'[u] = "reply" => pc[u] = "reply"
    BY <2>3 DEF TypeOK
  <2>6. TimelineExplains'
    BY <2>3, <2>5 DEF Timeline, TimelineExplains
  <2>7. started' = Since(log')[Len(log')] + log'[Len(log')].dwell
    BY <2>2, <2>3
  <2>8. Len(log') > 0 /\ Dated(log')
    BY <2>3 DEF Timeline
  <2>9. QED
    BY <2>4, <2>6, <2>7, <2>8 DEF Timeline
<1>5. ASSUME NEW t \in Threads, Redraw(t) PROVE Timeline'
  <2> DEFINE n == Len(log)
             row == [offset |-> offset', dwell |-> dwell']
  <2>1. row \in Row /\ log' = Append(log, row)
    BY <1>5 DEF Redraw, Draw, Row
  <2>2. /\ Dated(log')
        /\ \A i \in DOMAIN log : Since(log')[i] = Since(log)[i]
        /\ Since(log')[n + 1] = Since(log)[n] + log[n].dwell
    BY <2>1, SinceAppend DEF Timeline, TypeOK
  <2>3. /\ Len(log') = n + 1 /\ log'[n + 1] = row /\ n + 1 > 0
        /\ DOMAIN log \subseteq DOMAIN log'
        /\ \A i \in DOMAIN log : log'[i] = log[i]
    BY <2>1 DEF TypeOK, Timeline
  <2>4. started' = Since(log)[n] + log[n].dwell
    BY <1>5 DEF Redraw, Timeline
  <2>5. TimelineKept'
    BY <2>2, <2>3, <2>4 DEF TimelineKept
  <2>6. \A u \in Threads : pc'[u] # "redraw"
    BY <1>5 DEF Redraw, Goto, TypeOK, LockHeld
  <2>7. TimelineExplains'
    BY <1>5, <2>2, <2>3 DEF Redraw, Goto, TypeOK, Timeline, TimelineExplains
  <2>8. QED
    BY <2>2, <2>3, <2>5, <2>6, <2>7 DEF Timeline
<1>6. ASSUME NEW t \in Threads, Return(t) PROVE Timeline'
  <2>1. \A u \in Threads : pc[u] # "redraw"
    BY <1>6 DEF Return, ReturnLeaving, LockHeld
  <2>2. /\ log[Len(log)] = [offset |-> offset, dwell |-> dwell]
        /\ started = Since(log)[Len(log)] /\ Len(log) \in DOMAIN log
    BY <2>1 DEF Timeline, TimelineKept, TypeOK
  <2>3. now[t] \in started..(started + dwell - 1)
    BY <1>6, DwellAssumption DEF LockHeld, TypeOK, Return, ReturnLeaving
  <2>4. TimelineExplains'
    <3>1. /\ UNCHANGED <<log, now>>
          /\ offset_ms' = [offset_ms EXCEPT ![t] = offset]
          /\ pc' = [pc EXCEPT ![t] = "reply"]
      BY <1>6 DEF Return, ReturnLeaving, Goto, drift
    <3>2. QED
      BY <2>2, <2>3, <3>1 DEF TypeOK, Timeline, TimelineExplains
  <2>5. TimelineKept'
    BY <1>6, <2>2 DEF Return, ReturnLeaving, drift, TimelineKept
  <2>6. QED
    BY <1>6, <2>1, <2>4, <2>5 DEF Return, ReturnLeaving, Goto, drift,
                                        TypeOK, Timeline
<1>7. CASE Purge \/ Tick \/ BoundReached \/ UNCHANGED vars
  <2>1. ~Purge
    BY DEF Purge
  <2>2. QED
    BY <1>7, <2>1 DEF Tick, BoundReached, vars, drift, Timeline, TimelineKept,
                      TimelineExplains
<1>8. QED
  BY <1>2, <1>3, <1>4, <1>5, <1>6, <1>7 DEF Next, Step

LEMMA TimelineHolds == Spec => []Timeline
<1>1. Spec => []LockHeld
  BY TypeCorrect, InitLockHeld, NextLockHeld, PTL DEF Spec
<1>2. QED
  BY <1>1, TypeCorrect, InitTimeline, NextTimeline, PTL DEF Spec

(* Whatever requests come and whenever, the rows of a log that has lost     *)
(* none give the offset in force and, by the dwells that went before, since *)
(* when.                                                                    *)
THEOREM LogKeepsTimeline == Spec => []TimelineKept
<1>1. Timeline => TimelineKept
  BY DEF Timeline, TimelineKept
<1>2. QED
  BY <1>1, TimelineHolds, PTL

(* Every answer is the offset of a row of such a log whose dwell covers the *)
(* time the request saw.                                                    *)
THEOREM LogExplainsAnswers == Spec => []TimelineExplains
<1>1. Timeline => TimelineExplains
  BY DEF Timeline, TimelineExplains
<1>2. QED
  BY <1>1, TimelineHolds, PTL
=============================================================================
