-------------------------- MODULE TrafficRunProofs --------------------------
(***************************************************************************)
(* Run isolation, for any paths, ticks, workers and bounds, with every      *)
(* fault: signals, kills, exceptions and purges at any step, whatever the   *)
(* purge's check has seen.                                                  *)
(***************************************************************************)
EXTENDS TrafficRun, FiniteSetTheorems, TLAPS

Started == {"arm", "ticks", "asleep", "drain", "record", "analyze"}
Line == [inv : Nat, ts : Nat, answered : BOOLEAN]
Record == [index : Nat, inv : Nat, start : Nat, end : Nat, interrupted : BOOLEAN]

Types ==
    /\ clock \in Nat /\ inv \in Nat
    /\ index \in Nat /\ start \in Nat /\ end \in Nat
    /\ runs \in Seq(Record)
    /\ log \in [Paths -> Seq(Line)]
    /\ pc \in Steps
    /\ interrupted \in BOOLEAN /\ swept \in BOOLEAN
    /\ pool \in [Paths -> {"open", "closing", "closed"}]
    /\ queued \in [Paths -> Nat]
    /\ waiting \in [Paths -> Nat]
    /\ abandoned \in [Paths -> Nat]

-----------------------------------------------------------------------------
(* What a step appends.                                                     *)

LEMMA LogLineAdds ==
  ASSUME Types, NEW p \in Paths, NEW a \in BOOLEAN, LogLine(p, a)
  PROVE  /\ log' \in [Paths -> Seq(Line)]
         /\ \A q \in Paths : \A k \in DOMAIN log'[q] :
               \/ k \in DOMAIN log[q] /\ log'[q][k] = log[q][k]
               \/ log'[q][k] = [inv |-> inv, ts |-> clock, answered |-> a]
<1> DEFINE l == [inv |-> inv, ts |-> clock, answered |-> a]
<1>1. CASE unlinked
  BY <1>1 DEF LogLine, Types
<1>2. CASE ~unlinked
  <2>1. log' = [log EXCEPT ![p] = Append(log[p], l)] /\ l \in Line
    BY <1>2 DEF LogLine, Types, Line
  <2>2. log[p] \in Seq(Line)
    BY DEF Types
  <2>3. Append(log[p], l) \in Seq(Line)
    BY <2>1, <2>2
  <2>4. \A k \in DOMAIN Append(log[p], l) :
           \/ k \in DOMAIN log[p] /\ Append(log[p], l)[k] = log[p][k]
           \/ Append(log[p], l)[k] = l
    BY <2>2
  <2>5. \A q \in Paths : log'[q] = IF q = p THEN Append(log[p], l) ELSE log[q]
    BY <2>1 DEF Types
  <2>6. log' \in [Paths -> Seq(Line)]
    BY <2>1, <2>3 DEF Types
  <2>7. QED
    BY <2>4, <2>5, <2>6
<1>3. QED
  BY <1>1, <1>2

LEMMA WriteRecordAdds ==
  ASSUME Types, WriteRecord
  PROVE  LET r == [index |-> index, inv |-> inv, start |-> start, end |-> end,
                   interrupted |-> interrupted]
         IN  /\ runs' \in Seq(Record)
             /\ Len(runs') = Len(runs) + 1
             /\ \A i \in DOMAIN runs' :
                   \/ i \in DOMAIN runs /\ runs'[i] = runs[i]
                   \/ i = Len(runs) + 1 /\ runs'[i] = r
<1> DEFINE r == [index |-> index, inv |-> inv, start |-> start, end |-> end,
                 interrupted |-> interrupted]
<1>1. r \in Record /\ runs \in Seq(Record) /\ runs' = Append(runs, r)
  BY DEF Types, Record, WriteRecord
<1>2. QED
  BY <1>1

-----------------------------------------------------------------------------
LEMMA InitType == Init => Types
<1> SUFFICES ASSUME Init PROVE Types
  OBVIOUS
<1>1. <<>> \in Seq(Line) /\ runs \in Seq(Record)
  BY DEF Init
<1>2. QED
  BY <1>1 DEF Init, Types, All, Steps

LEMMA NextType == Types /\ [Next]_vars => Types'
<1> SUFFICES ASSUME Types, [Next]_vars PROVE Types'
  OBVIOUS
<1> USE DEF files, main, signals, threads, work, history, purge, others
<1>1. CASE Refuse \/ Arm \/ Sleep \/ Wake \/ Finish
          \/ TickRaises
  BY <1>1 DEF Refuse, Arm, Sleep, Wake, Finish,
     TickRaises, Types, Steps
<1>2. CASE NextRunIndex
  <2>1. index' \in Nat
    BY <1>2 DEF NextRunIndex, Types
  <2>2. QED
    BY <1>2, <2>1 DEF NextRunIndex, Types, Steps
<1>3. CASE Start
  BY <1>3 DEF Start, Types, Steps, All
<1>4. ASSUME NEW p \in Paths, Shutdown(p) \/ Join(p) PROVE Types'
  BY <1>4 DEF Shutdown, Join, Types
<1>5. CASE Stamp
  BY <1>5 DEF Stamp, Types, Steps
<1>6. CASE WriteRecord
  BY <1>6, WriteRecordAdds DEF WriteRecord, Types, Steps
<1>7. CASE EndProcess
  BY <1>7 DEF EndProcess, ProcessGone, Types, Steps, All
<1>8. CASE Kill
  <2>1. abandoned' \in [Paths -> Nat]
    BY <1>8 DEF Kill, Types
  <2>2. QED
    BY <1>8, <2>1 DEF Kill, ProcessGone, Types, Steps, All
<1>9. CASE Invoke
  <2>1. inv' \in Nat /\ clock' \in Nat
    BY <1>9 DEF Invoke, Types
  <2>2. QED
    BY <1>9, <2>1 DEF Invoke, Types, Steps
<1>10. CASE Signal \/ PurgeCheck \/ Reopen
  BY <1>10 DEF Signal, PurgeCheck, Reopen, Types
<1>11. ASSUME NEW p \in Paths, CheckStop(p) \/ SubmitRaises(p) PROVE Types'
  BY <1>11 DEF CheckStop, SubmitRaises, Types
<1>12. ASSUME NEW p \in Paths, Submit(p) PROVE Types'
  <2>1. queued' \in [Paths -> Nat]
    BY <1>12 DEF Submit, Types
  <2>2. QED
    BY <1>12, <2>1 DEF Submit, Types
<1>13. ASSUME NEW p \in Paths, Send(p) PROVE Types'
  <2>1. queued' \in [Paths -> Nat] /\ waiting' \in [Paths -> Nat]
    BY <1>13 DEF Send, Types
  <2>2. QED
    BY <1>13, <2>1 DEF Send, Types
<1>14. ASSUME NEW p \in Paths, Answer(p) PROVE Types'
  <2>1. waiting' \in [Paths -> Nat]
    BY <1>14 DEF Answer, Types
  <2>2. log' \in [Paths -> Seq(Line)]
    BY <1>14, LogLineAdds DEF Answer
  <2>3. QED
    BY <1>14, <2>1, <2>2 DEF Answer, Types
<1>15. ASSUME NEW p \in Paths, Timeout(p) PROVE Types'
  <2>1. waiting' \in [Paths -> Nat] /\ abandoned' \in [Paths -> Nat]
    BY <1>15 DEF Timeout, Types
  <2>2. QED
    BY <1>15, <2>1 DEF Timeout, Types
<1>16. ASSUME NEW p \in Paths, LogAbandoned(p) PROVE Types'
  <2>1. abandoned' \in [Paths -> Nat]
    BY <1>16 DEF LogAbandoned, Types
  <2>2. log' \in [Paths -> Seq(Line)]
    BY <1>16, LogLineAdds DEF LogAbandoned
  <2>3. QED
    BY <1>16, <2>1, <2>2 DEF LogAbandoned, Types
<1>17. CASE PurgeDelete
  <2>1. <<>> \in Seq(Line) /\ <<>> \in Seq(Record)
    OBVIOUS
  <2>2. swept' \in BOOLEAN
    BY <1>17 DEF PurgeDelete
  <2>3. QED
    BY <1>17, <2>1, <2>2 DEF PurgeDelete, Types, All
<1>18. CASE Time
  <2>1. clock' \in Nat
    BY <1>18 DEF Time, Types
  <2>2. QED
    BY <1>18, <2>1 DEF Time, Types
<1>19. CASE UNCHANGED vars
  BY <1>19 DEF vars, Types
<1>20. QED
  BY <1>1, <1>2, <1>3, <1>4, <1>5, <1>6, <1>7, <1>8, <1>9, <1>10, <1>11, <1>12,
     <1>13, <1>14, <1>15, <1>16, <1>17, <1>18, <1>19
     DEF Next, Main, Raises, Exit, Unwind, BaselineRaises, RecordRaises, Traffic

(* The types hold in every reachable state.                                 *)
THEOREM TypeCorrect == Spec => []Types
<1>1. QED
  BY InitType, NextType, PTL DEF Spec

-----------------------------------------------------------------------------
(* A run's requests are its own: there are none before its threads have     *)
(* started, none in a pool that is closed, and no invocation begins before  *)
(* the last one's are logged.                                               *)
WorkHeld ==
    /\ pc \in {"idle", "boot", "begin", "record", "analyze"} =>
          \A p \in Paths : pool[p] = "closed"
    /\ \A p \in Paths : pool[p] = "closed" => queued[p] = 0 /\ waiting[p] = 0
    /\ pc \in {"boot", "begin"} => \A p \in Paths : abandoned[p] = 0

LEMMA InitWorkHeld == Init => WorkHeld
BY DEF Init, WorkHeld, All

LEMMA NextWorkHeld == Types /\ WorkHeld /\ [Next]_vars => WorkHeld'
<1> SUFFICES ASSUME Types, WorkHeld, [Next]_vars PROVE WorkHeld'
  OBVIOUS
<1> USE DEF WorkHeld, files, main, signals, threads, work, history, purge, others
<1>1. CASE Refuse \/ NextRunIndex \/ Arm \/ Sleep \/ Wake \/ Finish
          \/ TickRaises
  BY <1>1 DEF Refuse, NextRunIndex, Arm, Sleep, Wake, Finish,
              TickRaises
<1>2. CASE Start
  BY <1>2 DEF Start, All
<1>3. ASSUME NEW p \in Paths, Shutdown(p) \/ Join(p) PROVE WorkHeld'
  BY <1>3 DEF Shutdown, Join, Types
<1>4. CASE Stamp \/ WriteRecord
  BY <1>4 DEF Stamp, WriteRecord, All
<1>5. CASE EndProcess \/ Kill
  BY <1>5 DEF EndProcess, Kill, ProcessGone, All
<1>6. CASE Invoke
  BY <1>6 DEF Invoke, All
<1>7. CASE Signal \/ PurgeCheck \/ PurgeDelete \/ Reopen \/ Time
  BY <1>7 DEF Signal, PurgeCheck, PurgeDelete, Reopen, Time
<1>8. ASSUME NEW p \in Paths, CheckStop(p) \/ SubmitRaises(p) PROVE WorkHeld'
  BY <1>8 DEF CheckStop, SubmitRaises
<1>9. ASSUME NEW p \in Paths, Submit(p) PROVE WorkHeld'
  BY <1>9 DEF Submit, Types
<1>10. ASSUME NEW p \in Paths, Send(p) PROVE WorkHeld'
  BY <1>10 DEF Send, Types
<1>11. ASSUME NEW p \in Paths, Answer(p) PROVE WorkHeld'
  BY <1>11 DEF Answer, Types
<1>12. ASSUME NEW p \in Paths, Timeout(p) PROVE WorkHeld'
  BY <1>12 DEF Timeout, Types
<1>13. ASSUME NEW p \in Paths, LogAbandoned(p) PROVE WorkHeld'
  BY <1>13 DEF LogAbandoned, Types
<1>14. CASE UNCHANGED vars
  BY <1>14 DEF vars
<1>15. QED
  BY <1>1, <1>2, <1>3, <1>4, <1>5, <1>6, <1>7, <1>8, <1>9, <1>10, <1>11, <1>12,
     <1>13, <1>14
     DEF Next, Main, Raises, Exit, Unwind, BaselineRaises, RecordRaises, Traffic

-----------------------------------------------------------------------------
(* Where a line and a record stand to the invocation in progress, and to    *)
(* each other: the lines of another invocation are older than this one's    *)
(* start, and an earlier record ended before it.                            *)
LineHeld(l) ==
    /\ l.ts <= clock /\ l.inv <= inv
    /\ pc \in {"boot", "begin"} => l.inv < inv /\ l.ts < clock
    /\ pc \in Started /\ l.inv < inv => l.ts < start
    /\ pc \in Started /\ l.inv = inv /\ l.answered => start <= l.ts
    /\ pc \in {"record", "analyze"} /\ l.inv = inv /\ l.answered => l.ts <= end

RecordHeld(r) ==
    /\ r.inv <= inv /\ r.end <= clock
    /\ pc \notin {"analyze", "idle"} => r.inv < inv
    /\ r.inv < inv => r.end < clock

Apart(r, l) ==
    /\ l.inv < r.inv => l.ts < r.start
    /\ r.inv < l.inv => r.end < l.ts
    /\ l.inv = r.inv /\ l.answered => r.start <= l.ts /\ l.ts <= r.end

LinesHeld == \A p \in Paths : \A k \in DOMAIN log[p] : LineHeld(log[p][k])
RecordsHeld == \A i \in DOMAIN runs : RecordHeld(runs[i])
AllApart ==
    \A i \in DOMAIN runs : \A p \in Paths : \A k \in DOMAIN log[p] :
        Apart(runs[i], log[p][k])

TimesHeld ==
    /\ pc \in Started => start <= clock
    /\ pc \in {"record", "analyze"} => end <= clock
    /\ LinesHeld /\ RecordsHeld /\ AllApart

LEMMA InitTimesHeld == Init => TimesHeld
<1> SUFFICES ASSUME Init PROVE TimesHeld
  OBVIOUS
<1>1. DOMAIN runs = {} /\ \A p \in Paths : DOMAIN log[p] = {}
  BY DEF Init, All
<1>2. QED
  BY <1>1 DEF Init, TimesHeld, LinesHeld, RecordsHeld, AllApart, Started

(* The lines and records are numbers, for the arithmetic below.             *)
LEMMA LineType ==
  ASSUME Types, NEW p \in Paths, NEW k \in DOMAIN log[p]
  PROVE  /\ log[p][k].inv \in Nat /\ log[p][k].ts \in Nat
         /\ log[p][k].answered \in BOOLEAN
<1>1. log[p] \in Seq(Line)
  BY DEF Types
<1>2. log[p][k] \in Line
  BY <1>1
<1>3. QED
  BY <1>2 DEF Line

LEMMA RecordType ==
  ASSUME Types, NEW i \in DOMAIN runs
  PROVE  runs[i].inv \in Nat /\ runs[i].start \in Nat /\ runs[i].end \in Nat
<1>1. runs[i] \in Record
  BY DEF Types
<1>2. QED
  BY <1>1 DEF Record

(* A line appended now is this invocation's, stamped now: after every       *)
(* earlier record's end.                                                    *)
LEMMA AppendKeeps ==
  ASSUME Types, WorkHeld, TimesHeld, NEW p \in Paths, NEW a \in BOOLEAN,
         LogLine(p, a), UNCHANGED <<clock, runs, pc, main>>,
         pc \notin {"boot", "begin"},
         a => pc \notin {"idle", "record", "analyze"}
  PROVE  TimesHeld'
<1> DEFINE l == [inv |-> inv, ts |-> clock, answered |-> a]
<1> USE DEF main
<1>1. LineHeld(l)'
  BY DEF LineHeld, TimesHeld, Types
<1>2. ASSUME NEW i \in DOMAIN runs PROVE Apart(runs[i], l)
  <2>1. RecordHeld(runs[i])
    BY DEF TimesHeld, RecordsHeld
  <2>2. a => runs[i].inv < inv
    BY <2>1 DEF RecordHeld
  <2>3. QED
    BY <2>1, <2>2, RecordType DEF RecordHeld, Apart, Types
<1>3. \A q \in Paths : \A k \in DOMAIN log'[q] :
         (k \in DOMAIN log[q] /\ log'[q][k] = log[q][k]) \/ log'[q][k] = l
  BY LogLineAdds
<1>4. LinesHeld'
  <2>1. ASSUME NEW q \in Paths, NEW k \in DOMAIN log[q]
        PROVE  LineHeld(log[q][k])'  \/ log'[q][k] # log[q][k]
    BY <2>1 DEF TimesHeld, LinesHeld, LineHeld
  <2>2. ASSUME NEW q \in Paths, NEW k \in DOMAIN log'[q]
        PROVE  LineHeld(log[q][k])'
    <3>1. CASE log'[q][k] = l
      BY <1>1, <3>1 DEF LineHeld
    <3>2. CASE k \in DOMAIN log[q] /\ log'[q][k] = log[q][k]
      BY <2>1, <3>2
    <3>3. QED
      BY <1>3, <3>1, <3>2
  <2>3. QED
    BY <2>2 DEF LinesHeld
<1>5. RecordsHeld'
  BY DEF TimesHeld, RecordsHeld, RecordHeld
<1>6. AllApart'
  <2>1. ASSUME NEW i \in DOMAIN runs, NEW q \in Paths, NEW k \in DOMAIN log'[q]
        PROVE  Apart(runs[i], log'[q][k])
    BY <1>2, <1>3 DEF TimesHeld, AllApart
  <2>2. QED
    BY <2>1 DEF AllApart, Apart
<1>7. QED
  BY <1>4, <1>5, <1>6 DEF TimesHeld

(* A step that touches neither files nor clock, nor the invocation's times. *)
LEMMA QuietKeeps ==
  ASSUME TimesHeld, UNCHANGED <<clock, runs, log, inv, start, end>>,
         \/ pc' = pc
         \/ pc' = "idle"
         \/ pc = "boot" /\ pc' = "begin"
         \/ /\ pc \in {"arm", "ticks", "asleep"}
            /\ pc' \in {"ticks", "asleep", "drain"}
  PROVE  TimesHeld'
<1>1. LinesHeld'
  BY DEF TimesHeld, LinesHeld, LineHeld, Started
<1>2. RecordsHeld'
  BY DEF TimesHeld, RecordsHeld, RecordHeld
<1>3. AllApart'
  BY DEF TimesHeld, AllApart, Apart
<1>4. QED
  BY <1>1, <1>2, <1>3 DEF TimesHeld, Started

LEMMA NextTimesHeld ==
  Types /\ WorkHeld /\ TimesHeld /\ [Next]_vars => TimesHeld'
<1> SUFFICES ASSUME Types, WorkHeld, TimesHeld, [Next]_vars PROVE TimesHeld'
  OBVIOUS
<1> USE DEF files, main, signals, threads, work, history, purge, others
<1>1. CASE Refuse \/ NextRunIndex \/ Arm \/ Sleep \/ Wake \/ Finish
          \/ TickRaises
  BY <1>1, QuietKeeps DEF Refuse, NextRunIndex, Arm, Sleep, Wake, Finish,
              TickRaises
<1>2. CASE Start
  <2>1. LinesHeld'
    BY <1>2, LineType DEF Start, Types, TimesHeld, LinesHeld, LineHeld, Started
  <2>2. RecordsHeld' /\ AllApart'
    BY <1>2 DEF Start, TimesHeld, RecordsHeld, RecordHeld, AllApart, Apart
  <2>3. QED
    BY <1>2, <2>1, <2>2 DEF Start, Types, TimesHeld, Started
<1>3. ASSUME NEW p \in Paths, Shutdown(p) \/ Join(p) PROVE TimesHeld'
  BY <1>3, QuietKeeps DEF Shutdown, Join
<1>4. CASE Stamp
  <2>1. LinesHeld'
    BY <1>4, LineType DEF Stamp, Types, TimesHeld, LinesHeld, LineHeld, Started
  <2>2. RecordsHeld' /\ AllApart'
    BY <1>4 DEF Stamp, TimesHeld, RecordsHeld, RecordHeld, AllApart, Apart
  <2>3. QED
    BY <1>4, <2>1, <2>2 DEF Stamp, Types, TimesHeld, Started
<1>5. CASE WriteRecord
  <2> DEFINE r == [index |-> index, inv |-> inv, start |-> start, end |-> end,
                   interrupted |-> interrupted]
  <2>1. \A i \in DOMAIN runs' :
           (i \in DOMAIN runs /\ runs'[i] = runs[i]) \/ runs'[i] = r
    BY <1>5, WriteRecordAdds
  <2>2. LinesHeld'
    BY <1>5 DEF WriteRecord, TimesHeld, LinesHeld, LineHeld, Started
  <2>3. /\ pc' = "analyze" /\ clock' = clock /\ inv' = inv
        /\ pc = "record" /\ end <= clock
    BY <1>5 DEF WriteRecord, TimesHeld
  <2>4. r.inv = inv /\ r.end = end
    OBVIOUS
  <2>5. RecordsHeld'
    <3>1. ASSUME NEW i \in DOMAIN runs', runs'[i] = r PROVE RecordHeld(runs[i])'
      BY <2>3, <2>4, <3>1 DEF RecordHeld, Types
    <3>2. ASSUME NEW i \in DOMAIN runs', i \in DOMAIN runs, runs'[i] = runs[i]
          PROVE  RecordHeld(runs[i])'
      BY <2>3, <3>2 DEF TimesHeld, RecordsHeld, RecordHeld
    <3>3. QED
      BY <2>1, <3>1, <3>2 DEF RecordsHeld
  <2>6. ASSUME NEW p \in Paths, NEW k \in DOMAIN log[p] PROVE Apart(r, log[p][k])
    BY <1>5, LineType DEF WriteRecord, Types, TimesHeld, LinesHeld, LineHeld,
                          Apart, Started
  <2>7. AllApart'
    BY <1>5, <2>1, <2>6 DEF WriteRecord, TimesHeld, AllApart, Apart
  <2>8. QED
    BY <1>5, <2>2, <2>5, <2>7 DEF WriteRecord, TimesHeld, Started
<1>6. CASE EndProcess \/ Kill
  <2>1. LinesHeld' /\ RecordsHeld' /\ AllApart'
    BY <1>6 DEF EndProcess, Kill, ProcessGone, TimesHeld, LinesHeld, LineHeld,
                RecordsHeld, RecordHeld, AllApart, Apart, Started
  <2>2. QED
    BY <1>6, <2>1 DEF EndProcess, Kill, ProcessGone, TimesHeld, Started
<1>7. CASE Invoke
  <2>1. LinesHeld'
    BY <1>7, LineType DEF Invoke, Types, TimesHeld, LinesHeld, LineHeld, Started
  <2>2. RecordsHeld'
    BY <1>7, RecordType DEF Invoke, Types, TimesHeld, RecordsHeld, RecordHeld
  <2>3. AllApart'
    BY <1>7 DEF Invoke, TimesHeld, AllApart, Apart
  <2>4. QED
    BY <1>7, <2>1, <2>2, <2>3 DEF Invoke, TimesHeld, Started
<1>8. CASE Signal \/ PurgeCheck \/ Reopen
  BY <1>8, QuietKeeps DEF Signal, PurgeCheck, Reopen
<1>9. ASSUME NEW p \in Paths,
             CheckStop(p) \/ SubmitRaises(p) \/ Submit(p) \/ Send(p) \/ Timeout(p)
      PROVE  TimesHeld'
  BY <1>9, QuietKeeps DEF CheckStop, SubmitRaises, Submit, Send, Timeout
<1>10. ASSUME NEW p \in Paths, Answer(p) PROVE TimesHeld'
  <2>1. waiting[p] # 0
    BY <1>10 DEF Answer, Types
  <2>2. pc \notin {"idle", "boot", "begin", "record", "analyze"}
    BY <2>1 DEF WorkHeld
  <2>3. QED
    BY <1>10, <2>2, AppendKeeps DEF Answer
<1>11. ASSUME NEW p \in Paths, LogAbandoned(p) PROVE TimesHeld'
  <2>1. abandoned[p] # 0
    BY <1>11 DEF LogAbandoned, Types
  <2>2. pc \notin {"boot", "begin"}
    BY <2>1 DEF WorkHeld
  <2>3. QED
    BY <1>11, <2>2, AppendKeeps DEF LogAbandoned
<1>12. CASE PurgeDelete
  <2>1. DOMAIN runs' = {} /\ \A p \in Paths : DOMAIN log'[p] = {}
    BY <1>12 DEF PurgeDelete, All
  <2>2. QED
    BY <1>12, <2>1 DEF PurgeDelete, TimesHeld, LinesHeld, RecordsHeld, AllApart
<1>13. CASE Time
  <2>1. LinesHeld'
    BY <1>13, LineType DEF Time, Types, TimesHeld, LinesHeld, LineHeld
  <2>2. RecordsHeld'
    BY <1>13, RecordType DEF Time, Types, TimesHeld, RecordsHeld, RecordHeld
  <2>3. AllApart'
    BY <1>13 DEF Time, TimesHeld, AllApart, Apart
  <2>4. QED
    BY <1>13, <2>1, <2>2, <2>3 DEF Time, Types, TimesHeld
<1>14. CASE UNCHANGED vars
  BY <1>14, QuietKeeps DEF vars
<1>15. QED
  BY <1>1, <1>2, <1>3, <1>4, <1>5, <1>6, <1>7, <1>8, <1>9, <1>10, <1>11, <1>12,
     <1>13, <1>14
     DEF Next, Main, Raises, Exit, Unwind, BaselineRaises, RecordRaises, Traffic

LEMMA TimesAlwaysHeld == Spec => [](Types /\ TimesHeld)
BY TypeCorrect, InitWorkHeld, NextWorkHeld, InitTimesHeld, NextTimesHeld, PTL
   DEF Spec

(* What the analysis counts into a run was sent by that run.                *)
THEOREM RunsAreIsolated == Spec => []NoForeignLine
<1>1. Types /\ TimesHeld => NoForeignLine
  <2> SUFFICES ASSUME Types, TimesHeld, NEW i \in DOMAIN runs, NEW p \in Paths,
                      NEW k \in Records(runs[i], p)
               PROVE  log[p][k].inv = runs[i].inv
    BY DEF NoForeignLine
  <2>1. /\ k \in DOMAIN log[p]
        /\ runs[i].start <= log[p][k].ts /\ log[p][k].ts <= runs[i].end
    BY DEF Records
  <2>2. Apart(runs[i], log[p][k])
    BY <2>1 DEF TimesHeld, AllApart
  <2>3. QED
    BY <2>1, <2>2, LineType, RecordType DEF Apart
<1>2. QED
  BY <1>1, TimesAlwaysHeld, PTL

(* Every answered request of a recorded run is counted into it.             *)
THEOREM AnswersAreCounted == Spec => []AnsweredCounted
<1>1. Types /\ TimesHeld => AnsweredCounted
  BY DEF TimesHeld, AllApart, Apart, AnsweredCounted, Records
<1>2. QED
  BY <1>1, TimesAlwaysHeld, PTL

-----------------------------------------------------------------------------
(* Until a purge has taken runs.log from under a run, the index of a record *)
(* is its line, and a run's the line to come.                               *)
IndexHeld ==
    ~swept => /\ \A i \in DOMAIN runs : runs[i].index = i
              /\ Indexed => index = Len(runs) + 1

LEMMA InitIndexHeld == Init => IndexHeld
<1> SUFFICES ASSUME Init PROVE IndexHeld
  OBVIOUS
<1>1. DOMAIN runs = {}
  BY DEF Init
<1>2. QED
  BY <1>1 DEF Init, IndexHeld, Indexed, Armed

LEMMA NextIndexHeld == Types /\ IndexHeld /\ [Next]_vars => IndexHeld'
<1> SUFFICES ASSUME Types, IndexHeld, [Next]_vars PROVE IndexHeld'
  OBVIOUS
<1> USE DEF IndexHeld, Indexed, Armed,
            files, main, signals, threads, work, history, purge, others
<1>1. CASE Refuse \/ NextRunIndex \/ Start \/ Arm \/ Sleep \/ Wake \/ Finish
          \/ TickRaises \/ Stamp
  BY <1>1 DEF Refuse, NextRunIndex, Start, Arm, Sleep, Wake, Finish,
     TickRaises, Stamp
<1>2. ASSUME NEW p \in Paths, Shutdown(p) \/ Join(p) PROVE IndexHeld'
  BY <1>2 DEF Shutdown, Join
<1>3. CASE WriteRecord
  BY <1>3, WriteRecordAdds DEF WriteRecord
<1>4. CASE EndProcess \/ Kill \/ Invoke
  BY <1>4 DEF EndProcess, Kill, Invoke, ProcessGone
<1>5. CASE Signal \/ PurgeCheck \/ Reopen \/ Time
  BY <1>5 DEF Signal, PurgeCheck, Reopen, Time
<1>6. ASSUME NEW p \in Paths,
             CheckStop(p) \/ SubmitRaises(p) \/ Submit(p) \/ Send(p) \/ Timeout(p)
      PROVE  IndexHeld'
  BY <1>6 DEF CheckStop, SubmitRaises, Submit, Send, Timeout
<1>7. ASSUME NEW p \in Paths, Answer(p) \/ LogAbandoned(p) PROVE IndexHeld'
  BY <1>7 DEF Answer, LogAbandoned
<1>8. CASE PurgeDelete
  <2>1. DOMAIN runs' = {}
    BY <1>8 DEF PurgeDelete
  <2>2. QED
    BY <1>8, <2>1 DEF PurgeDelete
<1>9. CASE UNCHANGED vars
  BY <1>9 DEF vars
<1>10. QED
  BY <1>1, <1>2, <1>3, <1>4, <1>5, <1>6, <1>7, <1>8, <1>9
     DEF Next, Main, Raises, Exit, Unwind, BaselineRaises, RecordRaises, Traffic

(* No two records share an index, so that the first one with a record's     *)
(* index is that record.                                                    *)
THEOREM IndexSelects == Spec => []IndexSelectsRun
<1>1. Types /\ IndexHeld => IndexSelectsRun
  <2> SUFFICES ASSUME Types, IndexHeld, ~swept, NEW i \in DOMAIN runs
               PROVE  SelectRun(runs[i].index) = runs[i]
    BY DEF IndexSelectsRun
  <2> DEFINE First(j) == /\ runs[j].index = runs[i].index
                         /\ \A h \in 1..(j - 1) : runs[h].index # runs[i].index
  <2>1. \A j \in DOMAIN runs : runs[j].index = j
    BY DEF IndexHeld
  <2>2. DOMAIN runs = 1..Len(runs) /\ Len(runs) \in Nat
    BY DEF Types
  <2>3. First(i)
    BY <2>1, <2>2
  <2>4. \A j \in DOMAIN runs : First(j) => j = i
    BY <2>1
  <2>5. (CHOOSE j \in DOMAIN runs : First(j)) = i
    BY <2>3, <2>4
  <2>6. QED
    BY <2>5 DEF SelectRun
<1>2. QED
  BY <1>1, TypeCorrect, InitIndexHeld, NextIndexHeld, PTL DEF Spec

(* The race of a purge with a run is the only way to a record that is not   *)
(* at the line it was numbered for: any signal, kill, or purge without a    *)
(* run leaves next_run_index right.                                         *)
THEOREM IndexWrongOnlyIfSwept == Spec => [](~swept => IndexIsNextLine)
<1>1. IndexHeld => (~swept => IndexIsNextLine)
  BY DEF IndexHeld, IndexIsNextLine
<1>2. QED
  BY <1>1, TypeCorrect, InitIndexHeld, NextIndexHeld, PTL DEF Spec

(* While nobody purges, a run's index is the line its record will be on.    *)
THEOREM IndexesAreLines ==
  ASSUME "purge" \notin Faults
  PROVE  Spec => []IndexIsNextLine
<1> DEFINE Unswept == ~swept /\ ~purging
<1>1. Init => Unswept
  BY DEF Init
<1>2. Unswept /\ [Next]_vars => Unswept'
  <2> SUFFICES ASSUME Unswept, [Next]_vars PROVE Unswept'
    OBVIOUS
  <2> USE DEF files, main, signals, threads, work, history, purge, others
  <2>1. CASE Refuse \/ NextRunIndex \/ Start \/ Arm \/ Sleep \/ Wake \/ Finish
             \/ TickRaises \/ Stamp \/ WriteRecord \/ EndProcess
    BY <2>1 DEF Refuse, NextRunIndex, Start, Arm, Sleep, Wake, Finish,
                TickRaises, Stamp, WriteRecord, EndProcess, ProcessGone
  <2>2. ASSUME NEW p \in Paths,
               \/ Shutdown(p) \/ Join(p) \/ CheckStop(p) \/ Submit(p)
               \/ SubmitRaises(p) \/ Send(p) \/ Answer(p) \/ Timeout(p)
               \/ LogAbandoned(p)
        PROVE  Unswept'
    <3>1. CASE Shutdown(p) \/ Join(p) \/ CheckStop(p) \/ SubmitRaises(p)
      BY <3>1 DEF Shutdown, Join, CheckStop, SubmitRaises
    <3>2. CASE Submit(p) \/ Send(p) \/ Timeout(p)
      BY <3>2 DEF Submit, Send, Timeout
    <3>3. CASE Answer(p) \/ LogAbandoned(p)
      <4>1. UNCHANGED <<purge, swept>>
        BY <3>3 DEF Answer, LogAbandoned
      <4>2. QED
        BY <4>1
    <3>4. QED
      BY <2>2, <3>1, <3>2, <3>3
  <2>3. CASE Time \/ Invoke \/ Signal \/ Kill \/ Reopen \/ UNCHANGED vars
    BY <2>3 DEF Time, Invoke, Signal, Kill, Reopen, vars
  <2>4. ~PurgeCheck /\ ~PurgeDelete
    BY DEF PurgeCheck, PurgeDelete
  <2>5. QED
    BY <2>1, <2>2, <2>3, <2>4
     DEF Next, Main, Raises, Exit, Unwind, BaselineRaises, RecordRaises, Traffic
<1>3. IndexHeld /\ Unswept => IndexIsNextLine
  BY DEF IndexHeld, IndexIsNextLine
<1> HIDE DEF Unswept
<1>4. QED
  BY <1>1, <1>2, <1>3, TypeCorrect, InitIndexHeld, NextIndexHeld, PTL DEF Spec

-----------------------------------------------------------------------------
(* Every request the pools have accepted in this invocation is queued,      *)
(* waiting, without a client, in the log, or in a file that was deleted.    *)
SentHeld ==
    /\ pc \in {"idle", "boot", "begin"} => \A p \in Paths : submitted[p] = 0
    /\ submitted \in [Paths -> Nat]
    /\ gone \in [Paths -> Nat]
    /\ pc # "idle" => \A p \in Paths :
          submitted[p] = queued[p] + waiting[p] + abandoned[p]
                         + (Cardinality(Own(p)) + gone[p])

LEMMA InitSentHeld == Init => SentHeld
BY DEF Init, SentHeld, All

LEMMA OwnFinite ==
  ASSUME Types, NEW p \in Paths
  PROVE  IsFiniteSet(Own(p)) /\ Cardinality(Own(p)) \in Nat
<1>1. log[p] \in Seq(Line)
  BY DEF Types
<1>2. IsFiniteSet(DOMAIN log[p])
  <2>1. DOMAIN log[p] = 1..Len(log[p]) /\ 1 \in Int /\ Len(log[p]) \in Int
    BY <1>1
  <2>2. QED
    BY <2>1, FS_Interval
<1>3. Own(p) \subseteq DOMAIN log[p]
  BY DEF Own
<1>4. IsFiniteSet(Own(p))
  BY <1>2, <1>3, FS_Subset
<1>5. QED
  BY <1>4, FS_CardinalityType

(* A line is one more in the log, or one more that is gone.                 *)
LEMMA LogLineCounts ==
  ASSUME Types, gone \in [Paths -> Nat], NEW p \in Paths, NEW a \in BOOLEAN,
         LogLine(p, a), inv' = inv
  PROVE  /\ gone' \in [Paths -> Nat] /\ Cardinality(Own(p)') \in Nat
         /\ Cardinality(Own(p)') + gone'[p] = Cardinality(Own(p)) + gone[p] + 1
         /\ \A q \in Paths \ {p} : Own(q)' = Own(q) /\ gone'[q] = gone[q]
<1> DEFINE l == [inv |-> inv, ts |-> clock, answered |-> a]
<1>1. gone[p] \in Nat /\ Cardinality(Own(p)) \in Nat
  BY OwnFinite
<1>2. CASE unlinked
  <2>1. log' = log /\ gone' = [gone EXCEPT ![p] = gone[p] + 1]
    BY <1>2 DEF LogLine
  <2>2. \A q \in Paths : Own(q)' = Own(q)
    BY <2>1 DEF Own
  <2>3. QED
    BY <1>1, <2>1, <2>2
<1>3. CASE ~unlinked
  <2>1. log' = [log EXCEPT ![p] = Append(log[p], l)] /\ gone' = gone
    BY <1>3 DEF LogLine
  <2>2. log[p] \in Seq(Line) /\ l \in Line
    BY DEF Types, Line
  <2>3. log'[p] = Append(log[p], l) /\ \A q \in Paths \ {p} : log'[q] = log[q]
    BY <2>1 DEF Types
  <2>4. Len(log[p]) \in Nat /\ DOMAIN log[p] = 1..Len(log[p])
    BY <2>2
  <2>5. DOMAIN log'[p] = (DOMAIN log[p]) \cup {Len(log[p]) + 1}
    BY <2>2, <2>3, <2>4
  <2>6. /\ log'[p][Len(log[p]) + 1] = l
        /\ \A k \in DOMAIN log[p] : log'[p][k] = log[p][k]
    BY <2>2, <2>3, <2>4
  <2>7. Own(p)' = Own(p) \cup {Len(log[p]) + 1} /\ Len(log[p]) + 1 \notin Own(p)
    BY <2>4, <2>5, <2>6 DEF Own
  <2>8. Cardinality(Own(p)') = Cardinality(Own(p)) + 1
    BY <2>7, OwnFinite, FS_AddElement
  <2>9. \A q \in Paths \ {p} : Own(q)' = Own(q)
    BY <2>3 DEF Own
  <2>10. QED
    BY <1>1, <2>1, <2>8, <2>9
<1>4. QED
  BY <1>2, <1>3

(* The same holds of all the lines a purge deletes at once.                 *)
LEMMA PurgeCounts ==
  ASSUME Types, gone \in [Paths -> Nat], PurgeDelete
  PROVE  /\ gone' \in [Paths -> Nat]
         /\ \A p \in Paths :
               Cardinality(Own(p)') + gone'[p] = Cardinality(Own(p)) + gone[p]
<1>1. gone' = [p \in Paths |-> gone[p] + Cardinality(Own(p))]
  BY DEF PurgeDelete
<1>2. ASSUME NEW p \in Paths
      PROVE  /\ gone[p] \in Nat /\ Cardinality(Own(p)) \in Nat
             /\ gone'[p] = gone[p] + Cardinality(Own(p))
             /\ Cardinality(Own(p)') = 0
  <2>1. log'[p] = <<>>
    BY DEF PurgeDelete, All
  <2>2. Own(p)' = {}
    BY <2>1 DEF Own
  <2>3. Cardinality(Own(p)') = 0
    BY <2>2, FS_EmptySet
  <2>4. QED
    BY <1>1, <2>3, OwnFinite
<1>3. gone' \in [Paths -> Nat]
  BY <1>1, <1>2
<1>4. QED
  BY <1>2, <1>3

(* A step that leaves the requests, the log and the invocation alone.       *)
LEMMA QuietSends ==
  ASSUME Types, SentHeld,
         UNCHANGED <<log, inv, queued, waiting, abandoned, submitted, gone>>,
         \/ pc' = pc
         \/ pc = "boot" /\ pc' \in {"idle", "begin"}
         \/ pc # "idle" /\ pc' \notin {"idle", "boot", "begin"}
  PROVE  SentHeld'
<1>1. \A p \in Paths : Own(p)' = Own(p)
  BY DEF Own
<1>2. QED
  BY <1>1 DEF SentHeld

LEMMA NextSentHeld ==
  Types /\ WorkHeld /\ TimesHeld /\ SentHeld /\ [Next]_vars => SentHeld'
<1> SUFFICES ASSUME Types, WorkHeld, TimesHeld, SentHeld, [Next]_vars
             PROVE  SentHeld'
  OBVIOUS
<1> USE DEF files, main, signals, threads, work, history, purge, others
<1>1. CASE Refuse \/ NextRunIndex \/ Start \/ Arm \/ Sleep \/ Wake
  BY <1>1, QuietSends DEF Refuse, NextRunIndex, Start, Arm, Sleep, Wake
<1>2. CASE Finish \/ TickRaises \/ Stamp \/ WriteRecord
  <2>1. CASE Finish \/ TickRaises
    BY <2>1, QuietSends DEF Finish, TickRaises
  <2>2. CASE Stamp
    BY <2>2, QuietSends DEF Stamp
  <2>3. CASE WriteRecord
    BY <2>3, QuietSends DEF WriteRecord
  <2>4. QED
    BY <1>2, <2>1, <2>2, <2>3
<1>3. ASSUME NEW p \in Paths,
             Shutdown(p) \/ Join(p) \/ CheckStop(p) \/ SubmitRaises(p)
      PROVE  SentHeld'
  BY <1>3, QuietSends DEF Shutdown, Join, CheckStop, SubmitRaises
<1>4. CASE EndProcess \/ Kill
  BY <1>4 DEF EndProcess, Kill, ProcessGone, SentHeld, All
<1>5. CASE Invoke
  <2>1. \A p \in Paths : queued[p] = 0 /\ waiting[p] = 0 /\ abandoned[p] = 0
    BY <1>5 DEF Invoke, WorkHeld, All
  <2>2. \A p \in Paths : submitted[p] = 0
    BY <1>5 DEF Invoke, SentHeld
  <2>3. ASSUME NEW p \in Paths PROVE Own(p)' = {}
    <3>1. \A k \in DOMAIN log[p] : log[p][k].inv # inv + 1
      BY LineType DEF TimesHeld, LinesHeld, LineHeld, Types
    <3>2. QED
      BY <1>5, <3>1 DEF Invoke, Own
  <2>4. \A p \in Paths : Cardinality(Own(p)') = 0
    BY <2>3, FS_EmptySet
  <2>5. gone' \in [Paths -> Nat] /\ \A p \in Paths : gone'[p] = 0
    BY <1>5 DEF Invoke, All
  <2>6. QED
    BY <1>5, <2>1, <2>2, <2>4, <2>5 DEF Invoke, SentHeld
<1>6. CASE Signal \/ Time
  BY <1>6, QuietSends DEF Signal, Time
<1>7. CASE PurgeCheck \/ PurgeDelete \/ Reopen
  <2>1. CASE PurgeCheck \/ Reopen
    BY <2>1, QuietSends DEF PurgeCheck, Reopen
  <2>2. CASE PurgeDelete
    <3>1. UNCHANGED <<pc, queued, waiting, abandoned, submitted>>
      BY <2>2 DEF PurgeDelete
    <3>2. QED
      BY <2>2, <3>1, PurgeCounts DEF SentHeld
  <2>3. QED
    BY <1>7, <2>1, <2>2
<1>8. ASSUME NEW p \in Paths, Submit(p) PROVE SentHeld'
  <2>1. pc \notin {"idle", "boot", "begin"}
    BY <1>8 DEF Submit, WorkHeld
  <2>2. /\ queued' = [queued EXCEPT ![p] = queued[p] + 1]
        /\ submitted' = [submitted EXCEPT ![p] = submitted[p] + 1]
        /\ UNCHANGED <<log, inv, pc, waiting, abandoned, gone>>
    BY <1>8 DEF Submit
  <2>3. \A q \in Paths : Own(q)' = Own(q)
    BY <2>2 DEF Own
  <2>4. submitted' \in [Paths -> Nat]
    BY <2>2 DEF SentHeld
  <2>5. ASSUME NEW q \in Paths
        PROVE  submitted'[q] = queued'[q] + waiting'[q] + abandoned'[q]
                               + (Cardinality(Own(q)') + gone'[q])
    <3> DEFINE here == Cardinality(Own(q)) + gone[q]
    <3>1. here = Cardinality(Own(q)') + gone'[q] /\ here \in Nat
      BY <2>2, <2>3, OwnFinite DEF SentHeld
    <3>2. submitted[q] = queued[q] + waiting[q] + abandoned[q] + here
      BY <2>1 DEF SentHeld
    <3> HIDE DEF here
    <3>3. submitted'[q] = queued'[q] + waiting'[q] + abandoned'[q] + here
      <4>1. /\ queued[q] \in Nat /\ waiting[q] \in Nat /\ abandoned[q] \in Nat
            /\ submitted[q] \in Nat
        BY DEF SentHeld, Types
      <4>2. \/ submitted'[q] = submitted[q] /\ queued'[q] = queued[q]
            \/ submitted'[q] = submitted[q] + 1 /\ queued'[q] = queued[q] + 1
        BY <2>2 DEF SentHeld, Types
      <4>3. QED
        BY <2>2, <3>1, <3>2, <4>1, <4>2
    <3>4. QED
      BY <3>1, <3>3
  <2>6. QED
    BY <2>1, <2>2, <2>4, <2>5 DEF SentHeld
<1>9. ASSUME NEW p \in Paths, Send(p) \/ Timeout(p) PROVE SentHeld'
  <2>1. /\ UNCHANGED <<log, inv, pc, submitted, gone>>
        /\ \A q \in Paths :
              queued'[q] + waiting'[q] + abandoned'[q]
                = queued[q] + waiting[q] + abandoned[q]
    <3>1. CASE Send(p)
      BY <3>1 DEF Send, Types
    <3>2. CASE Timeout(p)
      BY <3>2 DEF Timeout, Types
    <3>3. QED
      BY <1>9, <3>1, <3>2
  <2>2. \A q \in Paths : Own(q)' = Own(q)
    BY <2>1 DEF Own
  <2>3. QED
    BY <2>1, <2>2 DEF SentHeld
<1>10. ASSUME NEW p \in Paths, Answer(p) \/ LogAbandoned(p) PROVE SentHeld'
  <2>1. PICK a \in BOOLEAN : LogLine(p, a)
    BY <1>10 DEF Answer, LogAbandoned
  <2>2. /\ UNCHANGED <<inv, pc, queued, submitted>>
        /\ waiting'[p] + abandoned'[p] = waiting[p] + abandoned[p] - 1
        /\ \A q \in Paths \ {p} :
              waiting'[q] = waiting[q] /\ abandoned'[q] = abandoned[q]
    <3>1. CASE Answer(p)
      BY <3>1 DEF Answer, Types
    <3>2. CASE LogAbandoned(p)
      BY <3>2 DEF LogAbandoned, Types
    <3>3. QED
      BY <1>10, <3>1, <3>2
  <2>3. /\ gone' \in [Paths -> Nat] /\ Cardinality(Own(p)') \in Nat
        /\ Cardinality(Own(p)') + gone'[p] = Cardinality(Own(p)) + gone[p] + 1
        /\ \A q \in Paths \ {p} : Own(q)' = Own(q) /\ gone'[q] = gone[q]
    BY <2>1, <2>2, LogLineCounts DEF SentHeld
  <2>4. waiting' \in [Paths -> Nat] /\ abandoned' \in [Paths -> Nat]
    BY <1>10, NextType DEF Next, Traffic, Types
  <2>5. ASSUME NEW q \in Paths, pc # "idle"
        PROVE  submitted[q] = queued[q] + waiting'[q] + abandoned'[q]
                              + (Cardinality(Own(q)') + gone'[q])
    <3> DEFINE open == waiting[q] + abandoned[q]
               left == waiting'[q] + abandoned'[q]
               here == Cardinality(Own(q)) + gone[q]
               there == Cardinality(Own(q)') + gone'[q]
    <3>1. submitted[q] = queued[q] + waiting[q] + abandoned[q] + here
      BY <2>5 DEF SentHeld
    <3>2. here \in Nat /\ there \in Nat /\ open \in Nat /\ left \in Nat
      <4>1. Cardinality(Own(q)) \in Nat /\ gone[q] \in Nat
        BY OwnFinite DEF SentHeld
      <4>2. waiting[q] \in Nat /\ abandoned[q] \in Nat
        BY DEF Types
      <4>3. waiting'[q] \in Nat /\ abandoned'[q] \in Nat /\ gone'[q] \in Nat
        BY <2>3, <2>4
      <4>4. Cardinality(Own(q)') \in Nat
        BY <2>3, <4>1
      <4>5. QED
        BY <4>1, <4>2, <4>3, <4>4
    <3>3. CASE q = p
      <4>1. there = here + 1
        BY <2>3, <3>3
      <4>2. left = open - 1
        BY <2>2, <2>4, <3>3 DEF Types
      <4>3. submitted[q] = queued[q] + open + here
        BY <3>1, <3>2 DEF Types
      <4>4. submitted[q] = queued[q] + left + there
        <5> HIDE DEF open, left, here, there
        <5>1. queued[q] \in Nat
          BY DEF Types
        <5>2. QED
          BY <3>2, <4>1, <4>2, <4>3, <5>1
      <4>5. QED
        BY <2>4, <3>2, <4>4 DEF Types
    <3>4. CASE q # p
      BY <2>2, <2>3, <3>1, <3>4
    <3>5. QED
      BY <3>3, <3>4
  <2>6. QED
    BY <2>2, <2>3, <2>5 DEF SentHeld
<1>11. CASE UNCHANGED vars
  BY <1>11, QuietSends DEF vars
<1>12. QED
  BY <1>1, <1>2, <1>3, <1>4, <1>5, <1>6, <1>7, <1>8, <1>9, <1>10, <1>11
    
     DEF Next, Main, Raises, Exit, Unwind, BaselineRaises, RecordRaises, Traffic

(* With every fault, a request a pool has accepted is in the log, in a file *)
(* a purge has deleted, or has lost its client to the timeout, by the time   *)
(* the end is stamped.                                                      *)
THEOREM AcceptedRequestsAreSent == Spec => []AcceptedIsSent
<1>1. Types /\ WorkHeld /\ SentHeld => AcceptedIsSent
  <2> SUFFICES ASSUME Types, WorkHeld, SentHeld, pc \in {"record", "analyze"},
                      NEW p \in Paths
               PROVE  submitted[p] = Cardinality(Own(p)) + gone[p] + abandoned[p]
    BY DEF AcceptedIsSent
  <2>1. queued[p] = 0 /\ waiting[p] = 0
    BY DEF WorkHeld
  <2>2. Cardinality(Own(p)) \in Nat
    BY OwnFinite
  <2>3. QED
    BY <2>1, <2>2 DEF SentHeld, Types
<1>2. Types /\ WorkHeld /\ TimesHeld /\ SentHeld /\ [Next]_vars => SentHeld'
  BY NextSentHeld
<1>3. Spec => [](Types /\ WorkHeld /\ TimesHeld)
  BY TypeCorrect, InitWorkHeld, NextWorkHeld, TimesAlwaysHeld, PTL DEF Spec
<1>4. QED
  BY <1>1, <1>2, <1>3, InitSentHeld, PTL DEF Spec
=============================================================================
