------------------------- MODULE SamplingLoopProofs -------------------------
(***************************************************************************)
(* SamplingLoop's properties, for any backends, number of attempts and log  *)
(* length, with every fault: failing probes, reads and apply_weights,       *)
(* backends that stop and start, purges and restarts at any moment.         *)
(***************************************************************************)
EXTENDS SamplingLoop, TLAPS

LEMMA CountType ==
  ASSUME NEW f \in [Lines -> 0..Plural], NEW S
  PROVE  Count(f, S) \in [Lines -> 0..Plural]
BY DEF Count, Plural

LEMMA InitType == Init => TypeOK
<1> SUFFICES ASSUME Init PROVE TypeOK
  OBVIOUS
<1>1. <<>> \in Seq(Hosts \cup {Unusable}) /\ Len(<<>>) = 0
  OBVIOUS
<1>2. QED
  BY <1>1, AttemptsAssumption, BoundAssumption
     DEF Init, TypeOK, Steps, Zero, Plural

LEMMA NextType == TypeOK /\ [Next]_vars => TypeOK'
<1> SUFFICES ASSUME TypeOK, [Next]_vars PROVE TypeOK'
  OBVIOUS
<1> USE AttemptsAssumption, BoundAssumption
    DEF TypeOK, Steps, window, history
<1>1. CASE Wake
  BY <1>1 DEF Wake
<1>2. CASE Snapshot
  BY <1>2 DEF Snapshot
<1>3. CASE Read
  <2>1. Len(log) \in 0..MaxLines
    OBVIOUS
  <2>2. batch' \subseteq Lines /\ batch' \subseteq 1..Len(log)
    BY <1>3, <2>1 DEF Read, ReadFrom, Lines
  <2>3. \A i \in 1..Len(log) : log[i] \in Hosts \cup {Unusable}
    OBVIOUS
  <2>4. obs' \subseteq Hosts
    BY <1>3, <2>2, <2>3 DEF Read, ReadFrom
  <2>5. offset' \in 0..MaxLines
    BY <1>3, <2>1 DEF Read, ReadFrom
  <2>6. QED
    BY <1>3, <2>2, <2>4, <2>5 DEF Read, ReadFrom
<1>4. ASSUME NEW h \in Hosts, Probe(h) PROVE TypeOK'
  BY <1>4 DEF Probe
<1>5. CASE Update
  BY <1>5, CountType DEF Update
<1>6. CASE Complete
  BY <1>6, CountType DEF Complete, CompleteAt
<1>7. CASE Fail
  BY <1>7 DEF Fail, FailTo
<1>8. ASSUME NEW x \in up \cup {Unusable}, Serve(x) PROVE TypeOK'
  <2>1. /\ log' \in Seq(Hosts \cup {Unusable})
        /\ Len(log') = Len(log) + 1
    BY <1>8 DEF Serve
  <2>2. QED
    BY <1>8, <2>1 DEF Serve
<1>9. ASSUME NEW h \in Hosts, HostDown(h) \/ HostUp(h) PROVE TypeOK'
  BY <1>9 DEF HostDown, HostUp
<1>10. CASE Purge
  <2>1. log' \in Seq(Hosts \cup {Unusable}) /\ Len(log') = 0
    BY <1>10 DEF Purge
  <2>2. QED
    BY <1>10, <2>1 DEF Purge, Zero, Plural
<1>11. CASE Restart
  BY <1>11 DEF Restart, Zero, Plural
<1>12. CASE UNCHANGED vars
  BY <1>12 DEF vars
<1>13. QED
  BY <1>1, <1>2, <1>3, <1>4, <1>5, <1>6, <1>7, <1>8, <1>9, <1>10, <1>11,
     <1>12 DEF Next, Loop, Environment

(* The types hold in every reachable state, with every fault: in particular *)
(* the attempt number never passes WINDOW_RETRY_ATTEMPTS.                   *)
THEOREM TypeCorrect == Spec => []TypeOK
<1>1. QED
  BY InitType, NextType, PTL DEF Spec

-----------------------------------------------------------------------------
(* What the offset and the batch are to the remembered offset while a       *)
(* window is open.                                                          *)
OffsetHeld ==
    /\ pc \in {"snapshot", "read"} => offset = before
    /\ pc \in {"fill", "apply"} =>
          before <= offset /\ batch \subseteq (before + 1)..offset

LEMMA InitOffsetHeld == Init => OffsetHeld
BY DEF Init, OffsetHeld

LEMMA NextOffsetHeld == TypeOK /\ OffsetHeld /\ [Next]_vars => OffsetHeld'
<1> SUFFICES ASSUME TypeOK, OffsetHeld, [Next]_vars PROVE OffsetHeld'
  OBVIOUS
<1> USE BoundAssumption DEF TypeOK, OffsetHeld, window, history
<1>1. CASE Wake \/ Snapshot
  BY <1>1 DEF Wake, Snapshot
<1>2. CASE Read
  BY <1>2 DEF Read, ReadFrom
<1>3. ASSUME NEW h \in Hosts, Probe(h) PROVE OffsetHeld'
  BY <1>3 DEF Probe
<1>4. CASE Update \/ Complete
  BY <1>4 DEF Update, Complete, CompleteAt
<1>5. CASE Fail
  BY <1>5 DEF Fail, FailTo
<1>6. CASE Environment
  BY <1>6 DEF Environment, Serve, HostDown, HostUp, Purge, Restart
<1>7. CASE UNCHANGED vars
  BY <1>7 DEF vars
<1>8. QED
  BY <1>1, <1>2, <1>3, <1>4, <1>5, <1>6, <1>7 DEF Next, Loop

(* The batch is the whole stretch that a purge has not put out of sight;    *)
(* and an offset beyond the end of the log is a purge's doing.              *)
BatchHeld ==
    /\ skipped <= offset
    /\ offset <= Len(log) \/ offset <= skipped
    /\ pc \in {"fill", "apply"} =>
          batch = {i \in (before + 1)..offset : i > skipped}

LEMMA InitBatchHeld == Init => BatchHeld
BY DEF Init, BatchHeld

LEMMA NextBatchHeld ==
  TypeOK /\ OffsetHeld /\ BatchHeld /\ [Next]_vars => BatchHeld'
<1> SUFFICES ASSUME TypeOK, OffsetHeld, BatchHeld, [Next]_vars
             PROVE  BatchHeld'
  OBVIOUS
<1> USE BoundAssumption DEF TypeOK, OffsetHeld, BatchHeld, window, history
<1>1. CASE Wake \/ Snapshot
  BY <1>1 DEF Wake, Snapshot
<1>2. CASE Read
  BY <1>2 DEF Read, ReadFrom
<1>3. ASSUME NEW h \in Hosts, Probe(h) PROVE BatchHeld'
  BY <1>3 DEF Probe
<1>4. CASE Update \/ Complete
  BY <1>4 DEF Update, Complete, CompleteAt
<1>5. CASE Fail
  <2>1. before <= offset
    BY <1>5 DEF Fail, FailTo, Fails
  <2>2. QED
    BY <1>5, <2>1 DEF Fail, FailTo
<1>6. ASSUME NEW x \in up \cup {Unusable}, Serve(x) PROVE BatchHeld'
  <2>1. Len(log') = Len(log) + 1
    BY <1>6 DEF Serve
  <2>2. QED
    BY <1>6, <2>1 DEF Serve
<1>7. ASSUME NEW h \in Hosts, HostDown(h) \/ HostUp(h) PROVE BatchHeld'
  BY <1>7 DEF HostDown, HostUp
<1>8. CASE Purge \/ Restart
  BY <1>8 DEF Purge, Restart
<1>9. CASE UNCHANGED vars
  BY <1>9 DEF vars
<1>10. QED
  BY <1>1, <1>2, <1>3, <1>4, <1>5, <1>6, <1>7, <1>8, <1>9
     DEF Next, Loop, Environment

LEMMA NextExactlyOnce ==
  TypeOK /\ OffsetHeld /\ BatchHeld /\ ExactlyOnce /\ [Next]_vars
     => ExactlyOnce'
<1> SUFFICES ASSUME TypeOK, OffsetHeld, BatchHeld, ExactlyOnce, [Next]_vars
             PROVE  ExactlyOnce'
  OBVIOUS
<1> USE DEF ExactlyOnce, window, history
<1>0. /\ before \in Nat /\ offset \in Nat /\ skipped \in Nat
      /\ Lines \subseteq Nat \ {0}
  BY BoundAssumption DEF TypeOK, Lines
<1>1. CASE UNCHANGED <<fed, skipped, Committed>>
  BY <1>1
<1>2. CASE Wake \/ Snapshot \/ Read
  BY <1>1, <1>2 DEF Wake, Snapshot, Read, ReadFrom, Committed
<1>3. ASSUME NEW h \in Hosts, Probe(h) PROVE ExactlyOnce'
  BY <1>1, <1>3 DEF Probe, Committed
<1>4. CASE Update
  BY <1>1, <1>4 DEF Update, Committed
<1>5. CASE Complete
  <2>1. Committed = before /\ Committed' = offset /\ skipped' = skipped
    BY <1>5 DEF Complete, CompleteAt, Committed
  <2>2. /\ batch = {i \in (before + 1)..offset : i > skipped}
        /\ before <= offset
    BY <1>5 DEF Complete, CompleteAt, OffsetHeld, BatchHeld
  <2>3. \A i \in Lines : fed'[i] = IF i \in batch THEN fed[i] + 1 ELSE fed[i]
    BY <1>5 DEF Complete, CompleteAt, Count, Plural
  <2>4. QED
    BY <1>0, <2>1, <2>2, <2>3
<1>6. CASE Fail
  <2>1. Committed = before /\ Committed' = before /\ fed' = fed
    BY <1>6 DEF Fail, FailTo, Fails, Committed
  <2>2. skipped' = IF skipped > before THEN before ELSE skipped
    BY <1>6 DEF Fail, FailTo
  <2>3. QED
    BY <1>0, <2>1, <2>2
<1>7. ASSUME NEW x \in up \cup {Unusable}, Serve(x) PROVE ExactlyOnce'
  BY <1>1, <1>7 DEF Serve, Committed
<1>8. ASSUME NEW h \in Hosts, HostDown(h) \/ HostUp(h) PROVE ExactlyOnce'
  BY <1>1, <1>8 DEF HostDown, HostUp, Committed
<1>9. CASE Purge
  <2>1. skipped' = offset /\ Committed' = Committed /\ fed' = Zero
    BY <1>9 DEF Purge, Committed
  <2>2. Committed <= offset
    BY <1>0 DEF TypeOK, Steps, OffsetHeld, Committed
  <2>3. Committed \in Nat
    BY <1>0 DEF Committed
  <2>4. QED
    BY <1>0, <2>1, <2>2, <2>3 DEF Zero
<1>10. CASE Restart
  BY <1>0, <1>10 DEF Restart, Zero, Committed
<1>11. CASE UNCHANGED vars
  BY <1>1, <1>11 DEF vars, Committed
<1>12. QED
  BY <1>2, <1>3, <1>4, <1>5, <1>6, <1>7, <1>8, <1>9, <1>10, <1>11
     DEF Next, Loop, Environment

(* Every line belongs to exactly one completed window, whatever fails and   *)
(* however often: the restored offset neither loses nor repeats a line, and *)
(* only a purge puts lines out of the loop's sight.                         *)
THEOREM LinesExactlyOnce == Spec => []ExactlyOnce
<1>1. Init => ExactlyOnce
  BY DEF Init, ExactlyOnce, Committed, Zero, Lines
<1>2. QED
  BY <1>1, InitType, NextType, InitOffsetHeld, NextOffsetHeld, InitBatchHeld,
     NextBatchHeld, NextExactlyOnce, PTL DEF Spec

-----------------------------------------------------------------------------
(* Why a line is folded once: whatever was folded is committed, or in the   *)
(* batch that is about to be, or its window's apply_weights has raised.     *)
FoldHeld ==
    \A i \in Lines :
        /\ i \in again \/ folded[i] <= 1
        /\ fed[i] <= folded[i] /\ fed[i] <= 1
        /\ folded[i] # 0 =>
              i <= Committed \/ i \in again \/ (pc = "apply" /\ i \in batch)
        /\ fed[i] # 0 => i <= Committed
        /\ pc = "apply" /\ i \in batch => folded[i] # 0

LEMMA InitFoldHeld == Init => FoldHeld
BY DEF Init, FoldHeld, Zero, Lines

LEMMA NextFoldHeld ==
  TypeOK /\ OffsetHeld /\ FoldHeld /\ [Next]_vars => FoldHeld'
<1> SUFFICES ASSUME TypeOK, OffsetHeld, FoldHeld, [Next]_vars PROVE FoldHeld'
  OBVIOUS
<1> USE DEF FoldHeld, window, history
<1>0. /\ before \in Nat /\ offset \in Nat /\ Lines \subseteq Nat \ {0}
      /\ \A i \in Lines : fed[i] \in 0..Plural /\ folded[i] \in 0..Plural
  BY BoundAssumption DEF TypeOK, Lines
<1>1. CASE Wake \/ Snapshot
  BY <1>1 DEF Wake, Snapshot, Committed
<1>2. CASE Read
  BY <1>2 DEF Read, ReadFrom, Committed
<1>3. ASSUME NEW h \in Hosts, Probe(h) PROVE FoldHeld'
  BY <1>3 DEF Probe, Committed
<1>4. CASE Update
  <2>1. Committed = before /\ Committed' = before
    BY <1>4 DEF Update, Committed
  <2>2. \A i \in Lines : i \in batch => i > before
    BY <1>0, <1>4 DEF Update, OffsetHeld
  <2>3. \A i \in Lines :
          folded'[i] = IF i \in batch /\ folded[i] < Plural
                       THEN folded[i] + 1 ELSE folded[i]
    BY <1>4 DEF Update, Count
  <2>4. \A i \in Lines :
          i \in batch => fed[i] = 0 /\ (i \in again \/ folded[i] = 0)
    BY <1>0, <1>4, <2>1, <2>2 DEF Update
  <2>5. /\ pc' = "apply" /\ batch' = batch /\ fed' = fed
        /\ again' = again /\ pc = "fill"
    BY <1>4 DEF Update
  <2>6. QED
    BY <1>0, <2>1, <2>3, <2>4, <2>5 DEF Plural
<1>5. CASE Complete
  <2>1. Committed = before /\ Committed' = offset /\ before <= offset
    BY <1>5 DEF Complete, CompleteAt, Committed, OffsetHeld
  <2>2. \A i \in Lines : i \in batch => i > before /\ i <= offset
    BY <1>0, <1>5 DEF Complete, CompleteAt, OffsetHeld
  <2>3. \A i \in Lines :
          fed'[i] = IF i \in batch /\ fed[i] < Plural
                    THEN fed[i] + 1 ELSE fed[i]
    BY <1>5 DEF Complete, CompleteAt, Count
  <2>4. \A i \in Lines : i \in batch => fed[i] = 0
    BY <1>0, <2>1, <2>2
  <2>5. pc' = "sleep" /\ pc = "apply" /\ folded' = folded /\ again' = again
    BY <1>5 DEF Complete, CompleteAt
  <2>6. QED
    BY <1>0, <2>1, <2>2, <2>3, <2>4, <2>5 DEF Plural
<1>6. CASE Fail
  <2>1. Committed = before /\ Committed' = before
    BY <1>6 DEF Fail, FailTo, Fails, Committed
  <2>2. /\ pc' # "apply" /\ fed' = fed /\ folded' = folded
        /\ again' = IF pc = "apply" THEN again \cup batch ELSE again
    BY <1>6 DEF Fail, FailTo
  <2>3. QED
    BY <2>1, <2>2
<1>7. ASSUME NEW x \in up \cup {Unusable}, Serve(x) PROVE FoldHeld'
  BY <1>7 DEF Serve, Committed
<1>8. ASSUME NEW h \in Hosts, HostDown(h) \/ HostUp(h) PROVE FoldHeld'
  BY <1>8 DEF HostDown, HostUp, Committed
<1>9. CASE Purge
  BY <1>9 DEF Purge, Zero
<1>10. CASE Restart
  BY <1>10 DEF Restart, Zero
<1>11. CASE UNCHANGED vars
  BY <1>11 DEF vars, Committed
<1>12. QED
  BY <1>1, <1>2, <1>3, <1>4, <1>5, <1>6, <1>7, <1>8, <1>9, <1>10, <1>11
     DEF Next, Loop, Environment

(* The algorithm learns from every line of a completed window, and from no  *)
(* line twice unless apply_weights raised right after it had.               *)
THEOREM LinesFoldedOnce == Spec => []FoldedOnce
<1>1. FoldHeld => FoldedOnce
  BY DEF FoldHeld, FoldedOnce
<1>2. QED
  BY <1>1, InitType, NextType, InitOffsetHeld, NextOffsetHeld, InitFoldHeld,
     NextFoldHeld, PTL DEF Spec

-----------------------------------------------------------------------------
(* The refinement: Complete closes a window, Serve logs a line, Purge and   *)
(* Restart are their namesakes, Fail may regain lines after a purge, and    *)
(* every other step leaves the abstract state alone.                        *)
LEMMA InitFeed == Init => Feed!Init
BY DEF Init, Feed!Init, Feed!Zero, Committed, Zero, Lines

LEMMA NextFeed ==
  TypeOK /\ OffsetHeld /\ BatchHeld /\ ExactlyOnce /\ [Next]_vars
     => [Feed!Next]_Feed!vars
<1> SUFFICES ASSUME TypeOK, OffsetHeld, BatchHeld, ExactlyOnce, [Next]_vars
             PROVE  Feed!Next \/ UNCHANGED Feed!vars
  BY DEF Feed!vars
<1> USE DEF window, history
<1>0. ASSUME UNCHANGED <<log, fed, skipped, Committed>>
      PROVE  UNCHANGED Feed!vars
  BY <1>0 DEF Feed!vars
<1>n. /\ before \in 0..MaxLines /\ offset \in 0..MaxLines
      /\ skipped \in 0..MaxLines /\ Committed \in 0..MaxLines
      /\ Lines \subseteq Nat /\ MaxLines \in Nat
  BY BoundAssumption DEF TypeOK, Lines, Committed
<1>1. CASE Wake \/ Snapshot \/ Read
  BY <1>0, <1>1 DEF Wake, Snapshot, Read, ReadFrom, Committed
<1>2. ASSUME NEW h \in Hosts, Probe(h) PROVE UNCHANGED Feed!vars
  BY <1>0, <1>2 DEF Probe, Committed
<1>3. CASE Update
  BY <1>0, <1>3 DEF Update, Committed
<1>4. CASE Complete
  <2>1. /\ Committed = before /\ Committed' = offset
        /\ batch = {i \in (before + 1)..offset : i > skipped}
        /\ before <= offset /\ (offset <= Len(log) \/ offset <= skipped)
        /\ log' = log /\ skipped' = skipped
    BY <1>4 DEF Complete, CompleteAt, Committed, OffsetHeld, BatchHeld
  <2>2. \A i \in Lines : i \in batch => fed[i] < Plural
    BY <1>n, <2>1 DEF ExactlyOnce, Plural
  <2>3. fed' = [i \in Lines |-> IF i \in batch THEN fed[i] + 1 ELSE fed[i]]
    BY <1>4, <2>2 DEF Complete, CompleteAt, Count
  <2>4. \A i \in Lines :
          i \in batch <=> Committed < i /\ skipped < i /\ i <= offset
    BY <1>n, <2>1
  <2>5. Feed!Close(offset)
    BY <1>n, <2>1, <2>3, <2>4 DEF Feed!Close, Lines
  <2>6. QED
    BY <1>n, <2>5 DEF Feed!Next
<1>5. CASE Fail
  <2>1. /\ Committed = before /\ Committed' = before
        /\ log' = log /\ fed' = fed
        /\ skipped' = IF skipped > before THEN before ELSE skipped
    BY <1>5 DEF Fail, FailTo, Fails, Committed
  <2>2. CASE skipped > before
    BY <2>1, <2>2 DEF Feed!Next, Feed!Regain
  <2>3. CASE ~(skipped > before)
    BY <1>0, <2>1, <2>3
  <2>4. QED
    BY <2>2, <2>3
<1>6. ASSUME NEW x \in up \cup {Unusable}, Serve(x) PROVE Feed!Next
  <2>1. Len(log') = Len(log) + 1 /\ Len(log) < MaxLines
    BY <1>6 DEF Serve, TypeOK
  <2>2. Committed' = Committed /\ fed' = fed /\ skipped' = skipped
    BY <1>6 DEF Serve, Committed
  <2>3. QED
    BY <2>1, <2>2 DEF Feed!Next, Feed!Log
<1>7. ASSUME NEW h \in Hosts, HostDown(h) \/ HostUp(h)
      PROVE  UNCHANGED Feed!vars
  BY <1>0, <1>7 DEF HostDown, HostUp, Committed
<1>8. CASE Purge
  <2>1. Len(log') = 0 /\ fed' = Zero /\ skipped' = offset
    BY <1>8 DEF Purge
  <2>2. Committed' = Committed
    BY <1>8 DEF Purge, Committed
  <2>3. offset \in Committed..MaxLines
    BY <1>n DEF TypeOK, Steps, OffsetHeld, Committed
  <2>4. QED
    BY <2>1, <2>2, <2>3 DEF Feed!Next, Feed!Purge, Feed!Zero, Zero, Lines
<1>9. CASE Restart
  BY <1>9 DEF Restart, Committed, Feed!Next, Feed!Restart, Feed!Zero, Zero,
     Lines
<1>10. CASE UNCHANGED vars
  BY <1>0, <1>10 DEF vars, Committed
<1>11. QED
  BY <1>1, <1>2, <1>3, <1>4, <1>5, <1>6, <1>7, <1>8, <1>9, <1>10
     DEF Next, Loop, Environment

(* The loop with its offset, retries, failing probes, purges and restarts   *)
(* implements the abstract feed, whose windows close over each line once    *)
(* and in order.                                                            *)
THEOREM ImplementsFeed == Spec => FeedSpec
<1>1. QED
  BY InitType, NextType, InitOffsetHeld, NextOffsetHeld, InitBatchHeld,
     NextBatchHeld, LinesExactlyOnce, InitFeed, NextFeed,
     PTL DEF Spec, FeedSpec, Feed!Spec
=============================================================================
