------------------------- MODULE ConfigWriterProofs -------------------------
(***************************************************************************)
(* ConfigWriter's properties, for any set of algorithms and vectors, any    *)
(* bounds, and purges that may reach any of the algorithms' files.  Each    *)
(* theorem says which faults it tolerates.                                  *)
(***************************************************************************)
EXTENDS ConfigWriter, FiniteSetTheorems, TLAPS

(* What a thread inside apply_weights holds: the vector it was called with, *)
(* and, once written, the same vector in the temporary file.  TypeOK is not *)
(* inductive without it.                                                    *)
CallHeld ==
    \A a \in Algos :
        /\ pc[a] # "idle" => call[a].weights \in Vectors
        /\ pc[a] = "replace" => tmp[a] = call[a].weights

TInv == TypeOK /\ CallHeld

LEMMA InitTInv == Init => TInv
<1> SUFFICES ASSUME Init PROVE TInv
  OBVIOUS
<1> USE DEF Init, Contents, Steps, Fresh, NoCall
<1>1. /\ Fresh \in [weights : Vectors \cup {NoWeights}, count : Nat]
      /\ NoCall \in [weights : Vectors \cup {NoWeights}, count : Nat,
                    changed : BOOLEAN]
  OBVIOUS
<1>2. <<>> \in Seq(Vectors)
  OBVIOUS
<1>3. TypeOK
  BY <1>1, <1>2 DEF TypeOK
<1>4. CallHeld
  BY DEF CallHeld
<1>5. QED
  BY <1>3, <1>4 DEF TInv

LEMMA NextTInv == TInv /\ [Next]_vars => TInv'
<1> SUFFICES ASSUME TInv, [Next]_vars PROVE TInv'
  OBVIOUS
<1> USE DEF TInv, TypeOK, CallHeld, Steps, files, threads, nginx, ghosts,
            purged
<1>0. /\ Fresh \in [weights : Vectors \cup {NoWeights}, count : Nat]
      /\ NoCall \in [weights : Vectors \cup {NoWeights}, count : Nat,
                    changed : BOOLEAN]
  BY DEF Fresh, NoCall
<1>1. ASSUME NEW a \in Algos, NEW w \in Vectors, Call(a, w) PROVE TInv'
  <2>1. PICK n \in Nat : Begin(a, w, n)
    <3>1. /\ state[a].count \in Nat
          /\ state[a].count + 1 \in Nat
      OBVIOUS
    <3>2. QED
      BY <1>1, <3>1 DEF Call
  <2>2. PICK c \in BOOLEAN, p \in {"open", "save"} :
          /\ call' = [call EXCEPT ![a] =
                        [weights |-> w, count |-> n, changed |-> c]]
          /\ pc' = [pc EXCEPT ![a] = p]
    BY <2>1, Zenon DEF Begin
  <2>3. [weights |-> w, count |-> n, changed |-> c]
          \in [weights : Vectors \cup {NoWeights}, count : Nat,
               changed : BOOLEAN]
    OBVIOUS
  <2>4. UNCHANGED <<files, nginx, ghosts>>
    BY <2>1 DEF Begin
  <2>5. QED
    BY <2>2, <2>3, <2>4
<1>2. ASSUME NEW a \in Algos, OpenTmp(a) PROVE TInv'
  BY <1>2 DEF OpenTmp, Contents
<1>3. ASSUME NEW a \in Algos, WriteTmp(a) PROVE TInv'
  BY <1>3 DEF WriteTmp, Contents
<1>4. ASSUME NEW a \in Algos, Replace(a) PROVE TInv'
  BY <1>4 DEF Replace, Contents
<1>5. ASSUME NEW a \in Algos, SignalReload(a) PROVE TInv'
  BY <1>5 DEF SignalReload, GiveUp
<1>6. ASSUME NEW a \in Algos, SaveState(a) PROVE TInv'
  BY <1>6 DEF SaveState
<1>7. ASSUME NEW a \in Algos, AppendHistory(a) PROVE TInv'
  BY <1>7, <1>0 DEF AppendHistory
<1>8. ASSUME NEW a \in Algos, Raise(a) PROVE TInv'
  BY <1>8, <1>0 DEF Raise, GiveUp, AbandonCalls
<1>9. ASSUME ReloadBegin PROVE TInv'
  BY <1>9 DEF ReloadBegin
<1>10. ASSUME NEW a \in Algos, ReadConf(a) PROVE TInv'
  BY <1>10 DEF ReadConf
<1>11. ASSUME ReloadCommit PROVE TInv'
  BY <1>11 DEF ReloadCommit
<1>12. ASSUME ReloadReject PROVE TInv'
  BY <1>12 DEF ReloadReject
<1>13. ASSUME Boot PROVE TInv'
  BY <1>13, <1>0 DEF Boot, AbandonCalls, Contents
<1>14. ASSUME UNCHANGED vars PROVE TInv'
  BY <1>14 DEF vars
<1>15. ASSUME NEW a \in Algos, PurgeState(a) PROVE TInv'
  BY <1>15, <1>0 DEF PurgeState
<1>16. ASSUME NEW a \in Algos, PurgeHistory(a) PROVE TInv'
  BY <1>16 DEF PurgeHistory
<1>17. QED
  BY <1>1, <1>2, <1>3, <1>4, <1>5, <1>6, <1>7, <1>8, <1>9, <1>10, <1>11,
     <1>12, <1>13, <1>14, <1>15, <1>16 DEF Next, Apply, Master, BoundReached

-----------------------------------------------------------------------------
(* The types hold in every reachable state, with every fault.               *)
THEOREM TypeCorrect == Spec => []TypeOK
<1>1. Init => TInv
  BY InitTInv
<1>2. TInv /\ [Next]_vars => TInv'
  BY NextTInv
<1>3. TInv => TypeOK
  BY DEF TInv
<1>4. QED
  BY <1>1, <1>2, <1>3, PTL DEF Spec

LEMMA TInvariant == Spec => []TInv
<1>1. QED
  BY InitTInv, NextTInv, PTL DEF Spec

-----------------------------------------------------------------------------
(* NeverTorn is inductive once it is known what a temporary file holds.     *)
LEMMA NextNeverTorn == TInv /\ NeverTorn /\ [Next]_vars => NeverTorn'
<1> SUFFICES ASSUME TInv, NeverTorn, [Next]_vars PROVE NeverTorn'
  OBVIOUS
<1> USE SentinelAssumption
    DEF TInv, TypeOK, CallHeld, NeverTorn, files, threads, nginx, ghosts,
        purged
<1>1. ASSUME NEW a \in Algos, NEW w \in Vectors, Call(a, w) PROVE NeverTorn'
  BY <1>1 DEF Call, Begin
<1>2. ASSUME NEW a \in Algos, OpenTmp(a) PROVE NeverTorn'
  BY <1>2 DEF OpenTmp
<1>3. ASSUME NEW a \in Algos, WriteTmp(a) PROVE NeverTorn'
  BY <1>3 DEF WriteTmp
<1>4. ASSUME NEW a \in Algos, Replace(a) PROVE NeverTorn'
  BY <1>4 DEF Replace
<1>5. ASSUME NEW a \in Algos, SignalReload(a) PROVE NeverTorn'
  BY <1>5 DEF SignalReload
<1>6. ASSUME NEW a \in Algos, SaveState(a) PROVE NeverTorn'
  BY <1>6 DEF SaveState
<1>7. ASSUME NEW a \in Algos, AppendHistory(a) PROVE NeverTorn'
  BY <1>7 DEF AppendHistory
<1>8. ASSUME NEW a \in Algos, Raise(a) PROVE NeverTorn'
  BY <1>8 DEF Raise
<1>9. ASSUME ReloadBegin PROVE NeverTorn'
  BY <1>9 DEF ReloadBegin
<1>10. ASSUME NEW a \in Algos, ReadConf(a) PROVE NeverTorn'
  BY <1>10 DEF ReadConf
<1>11. ASSUME ReloadCommit PROVE NeverTorn'
  BY <1>11 DEF ReloadCommit
<1>12. ASSUME ReloadReject PROVE NeverTorn'
  BY <1>12 DEF ReloadReject
<1>13. ASSUME Boot PROVE NeverTorn'
  BY <1>13 DEF Boot
<1>14. ASSUME UNCHANGED vars PROVE NeverTorn'
  BY <1>14 DEF vars
<1>15. ASSUME NEW a \in Algos, PurgeState(a) \/ PurgeHistory(a)
       PROVE  NeverTorn'
  BY <1>15 DEF PurgeState, PurgeHistory
<1>16. QED
  BY <1>1, <1>2, <1>3, <1>4, <1>5, <1>6, <1>7, <1>8, <1>9, <1>10, <1>11,
     <1>12, <1>13, <1>14, <1>15 DEF Next, Apply, Master, BoundReached

(* write_upstream_conf's rename keeps half-written files from every reload, *)
(* for any number of threads and with every fault.                          *)
THEOREM ReloadsWholeFiles == Spec => []NeverTorn
<1>1. Init => NeverTorn
  BY SentinelAssumption DEF Init, NeverTorn
<1>2. QED
  BY <1>1, TInvariant, NextNeverTorn, PTL DEF Spec

-----------------------------------------------------------------------------
(* What the count in memory is to the known one, step by step; that a       *)
(* changed vector is on disk before it is counted; and what a purge may     *)
(* have done to state.json meanwhile.                                       *)
Saved(a) == [weights |-> call[a].weights, count |-> call[a].count]

CountHeldOf(a) ==
    /\ state[a] = Fresh \/ state[a].count > 0
    /\ taken[a] # 0 => state[a] = Fresh /\ pc[a] \in Unsaved
    /\ pc[a] \in {"open", "write", "replace", "reload"} =>
          call[a].changed /\ call[a].count = Known(a) + 1
    /\ pc[a] = "reload" => conf[a] = call[a].weights
    /\ pc[a] = "save" =>
          IF call[a].changed
          THEN call[a].count = Known(a) + 1 /\ conf[a] = call[a].weights
          ELSE /\ call[a].count = Known(a) /\ Known(a) > 0
               /\ taken[a] = 0 => state[a].weights = call[a].weights
    /\ pc[a] = "append" =>
          \/ state[a] = Saved(a)
          \/ state[a] = Fresh /\ a \in uncounted

CountHeld == \A a \in Algos : CountHeldOf(a)

LEMMA InitCountHeld == Init => CountHeld
  BY DEF Init, CountHeld, CountHeldOf

(* What a call makes of its arguments, with a change and without.           *)
LEMMA CallSets ==
  ASSUME TInv, NEW a \in Algos, NEW w \in Vectors, Call(a, w)
  PROVE  /\ pc[a] = "idle"
         /\ call'[a].weights = w
         /\ \/ /\ state[a].weights # w
               /\ call'[a].changed /\ call'[a].count = state[a].count + 1
               /\ pc'[a] = "open"
            \/ /\ state[a].weights = w
               /\ ~call'[a].changed /\ call'[a].count = state[a].count
               /\ pc'[a] = "save"
         /\ \A b \in Algos \ {a} : call'[b] = call[b] /\ pc'[b] = pc[b]
         /\ UNCHANGED <<files, nginx, ghosts>>
<1> USE DEF TInv, TypeOK
<1>1. CASE state[a].weights # w
  <2>1. /\ call' = [call EXCEPT ![a] = [weights |-> w,
                                        count   |-> state[a].count + 1,
                                        changed |-> TRUE]]
        /\ pc' = [pc EXCEPT ![a] = "open"]
        /\ pc[a] = "idle"
        /\ UNCHANGED <<files, nginx, ghosts>>
    BY <1>1, Zenon DEF Call, Begin
  <2>2. QED
    BY <1>1, <2>1
<1>2. CASE state[a].weights = w
  <2>0. (state[a].weights # w) = FALSE
    BY <1>2
  <2>1. /\ call' = [call EXCEPT ![a] = [weights |-> w,
                                        count   |-> state[a].count,
                                        changed |-> FALSE]]
        /\ pc' = [pc EXCEPT ![a] = "save"]
        /\ pc[a] = "idle"
        /\ UNCHANGED <<files, nginx, ghosts>>
    BY <2>0, Zenon DEF Call, Begin
  <2>2. QED
    BY <1>2, <2>1
<1>3. QED
  BY <1>1, <1>2

LEMMA NextCountHeld == TInv /\ CountHeld /\ [Next]_vars => CountHeld'
<1> SUFFICES ASSUME TInv, CountHeld, [Next]_vars PROVE CountHeld'
  OBVIOUS
<1> USE DEF TInv, TypeOK, CallHeld, CountHeld, CountHeldOf, Known, Saved,
            Unsaved, files, threads, nginx, ghosts, purged
<1>0. /\ Fresh.weights = NoWeights /\ Fresh.count = 0
      /\ Fresh \in [weights : Vectors \cup {NoWeights}, count : Nat]
  BY DEF Fresh
<1>1. ASSUME NEW a \in Algos, NEW w \in Vectors, Call(a, w) PROVE CountHeld'
  <2>1. state[a].weights = w => state[a].count > 0
    BY <1>0, SentinelAssumption
  <2>2. /\ pc[a] = "idle" /\ taken[a] = 0
        /\ UNCHANGED <<state, conf, taken, uncounted>>
        /\ \A b \in Algos \ {a} : call'[b] = call[b] /\ pc'[b] = pc[b]
    BY <1>1, CallSets
  <2>3. call'[a].weights = w /\ Known(a) = state[a].count
    BY <1>1, <2>2, CallSets
  <2>4. \A b \in Algos \ {a} : CountHeldOf(b)'
    BY <2>2
  <2>5. CountHeldOf(a)'
    <3>1. CASE /\ call'[a].changed /\ call'[a].count = state[a].count + 1
               /\ pc'[a] = "open"
      BY <2>2, <2>3, <3>1
    <3>2. CASE /\ state[a].weights = w
               /\ ~call'[a].changed /\ call'[a].count = state[a].count
               /\ pc'[a] = "save"
      BY <2>1, <2>2, <2>3, <3>2
    <3>3. QED
      BY <1>1, <3>1, <3>2, CallSets
  <2>6. QED
    BY <2>4, <2>5
<1>2. ASSUME NEW a \in Algos, OpenTmp(a) PROVE CountHeld'
  BY <1>2 DEF OpenTmp
<1>3. ASSUME NEW a \in Algos, WriteTmp(a) PROVE CountHeld'
  BY <1>3 DEF WriteTmp
<1>4. ASSUME NEW a \in Algos, Replace(a) PROVE CountHeld'
  BY <1>4 DEF Replace
<1>5. ASSUME NEW a \in Algos, SignalReload(a) PROVE CountHeld'
  BY <1>5 DEF SignalReload
<1>6. ASSUME NEW a \in Algos, SaveState(a) PROVE CountHeld'
  BY <1>6 DEF SaveState
<1>7. ASSUME NEW a \in Algos, AppendHistory(a) PROVE CountHeld'
  BY <1>7 DEF AppendHistory
<1>8. ASSUME NEW a \in Algos, Raise(a) PROVE CountHeld'
  BY <1>8 DEF Raise, AbandonCalls
<1>9. CASE Master \/ ReloadReject
  BY <1>9 DEF Master, ReloadBegin, ReadConf, ReloadCommit, ReloadReject
<1>10. ASSUME Boot PROVE CountHeld'
  BY <1>10 DEF Boot, AbandonCalls
<1>11. ASSUME NEW a \in Algos, PurgeState(a) PROVE CountHeld'
  <2>1. CASE pc[a] \in Unsaved
    BY <1>0, <1>11, <2>1 DEF PurgeState
  <2>2. CASE pc[a] \notin Unsaved
    BY <1>0, <1>11, <2>2 DEF PurgeState
  <2>3. QED
    BY <2>1, <2>2
<1>12. ASSUME NEW a \in Algos, PurgeHistory(a) PROVE CountHeld'
  <2>1. /\ UNCHANGED <<state, call, pc, taken, conf>>
        /\ \A b \in Algos : b \in uncounted =>
              \/ b \in uncounted'
              \/ b = a /\ ~(pc[a] = "append" /\ state[a] = Fresh)
    BY <1>12 DEF PurgeHistory
  <2>2. QED
    BY <2>1
<1>13. ASSUME UNCHANGED vars PROVE CountHeld'
  BY <1>13 DEF vars
<1>14. QED
  BY <1>1, <1>2, <1>3, <1>4, <1>5, <1>6, <1>7, <1>8, <1>9, <1>10, <1>11,
     <1>12, <1>13 DEF Next, Apply, BoundReached

(* An algorithm whose file no purge has taken is known by that file.        *)
LEMMA Untaken ==
  ASSUME TInv, CountHeld, NEW a \in Algos
  PROVE  Known(a) = state[a].count \/ state[a] = Fresh
<1>1. taken[a] = 0 => Known(a) = state[a].count
  BY DEF Known, TInv, TypeOK
<1>2. QED
  BY <1>1 DEF CountHeld, CountHeldOf

LEMMA StepCounts == TInv /\ CountHeld /\ [Next]_vars => [CountStep]_state
<1> SUFFICES ASSUME TInv, CountHeld, [Next]_vars, state' # state
             PROVE  CountStep
  OBVIOUS
<1>1. ASSUME NEW a \in Algos, SaveState(a) PROVE CountStep
  <2>1. /\ state'[a] = Saved(a)
        /\ \/ call[a].count = Known(a)
           \/ call[a].count = Known(a) + 1 /\ conf[a] = call[a].weights
    BY <1>1 DEF SaveState, Saved, CountHeld, CountHeldOf, TInv, TypeOK
  <2>2. \A b \in Algos \ {a} : state'[b] = state[b]
    BY <1>1 DEF SaveState, TInv, TypeOK
  <2>3. QED
    BY <2>1, <2>2, Untaken DEF CountStep, Saved
<1>2. ASSUME NEW a \in Algos, PurgeState(a) PROVE CountStep
  <2>1. /\ state'[a] = Fresh
        /\ \A b \in Algos \ {a} : state'[b] = state[b]
    BY <1>2 DEF PurgeState, TInv, TypeOK
  <2>2. QED
    BY <2>1, Untaken DEF CountStep
<1>3. QED
  BY <1>1, <1>2 DEF Next, Apply, Master, Call, Begin, OpenTmp, WriteTmp,
     Replace, SignalReload, AppendHistory, Raise, PurgeHistory, ReloadBegin,
     ReadConf, ReloadCommit, ReloadReject, Boot, BoundReached, vars, files,
     threads, nginx, ghosts, purged

(* With every fault and a purge at any step: a purge starts the change      *)
(* count anew or, if a call has read it, changes nothing in the end; apart  *)
(* from that it moves one at a time and never ahead of the conf file.       *)
THEOREM CountFollowsDisk == Spec => CountedChangeOnDisk
<1>1. QED
  BY TInvariant, InitCountHeld, NextCountHeld, StepCounts, PTL
     DEF Spec, CountedChangeOnDisk

-----------------------------------------------------------------------------
(* The rows of a csv counted as changes, and what one more row adds.        *)
Changes(h) == Cardinality(ChangeRows(h))
Differs(h, w) == IF LastRow(h) = w THEN 0 ELSE 1

LEMMA ChangesType ==
  ASSUME NEW h \in Seq(Vectors)
  PROVE  IsFiniteSet(ChangeRows(h)) /\ Changes(h) \in Nat
<1>1. IsFiniteSet(1..Len(h))
  BY FS_Interval
<1>2. ChangeRows(h) \in SUBSET (1..Len(h))
  BY DEF ChangeRows
<1>3. QED
  BY <1>1, <1>2, FS_Subset, FS_CardinalityType DEF Changes

LEMMA ChangesAppend ==
  ASSUME NEW h \in Seq(Vectors), NEW w \in Vectors
  PROVE  /\ LastRow(Append(h, w)) = w
         /\ Changes(Append(h, w)) = Changes(h) + Differs(h, w)
<1> DEFINE g == Append(h, w)  n == Len(h)
<1>1. /\ g \in Seq(Vectors) /\ Len(g) = n + 1 /\ n \in Nat
      /\ g[n + 1] = w
      /\ \A i \in 1..n : g[i] = h[i]
      /\ g # <<>>
      /\ (h = <<>>) <=> (n = 0)
  OBVIOUS
<1>2. LastRow(g) = w
  BY <1>1 DEF LastRow
<1>3. \A i \in 1..n : i \in ChangeRows(g) <=> i \in ChangeRows(h)
  BY <1>1 DEF ChangeRows
<1>4. n + 1 \in ChangeRows(g) <=> LastRow(h) # w
  BY <1>1, SentinelAssumption DEF ChangeRows, LastRow
<1>5. ChangeRows(g) \subseteq 1..(n + 1) /\ ChangeRows(h) \subseteq 1..n
  BY <1>1 DEF ChangeRows
<1>6. CASE LastRow(h) = w
  <2>1. ChangeRows(g) = ChangeRows(h)
    <3>1. n + 1 \notin ChangeRows(g)
      BY <1>4, <1>6
    <3>2. ChangeRows(g) \subseteq 1..n
      BY <1>1, <1>5, <3>1
    <3>3. QED
      BY <1>3, <1>5, <3>2
  <2>2. QED
    BY <1>2, <1>6, <2>1, ChangesType DEF Changes, Differs
<1>7. CASE LastRow(h) # w
  <2>1. ChangeRows(g) = ChangeRows(h) \cup {n + 1}
    BY <1>1, <1>3, <1>4, <1>5, <1>7
  <2>2. n + 1 \notin ChangeRows(h)
    BY <1>1, <1>5
  <2>3. QED
    BY <1>2, <1>7, <2>1, <2>2, ChangesType, FS_AddElement
       DEF Changes, Differs
<1>8. QED
  BY <1>6, <1>7

LEMMA NoRows ==
  /\ Changes(<<>>) = 0
  /\ Differs(<<>>, NoWeights) = 0
  /\ \A w : Differs(<<>>, w) \in {0, 1}
<1>1. ChangeRows(<<>>) = {}
  BY DEF ChangeRows
<1>2. QED
  BY <1>1, FS_EmptySet DEF Changes, Differs, LastRow

(* HistoryWithinCount made inductive: a change that is saved and has no row *)
(* yet, or never will, is already in the count; so is the row of a call     *)
(* without a change, even if a purge has taken the state it compared with.  *)
RowsHeld(a) ==
    /\ Changes(history[a]) <= Known(a)
    /\ taken[a] = 0 =>
          Changes(history[a]) + Differs(history[a], state[a].weights) <= Known(a)
    /\ pc[a] = "save" /\ ~call[a].changed =>
          Changes(history[a]) + Differs(history[a], call[a].weights) <= Known(a)

HistoryHeld == \A a \in Algos : a \in uncounted \/ RowsHeld(a)

LEMMA RowsTypes ==
  ASSUME TInv, NEW a \in Algos
  PROVE  /\ Changes(history[a]) \in Nat
         /\ \A w : Differs(history[a], w) \in {0, 1}
         /\ state[a].count \in Nat /\ taken[a] \in Nat /\ call[a].count \in Nat
         /\ Known(a) = state[a].count + taken[a]
  BY ChangesType DEF TInv, TypeOK, Differs, Known

LEMMA InitHistoryHeld == Init => HistoryHeld
  BY NoRows DEF Init, HistoryHeld, RowsHeld, Known, Fresh

LEMMA NextHistoryHeld ==
  TInv /\ CountHeld /\ HistoryHeld /\ [Next]_vars => HistoryHeld'
<1> SUFFICES ASSUME TInv, CountHeld, HistoryHeld, [Next]_vars,
                    NEW b \in Algos, b \notin uncounted'
             PROVE  RowsHeld(b)'
  BY DEF HistoryHeld
<1>0. Fresh.weights = NoWeights /\ Fresh.count = 0
  BY DEF Fresh
<1>1. CASE UNCHANGED <<history[b], state[b], taken[b], uncounted, pc[b], call[b]>>
  BY <1>1 DEF HistoryHeld, RowsHeld, Known
<1>2. ASSUME NEW a \in Algos, NEW w \in Vectors, Call(a, w)
      PROVE  RowsHeld(b)'
  <2>1. UNCHANGED <<history, state, taken, uncounted>>
    BY <1>2, CallSets DEF files, ghosts, purged
  <2>2. CASE b # a
    BY <1>1, <1>2, <2>1, <2>2, CallSets
  <2>3. CASE b = a
    <3>1. RowsHeld(b) /\ taken[b] = 0
      BY <1>2, <2>1, <2>3, CallSets DEF HistoryHeld, CountHeld, CountHeldOf, Unsaved
    <3>2. QED
      BY <1>2, <2>1, <2>3, <3>1, CallSets DEF RowsHeld, Known
  <2>4. QED
    BY <2>2, <2>3
<1>3. ASSUME NEW a \in Algos, OpenTmp(a) \/ WriteTmp(a) \/ Replace(a)
                                \/ SignalReload(a)
      PROVE  RowsHeld(b)'
  <2>1. /\ UNCHANGED <<history, state, taken, uncounted, call>>
        /\ b # a => pc'[b] = pc[b]
        /\ pc[a] \in {"open", "write", "replace", "reload"}
    BY <1>3 DEF OpenTmp, WriteTmp, Replace, SignalReload, TInv, TypeOK, files,
                ghosts, purged
  <2>2. RowsHeld(b)
    BY <2>1 DEF HistoryHeld
  <2>3. QED
    BY <2>1, <2>2 DEF RowsHeld, Known, CountHeld, CountHeldOf
<1>4. ASSUME NEW a \in Algos, SaveState(a) PROVE RowsHeld(b)'
  <2>1. /\ UNCHANGED <<history, call, uncounted>>
        /\ pc[a] = "save"
        /\ b # a => UNCHANGED <<state[b], taken[b], pc[b]>>
        /\ state'[a] = Saved(a) /\ taken'[a] = 0 /\ pc'[a] = "append"
    BY <1>4 DEF SaveState, Saved, TInv, TypeOK
  <2>2. CASE b # a
    BY <1>1, <2>1, <2>2
  <2>3. CASE b = a
    <3>1. RowsHeld(b)
      BY <2>1 DEF HistoryHeld
    <3>2. Known(b)' = call[b].count /\ state'[b].weights = call[b].weights
      BY <2>1, <2>3, RowsTypes DEF Known, Saved
    <3>3. Changes(history[b]) + Differs(history[b], call[b].weights)
            <= call[b].count
      BY <2>1, <2>3, <3>1, RowsTypes DEF CountHeld, CountHeldOf, RowsHeld
    <3>4. QED
      BY <2>1, <2>3, <3>2, <3>3, RowsTypes DEF RowsHeld
  <2>4. QED
    BY <2>2, <2>3
<1>5. ASSUME NEW a \in Algos, AppendHistory(a) PROVE RowsHeld(b)'
  <2>1. /\ UNCHANGED <<state, taken, uncounted>>
        /\ pc[a] = "append" /\ pc'[a] = "idle"
        /\ b # a => UNCHANGED <<history[b], call[b], pc[b]>>
        /\ history'[a] = Append(history[a], call[a].weights)
    BY <1>5 DEF AppendHistory, ghosts, purged, TInv, TypeOK
  <2>2. CASE b # a
    BY <1>1, <2>1, <2>2
  <2>3. CASE b = a
    <3>1. RowsHeld(b)
      BY <2>1 DEF HistoryHeld
    <3>2. /\ state[b] = Saved(b) /\ taken[b] = 0
          /\ b \notin uncounted
      BY <2>1, <2>3 DEF CountHeld, CountHeldOf, Unsaved
    <3>3. /\ state[b].weights = call[b].weights
          /\ call[b].weights \in Vectors
          /\ history[b] \in Seq(Vectors)
      BY <2>1, <2>3, <3>2 DEF Saved, CallHeld, TInv, TypeOK
    <3>4. /\ LastRow(history'[b]) = state[b].weights
          /\ Changes(history'[b])
               = Changes(history[b]) + Differs(history[b], state[b].weights)
      <4>1. history'[b] = Append(history[b], call[b].weights)
        BY <2>1, <2>3
      <4>2. QED
        BY <3>3, <4>1, ChangesAppend
    <3>5. Differs(history'[b], state[b].weights) = 0
      BY <3>4 DEF Differs
    <3>6. Known(b)' = Known(b)
      BY <2>1 DEF Known
    <3>7. QED
      BY <2>1, <2>3, <3>1, <3>2, <3>4, <3>5, <3>6, RowsTypes DEF RowsHeld
  <2>4. QED
    BY <2>2, <2>3
<1>6. ASSUME NEW A \in SUBSET Algos, AbandonCalls(A),
             UNCHANGED <<state, history>>
      PROVE  RowsHeld(b)'
  <2>1. CASE b \notin A
    BY <1>6, <2>1 DEF AbandonCalls, HistoryHeld, RowsHeld, Known, TInv, TypeOK
  <2>2. CASE b \in A
    <3>1. /\ taken'[b] = 0 /\ pc'[b] = "idle" /\ b \notin uncounted
          /\ taken[b] = 0 \/ history[b] = <<>>
      BY <1>6, <2>2 DEF AbandonCalls
    <3>2. RowsHeld(b)
      BY <3>1 DEF HistoryHeld
    <3>3. CASE taken[b] = 0
      BY <1>6, <3>1, <3>2, <3>3 DEF RowsHeld, Known
    <3>4. CASE taken[b] # 0 /\ history[b] = <<>>
      <4>1. state[b] = Fresh
        BY <3>4 DEF CountHeld, CountHeldOf
      <4>2. QED
        BY <1>0, <1>6, <3>1, <3>4, <4>1, NoRows DEF RowsHeld, Known
    <3>5. QED
      BY <3>1, <3>3, <3>4
  <2>3. QED
    BY <2>1, <2>2
<1>7. ASSUME NEW a \in Algos, PurgeState(a) PROVE RowsHeld(b)'
  <2>1. /\ UNCHANGED <<history, call, pc>>
        /\ state[a] # Fresh /\ state'[a] = Fresh
        /\ b # a => state'[b] = state[b] /\ taken'[b] = taken[b]
        /\ b \notin uncounted
    BY <1>7 DEF PurgeState, threads, TInv, TypeOK
  <2>2. RowsHeld(b)
    BY <2>1 DEF HistoryHeld
  <2>3. CASE b # a
    BY <2>1, <2>2, <2>3 DEF RowsHeld, Known
  <2>4. CASE b = a /\ pc[a] \in Unsaved
    <3>1. taken[b] = 0 /\ taken'[b] = state[b].count /\ state[b].count > 0
      BY <1>7, <2>1, <2>4
         DEF PurgeState, CountHeld, CountHeldOf, TInv, TypeOK
    <3>2. Known(b)' = Known(b)
      BY <1>0, <2>1, <2>4, <3>1, RowsTypes DEF Known
    <3>3. QED
      BY <2>1, <2>2, <3>1, <3>2 DEF RowsHeld
  <2>5. CASE b = a /\ pc[a] \notin Unsaved
    <3>1. history[b] = <<>> /\ taken'[b] = 0
      BY <1>7, <2>1, <2>5 DEF PurgeState, CountHeld, CountHeldOf
    <3>2. QED
      BY <1>0, <2>1, <2>5, <3>1, NoRows DEF RowsHeld, Known, Unsaved
  <2>6. QED
    BY <2>3, <2>4, <2>5
<1>8. ASSUME NEW a \in Algos, PurgeHistory(a) PROVE RowsHeld(b)'
  <2>1. /\ UNCHANGED <<state, taken, pc, call>>
        /\ history'[a] = <<>>
        /\ b # a => history'[b] = history[b] /\ b \notin uncounted
        /\ b = a /\ b \in uncounted => ~(pc[b] = "append" /\ state[b] = Fresh)
    BY <1>8 DEF PurgeHistory, threads, TInv, TypeOK
  <2>2. CASE b # a
    BY <2>1, <2>2 DEF HistoryHeld, RowsHeld, Known
  <2>3. CASE b = a
    <3>1. state[b] = Fresh \/ Known(b) > 0
      BY RowsTypes DEF CountHeld, CountHeldOf
    <3>2. pc[b] = "save" /\ ~call[b].changed => Known(b) > 0
      BY DEF CountHeld, CountHeldOf
    <3>3. Known(b) \in Nat /\ Known(b)' = Known(b)
      BY <2>1, RowsTypes DEF Known
    <3>4. Differs(<<>>, state[b].weights) <= Known(b)
      BY <1>0, <3>1, <3>3, NoRows
    <3>5. QED
      BY <2>1, <2>3, <3>2, <3>3, <3>4, NoRows DEF RowsHeld
  <2>4. QED
    BY <2>2, <2>3
<1>9. CASE \E a \in Algos : Raise(a)
  BY <1>6, <1>9 DEF Raise
<1>10. CASE Boot
  BY <1>6, <1>10 DEF Boot
<1>11. CASE Master \/ ReloadReject \/ UNCHANGED vars
  BY <1>1, <1>11 DEF Master, ReloadBegin, ReadConf, ReloadCommit,
     ReloadReject, vars, files, threads, ghosts, purged
<1>12. QED
  BY <1>2, <1>3, <1>4, <1>5, <1>7, <1>8, <1>9, <1>10, <1>11
     DEF Next, Apply, BoundReached

(* The recount from weights.csv never exceeds state.json's counter, with    *)
(* every fault: the order _write_state, _append_weight_history, and a       *)
(* comparison with the saved weights, are what it rests on.  A purge under  *)
(* a call is made good by its _write_state; one that no call makes good     *)
(* leaves the count short until it, or another, has taken the csv too.      *)
THEOREM RecountIsBounded == Spec => []HistoryWithinCount
<1>1. HistoryHeld => HistoryWithinCount
  BY DEF HistoryHeld, RowsHeld, HistoryWithinCount, Changes
<1>2. QED
  BY <1>1, TInvariant, InitCountHeld, NextCountHeld, InitHistoryHeld,
     NextHistoryHeld, PTL DEF Spec

-----------------------------------------------------------------------------
(* RunningCurrent is inductive as it stands.                                *)
LEMMA NextRunningCurrent ==
  TInv /\ RunningCurrent /\ [Next]_vars => RunningCurrent'
<1> SUFFICES ASSUME TInv, RunningCurrent, [Next]_vars PROVE RunningCurrent'
  OBVIOUS
<1> USE DEF TInv, TypeOK, RunningCurrent, files, threads, nginx, ghosts, purged
<1>1. ASSUME NEW a \in Algos, NEW w \in Vectors, Call(a, w)
      PROVE  RunningCurrent'
  BY <1>1 DEF Call, Begin
<1>2. ASSUME NEW a \in Algos, OpenTmp(a) \/ WriteTmp(a) PROVE RunningCurrent'
  BY <1>2 DEF OpenTmp, WriteTmp
<1>3. ASSUME NEW a \in Algos, Replace(a) PROVE RunningCurrent'
  BY <1>3 DEF Replace
<1>4. ASSUME NEW a \in Algos, SignalReload(a) PROVE RunningCurrent'
  BY <1>4 DEF SignalReload, GiveUp
<1>5. ASSUME NEW a \in Algos, SaveState(a) PROVE RunningCurrent'
  BY <1>5 DEF SaveState
<1>6. ASSUME NEW a \in Algos, AppendHistory(a) PROVE RunningCurrent'
  BY <1>6 DEF AppendHistory
<1>7. ASSUME ReloadBegin PROVE RunningCurrent'
  BY <1>7 DEF ReloadBegin
<1>8. ASSUME NEW a \in Algos, ReadConf(a) PROVE RunningCurrent'
  BY <1>8 DEF ReadConf
<1>9. ASSUME ReloadCommit PROVE RunningCurrent'
  BY <1>9 DEF ReloadCommit
<1>10. ASSUME Boot PROVE RunningCurrent'
  BY <1>10 DEF Boot, AbandonCalls
<1>11. ASSUME UNCHANGED vars PROVE RunningCurrent'
  BY <1>11 DEF vars
<1>12. ASSUME NEW a \in Algos, Raise(a) PROVE RunningCurrent'
  BY <1>12 DEF Raise, AbandonCalls, GiveUp
<1>13. ASSUME ReloadReject PROVE RunningCurrent'
  BY <1>13 DEF ReloadReject
<1>14. ASSUME NEW a \in Algos, PurgeState(a) \/ PurgeHistory(a)
       PROVE  RunningCurrent'
  BY <1>14 DEF PurgeState, PurgeHistory
<1>15. QED
  BY <1>1, <1>2, <1>3, <1>4, <1>5, <1>6, <1>7, <1>8, <1>9, <1>10, <1>11,
     <1>12, <1>13, <1>14 DEF Next, Apply, Master, BoundReached

(* Reload signals that coalesce, confs that other threads rewrite while the *)
(* master reads, and reloads that fail cost no update more than the wait    *)
(* for the next load: with every fault, NGINX owes a reload or routes with  *)
(* what is on disk, or no signal has been sent since one was lost.          *)
THEOREM NoLostReload == Spec => []RunningCurrent
<1>1. Init => RunningCurrent
  BY DEF Init, RunningCurrent
<1>2. QED
  BY <1>1, TInvariant, NextRunningCurrent, PTL DEF Spec

-----------------------------------------------------------------------------
(* Between two calls the saved weights, if any, are those of the conf file, *)
(* and a call that has reached the reload or skipped it has its weights     *)
(* there; for an algorithm that is apart, only a change puts them there.    *)
DiskHeldOf(a) ==
    /\ pc[a] \in {"idle", "open", "write", "replace"} =>
          a \in apart \/ state[a].weights \in {NoWeights, conf[a]}
    /\ pc[a] = "reload" => conf[a] = call[a].weights
    /\ pc[a] = "save" =>
          \/ conf[a] = call[a].weights
          \/ a \in apart /\ ~call[a].changed
    /\ pc[a] = "append" => a \in apart \/ conf[a] = call[a].weights

DiskHeld == \A a \in Algos : DiskHeldOf(a)

LEMMA NextDiskHeld == TInv /\ CountHeld /\ DiskHeld /\ [Next]_vars => DiskHeld'
<1> SUFFICES ASSUME TInv, CountHeld, DiskHeld, [Next]_vars PROVE DiskHeld'
  OBVIOUS
<1> USE DEF TInv, TypeOK, CallHeld, CountHeld, CountHeldOf, DiskHeld,
            DiskHeldOf, Saved, Steps, Unsaved, files, threads, nginx, ghosts, purged
<1>0. /\ Fresh.weights = NoWeights
      /\ Fresh \in [weights : Vectors \cup {NoWeights}, count : Nat]
  BY DEF Fresh
<1>1. ASSUME NEW a \in Algos, NEW w \in Vectors, Call(a, w) PROVE DiskHeld'
  <2>1. /\ pc[a] = "idle" /\ w # NoWeights
        /\ UNCHANGED <<state, conf, apart>>
    BY <1>1, CallSets, SentinelAssumption
  <2>2. \A b \in Algos \ {a} : DiskHeldOf(b)'
    BY <1>1, <2>1, CallSets
  <2>3. DiskHeldOf(a)'
    BY <1>1, <2>1, CallSets
  <2>4. QED
    BY <2>2, <2>3
<1>2. ASSUME NEW a \in Algos, OpenTmp(a) PROVE DiskHeld'
  BY <1>2 DEF OpenTmp
<1>3. ASSUME NEW a \in Algos, WriteTmp(a) PROVE DiskHeld'
  BY <1>3 DEF WriteTmp
<1>4. ASSUME NEW a \in Algos, Replace(a) PROVE DiskHeld'
  BY <1>4 DEF Replace
<1>5. ASSUME NEW a \in Algos, SignalReload(a) PROVE DiskHeld'
  BY <1>5 DEF SignalReload
<1>6. ASSUME NEW a \in Algos, SaveState(a) PROVE DiskHeld'
  BY <1>6 DEF SaveState
<1>7. ASSUME NEW a \in Algos, AppendHistory(a) PROVE DiskHeld'
  BY <1>0, <1>7 DEF AppendHistory
<1>8. ASSUME NEW a \in Algos, Raise(a) PROVE DiskHeld'
  BY <1>0, <1>8 DEF Raise, AbandonCalls
<1>9. ASSUME Boot PROVE DiskHeld'
  BY <1>9 DEF Boot, AbandonCalls
<1>10. CASE Master \/ ReloadReject
  BY <1>10 DEF Master, ReloadBegin, ReadConf, ReloadCommit, ReloadReject
<1>11. CASE UNCHANGED vars
  BY <1>11 DEF vars
<1>12. ASSUME NEW a \in Algos, PurgeState(a) PROVE DiskHeld'
  BY <1>0, <1>12 DEF PurgeState
<1>13. ASSUME NEW a \in Algos, PurgeHistory(a) PROVE DiskHeld'
  BY <1>13 DEF PurgeHistory
<1>14. QED
  BY <1>1, <1>2, <1>3, <1>4, <1>5, <1>6, <1>7, <1>8, <1>9, <1>10, <1>11,
     <1>12, <1>13 DEF Next, Apply, BoundReached

LEMMA StepRows ==
  TInv /\ DiskHeld /\ [Next]_vars => [RowStep]_vars
<1> SUFFICES ASSUME TInv, DiskHeld, [Next]_vars PROVE RowStep
  OBVIOUS
<1>1. CASE history' = history
  BY <1>1 DEF RowStep
<1>2. ASSUME NEW a \in Algos, AppendHistory(a) PROVE RowStep
  <2>1. /\ history'[a] = Append(history[a], call[a].weights)
        /\ call[a].weights \in Vectors
        /\ history[a] \in Seq(Vectors)
        /\ a \in apart \/ conf[a] = call[a].weights
    BY <1>2 DEF AppendHistory, DiskHeld, DiskHeldOf, TInv, TypeOK, CallHeld
  <2>2. a \in apart \/ LastRow(history'[a]) = conf[a]
    BY <2>1, ChangesAppend
  <2>3. \A b \in Algos \ {a} : history'[b] = history[b]
    BY <1>2 DEF AppendHistory, TInv, TypeOK
  <2>4. QED
    BY <2>2, <2>3 DEF RowStep
<1>3. ASSUME NEW a \in Algos, PurgeHistory(a) PROVE RowStep
  <2>1. /\ history'[a] = <<>>
        /\ \A b \in Algos \ {a} : history'[b] = history[b]
        /\ \A b \in Algos : Len(history[b]) \in Nat
    BY <1>3 DEF PurgeHistory, TInv, TypeOK
  <2>2. Len(<<>>) = 0
    OBVIOUS
  <2>3. QED
    BY <2>1, <2>2 DEF RowStep
<1>4. QED
  BY <1>1, <1>2, <1>3 DEF Next, Apply, Master, Call, Begin, OpenTmp, WriteTmp,
     Replace, SignalReload, SaveState, Raise, PurgeState, ReloadBegin, ReadConf,
     ReloadCommit, ReloadReject, Boot, BoundReached, vars, files, threads,
     nginx, ghosts, purged

(* A row of weights.csv is the content of the conf file at the moment it is *)
(* appended, with every fault and whatever a purge takes: except between a  *)
(* call that raised half-way, or a restart, and the next change that is     *)
(* saved.                                                                   *)
THEOREM RowsAreOnDisk == Spec => RowIsOnDisk
<1>1. Init => DiskHeld
  BY DEF Init, DiskHeld, DiskHeldOf, Fresh
<1>2. QED
  BY <1>1, TInvariant, InitCountHeld, NextCountHeld, NextDiskHeld, StepRows,
     PTL DEF Spec, RowIsOnDisk
=============================================================================
