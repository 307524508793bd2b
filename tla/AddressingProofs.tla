-------------------------- MODULE AddressingProofs --------------------------
(***************************************************************************)
(* Addressing's properties, for any hosts, addresses, threads and bounds.   *)
(***************************************************************************)
EXTENDS Addressing, FiniteSetTheorems, TLAPS

LEMMA InitType == Init => TypeOK
<1> SUFFICES ASSUME Init PROVE TypeOK
  OBVIOUS
<1>1. 1 \in Hosts /\ 0 \in 0..MaxMoves
  BY AddressingAssumption DEF Hosts
<1>2. Unmapped \in Maps
  BY DEF Unmapped, Maps
<1>3. QED
  BY <1>1, <1>2 DEF Init, TypeOK, Steps

LEMMA NextType == TypeOK /\ [Next]_vars => TypeOK'
<1> SUFFICES ASSUME TypeOK, [Next]_vars PROVE TypeOK'
  OBVIOUS
<1> USE AddressingAssumption DEF TypeOK, Steps, Outside, Goto
<1>1. ASSUME NEW h \in Hosts, NEW x \in Addresses \cup {None}, Move(h, x)
      PROVE  TypeOK'
  <2>1. moves' \in 0..MaxMoves
    BY <1>1 DEF Move
  <2>2. QED
    BY <1>1, <2>1 DEF Move
<1>2. ASSUME NEW h \in Hosts, NEW k \in Hosts, Serve(h, k) PROVE TypeOK'
  BY <1>2 DEF Serve
<1>3. ASSUME NEW t \in Threads, Wake(t) PROVE TypeOK'
  BY <1>3 DEF Wake
<1>4. ASSUME NEW t \in Threads, Resolve(t) PROVE TypeOK'
  <2>1. next[t] \in Hosts /\ (next[t] % N) + 1 \in Hosts
    BY DEF Hosts
  <2>2. mapping' \in [Threads -> Maps]
    BY <1>4, <2>1 DEF Resolve, Maps
  <2>3. next' \in [Threads -> Hosts]
    BY <1>4, <2>1 DEF Resolve
  <2>4. QED
    BY <1>4, <2>2, <2>3 DEF Resolve
<1>5. ASSUME NEW t \in Threads, OpenTmp(t) \/ WriteTmp(t) PROVE TypeOK'
  BY <1>5 DEF OpenTmp, WriteTmp, Put, Tmp
<1>6. ASSUME NEW t \in Threads, Replace(t) \/ ReplaceRaises(t) PROVE TypeOK'
  <2>1. Unmapped \in Maps
    BY DEF Unmapped, Maps
  <2>2. QED
    BY <1>6, <2>1 DEF Replace, ReplaceRaises, Tmp
<1>7. ASSUME NEW t \in Threads, Read(t) PROVE TypeOK'
  <2>1. \A l \in log : l \in Line /\ l.first \in Addresses
    BY DEF Line
  <2>2. \A l \in Named(t) : l \in Line /\ mapping[t][l.first] \in Hosts
    BY <2>1 DEF Named, Maps
  <2>3. observed' \in [Threads -> SUBSET [line : Line, host : Hosts]]
    BY <1>7, <2>2 DEF Read, ReadLines
  <2>4. QED
    BY <1>7, <2>3 DEF Read, ReadLines
<1>8. ASSUME NEW t \in Threads, NEW changed \in BOOLEAN, Apply(t, changed)
      PROVE  TypeOK'
  <2>1. used' \in [Hosts -> Addresses]
    <3>1. CASE used' = used
      BY <3>1
    <3>2. CASE used' # used
      <4>1. used' = addr /\ \A h \in Hosts : addr[h] # None
        BY <1>8, <3>2 DEF Apply
      <4>2. QED
        BY <4>1
    <3>3. QED
      BY <3>1, <3>2
  <2>2. Unmapped \in Maps
    BY DEF Unmapped, Maps
  <2>3. QED
    BY <1>8, <2>1, <2>2 DEF Apply
<1>9. ASSUME NEW f \in Threads \cup {Snapshot}, Purge(f) \/ PurgeLogs
      PROVE  TypeOK'
  BY <1>9 DEF Purge, PurgeLogs
<1>10. CASE UNCHANGED vars
  BY <1>10 DEF vars
<1>11. QED
  BY <1>1, <1>2, <1>3, <1>4, <1>5, <1>6, <1>7, <1>8, <1>9, <1>10
     DEF Next, Window

(* The types hold in every reachable state; among them, that NGINX never    *)
(* keeps a name that has not resolved.                                      *)
THEOREM TypeCorrect == Spec => []TypeOK
<1>1. QED
  BY InitType, NextType, PTL DEF Spec

-----------------------------------------------------------------------------
(* A temporary file is its own thread's: there from its open to its rename, *)
(* unless a purge has taken it, whole from its write on, and so whole under *)
(* the name it is renamed to.                                               *)
OpenFiles ==
    \A t \in Threads :
        IF pc[t] \in {"write", "replace"} THEN file[t] = None <=> t \in taken
                                         ELSE t \notin taken

FilesHeld == OpenFiles /\ OwnTmpFile /\ SnapshotWhole

LEMMA InitFilesHeld == Init => FilesHeld
BY DistinctAssumption DEF Init, FilesHeld, OpenFiles, OwnTmpFile, SnapshotWhole

LEMMA NextFilesHeld == TypeOK /\ FilesHeld /\ [Next]_vars => FilesHeld'
<1> SUFFICES ASSUME TypeOK, FilesHeld, [Next]_vars PROVE FilesHeld'
  OBVIOUS
<1> USE DistinctAssumption
    DEF TypeOK, FilesHeld, OpenFiles, OwnTmpFile, SnapshotWhole, Tmp, Outside,
        Goto
<1>1. ASSUME NEW h \in Hosts, NEW x \in Addresses \cup {None}, Move(h, x)
      PROVE  FilesHeld'
  BY <1>1 DEF Move
<1>2. ASSUME NEW h \in Hosts, NEW k \in Hosts, Serve(h, k) PROVE FilesHeld'
  BY <1>2 DEF Serve
<1>3. ASSUME NEW t \in Threads, Wake(t) \/ Resolve(t) PROVE FilesHeld'
  BY <1>3 DEF Wake, Resolve
<1>4. ASSUME NEW t \in Threads, OpenTmp(t) \/ WriteTmp(t) PROVE FilesHeld'
  BY <1>4 DEF OpenTmp, WriteTmp, Put
<1>5. ASSUME NEW t \in Threads, Replace(t) PROVE FilesHeld'
  <2>1. file[t] \in Maps /\ t \notin taken
    BY <1>5 DEF Replace
  <2>2. QED
    BY <1>5, <2>1 DEF Replace
<1>6. ASSUME NEW t \in Threads, Read(t) PROVE FilesHeld'
  BY <1>6 DEF Read, ReadLines
<1>7. ASSUME NEW t \in Threads, NEW changed \in BOOLEAN, Apply(t, changed)
      PROVE  FilesHeld'
  BY <1>7 DEF Apply
<1>8. ASSUME NEW t \in Threads, ReplaceRaises(t) PROVE FilesHeld'
  BY <1>8 DEF ReplaceRaises
<1>9. ASSUME NEW f \in Threads \cup {Snapshot}, Purge(f) PROVE FilesHeld'
  BY <1>9 DEF Purge
<1>10. CASE PurgeLogs \/ UNCHANGED vars
  BY <1>10 DEF PurgeLogs, vars
<1>11. QED
  BY <1>1, <1>2, <1>3, <1>4, <1>5, <1>6, <1>7, <1>8, <1>9, <1>10
     DEF Next, Window

(* No thread can take another's temporary file: what it renames is what it  *)
(* wrote, and only a purge leaves it without one.                           *)
THEOREM TmpFilesAreOwn == Spec => []OwnTmpFile
<1>1. FilesHeld => OwnTmpFile
  BY DEF FilesHeld
<1>2. QED
  BY <1>1, TypeCorrect, InitFilesHeld, NextFilesHeld, PTL DEF Spec

(* The snapshot is never a file that is still being written.                *)
THEOREM SnapshotsAreWhole == Spec => []SnapshotWhole
<1>1. FilesHeld => SnapshotWhole
  BY DEF FilesHeld
<1>2. QED
  BY <1>1, TypeCorrect, InitFilesHeld, NextFilesHeld, PTL DEF Spec

-----------------------------------------------------------------------------
(* Every answer and every mapping, in memory or in a file, is from a time   *)
(* at which the address was that backend's.                                 *)
Earned(mp) == \A x \in Addresses : mp[x] # None => mp[x] \in owners[x]
EarnedLine(l) == l.only => l.by \in owners[l.first]

OwnersHeld ==
    /\ \A h \in Hosts : addr[h] # None => h \in owners[addr[h]]
    /\ \A l \in log : EarnedLine(l)
    /\ \A t \in Threads : Earned(mapping[t])
    /\ \A f \in Threads \cup {Snapshot} : file[f] \in Maps => Earned(file[f])
    /\ \A t \in Threads : \A o \in observed[t] :
          /\ o.line.only /\ EarnedLine(o.line)
          /\ o.host \in owners[o.line.first]

LEMMA UnmappedEarned == Earned(Unmapped)
BY DEF Earned, Unmapped

LEMMA InitOwnersHeld == Init => OwnersHeld
BY DistinctAssumption, UnmappedEarned DEF Init, OwnersHeld

LEMMA NextOwnersHeld == TypeOK /\ OwnersHeld /\ [Next]_vars => OwnersHeld'
<1> SUFFICES ASSUME TypeOK, OwnersHeld, [Next]_vars PROVE OwnersHeld'
  OBVIOUS
<1> USE DEF Outside, Goto
<1>1. ASSUME NEW h \in Hosts, NEW x \in Addresses \cup {None}, Move(h, x)
      PROVE  OwnersHeld'
  <2>1. /\ \A y \in Addresses : owners[y] \subseteq owners'[y]
        /\ x \in Addresses => h \in owners'[x]
        /\ addr' = [addr EXCEPT ![h] = x]
        /\ UNCHANGED <<log, file, mapping, observed>>
    BY <1>1 DEF Move, TypeOK
  <2>2. \A g \in Hosts : addr'[g] # None => g \in owners'[addr'[g]]
    BY <2>1 DEF OwnersHeld, TypeOK
  <2>3. \A l \in log : EarnedLine(l)'
    BY <2>1 DEF OwnersHeld, TypeOK, EarnedLine, Line
  <2>4. \A t \in Threads : Earned(mapping[t])'
    BY <2>1 DEF OwnersHeld, TypeOK, Earned
  <2>5. \A f \in Threads \cup {Snapshot} : file[f] \in Maps => Earned(file[f])'
    BY <2>1 DEF OwnersHeld, TypeOK, Earned
  <2>6. ASSUME NEW t \in Threads, NEW o \in observed[t]
        PROVE  /\ o.line.only /\ EarnedLine(o.line)'
               /\ o.host \in owners'[o.line.first]
    <3>1. o.line \in Line /\ o.line.first \in Addresses
      BY <2>6 DEF TypeOK, Line
    <3>2. QED
      BY <2>1, <2>6, <3>1 DEF OwnersHeld, EarnedLine
  <2>7. QED
    BY <2>1, <2>2, <2>3, <2>4, <2>5, <2>6 DEF OwnersHeld
<1>2. ASSUME NEW h \in Hosts, NEW k \in Hosts, Serve(h, k) PROVE OwnersHeld'
  <2>1. PICK line \in Line :
          /\ line.first = used[h]
          /\ line.only = (Answers(used[h]) # None)
          /\ line.by = IF line.only THEN Answers(used[h])
                       ELSE Answers(used[k])
          /\ log' = log \cup {line}
    BY <1>2 DEF Serve
  <2>2. ASSUME line.only PROVE line.by \in owners[line.first]
    <3>1. \E g \in Hosts : addr[g] = used[h]
      BY <2>1, <2>2 DEF Answers
    <3>2. line.by \in Hosts /\ addr[line.by] = used[h]
      BY <2>1, <2>2, <3>1 DEF Answers
    <3>3. used[h] # None
      BY AddressingAssumption DEF TypeOK
    <3>4. QED
      BY <2>1, <3>2, <3>3 DEF OwnersHeld
  <2>3. UNCHANGED <<addr, owners, file, mapping, observed>>
    BY <1>2 DEF Serve
  <2>4. QED
    BY <2>1, <2>2, <2>3 DEF OwnersHeld, Earned, EarnedLine
<1>3. ASSUME NEW t \in Threads, Wake(t) PROVE OwnersHeld'
  BY <1>3 DEF Wake, OwnersHeld, Earned, EarnedLine
<1>4. ASSUME NEW t \in Threads, Resolve(t) PROVE OwnersHeld'
  <2>1. next[t] \in Hosts
    BY DEF TypeOK
  <2>2. UNCHANGED <<addr, owners, log, file, observed>>
    BY <1>4 DEF Resolve
  <2>3. \A u \in Threads : Earned(mapping'[u])
    <3>1. CASE addr[next[t]] = None
      BY <1>4, <3>1 DEF Resolve, OwnersHeld
    <3>2. CASE addr[next[t]] # None
      <4>1. /\ mapping' = [mapping EXCEPT ![t][addr[next[t]]] = next[t]]
            /\ next[t] \in owners[addr[next[t]]]
        BY <1>4, <2>1, <3>2 DEF Resolve, OwnersHeld
      <4>2. ASSUME NEW u \in Threads, NEW x \in Addresses,
                   mapping'[u][x] # None
            PROVE  mapping'[u][x] \in owners[x]
        BY <4>1, <4>2 DEF OwnersHeld, Earned, TypeOK, Maps
      <4>3. QED
        BY <4>2 DEF Earned
    <3>3. QED
      BY <3>1, <3>2
  <2>4. QED
    BY <2>2, <2>3 DEF OwnersHeld, Earned, EarnedLine
<1>5. ASSUME NEW t \in Threads, OpenTmp(t) \/ WriteTmp(t) PROVE OwnersHeld'
  <2>1. PICK content \in {Torn, None, mapping[t]} :
          file' = [file EXCEPT ![t] = content]
    BY <1>5 DEF OpenTmp, WriteTmp, Put, Tmp
  <2>2. UNCHANGED <<addr, owners, log, mapping, observed>>
    BY <1>5 DEF OpenTmp, WriteTmp, Put
  <2>3. content \in Maps => Earned(content)
    BY <2>1, DistinctAssumption DEF OwnersHeld
  <2>4. \A f \in Threads \cup {Snapshot} : file'[f] \in Maps => Earned(file'[f])
    BY <2>1, <2>3 DEF OwnersHeld, TypeOK
  <2>5. QED
    BY <2>2, <2>4 DEF OwnersHeld, Earned, EarnedLine
<1>6. ASSUME NEW t \in Threads, Replace(t) PROVE OwnersHeld'
  <2>1. /\ file' = [file EXCEPT ![Snapshot] = file[t], ![t] = None]
        /\ UNCHANGED <<addr, owners, log, mapping, observed>>
    BY <1>6 DEF Replace, Tmp
  <2>2. \A f \in Threads \cup {Snapshot} : file'[f] \in Maps => Earned(file'[f])
    BY <2>1, DistinctAssumption DEF OwnersHeld, TypeOK
  <2>3. QED
    BY <2>1, <2>2 DEF OwnersHeld, Earned, EarnedLine
<1>7. ASSUME NEW t \in Threads, Read(t) PROVE OwnersHeld'
  <2>1. UNCHANGED <<addr, owners, log, file, mapping>>
    BY <1>7 DEF Read, ReadLines
  <2>2. observed' = [observed EXCEPT ![t] =
          {[line |-> l, host |-> mapping[t][l.first]] :
              l \in {l \in Named(t) : l.only}}]
    BY <1>7 DEF Read, ReadLines
  <2>3. ASSUME NEW u \in Threads, NEW o \in observed'[u]
        PROVE  /\ o.line.only /\ EarnedLine(o.line)
               /\ o.host \in owners[o.line.first]
    <3>1. CASE u # t
      BY <2>2, <2>3, <3>1 DEF OwnersHeld, TypeOK
    <3>2. CASE u = t
      <4>1. PICK l \in Named(t) :
              l.only /\ o = [line |-> l, host |-> mapping[t][l.first]]
        BY <2>2, <2>3, <3>2 DEF TypeOK
      <4>2. l \in log /\ l.first \in Addresses /\ mapping[t][l.first] # None
        BY DEF Named, TypeOK, Line
      <4>3. QED
        BY <4>1, <4>2 DEF OwnersHeld, Earned
    <3>3. QED
      BY <3>1, <3>2
  <2>4. QED
    BY <2>1, <2>3 DEF OwnersHeld, Earned, EarnedLine
<1>8. ASSUME NEW t \in Threads, NEW changed \in BOOLEAN, Apply(t, changed)
      PROVE  OwnersHeld'
  <2>1. /\ observed' = [observed EXCEPT ![t] = {}]
        /\ mapping' = [mapping EXCEPT ![t] = Unmapped]
        /\ UNCHANGED <<addr, owners, log, file>>
    BY <1>8 DEF Apply
  <2>2. \A u \in Threads : Earned(mapping'[u])
    BY <2>1, UnmappedEarned DEF OwnersHeld, TypeOK
  <2>3. \A u \in Threads : observed'[u] \subseteq observed[u]
    BY <2>1 DEF TypeOK
  <2>4. QED
    BY <2>1, <2>2, <2>3 DEF OwnersHeld, Earned, EarnedLine
<1>9. ASSUME NEW t \in Threads, ReplaceRaises(t) PROVE OwnersHeld'
  <2>1. /\ mapping' = [mapping EXCEPT ![t] = Unmapped]
        /\ UNCHANGED <<addr, owners, log, file, observed>>
    BY <1>9 DEF ReplaceRaises
  <2>2. \A u \in Threads : Earned(mapping'[u])
    BY <2>1, UnmappedEarned DEF OwnersHeld, TypeOK
  <2>3. QED
    BY <2>1, <2>2 DEF OwnersHeld, Earned, EarnedLine
<1>10. ASSUME NEW f \in Threads \cup {Snapshot}, Purge(f) PROVE OwnersHeld'
  <2>1. /\ file' = [file EXCEPT ![f] = None]
        /\ UNCHANGED <<addr, owners, log, mapping, observed>>
    BY <1>10 DEF Purge
  <2>2. \A g \in Threads \cup {Snapshot} : file'[g] \in Maps => Earned(file'[g])
    BY <2>1, DistinctAssumption DEF OwnersHeld, TypeOK
  <2>3. QED
    BY <2>1, <2>2 DEF OwnersHeld, Earned, EarnedLine
<1>11. CASE PurgeLogs
  BY <1>11 DEF PurgeLogs, OwnersHeld, Earned, EarnedLine
<1>12. CASE UNCHANGED vars
  BY <1>12 DEF vars, OwnersHeld, Earned, EarnedLine
<1>13. QED
  BY <1>1, <1>2, <1>3, <1>4, <1>5, <1>6, <1>7, <1>8, <1>9, <1>10, <1>11, <1>12
     DEF Next, Window

(* Two owners are more than one.                                            *)
LEMMA TwoOwners ==
  ASSUME NEW S, S \subseteq Hosts, NEW g \in S, NEW h \in S, g # h
  PROVE  Cardinality(S) > 1
<1>1. IsFiniteSet(Hosts)
  BY FS_Interval, AddressingAssumption DEF Hosts
<1>2. IsFiniteSet(S) /\ Cardinality(S) \in Nat
  BY <1>1, FS_Subset, FS_CardinalityType
<1>3. IsFiniteSet(S \ {g}) /\ Cardinality(S \ {g}) = Cardinality(S) - 1
  BY <1>2, FS_RemoveElement
<1>4. Cardinality(S \ {g}) \in Nat /\ Cardinality(S \ {g}) # 0
  BY <1>3, FS_CardinalityType, FS_EmptySet
<1>5. QED
  BY <1>2, <1>3, <1>4

(* A time is put down to the backend that took it, by windows and by the    *)
(* analysis, unless the address has been two backends'.                     *)
THEOREM AttributionIsRight == Spec => []AttributedRight
<1>1. TypeOK /\ OwnersHeld => AttributedRight
  <2> SUFFICES ASSUME TypeOK, OwnersHeld PROVE AttributedRight
    OBVIOUS
  <2>1. ASSUME NEW l \in Line, NEW h \in owners[l.first],
               l.by \in owners[l.first]
        PROVE  Right(l, h)
    <3>1. owners[l.first] \subseteq Hosts
      BY DEF TypeOK, Line
    <3>2. QED
      BY <2>1, <3>1, TwoOwners DEF Right
  <2>2. ASSUME NEW t \in Threads, NEW o \in observed[t]
        PROVE  Right(o.line, o.host)
    <3>1. o.line \in Line
      BY DEF TypeOK
    <3>2. QED
      BY <2>1, <3>1 DEF OwnersHeld, EarnedLine
  <2>3. ASSUME NEW l \in log, l.only, file[Snapshot] \in Maps,
               file[Snapshot][l.first] # None
        PROVE  Right(l, file[Snapshot][l.first])
    <3>1. l \in Line /\ l.first \in Addresses
      BY DEF TypeOK, Line
    <3>2. QED
      BY <2>1, <2>3, <3>1 DEF OwnersHeld, EarnedLine, Earned
  <2>4. QED
    BY <2>2, <2>3 DEF AttributedRight
<1>2. Spec => []OwnersHeld
  BY TypeCorrect, InitOwnersHeld, NextOwnersHeld, PTL DEF Spec
<1>3. QED
  BY <1>1, <1>2, TypeCorrect, PTL
=============================================================================
