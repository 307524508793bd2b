--------------------------- MODULE LifecycleProofs ---------------------------
(***************************************************************************)
(* Lifecycle's safety properties, for any hosts, algorithms, vectors and    *)
(* number of pings, with every fault: backends that go and come back at any *)
(* step, NGINX's death, signals, restarts and purges.                       *)
(***************************************************************************)
EXTENDS Lifecycle, TLAPS

LEMMA InitType == Init => TypeOK
<1> SUFFICES ASSUME Init PROVE TypeOK
  OBVIOUS
<1>1. 1 \in 1..(N + 1) /\ 0 \in 0..(Retries - 1)
  BY SizeAssumption
<1>2. running \in [Algos -> {Placeholder}] /\ state \in [Algos -> {NoWeights}]
  BY DEF Init
<1>3. host \in [Hosts -> {"serving"}]
  BY DEF Init
<1>4. QED
  BY <1>1, <1>2, <1>3 DEF Init, TypeOK, Steps

LEMMA ApplyType ==
  ASSUME TypeOK, NEW a \in Algos, NEW w \in Vectors, NEW changed \in BOOLEAN,
         Apply(a, w, changed)
  PROVE  /\ conf' \in [Algos -> Vectors \cup {Placeholder}]
         /\ running' \in [Algos -> Vectors \cup {Placeholder}]
         /\ state' \in [Algos -> Vectors \cup {NoWeights}]
BY DEF Apply, TypeOK

LEMMA NextType == TypeOK /\ [Next]_vars => TypeOK'
<1> SUFFICES ASSUME TypeOK, [Next]_vars PROVE TypeOK'
  OBVIOUS
<1> USE SizeAssumption DEF Steps, Checks, Hosts, files, ghosts
<1>1. CASE Ping
  <2>1. at \in Hosts /\ at + 1 \in 1..(N + 1) /\ 0 \in 0..(Retries - 1)
    BY <1>1 DEF Ping, PingAt
  <2>2. at' \in 1..(N + 1) /\ tries' \in 0..(Retries - 1) /\ bad' \subseteq Hosts
    <3>1. tries \in Nat /\ tries + 1 \in Nat /\ bad \subseteq Hosts
      BY DEF TypeOK
    <3>2. CASE host[at] = "gone" /\ tries + 1 < Retries
      <4>1. at' = at /\ tries' = tries + 1 /\ bad' = bad
        BY <1>1, <3>2 DEF Ping, PingAt
      <4>2. QED
        BY <2>1, <3>1, <3>2, <4>1
    <3>3. CASE ~(host[at] = "gone" /\ tries + 1 < Retries)
      <4>1. at' = at + 1 /\ tries' = 0 /\ bad' \subseteq bad \cup {at}
        BY <1>1, <3>3 DEF Ping, PingAt
      <4>2. QED
        BY <2>1, <3>1, <4>1
    <3>4. QED
      BY <3>2, <3>3
  <2>3. answered' \subseteq Hosts
    BY <1>1, <2>1 DEF Ping, PingAt, TypeOK
  <2>4. QED
    BY <1>1, <2>2, <2>3 DEF Ping, PingAt, TypeOK
<1>2. CASE \/ Refuse \/ NginxDidNotStart \/ ProbeRaises \/ WaitReturns
          \/ Killed \/ PrimeRaises
  <2>1. End /\ (trouble' = trouble \/ trouble' = TRUE)
    BY <1>2 DEF Refuse, NginxDidNotStart, ProbeRaises, WaitReturns, Killed,
                PrimeRaises, Exit
  <2>2. 1 \in 1..(N + 1) /\ 0 \in 0..(Retries - 1)
    OBVIOUS
  <2>3. at' \in 1..(N + 1) /\ tries' \in 0..(Retries - 1) /\ trouble' \in BOOLEAN
    BY <2>1, <2>2 DEF End, TypeOK
  <2>4. QED
    BY <2>1, <2>3 DEF End, TypeOK
<1>3. CASE Validated
  BY <1>3 DEF Validated, TypeOK
<1>4. CASE Configure
  BY <1>4 DEF Configure, Goto, TypeOK
<1>5. CASE StartNginx
  BY <1>5 DEF StartNginx, Goto, TypeOK
<1>6. CASE NginxStarted \/ Arm
  BY <1>6 DEF NginxStarted, Arm, Goto, TypeOK
<1>7. ASSUME NEW h \in Hosts, ProbeHost(h) PROVE TypeOK'
  BY <1>7 DEF ProbeHost, TypeOK
<1>8. ASSUME NEW a \in Algos, Prime(a) PROVE TypeOK'
  <2>1. PICK w \in Vectors : Apply(a, w, w # state[a])
    BY <1>8 DEF Prime, PrimeUnless
  <2>2. QED
    BY <1>8, <2>1, ApplyType DEF Prime, PrimeUnless, Goto, TypeOK
<1>9. ASSUME NEW a \in Algos, Window(a) PROVE TypeOK'
  <2>1. PICK w \in Vectors : Apply(a, w, w # state[a])
    BY <1>9 DEF Window
  <2>2. QED
    BY <1>9, <2>1, ApplyType DEF Window, TypeOK
<1>10. CASE Start
  BY <1>10 DEF Start, TypeOK
<1>11. ASSUME NEW h \in Hosts, NEW s \in {"serving", "up", "gone"},
              HostChanges(h, s)
       PROVE  TypeOK'
  BY <1>11 DEF HostChanges, TypeOK
<1>12. CASE NginxDies \/ ForwardSignal
  BY <1>12 DEF NginxDies, ForwardSignal, NginxEnds, TypeOK
<1>13. ASSUME NEW a \in Algos, Purge(a) PROVE TypeOK'
  BY <1>13 DEF Purge, TypeOK
<1>14. CASE UNCHANGED vars
  BY <1>14 DEF vars, TypeOK
<1>15. QED
  BY <1>1, <1>2, <1>3, <1>4, <1>5, <1>6, <1>7, <1>8, <1>9, <1>10, <1>11,
     <1>12, <1>13, <1>14 DEF Next, Main, Environment

(* The types hold in every reachable state: no host is pinged more than     *)
(* VALIDATE_RETRIES times in a row.                                         *)
THEOREM TypeCorrect == Spec => []TypeOK
<1>1. QED
  BY InitType, NextType, PTL DEF Spec

-----------------------------------------------------------------------------
(* What main knows by the step it has come to: the first validation has     *)
(* heard from every host it has passed, and NGINX is not there before       *)
(* start_nginx.                                                             *)
BeforeNginx == {"off", "validate", "configure", "start", "exited"}

ValidHeld ==
    /\ pc = "validate" => \A h \in Hosts : h < at => h \in answered \cup bad
    /\ pc \notin {"off", "validate", "exited"} => answered = Hosts
    /\ pc \in BeforeNginx => nginx = "down"

LEMMA InitValidHeld == Init => ValidHeld
BY DEF Init, ValidHeld, BeforeNginx

LEMMA NextValidHeld == TypeOK /\ ValidHeld /\ [Next]_vars => ValidHeld'
<1> SUFFICES ASSUME TypeOK, ValidHeld, [Next]_vars PROVE ValidHeld'
  OBVIOUS
<1> USE SizeAssumption DEF ValidHeld, BeforeNginx, Checks, Hosts, ghosts
<1>1. CASE Ping
  <2>1. answered \subseteq answered' /\ answered' \subseteq Hosts
    BY <1>1 DEF Ping, PingAt, TypeOK
  <2>2. ASSUME pc = "validate", NEW h \in Hosts, h < at'
        PROVE  h \in answered' \cup bad'
    <3>1. CASE h = at
      BY <1>1, <2>2, <3>1 DEF Ping, PingAt, TypeOK
    <3>2. CASE h # at
      BY <1>1, <2>1, <2>2, <3>2 DEF Ping, PingAt, TypeOK
    <3>3. QED
      BY <3>1, <3>2
  <2>3. QED
    BY <1>1, <2>1, <2>2 DEF Ping, PingAt
<1>2. CASE \/ Refuse \/ NginxDidNotStart \/ ProbeRaises \/ WaitReturns
          \/ Killed \/ PrimeRaises
  BY <1>2 DEF Refuse, NginxDidNotStart, ProbeRaises, WaitReturns, Killed,
              PrimeRaises, Exit, End
<1>3. CASE Validated
  <2>1. at > N /\ bad = {} /\ at \in Nat /\ answered \subseteq Hosts
    BY <1>3 DEF Validated, TypeOK
  <2>2. \A h \in Hosts : h < at
    BY <2>1
  <2>3. pc = "validate" => answered = Hosts
    BY <2>1, <2>2
  <2>4. QED
    BY <1>3, <2>3 DEF Validated
<1>4. CASE Configure \/ NginxStarted \/ Arm
  BY <1>4 DEF Configure, NginxStarted, Arm, Goto
<1>5. CASE StartNginx
  BY <1>5 DEF StartNginx, Goto
<1>6. ASSUME NEW h \in Hosts, ProbeHost(h) PROVE ValidHeld'
  BY <1>6 DEF ProbeHost
<1>7. ASSUME NEW a \in Algos, Prime(a) \/ Window(a) PROVE ValidHeld'
  BY <1>7 DEF Prime, PrimeUnless, Window, Goto
<1>8. CASE Start
  BY <1>8 DEF Start
<1>9. ASSUME NEW h \in Hosts, NEW s \in {"serving", "up", "gone"},
             HostChanges(h, s)
      PROVE  ValidHeld'
  BY <1>9 DEF HostChanges
<1>10. CASE NginxDies \/ ForwardSignal
  BY <1>10 DEF NginxDies, ForwardSignal, NginxEnds
<1>11. ASSUME NEW a \in Algos, Purge(a) PROVE ValidHeld'
  BY <1>11 DEF Purge
<1>12. CASE UNCHANGED vars
  BY <1>12 DEF vars
<1>13. QED
  BY <1>1, <1>2, <1>3, <1>4, <1>5, <1>6, <1>7, <1>8, <1>9, <1>10, <1>11,
     <1>12 DEF Next, Main, Environment

(* NGINX never runs on a pool one of whose hosts has not answered since the *)
(* container's start, whatever happens to the hosts meanwhile.              *)
THEOREM NeverHalfStarted == Spec => []NotHalfStarted
<1>1. ValidHeld => NotHalfStarted
  BY DEF ValidHeld, NotHalfStarted, BeforeNginx
<1>2. Spec => []ValidHeld
  BY TypeCorrect, InitValidHeld, NextValidHeld, PTL DEF Spec
<1>3. QED
  BY <1>1, <1>2, PTL

-----------------------------------------------------------------------------
(* Whatever could make main give up is trouble's doing: a host that is not  *)
(* serving, one found unreachable, NGINX not there after start_nginx.       *)
CauseHeld ==
    /\ pc # "off" /\ (\E h \in Hosts : host[h] # "serving") => trouble
    /\ bad # {} => trouble
    /\ pc \notin BeforeNginx /\ nginx = "down" => trouble
    /\ pc = "exited" => trouble
    /\ pc = "off" => bad = {}

LEMMA InitCauseHeld == Init => CauseHeld
BY DEF Init, CauseHeld, BeforeNginx

LEMMA NextCauseHeld == TypeOK /\ CauseHeld /\ [Next]_vars => CauseHeld'
<1> SUFFICES ASSUME TypeOK, CauseHeld, [Next]_vars PROVE CauseHeld'
  OBVIOUS
<1> USE DEF CauseHeld, BeforeNginx, Checks, ghosts
<1>1. CASE Ping
  BY <1>1 DEF Ping, PingAt
<1>2. CASE \/ Refuse \/ NginxDidNotStart \/ ProbeRaises \/ WaitReturns
          \/ Killed \/ PrimeRaises
  BY <1>2 DEF Refuse, NginxDidNotStart, ProbeRaises, WaitReturns, Killed,
              PrimeRaises, Exit, End
<1>3. CASE Validated \/ Configure \/ NginxStarted \/ Arm
  BY <1>3 DEF Validated, Configure, NginxStarted, Arm, Goto
<1>4. CASE StartNginx
  BY <1>4 DEF StartNginx, Goto, AllResolve
<1>5. ASSUME NEW h \in Hosts, ProbeHost(h) PROVE CauseHeld'
  BY <1>5 DEF ProbeHost
<1>6. ASSUME NEW a \in Algos, Prime(a) \/ Window(a) PROVE CauseHeld'
  BY <1>6 DEF Prime, PrimeUnless, Window, Goto
<1>7. CASE Start
  BY <1>7 DEF Start
<1>8. ASSUME NEW h \in Hosts, NEW s \in {"serving", "up", "gone"},
             HostChanges(h, s)
      PROVE  CauseHeld'
  BY <1>8 DEF HostChanges, TypeOK
<1>9. CASE NginxDies \/ ForwardSignal
  BY <1>9 DEF NginxDies, ForwardSignal, NginxEnds
<1>10. ASSUME NEW a \in Algos, Purge(a) PROVE CauseHeld'
  BY <1>10 DEF Purge
<1>11. CASE UNCHANGED vars
  BY <1>11 DEF vars
<1>12. QED
  BY <1>1, <1>2, <1>3, <1>4, <1>5, <1>6, <1>7, <1>8, <1>9, <1>10, <1>11
     DEF Next, Main, Environment

(* The container ends only if, since its start, something outside it went   *)
(* wrong: a backend that was not serving, NGINX's death, a signal, or a     *)
(* purge during priming.                                                    *)
THEOREM ExitsOnlyForCause == Spec => []ExitsForCause
<1>1. CauseHeld => ExitsForCause
  BY DEF CauseHeld, ExitsForCause
<1>2. Spec => []CauseHeld
  BY TypeCorrect, InitCauseHeld, NextCauseHeld, PTL DEF Spec
<1>3. QED
  BY <1>1, <1>2, PTL

-----------------------------------------------------------------------------
(* The weights of a, from the boot on: untouched until a is primed, and     *)
(* then a placeholder only where the saved weights were computed again.  A  *)
(* purge may delete what was saved at any time.                             *)
Kept(a) == state[a] \in {carried[a], NoWeights}
Unprimed(a) == conf[a] = Placeholder /\ Kept(a)
Primed(a) == conf[a] = Placeholder => carried[a] # NoWeights /\ Kept(a)

PrimeHeld ==
    /\ pc \in {"validate", "configure"} => \A a \in Algos : Kept(a)
    /\ pc \in {"start", "poll", "arm", "revalidate", "probe"} =>
          \A a \in Algos : Unprimed(a)
    /\ pc = "prime" => \A a \in Algos : IF a \in todo THEN Unprimed(a) ELSE Primed(a)
    /\ pc = "wait" => \A a \in Algos : Primed(a)

LEMMA InitPrimeHeld == Init => PrimeHeld
BY DEF Init, PrimeHeld

(* apply_weights on a primed, or on a yet unprimed, algorithm.              *)
LEMMA ApplyPrimes ==
  ASSUME TypeOK, NEW a \in Algos, NEW w \in Vectors,
         Apply(a, w, w # state[a]), carried' = carried,
         Unprimed(a) \/ Primed(a)
  PROVE  Primed(a)'
<1>1. CASE w # state[a]
  BY <1>1, SentinelAssumption DEF Apply, Primed, Kept, TypeOK
<1>2. CASE w = state[a]
  BY <1>2, SentinelAssumption DEF Apply, Primed, Unprimed, Kept, TypeOK
<1>3. QED
  BY <1>1, <1>2

LEMMA ApplyLeavesOthers ==
  ASSUME TypeOK, NEW a \in Algos, NEW b \in Algos \ {a}, NEW w \in Vectors,
         NEW changed \in BOOLEAN, Apply(a, w, changed), carried' = carried
  PROVE  conf'[b] = conf[b] /\ state'[b] = state[b] /\ carried'[b] = carried[b]
BY DEF Apply, TypeOK

LEMMA NextPrimeHeld == TypeOK /\ PrimeHeld /\ [Next]_vars => PrimeHeld'
<1> SUFFICES ASSUME TypeOK, PrimeHeld, [Next]_vars PROVE PrimeHeld'
  OBVIOUS
<1> USE DEF Checks, files, ghosts
<1>1. CASE Ping
  BY <1>1 DEF Ping, PingAt, PrimeHeld, Primed, Unprimed, Kept
<1>2. CASE \/ Refuse \/ NginxDidNotStart \/ ProbeRaises \/ WaitReturns
          \/ Killed \/ PrimeRaises
  BY <1>2 DEF Refuse, NginxDidNotStart, ProbeRaises, WaitReturns, Killed,
              PrimeRaises, Exit, End, PrimeHeld
<1>3. CASE Validated
  BY <1>3 DEF Validated, PrimeHeld, Primed, Unprimed, Kept
<1>4. CASE Configure
  BY <1>4 DEF Configure, Goto, PrimeHeld, Unprimed, Kept
<1>5. CASE StartNginx \/ NginxStarted \/ Arm
  BY <1>5 DEF StartNginx, NginxStarted, Arm, Goto, PrimeHeld, Unprimed, Kept
<1>6. ASSUME NEW h \in Hosts, ProbeHost(h) PROVE PrimeHeld'
  BY <1>6 DEF ProbeHost, PrimeHeld, Unprimed, Kept
<1>7. ASSUME NEW a \in Algos, Prime(a) PROVE PrimeHeld'
  <2>1. PICK w \in Vectors : Apply(a, w, w # state[a])
    BY <1>7 DEF Prime, PrimeUnless
  <2>2. /\ pc = "prime" /\ a \in todo /\ todo' = todo \ {a}
        /\ pc' = IF todo' = {} THEN "wait" ELSE "prime"
        /\ carried' = carried
    BY <1>7 DEF Prime, PrimeUnless, Goto
  <2>3. Primed(a)'
    BY <2>1, <2>2, ApplyPrimes DEF PrimeHeld
  <2>4. ASSUME NEW b \in Algos, b # a
        PROVE  IF b \in todo' THEN Unprimed(b)' ELSE Primed(b)'
    <3>1. IF b \in todo THEN Unprimed(b) ELSE Primed(b)
      BY <2>2 DEF PrimeHeld
    <3>2. conf'[b] = conf[b] /\ state'[b] = state[b] /\ carried'[b] = carried[b]
      BY <2>1, <2>2, <2>4, ApplyLeavesOthers
    <3>3. QED
      BY <2>2, <2>4, <3>1, <3>2 DEF Primed, Unprimed, Kept
  <2>5. \A b \in Algos : IF b \in todo' THEN Unprimed(b)' ELSE Primed(b)'
    BY <2>2, <2>3, <2>4
  <2>6. QED
    BY <2>2, <2>5 DEF PrimeHeld
<1>8. ASSUME NEW a \in Algos, Window(a) PROVE PrimeHeld'
  <2>1. PICK w \in Vectors : Apply(a, w, w # state[a])
    BY <1>8 DEF Window
  <2>2. pc = "wait" /\ pc' = "wait" /\ carried' = carried
    BY <1>8 DEF Window
  <2>3. Primed(a)'
    BY <2>1, <2>2, ApplyPrimes DEF PrimeHeld
  <2>4. ASSUME NEW b \in Algos, b # a PROVE Primed(b)'
    BY <2>1, <2>2, <2>4, ApplyLeavesOthers DEF PrimeHeld, Primed, Kept
  <2>5. QED
    BY <2>2, <2>3, <2>4 DEF PrimeHeld
<1>9. CASE Start
  BY <1>9 DEF Start, PrimeHeld, Kept
<1>10. ASSUME NEW h \in Hosts, NEW s \in {"serving", "up", "gone"},
              HostChanges(h, s)
       PROVE  PrimeHeld'
  BY <1>10 DEF HostChanges, PrimeHeld, Primed, Unprimed, Kept
<1>11. CASE NginxDies \/ ForwardSignal
  BY <1>11 DEF NginxDies, ForwardSignal, NginxEnds, PrimeHeld, Primed, Unprimed,
               Kept
<1>12. ASSUME NEW a \in Algos, Purge(a) PROVE PrimeHeld'
  <2>1. /\ state' = [state EXCEPT ![a] = NoWeights]
        /\ UNCHANGED <<conf, pc, todo, carried>>
    BY <1>12 DEF Purge
  <2>2. ASSUME NEW b \in Algos
        PROVE  /\ Kept(b) => Kept(b)'
               /\ Unprimed(b) => Unprimed(b)'
               /\ Primed(b) => Primed(b)'
    BY <2>1 DEF Unprimed, Primed, Kept, TypeOK
  <2>3. QED
    BY <2>1, <2>2 DEF PrimeHeld
<1>13. CASE UNCHANGED vars
  BY <1>13 DEF vars, PrimeHeld, Primed, Unprimed, Kept
<1>14. QED
  BY <1>1, <1>2, <1>3, <1>4, <1>5, <1>6, <1>7, <1>8, <1>9, <1>10, <1>11,
     <1>12, <1>13 DEF Next, Main, Environment

(* After priming, an algorithm whose conf is still the placeholder is one   *)
(* for which an earlier container had saved the very weights computed now,  *)
(* whether or not a purge has deleted them since.                           *)
THEOREM PrimingReachesDisk == Spec => []PrimedOnDisk
<1>1. PrimeHeld => PrimedOnDisk
  BY DEF PrimeHeld, PrimedOnDisk, Primed, Kept
<1>2. Spec => []PrimeHeld
  BY TypeCorrect, InitPrimeHeld, NextPrimeHeld, PTL DEF Spec
<1>3. QED
  BY <1>1, <1>2, PTL
=============================================================================
