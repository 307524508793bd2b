----------------------------- MODULE WindowFeed -----------------------------
(***************************************************************************)
(* What a sampling loop owes its algorithm, without files, offsets, retries *)
(* or failures: NGINX logs lines, and now and then a window closes over     *)
(* every line logged since the last one closed, up to some moment.  Only a  *)
(* purge makes it skip lines, a prefix of the new log, and only a restart   *)
(* makes it take lines again, all of them.  SamplingLoop implements this.   *)
(***************************************************************************)
EXTENDS Naturals

CONSTANT MaxLines   \* bound: lines logged

VARIABLES logged,   \* how many lines the access log holds
          taken,    \* how many of them, from the first, windows have closed over
          skipped,  \* how many of them, from the first, windows do not see
          fed       \* fed[i]: how many windows line i was given to

vars == <<logged, taken, skipped, fed>>

Zero == [i \in 1..MaxLines |-> 0]

Init == logged = 0 /\ taken = 0 /\ skipped = 0 /\ fed = Zero

Log ==
    /\ logged < MaxLines
    /\ logged' = logged + 1
    /\ UNCHANGED <<taken, skipped, fed>>

Close(n) ==
    /\ n >= taken /\ (n <= logged \/ n <= skipped)
    /\ taken' = n
    /\ fed' = [i \in 1..MaxLines |->
                 IF taken < i /\ skipped < i /\ i <= n THEN fed[i] + 1 ELSE fed[i]]
    /\ UNCHANGED <<logged, skipped>>

(* Another log is begun; a window that fails afterwards skips less of it.   *)
Purge ==
    /\ logged' = 0
    /\ fed' = Zero
    /\ skipped' \in taken..MaxLines
    /\ UNCHANGED taken

Regain == skipped > taken /\ skipped' = taken /\ UNCHANGED <<logged, taken, fed>>

Restart == taken' = 0 /\ skipped' = 0 /\ fed' = Zero /\ UNCHANGED logged

Next == Log \/ (\E n \in 0..MaxLines : Close(n)) \/ Purge \/ Regain \/ Restart

Spec == Init /\ [][Next]_vars
=============================================================================
