---------------------------- MODULE MCAnalysis -----------------------------
(* Small inputs for Analysis: three algorithms, two runs, an address that    *)
(* has a name and one that has none, a header of one backend.                *)
EXTENDS Analysis

CONSTANTS aco, mc, rr

MCAlgos == <<aco, mc, rr>>
MCAdaptive == {aco, mc}
MCDeltaPairs == {<<aco, mc>>}
MCHosts == [ip \in {"ip1"} |-> "host1"]

(* Answered by the first backend, the named or the other one, by the second  *)
(* after the first had failed, or not at all; or still being written.        *)
MCRequests ==
    LET Request(tried, times, offset, whole) ==
            [tried |-> tried, times |-> times, offset |-> offset, whole |-> whole]
    IN  {Request(<<"ip1">>, <<1>>, 0, TRUE), Request(<<"ip2">>, <<3>>, 1, TRUE),
         Request(<<"ip1", "ip2">>, <<None, 2>>, 1, TRUE),
         Request(<<"ip2">>, <<None>>, None, TRUE),
         Request(<<"ip1">>, <<1>>, 0, FALSE)}

(* One window and a half, the first run being interrupted or not; one window.*)
MCRunLogs ==
    {<<[index |-> 1, start |-> 0, end |-> 3, tick |-> 2, rps |-> 20,
        interrupted |-> interrupted],
       [index |-> 2, start |-> 5, end |-> 7, tick |-> 2, rps |-> 20,
        interrupted |-> FALSE]>> : interrupted \in BOOLEAN}

(* Rows of the header's pool, of a larger one and of none.                   *)
MCVectors == {<<>>} \cup {<<w>> : w \in Values} \cup {<<w, 0>> : w \in Values}
=============================================================================
