----------------------------- MODULE MCWebJobs -----------------------------
(* Instances of WebJobs for TLC.                                           *)
EXTENDS WebJobs, TLC

CONSTANTS j1, j2, w1, w2, p1, p2, q1, q2, nojob

\* A human question, a synthesis of two formats, a fill-gaps batch of two.
Requests == {[kind |-> "human", ai_mode |-> "off", total |-> 1],
             [kind |-> "batch", ai_mode |-> "synthesize", total |-> 2],
             [kind |-> "batch", ai_mode |-> "fill-gaps", total |-> 2]}

FillGaps == {[kind |-> "batch", ai_mode |-> "fill-gaps", total |-> 1]}

\* The questions matter by whether a call holds none, some or all of them.
NestedGaps == {{}, {q1}, {q1, q2}}

\* Jobs meet in the pool only, so that one of them may be the short one.
OneBatchInit == Init /\ request[j2].kind = "human"
OneBatchSpec == OneBatchInit /\ [][Next]_vars /\ Fairness

=============================================================================
