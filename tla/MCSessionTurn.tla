--------------------------- MODULE MCSessionTurn ---------------------------
(* Instances of SessionTurn for TLC. *)
EXTENDS SessionTurn, TLC

CONSTANTS m1, m2, w1, w2, c1, c2, noMsg, noWorker, noCall

OneMsg == {m1}
TwoMsgs == {m1, m2}
OneWorker == {w1}
TwoWorkers == {w1, w2}
OneCall == {<<c1>>}
TwoCalls == {<<c1, c2>>}

\* Bound: behaviours up to the first delivery that is settled.  Further turns
\* only follow deliveries that were cut off before their result was recorded.
NoneSettled == Of("dresult") = {}

\* Messages are interchangeable, and so are workers.
Symmetry == Permutations(TwoMsgs) \cup Permutations(TwoWorkers)
=============================================================================
