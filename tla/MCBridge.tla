------------------------------- MODULE MCBridge -------------------------------
(***************************************************************************)
(* Bridge for TLC: submission 1 belongs to a contest, 2 does not; all      *)
(* judges are alike.                                                       *)
(***************************************************************************)
EXTENDS Bridge, TLC

CONSTANTS c1, c2, n1, n2, k1, p1, p2

MCName == [c \in Conn |-> IF c = c1 THEN n1 ELSE n2]
MCTier == [c \in Conn |-> 1]
MCKindOf == [s \in Sub |-> k1]

Req(s, p) == [id |-> s, judge_id |-> None, priority |-> p]

\* The first request of each submission and a rejudge.
MCRequests == {Req(s, IF s \in ContestSub THEN 0 ELSE 1) : s \in Sub} \cup {Req(s, 2) : s \in Sub}
=============================================================================
