----------------------------- MODULE MCJudgeList -----------------------------
(***************************************************************************)
(* JudgeList for TLC: up to three connections, the third of a higher tier, *)
(* and three submissions of two kinds.                                     *)
(***************************************************************************)
EXTENDS JudgeListImplementsDispatch, TLC

CONSTANTS s1, s2, s3, c1, c2, c3, n1, n2, n3, k1, k2

MCName == [c \in Conn |-> CASE c = c1 -> n1 [] c = c2 -> n2 [] c = c3 -> n3]
MCNameShared == [c \in Conn |-> n1]
MCTier == [c \in Conn |-> IF c = c3 THEN 2 ELSE 1]
MCKindOne == [s \in Sub |-> k1]
MCKindOf == [s \in Sub |-> IF s = s3 THEN k2 ELSE k1]

Req(s, n, p) == [id |-> s, judge_id |-> n, priority |-> p]

\* Every submission as one of a contest and as a rejudge.
MCRequests == {Req(s, None, p) : s \in Sub, p \in {0, 2}}

\* One of a contest, one for a chosen judge that may be rejudged, and one of a
\* batch rejudge: every priority occurs.
MCRequestsNamed == {Req(s1, None, 0), Req(s2, n1, 1), Req(s2, None, 2), Req(s3, None, 3)}

\* One of a contest, which may come again, and one rejudge.
MCRequestsTwo == {Req(s1, None, 0), Req(s2, None, 2)}

\* The first two judges are alike, as long as names play no part: nobody asks
\* for a judge by name or disables one.
Alike == Permutations({c1, c2})
=============================================================================
