--------------------- MODULE JudgeListImplementsDispatch ---------------------
(***************************************************************************)
(* JudgeList implements Dispatch: where a submission is can be read off    *)
(* submission_map and the queue.                                           *)
(***************************************************************************)
EXTENDS JudgeList

\* The two places that are no judges.
ASSUME PlacesAssumption == {"out", "waiting"} \cap Conn = {}

WhereIs(s) ==
    IF submission_map[s] # None THEN submission_map[s]
    ELSE IF Queued(s) THEN "waiting" ELSE "out"

place == [s \in Sub |-> WhereIs(s)]

Abstract == INSTANCE Dispatch WITH Out <- "out", Waiting <- "waiting"

\* Every operation of the dispatcher, with its queue of four priorities, its
\* tiers and its sweeps, is one step of Dispatch or none: no submission is
\* given to a judge that has one, taken from a judge that has not answered, or
\* left both queued and handed out.
ImplementsDispatch == Abstract!DispatchSpec
=============================================================================
