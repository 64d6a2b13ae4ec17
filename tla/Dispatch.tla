------------------------------ MODULE Dispatch ------------------------------
(***************************************************************************)
(* What the dispatcher of the judge bridge promises, without queues, tiers *)
(* or locks: a submission is with nobody, waiting, or with ONE judge; a    *)
(* judge has at most one submission; and a submission goes from one judge  *)
(* to another only through the hands of the site, which asks again.        *)
(***************************************************************************)
EXTENDS Naturals

\* Out and Waiting are two values that are no judges.
CONSTANTS Sub, Conn, Out, Waiting

VARIABLE place  \* place[s]: Out, Waiting, or the judge that has s

Free(c) == \A s \in Sub : place[s] # c

DispatchInit == place = [s \in Sub |-> Out]

\* The site asks for s: a free judge gets it at once or it waits.
Ask(s) ==
    /\ place[s] = Out
    /\ \E p \in {Waiting} \cup {c \in Conn : Free(c)} : place' = [place EXCEPT ![s] = p]

\* A free judge is given a submission that waits.
Hand(s, c) ==
    /\ place[s] = Waiting
    /\ Free(c)
    /\ place' = [place EXCEPT ![s] = c]

\* c answers for s, and may be given one that waits in the same step.
Answer(s, c) ==
    /\ place[s] = c
    /\ \/ place' = [place EXCEPT ![s] = Out]
       \/ \E t \in Sub : /\ place[t] = Waiting
                         /\ place' = [place EXCEPT ![s] = Out, ![t] = c]

\* A submission that waits is aborted.
Withdraw(s) ==
    /\ place[s] = Waiting
    /\ place' = [place EXCEPT ![s] = Out]

\* The process that dispatches is replaced by a new one.
Forget == place' = [s \in Sub |-> Out]

DispatchNext ==
    \/ \E s \in Sub : Ask(s) \/ Withdraw(s)
    \/ \E s \in Sub, c \in Conn : Hand(s, c) \/ Answer(s, c)
    \/ Forget

DispatchSpec == DispatchInit /\ [][DispatchNext]_place
=============================================================================
