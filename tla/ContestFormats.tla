--------------------------- MODULE ContestFormats ---------------------------
(***************************************************************************)
(* The six contest formats: update_participation() of the classes of       *)
(* judge/contest_format, as operators on the submissions of one            *)
(* participation.                                                          *)
(*                                                                         *)
(* A submission is a record: prob, date, result (None while it is judged), *)
(* points (of ContestSubmission, kept while it is judged again) and batch, *)
(* the least points of a case in every batch, <<>> unless its status is D. *)
(* c is a contest: format, its config, worth[p] the points of problem p.   *)
(* Times are whole minutes, from and to are those of the participation.    *)
(***************************************************************************)
EXTENDS Integers, Sequences, FiniteSets, FiniteSetsExt

CONSTANT None   \* Python's None

Formats == {"default", "icpc", "atcoder", "ecoo", "ioi", "ioi16"}
Uncounted == {"IE", "CE"}

OfProblem(S, p) == {s \in S : s.prob = p}
ProblemsOf(S) == {s.prob : s \in S}
Largest(S) == IF S = {} THEN 0 ELSE Max(S)

\* MAX(points), and the MIN(date) of those that have it.
Best(S, p) == Max({s.points : s \in OfProblem(S, p)})
FirstBest(S, p) == Min({s.date : s \in {t \in OfProblem(S, p) : t.points = Best(S, p)}})
Solved(S) == {p \in ProblemsOf(S) : Best(S, p) # 0}
TotalBest(S) == SumFunction([p \in ProblemsOf(S) |-> Best(S, p)])

Row(score, cumtime, tiebreaker) == [score |-> score, cumtime |-> cumtime, tiebreaker |-> tiebreaker]

\* DefaultContestFormat: the time of the last submission counts, whatever it got.
Default(c, S, from) ==
    LET time(p) == Max({s.date : s \in OfProblem(S, p)}) - from
    IN  Row(TotalBest(S), Largest({0, SumFunction([p \in Solved(S) |-> time(p)])}), 0)

\* Mutant: a compile error costs a penalty too.
Prev_CompileErrors(S, p) ==
    LET subs == {s \in OfProblem(S, p) : s.result # None}
    IN  Cardinality({s \in subs : s.date <= FirstBest(S, p)}) - 1

\* The tries that cost a penalty, those up to the first best one but for one.
Prev(S, p) ==
    LET subs == {s \in OfProblem(S, p) : s.result # None /\ s.result \notin Uncounted}
    IN  Cardinality({s \in subs : s.date <= FirstBest(S, p)}) - 1

Penalty(c, S) == c.penalty * SumFunction([p \in Solved(S) |-> Prev(S, p)])

ICPC(c, S, from) ==
    LET dt(p) == FirstBest(S, p) - from
    IN  Row(TotalBest(S), SumFunction([p \in Solved(S) |-> dt(p)]) + Penalty(c, S), Largest({dt(p) : p \in Solved(S)}))

AtCoder(c, S, from) ==
    LET dt(p) == FirstBest(S, p) - from
    IN  Row(TotalBest(S), Largest({dt(p) : p \in Solved(S)}) + Penalty(c, S), 0)

\* ECOO: the last submission counts, with a bonus for an only one and for time.
ECOO(c, S, from, to) ==
    LET T == {s \in S : s.result \notin Uncounted}
        date(p) == Max({s.date : s \in OfProblem(T, p)})
        points(p) == Max({s.points : s \in {t \in OfProblem(T, p) : t.date = date(p)}})
        first(p) == IF Cardinality(OfProblem(T, p)) = 1 /\ points(p) = c.worth[p]
                    THEN c.first_ac_bonus ELSE 0
        early(p) == IF c.time_bonus = 0 THEN 0 ELSE (to - date(p)) \div c.time_bonus
        bonus(p) == IF points(p) > 0 THEN first(p) + early(p) ELSE 0
    IN  Row(SumFunction([p \in ProblemsOf(T) |-> points(p) + bonus(p)]),
            IF c.cumtime THEN SumFunction([p \in ProblemsOf(T) |-> date(p) - from]) ELSE 0, 0)

LegacyIOI(c, S, from) ==
    LET dt(p) == FirstBest(S, p) - from
    IN  Row(TotalBest(S), IF c.cumtime THEN Largest({0, SumFunction([p \in Solved(S) |-> dt(p)])}) ELSE 0, 0)

\* IOI: the best of every batch, whichever submission has it, in the points of
\* the cases.
IOI(c, S, from) ==
    LET batches(p) == UNION {DOMAIN s.batch : s \in OfProblem(S, p)}
        having(p, b) == {s \in OfProblem(S, p) : b \in DOMAIN s.batch}
        best(p, b) == Max({s.batch[b] : s \in having(p, b)})
        dt(p, b) == Min({s.date : s \in {t \in having(p, b) : t.batch[b] = best(p, b)}}) - from
        points(p) == SumFunction([b \in batches(p) |-> best(p, b)])
        time(p) == Largest({0} \cup {dt(p, b) : b \in batches(p)})
        scored == {p \in ProblemsOf(S) : points(p) # 0}
    IN  Row(SumFunction([p \in ProblemsOf(S) |-> points(p)]),
            IF c.cumtime THEN SumFunction([p \in scored |-> time(p)]) ELSE 0, 0)

update_participation(c, S, from, to) ==
    CASE c.format = "default" -> Default(c, S, from)
      [] c.format = "icpc"    -> ICPC(c, S, from)
      [] c.format = "atcoder" -> AtCoder(c, S, from)
      [] c.format = "ecoo"    -> ECOO(c, S, from, to)
      [] c.format = "ioi"     -> LegacyIOI(c, S, from)
      [] c.format = "ioi16"   -> IOI(c, S, from)
=============================================================================
