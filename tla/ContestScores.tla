---------------------------- MODULE ContestScores ----------------------------
(***************************************************************************)
(* That the score of a participation is the one the rules of its format    *)
(* give its submissions: the theorems TypeCorrect and ScoresAreCurrent     *)
(* about ContestPublication, for all scenes, users, problems and contests, *)
(* with a proof the TLA+ proof system checks.                              *)
(*                                                                         *)
(* The first half is about the formats alone: that what each computes from *)
(* a set of submissions is the standing of its rules, which ask for no     *)
(* query of the database (RulesAreKept), that a submission without points  *)
(* changes nothing (VoidIsNothing), that the end of the window counts for  *)
(* the ECOO bonus only (EndMatters).  The second half is the invariant     *)
(* Scores: whoever has still to read will write the right score, whoever   *)
(* has read holds it, and when nobody is at work it is written (Current).  *)
(***************************************************************************)
EXTENDS ContestProofs, Sums

-----------------------------------------------------------------------------
(* The inductive invariant *)

\* Who comes in begins now or before, and nothing is submitted before the begin.
Times ==
    /\ scene.start[Main] <= now
    /\ \A k \in Existing : part[k].real_start \in Nat /\ part[k].real_start <= now
    /\ \A i \in DOMAIN subs : start(subs[i].of) <= subs[i].sub.date

\* The rows of contests hold numbers, and so do the copies the joins have of one.
Numbers ==
    /\ \A c \in Contests : row[c].end \in Nat /\ row[c].users \in Nat
    /\ \A u \in Users : join[u] # Idle => join[u].copy.end \in Nat

\* A contest that nobody extends ends when it was to end.
EndStays ==
    "extend" \notin scene.acts =>
        /\ row[Main].end = scene.end[Main]
        /\ \A u \in Users : join[u] # Idle => join[u].copy.end = scene.end[Main]

\* What is known of a submission that is being judged, and of one that has been.
Waiting(s) == s.sub.result = None /\ s.sub.batch = <<>> /\ (~s.again => s.sub.points = 0)

Counts(s) == s.result \in {"AC", "WA"} /\ s.batch \in [1..2 -> 0..1]

Failed(s) ==
    /\ s.batch = <<>> /\ (Stay("spoilt") => s.points = 0)
    /\ \/ s.result \in Uncounted /\ May("ce")
       \/ s.result = "AB" /\ May("ab")

Verdicts ==
    \A i \in DOMAIN subs :
        /\ subs[i].sub.id = i
        /\ subs[i].at = "judging" => Waiting(subs[i])
        /\ subs[i].at = "graded" => Counts(subs[i].sub)
        /\ subs[i].at = "done" => Counts(subs[i].sub) \/ Failed(subs[i].sub)

At(a, k) == job[a] # Idle /\ job[a].of = k

\* One at a time recomputes a participation, unless it is tangled.
OneAtWork ==
    \A k \in Existing \ tangled : \A a, b \in Actor : At(a, k) /\ At(b, k) => a = b

\* What a recomputation has found is a number.
FoundIsNumber ==
    /\ \A a \in Actor : job[a].at = "save" => job[a].res.score \in Int /\ job[a].res.cumtime \in Int
    /\ \A k \in Existing : part[k].res.score \in Int /\ part[k].res.cumtime \in Nat

Numbered == \A k \in Existing : k[2] > 1 => <<k[1], k[2] - 1>> \in Existing

Undoubted == Without({"spoilt"} \cup Unseen(scene.conf.format)) /\ ~BonusMoves

\* No submission of k can change its score but by a verdict, which is followed by
\* a recomputation.
Steady(k) ==
    \A i \in DOMAIN subs : subs[i].of = k =>
        \/ subs[i].at = "done"
        \/ subs[i].at = "judging" /\ ~subs[i].again /\ scene.conf.format \notin {"default", "ecoo"}

Worth(k) == update_participation(scene.conf, Table(k), start(k), end_time(k))

Current ==
    Undoubted =>
        \A k \in Existing \ tangled : Steady(k) =>
            /\ \A a \in Actor : At(a, k) /\ job[a].at = "save" => job[a].res = Worth(k)
            /\ (\A a \in Actor : At(a, k) => Pending(a)) =>
                   part[k].res = Result(part[k].is_disqualified, Worth(k))
-----------------------------------------------------------------------------
(* A table of submissions: the best to a problem *)

\* The submissions of one participation.
Tabled(S) == IsFiniteSet(S) /\ S \subseteq Judged

LEMMA OfOneProblem ==
    ASSUME NEW S, Tabled(S), NEW p
    PROVE  /\ IsFiniteSet(OfProblem(S, p)) /\ OfProblem(S, p) \subseteq Judged
           /\ p \in ProblemsOf(S) <=> OfProblem(S, p) # {}
<1>1. OfProblem(S, p) \in SUBSET S
  BY DEF OfProblem
<1>2. IsFiniteSet(OfProblem(S, p)) /\ OfProblem(S, p) \subseteq Judged
  BY <1>1, FS_Subset DEF Tabled
<1>3. p \in ProblemsOf(S) <=> OfProblem(S, p) # {}
  BY DEF OfProblem, ProblemsOf
<1> QED
  BY <1>2, <1>3

LEMMA FiniteProblems == ASSUME NEW S, Tabled(S) PROVE IsFiniteSet(ProblemsOf(S))
<1> DEFINE f == [s \in S |-> s.prob]
<1>1. IsFiniteSet({f[s] : s \in S})
  <2> HIDE DEF f
  <2> QED
    BY FiniteImage DEF Tabled
<1>2. {f[s] : s \in S} = ProblemsOf(S)
  BY DEF ProblemsOf
<1> QED
  BY <1>1, <1>2

LEMMA FieldsAre ==
    ASSUME NEW s \in Judged
    PROVE  /\ s.id \in Nat /\ s.prob \in Problem /\ s.date \in Nat /\ s.result \in Answer /\ s.points \in Nat
           /\ s.batch \in Batches
BY DEF Judged

\* The points, or the dates, of finitely many submissions.
LEMMA FinitePoints ==
    ASSUME NEW T, IsFiniteSet(T), T \subseteq Judged, T # {}
    PROVE  LET D == {s.points : s \in T} IN IsFiniteSet(D) /\ D \in SUBSET Int /\ D # {}
<1> DEFINE f == [s \in T |-> s.points]
<1>1. IsFiniteSet({f[s] : s \in T})
  <2> HIDE DEF f
  <2> QED
    BY FiniteImage
<1>2. {f[s] : s \in T} = {s.points : s \in T}
  OBVIOUS
<1>3. \A s \in T : s.points \in Int
  BY FieldsAre
<1> QED
  BY <1>1, <1>2, <1>3

LEMMA FiniteDates ==
    ASSUME NEW T, IsFiniteSet(T), T \subseteq Judged, T # {}
    PROVE  LET D == {s.date : s \in T} IN IsFiniteSet(D) /\ D \in SUBSET Int /\ D # {}
<1> DEFINE f == [s \in T |-> s.date]
<1>1. IsFiniteSet({f[s] : s \in T})
  <2> HIDE DEF f
  <2> QED
    BY FiniteImage
<1>2. {f[s] : s \in T} = {s.date : s \in T}
  OBVIOUS
<1>3. \A s \in T : s.date \in Int
  BY FieldsAre
<1> QED
  BY <1>1, <1>2, <1>3

\* The points of the best, and the time of the first of them.
BestIsAt(S, p, n, d) ==
    /\ n \in Nat /\ d \in Nat
    /\ \A s \in OfProblem(S, p) : s.points <= n /\ (s.points = n => d <= s.date)
    /\ \E s \in OfProblem(S, p) : s.points = n /\ s.date = d

LEMMA BestIs ==
    ASSUME NEW S, Tabled(S), NEW p \in ProblemsOf(S)
    PROVE  BestIsAt(S, p, Best(S, p), FirstBest(S, p))
<1> DEFINE O == OfProblem(S, p)
           n == Best(S, p)
           T == {t \in O : t.points = n}
<1>1. IsFiniteSet(O) /\ O \subseteq Judged /\ O # {}
  BY OfOneProblem
<1>2. n \in {s.points : s \in O} /\ \A y \in {s.points : s \in O} : y <= n
  <2>1. n = Max({s.points : s \in O})
    BY DEF Best
  <2> HIDE DEF O, n
  <2> QED
    BY <1>1, <2>1, FinitePoints, MaxIs
<1>3. IsFiniteSet(T) /\ T \subseteq Judged /\ T # {}
  <2>1. T \in SUBSET O
    OBVIOUS
  <2>2. T # {}
    BY <1>2
  <2> HIDE DEF O, n, T
  <2> QED
    BY <1>1, <2>1, <2>2, FS_Subset
<1>4. PICK d : d = FirstBest(S, p)
  OBVIOUS
<1>5. d \in {s.date : s \in T} /\ \A y \in {s.date : s \in T} : d <= y
  <2>1. d = Min({s.date : s \in T})
    BY <1>4 DEF FirstBest
  <2> HIDE DEF O, n, T
  <2> QED
    BY <1>3, <2>1, FiniteDates, MinIs
<1>6. n \in Nat /\ d \in Nat
  <2>1. \A s \in O : s.points \in Nat /\ s.date \in Nat
    BY <1>1, FieldsAre
  <2> QED
    BY <1>2, <1>5, <2>1
<1> QED
  BY <1>2, <1>4, <1>5, <1>6 DEF BestIsAt

LEMMA BestIsOnly ==
    ASSUME NEW S, Tabled(S), NEW p, NEW n, NEW d, BestIsAt(S, p, n, d)
    PROVE  p \in ProblemsOf(S) /\ Best(S, p) = n /\ FirstBest(S, p) = d
<1>1. p \in ProblemsOf(S)
  BY DEF BestIsAt, ProblemsOf, OfProblem
<1>2. PICK m, e : m = Best(S, p) /\ e = FirstBest(S, p)
  OBVIOUS
<1>3. BestIsAt(S, p, m, e)
  BY <1>1, <1>2, BestIs
<1>4. m \in Nat /\ e \in Nat /\ n \in Nat /\ d \in Nat
  BY <1>3 DEF BestIsAt
<1>5. PICK s \in OfProblem(S, p) : s.points = n /\ s.date = d
  BY DEF BestIsAt
<1>6. PICK t \in OfProblem(S, p) : t.points = m /\ t.date = e
  BY <1>3 DEF BestIsAt
<1>7. m = n
  <2>1. m <= n /\ n <= m
    BY <1>3, <1>5, <1>6 DEF BestIsAt
  <2> QED
    BY <1>4, <2>1
<1>8. d <= e /\ e <= d
  BY <1>3, <1>5, <1>6, <1>7 DEF BestIsAt
<1> QED
  BY <1>1, <1>2, <1>4, <1>7, <1>8

LEMMA SolvedIs ==
    ASSUME NEW S, Tabled(S)
    PROVE  /\ IsFiniteSet(Solved(S)) /\ Solved(S) \in SUBSET ProblemsOf(S)
           /\ \A p \in Solved(S) : BestIsAt(S, p, Best(S, p), FirstBest(S, p)) /\ Best(S, p) # 0
<1>1. Solved(S) \in SUBSET ProblemsOf(S)
  BY DEF Solved
<1>2. IsFiniteSet(Solved(S))
  BY <1>1, FiniteProblems, FS_Subset
<1>3. \A p \in Solved(S) : Best(S, p) # 0
  BY DEF Solved
<1> QED
  BY <1>1, <1>2, <1>3, BestIs

\* The total is that of the problems that have brought points.
LEMMA TotalIs ==
    ASSUME NEW S, Tabled(S)
    PROVE  TotalBest(S) = SumFunction([p \in Solved(S) |-> Best(S, p)])
<1> DEFINE f == [p \in ProblemsOf(S) |-> Best(S, p)]
           g == [p \in Solved(S) |-> Best(S, p)]
<1>1. \A p \in ProblemsOf(S) : f[p] \in Int
  BY BestIs DEF BestIsAt
<1>2. DOMAIN f = ProblemsOf(S) /\ DOMAIN g = Solved(S) /\ Solved(S) \in SUBSET ProblemsOf(S)
  BY DEF Solved
<1>3. (\A p \in Solved(S) : g[p] = f[p]) /\ \A p \in ProblemsOf(S) \ Solved(S) : f[p] = 0
  BY <1>2 DEF Solved
<1>4. SumFunction(f) = SumFunction(g)
  <2> HIDE DEF f, g
  <2> QED
    BY <1>1, <1>2, <1>3, FiniteProblems, SumShrinks
<1> QED
  BY <1>4 DEF TotalBest

-----------------------------------------------------------------------------
(* A table that is judged to the end *)

Complete(S, from) ==
    /\ Tabled(S)
    /\ \A s \in S :
           /\ from <= s.date
           /\ Counts(s) \/ (s.result \in {"CE", "IE", "AB"} /\ s.points = 0 /\ s.batch = <<>>)

\* The first of the best submissions is there.
LEMMA TopIs ==
    ASSUME NEW S, Tabled(S), NEW p \in ProblemsOf(S)
    PROVE  /\ Top(S, p) \in OfProblem(S, p)
           /\ Top(S, p).points = Best(S, p) /\ Top(S, p).date = FirstBest(S, p)
<1> DEFINE O == OfProblem(S, p)
           First(s) == \A t \in O : \/ s.points > t.points
                                    \/ s.points = t.points /\ (s.date < t.date \/ (s.date = t.date /\ s.id <= t.id))
<1>1. IsFiniteSet(O) /\ O \subseteq Judged
  BY OfOneProblem
<1>2. PICK n, d : n = Best(S, p) /\ d = FirstBest(S, p) /\ BestIsAt(S, p, n, d)
  BY BestIs
<1>3. \A s \in O : s.points \in Nat /\ s.date \in Nat /\ s.id \in Nat
  BY <1>1, FieldsAre
<1> DEFINE I == {s.id : s \in {t \in O : t.points = n /\ t.date = d}}
<1>4. I \in SUBSET Nat /\ I # {}
  BY <1>2, <1>3 DEF BestIsAt
<1>5. PICK i \in I : \A j \in I : i <= j
  <2> HIDE DEF I
  <2> QED
    BY <1>4, Smallest
<1>6. PICK s \in O : s.points = n /\ s.date = d /\ s.id = i
  BY <1>5
<1>7. n \in Nat /\ d \in Nat /\ \A t \in O : t.points <= n /\ (t.points = n => d <= t.date)
  BY <1>2 DEF BestIsAt
<1>8. First(s)
  <2> SUFFICES ASSUME NEW t \in O
               PROVE  \/ s.points > t.points
                      \/ s.points = t.points /\ (s.date < t.date \/ (s.date = t.date /\ s.id <= t.id))
    OBVIOUS
  <2>1. CASE t.points # n
    BY <1>3, <1>6, <1>7, <2>1
  <2>2. CASE t.points = n /\ t.date # d
    BY <1>3, <1>6, <1>7, <2>2
  <2>3. CASE t.points = n /\ t.date = d
    BY <1>3, <1>5, <1>6, <2>3
  <2> QED
    BY <2>1, <2>2, <2>3
<1>9. PICK top : top = Top(S, p)
  OBVIOUS
<1>10. top \in O /\ First(top)
  <2>1. top = CHOOSE x \in O : First(x)
    BY <1>9 DEF Top
  <2> HIDE DEF First, O
  <2> QED
    BY <1>6, <1>8, <2>1
<1>11. top.points = n
  <2>1. ~(top.points < n)
    BY <1>3, <1>6, <1>7, <1>10
  <2> QED
    BY <1>3, <1>7, <1>10, <2>1
<1>12. top.date = d
  <2>1. d <= top.date
    BY <1>7, <1>10, <1>11
  <2>2. top.date <= s.date
    BY <1>3, <1>6, <1>7, <1>10, <1>11
  <2> QED
    BY <1>3, <1>6, <1>7, <1>10, <2>1, <2>2
<1> QED
  BY <1>2, <1>9, <1>10, <1>11, <1>12

\* The tries before it are the submissions up to it but for itself.
LEMMA PrevIs ==
    ASSUME NoneIsNothing, NEW S, NEW from, Complete(S, from), NEW p \in Solved(S)
    PROVE  Prev(S, p) = Cardinality(Tries(S, p)) /\ Prev(S, p) \in Nat
<1> DEFINE O == OfProblem(S, p)
           d == FirstBest(S, p)
           X == {s \in {t \in O : t.result # None /\ t.result \notin Uncounted} : s.date <= d}
<1>1. Tabled(S) /\ p \in ProblemsOf(S) /\ Best(S, p) # 0
  BY DEF Complete, Solved
<1>2. PICK top : top = Top(S, p) /\ top \in O /\ top.points # 0 /\ top.date = d
  BY <1>1, TopIs
<1>3. O \in SUBSET S /\ IsFiniteSet(O) /\ O \subseteq Judged
  BY <1>1, OfOneProblem DEF OfProblem
<1>4. \A s \in O : Counts(s) \/ (s.result \in {"CE", "IE", "AB"} /\ s.points = 0)
  BY <1>3 DEF Complete
<1>5. \A s \in O : (s.result # None /\ s.result \notin Uncounted) <=> s.result \in {"AC", "WA", "AB"}
  BY <1>4 DEF NoneIsNothing, Counts, Uncounted
<1>6. Tries(S, p) = X \ {top}
  BY <1>2, <1>5 DEF Tries
<1>7. top \in X
  <2>1. Counts(top) /\ top.date \in Nat
    BY <1>2, <1>3, <1>4, FieldsAre
  <2> QED
    BY <1>2, <1>5, <2>1 DEF Counts
<1>8. IsFiniteSet(X)
  <2>1. X \in SUBSET O
    OBVIOUS
  <2> QED
    BY <1>3, <2>1, FS_Subset
<1>9. Cardinality(X \ {top}) = Cardinality(X) - 1 /\ Cardinality(X \ {top}) \in Nat
  <2>1. Cardinality(X \ {top}) = Cardinality(X) - 1 /\ IsFiniteSet(X \ {top})
    BY <1>7, <1>8, FS_RemoveElement
  <2> QED
    BY <2>1, FS_CardinalityType
<1>10. Prev(S, p) = Cardinality(X) - 1
  BY DEF Prev
<1> QED
  BY <1>6, <1>9, <1>10

-----------------------------------------------------------------------------
(* The formats that take the first of the best *)

Bests(S) == [p \in Solved(S) |-> Best(S, p)]
Delays(S, from) == [p \in Solved(S) |-> FirstBest(S, p) - from]
Prevs(S) == [p \in Solved(S) |-> Prev(S, p)]
LastDelay(S, from) == Largest({FirstBest(S, p) - from : p \in Solved(S)})

\* The three rows are made of the same functions.
FirstBestRow(c, S, from) ==
    LET sum == SumFunction(Delays(S, from))
        penalty == c.penalty * SumFunction(Prevs(S))
    IN  CASE c.format = "icpc"    -> Row(SumFunction(Bests(S)), sum + penalty, LastDelay(S, from))
          [] c.format = "atcoder" -> Row(SumFunction(Bests(S)), LastDelay(S, from) + penalty, 0)
          [] c.format = "ioi"     -> Row(SumFunction(Bests(S)), IF c.cumtime THEN Largest({0, sum}) ELSE 0, 0)

FirstBestFormats == {"icpc", "atcoder", "ioi"}

LEMMA FirstBestRowIs ==
    ASSUME NEW S, Tabled(S), NEW c, NEW from, NEW to, c.format \in FirstBestFormats
    PROVE  update_participation(c, S, from, to) = FirstBestRow(c, S, from)
<1>1. TotalBest(S) = SumFunction(Bests(S))
  BY TotalIs DEF Bests
<1>2. CASE c.format = "icpc"
  <2>1. update_participation(c, S, from, to) = ICPC(c, S, from)
    BY <1>2 DEF update_participation
  <2>2. ICPC(c, S, from) = Row(TotalBest(S), SumFunction(Delays(S, from)) + c.penalty * SumFunction(Prevs(S)),
                               LastDelay(S, from))
    BY Zenon DEF ICPC, Penalty, Delays, Prevs, LastDelay
  <2> QED
    BY <1>1, <1>2, <2>1, <2>2 DEF FirstBestRow
<1>3. CASE c.format = "atcoder"
  <2>1. update_participation(c, S, from, to) = AtCoder(c, S, from)
    BY <1>3 DEF update_participation
  <2>2. AtCoder(c, S, from) = Row(TotalBest(S), LastDelay(S, from) + c.penalty * SumFunction(Prevs(S)), 0)
    BY Zenon DEF AtCoder, Penalty, Prevs, LastDelay
  <2> QED
    BY <1>1, <1>3, <2>1, <2>2 DEF FirstBestRow
<1>4. CASE c.format = "ioi"
  <2>1. update_participation(c, S, from, to) = LegacyIOI(c, S, from)
    BY <1>4 DEF update_participation
  <2>2. LegacyIOI(c, S, from) =
            Row(TotalBest(S), IF c.cumtime THEN Largest({0, SumFunction(Delays(S, from))}) ELSE 0, 0)
    BY Zenon DEF LegacyIOI, Delays
  <2> QED
    BY <1>1, <1>4, <2>1, <2>2 DEF FirstBestRow
<1> QED
  BY <1>2, <1>3, <1>4 DEF FirstBestFormats

\* Only what was judged to the end has points, and nothing is before the begin.
Timely(S, from) ==
    Tabled(S) /\ \A s \in S : from <= s.date /\ (s.points # 0 => s.result \in {"AC", "WA"})

LEMMA PrevIsNat ==
    ASSUME NoneIsNothing, NEW S, NEW from, Timely(S, from), NEW p \in Solved(S)
    PROVE  Prev(S, p) \in Nat
<1> DEFINE X == {s \in {t \in OfProblem(S, p) : t.result # None /\ t.result \notin Uncounted} :
                     s.date <= FirstBest(S, p)}
<1>1. Tabled(S)
  BY DEF Timely
<1>2. Prev(S, p) = Cardinality(X) - 1
  BY DEF Prev
<1>3. PICK n, d : n = Best(S, p) /\ d = FirstBest(S, p) /\ BestIsAt(S, p, n, d) /\ n # 0
  BY <1>1, SolvedIs
<1>4. PICK s \in OfProblem(S, p) : s.points = n /\ s.date = d
  BY <1>3 DEF BestIsAt
<1>5. s.result \in {"AC", "WA"} /\ d \in Nat
  BY <1>3, <1>4 DEF Timely, OfProblem, BestIsAt
<1>6. s \in X
  BY <1>3, <1>4, <1>5 DEF NoneIsNothing, Uncounted
<1>7. IsFiniteSet(X)
  <2>1. X \in SUBSET OfProblem(S, p) /\ IsFiniteSet(OfProblem(S, p))
    BY <1>1, OfOneProblem
  <2> HIDE DEF X
  <2> QED
    BY <2>1, FS_Subset
<1>8. Cardinality(X \ {s}) = Cardinality(X) - 1 /\ Cardinality(X \ {s}) \in Nat
  <2> HIDE DEF X
  <2>1. Cardinality(X \ {s}) = Cardinality(X) - 1 /\ IsFiniteSet(X \ {s})
    BY <1>6, <1>7, FS_RemoveElement
  <2> QED
    BY <2>1, FS_CardinalityType
<1> QED
  BY <1>2, <1>8

\* In such a table the delays are no less than zero.
LEMMA DelaysAre ==
    ASSUME NoneIsNothing, NEW S, NEW from \in Int, Timely(S, from)
    PROVE  /\ SumFunction(Delays(S, from)) \in Nat /\ SumFunction(Prevs(S)) \in Nat
           /\ LastDelay(S, from) \in Nat
<1>1. Tabled(S)
  BY DEF Timely
<1>2. IsFiniteSet(Solved(S)) /\ \A p \in Solved(S) : BestIsAt(S, p, Best(S, p), FirstBest(S, p))
  BY <1>1, SolvedIs
<1>3. \A p \in Solved(S) : Delays(S, from)[p] \in Nat
  <2> SUFFICES ASSUME NEW p \in Solved(S) PROVE FirstBest(S, p) - from \in Nat
    BY DEF Delays
  <2>1. PICK s \in OfProblem(S, p) : s.date = FirstBest(S, p)
    BY <1>2 DEF BestIsAt
  <2>2. from <= s.date /\ s.date \in Nat
    BY <1>1, FieldsAre DEF Timely, OfProblem, Tabled
  <2> QED
    BY <2>1, <2>2
<1>4. SumFunction(Delays(S, from)) \in Nat
  <2>1. DOMAIN Delays(S, from) = Solved(S)
    BY DEF Delays
  <2> QED
    BY <1>2, <1>3, <2>1, SumIsNumber
<1>5. SumFunction(Prevs(S)) \in Nat
  <2>1. DOMAIN Prevs(S) = Solved(S) /\ \A p \in Solved(S) : Prevs(S)[p] \in Nat
    BY PrevIsNat DEF Prevs
  <2> QED
    BY <1>2, <2>1, SumIsNumber
<1>6. LastDelay(S, from) \in Nat
  <2> DEFINE T == {Delays(S, from)[p] : p \in Solved(S)}
  <2>1. T = {FirstBest(S, p) - from : p \in Solved(S)}
    BY DEF Delays
  <2>2. T \subseteq Nat /\ T \subseteq Int
    BY <1>3
  <2>3. IsFiniteSet(T)
    BY <1>2, FiniteImage
  <2>4. Largest(T) \in Nat
    <3> HIDE DEF T
    <3>1. CASE T = {}
      BY <3>1 DEF Largest
    <3>2. CASE T # {}
      BY <2>2, <2>3, <3>2, MaxIs DEF Largest
    <3> QED
      BY <3>1, <3>2
  <2> QED
    BY <2>1, <2>4 DEF LastDelay
<1> QED
  BY <1>4, <1>5, <1>6

LEMMA NoLess ==
    ASSUME NEW n \in Nat PROVE Largest({0, n}) = n
<1>1. Max({0, n}) = n
  BY MaxIsOnly
<1> QED
  BY <1>1 DEF Largest

\* What the rules look at.
TopSolved(S) == {p \in ProblemsOf(S) : Top(S, p).points > 0}

LEMMA TopsAre ==
    ASSUME NEW S, Tabled(S), NEW from
    PROVE  /\ TopSolved(S) = Solved(S)
           /\ [p \in TopSolved(S) |-> Top(S, p).points] = Bests(S)
           /\ [p \in TopSolved(S) |-> Top(S, p).date - from] = Delays(S, from)
           /\ Largest({Top(S, p).date - from : p \in TopSolved(S)}) = LastDelay(S, from)
<1>1. \A p \in ProblemsOf(S) : /\ Top(S, p).points = Best(S, p) /\ Top(S, p).date = FirstBest(S, p)
                               /\ Best(S, p) \in Nat
  BY TopIs, BestIs DEF BestIsAt
<1>2. TopSolved(S) = Solved(S)
  BY <1>1 DEF TopSolved, Solved
<1>3. \A p \in Solved(S) : Top(S, p).points = Best(S, p) /\ Top(S, p).date = FirstBest(S, p)
  BY <1>1 DEF Solved
<1>4. [p \in TopSolved(S) |-> Top(S, p).points] = Bests(S)
  BY <1>2, <1>3 DEF Bests
<1>5. [p \in TopSolved(S) |-> Top(S, p).date - from] = Delays(S, from)
  BY <1>2, <1>3 DEF Delays
<1>6. {Top(S, p).date - from : p \in TopSolved(S)} = {FirstBest(S, p) - from : p \in Solved(S)}
  BY <1>2, <1>3
<1> QED
  BY <1>2, <1>4, <1>5, <1>6 DEF LastDelay

LEMMA TriesAre ==
    ASSUME NoneIsNothing, NEW S, NEW from, Complete(S, from)
    PROVE  [p \in TopSolved(S) |-> Cardinality(Tries(S, p))] = Prevs(S)
<1>1. TopSolved(S) = Solved(S)
  BY TopsAre DEF Complete
<1>2. \A p \in Solved(S) : Prev(S, p) = Cardinality(Tries(S, p))
  BY PrevIs
<1> QED
  BY <1>1, <1>2 DEF Prevs

\* These three score by the rules.
LEMMA FirstBestByTheRules ==
    ASSUME NoneIsNothing, NEW S, NEW c, NEW from \in Int, NEW to, Complete(S, from), c.format \in FirstBestFormats
    PROVE  FirstBestRow(c, S, from) = Standing(c, S, from, to)
<1> DEFINE score == SumFunction([p \in TopSolved(S) |-> Top(S, p).points])
           all == SumFunction([p \in TopSolved(S) |-> Top(S, p).date - from])
           penalty == c.penalty * SumFunction([p \in TopSolved(S) |-> Cardinality(Tries(S, p))])
           last == Largest({Top(S, p).date - from : p \in TopSolved(S)})
<1>1. /\ score = SumFunction(Bests(S)) /\ all = SumFunction(Delays(S, from))
      /\ penalty = c.penalty * SumFunction(Prevs(S)) /\ last = LastDelay(S, from)
  BY TopsAre, TriesAre DEF Complete
<1>2. SumFunction(Delays(S, from)) \in Nat
  <2>1. Timely(S, from)
    BY DEF Complete, Counts, Timely
  <2> QED
    BY <2>1, DelaysAre
<1>3. CASE c.format = "icpc"
  <2>1. Standing(c, S, from, to) = Row(score, all + penalty, last)
    BY <1>3 DEF Standing, TopSolved
  <2> HIDE DEF score, all, penalty, last
  <2> QED
    BY <1>1, <1>3, <2>1 DEF FirstBestRow
<1>4. CASE c.format = "atcoder"
  <2>1. Standing(c, S, from, to) = Row(score, last + penalty, 0)
    BY <1>4 DEF Standing, TopSolved
  <2> HIDE DEF score, all, penalty, last
  <2> QED
    BY <1>1, <1>4, <2>1 DEF FirstBestRow
<1>5. CASE c.format = "ioi"
  <2>1. Standing(c, S, from, to) = Row(score, IF c.cumtime THEN all ELSE 0, 0)
    BY <1>5 DEF Standing, TopSolved
  <2> HIDE DEF score, all, penalty, last
  <2> QED
    BY <1>1, <1>2, <1>5, <2>1, NoLess DEF FirstBestRow
<1> QED
  BY <1>3, <1>4, <1>5 DEF FirstBestFormats

-----------------------------------------------------------------------------
(* A submission without points changes nothing in these *)

LEMMA AddedIsTabled ==
    ASSUME NEW S, Tabled(S), NEW v \in Judged
    PROVE  Tabled(S \cup {v})
BY FS_AddElement DEF Tabled

LEMMA VoidMeasure ==
    ASSUME NEW S, Tabled(S), NEW v \in Judged, v.points = 0
    PROVE  /\ Solved(S \cup {v}) = Solved(S)
           /\ \A p \in Solved(S) : /\ Best(S \cup {v}, p) = Best(S, p)
                                   /\ FirstBest(S \cup {v}, p) = FirstBest(S, p)
<1> DEFINE T == S \cup {v}
<1>1. Tabled(T)
  BY AddedIsTabled
<1>2. \A p : OfProblem(T, p) = OfProblem(S, p) \cup (IF v.prob = p THEN {v} ELSE {})
  BY DEF OfProblem
<1>3. ASSUME NEW p \in Solved(S)
      PROVE  p \in Solved(T) /\ Best(T, p) = Best(S, p) /\ FirstBest(T, p) = FirstBest(S, p)
  <2>1. PICK n, d : n = Best(S, p) /\ d = FirstBest(S, p) /\ n # 0 /\ BestIsAt(S, p, n, d)
    BY SolvedIs
  <2>2. BestIsAt(T, p, n, d)
    <3>1. n \in Nat /\ d \in Nat
      BY <2>1 DEF BestIsAt
    <3>2. \A s \in OfProblem(T, p) : s \in OfProblem(S, p) \/ s.points = 0
      BY <1>2
    <3>3. \A s \in OfProblem(T, p) : s.points <= n /\ (s.points = n => d <= s.date)
      BY <2>1, <3>1, <3>2 DEF BestIsAt
    <3>4. \E s \in OfProblem(T, p) : s.points = n /\ s.date = d
      BY <1>2, <2>1 DEF BestIsAt
    <3> HIDE DEF T
    <3> QED
      BY <3>1, <3>3, <3>4 DEF BestIsAt
  <2>3. p \in ProblemsOf(T) /\ Best(T, p) = n /\ FirstBest(T, p) = d
    <3> HIDE DEF T
    <3> QED
      BY <1>1, <2>2, BestIsOnly
  <2>4. p \in Solved(T)
    <3> HIDE DEF T
    <3> QED
      BY <2>1, <2>3 DEF Solved
  <2> QED
    BY <2>1, <2>3, <2>4
<1>4. ASSUME NEW p \in Solved(T)
      PROVE  p \in Solved(S)
  <2>1. PICK n, d : n = Best(T, p) /\ d = FirstBest(T, p) /\ n # 0 /\ BestIsAt(T, p, n, d)
    <3> HIDE DEF T
    <3> QED
      BY <1>1, SolvedIs
  <2>2. BestIsAt(S, p, n, d)
    <3>1. n \in Nat /\ d \in Nat
      BY <2>1 DEF BestIsAt
    <3>2. \A s \in OfProblem(S, p) : s \in OfProblem(T, p)
      BY <1>2
    <3>3. \A s \in OfProblem(S, p) : s.points <= n /\ (s.points = n => d <= s.date)
      BY <2>1, <3>2 DEF BestIsAt
    <3>4. PICK s \in OfProblem(T, p) : s.points = n /\ s.date = d
      BY <2>1 DEF BestIsAt
    <3>5. s \in OfProblem(S, p)
      BY <1>2, <2>1, <3>4
    <3> QED
      BY <3>1, <3>3, <3>4, <3>5 DEF BestIsAt
  <2>3. p \in ProblemsOf(S) /\ Best(S, p) = n
    BY <2>2, BestIsOnly
  <2> QED
    BY <2>1, <2>3 DEF Solved
<1> QED
  BY <1>3, <1>4

\* v is worth nothing in format f.
Void(v, f) ==
    /\ v \in Judged /\ v.points = 0 /\ v.batch = <<>>
    /\ v.result \in {None} \cup Uncounted \/ f \in {"ioi", "ioi16"}

LEMMA VoidPrev ==
    ASSUME NEW S, Tabled(S), NEW v \in Judged, v.points = 0, v.result \in {None} \cup Uncounted, NEW p \in Solved(S)
    PROVE  Prev(S \cup {v}, p) = Prev(S, p)
<1> DEFINE T == S \cup {v}
           Kept(X) == {s \in OfProblem(X, p) : s.result # None /\ s.result \notin Uncounted}
<1>1. Kept(T) = Kept(S)
  BY DEF OfProblem
<1>2. FirstBest(T, p) = FirstBest(S, p)
  BY VoidMeasure
<1>3. {s \in Kept(T) : s.date <= FirstBest(T, p)} = {s \in Kept(S) : s.date <= FirstBest(S, p)}
  <2> HIDE DEF T, Kept
  <2> QED
    BY <1>1, <1>2
<1>4. \A X : Prev(X, p) = Cardinality({s \in Kept(X) : s.date <= FirstBest(X, p)}) - 1
  BY DEF Prev
<1> QED
  <2> HIDE DEF T, Kept
  <2>1. Prev(T, p) = Prev(S, p)
    BY <1>3, <1>4
  <2> QED
    BY <2>1 DEF T

SameRow(c, S, T) == \A from : FirstBestRow(c, T, from) = FirstBestRow(c, S, from)

LEMMA VoidFirstBest ==
    ASSUME NEW S, Tabled(S), NEW c, NEW v, Void(v, c.format), c.format \in FirstBestFormats
    PROVE  SameRow(c, S, S \cup {v})
<1> SUFFICES ASSUME NEW from
             PROVE  FirstBestRow(c, S \cup {v}, from) = FirstBestRow(c, S, from)
  BY Zenon DEF SameRow
<1> DEFINE T == S \cup {v}
<1>1. v \in Judged /\ v.points = 0
  BY DEF Void
<1>2. Solved(T) = Solved(S) /\ \A p \in Solved(S) : Best(T, p) = Best(S, p) /\ FirstBest(T, p) = FirstBest(S, p)
  BY <1>1, VoidMeasure
<1>3. \A p \in Solved(S) : c.format # "ioi" => Prev(T, p) = Prev(S, p)
  BY <1>1, VoidPrev DEF Void, FirstBestFormats
<1> HIDE DEF T
<1>4. Bests(T) = Bests(S)
  BY <1>2 DEF Bests
<1>5. Delays(T, from) = Delays(S, from)
  BY <1>2 DEF Delays
<1>6. LastDelay(T, from) = LastDelay(S, from)
  <2>1. {FirstBest(T, p) - from : p \in Solved(T)} = {FirstBest(S, p) - from : p \in Solved(S)}
    BY <1>2
  <2> QED
    BY <2>1 DEF LastDelay
<1>7. c.format # "ioi" => Prevs(T) = Prevs(S)
  BY <1>2, <1>3 DEF Prevs
<1>8. FirstBestRow(c, T, from) = FirstBestRow(c, S, from)
  BY <1>4, <1>5, <1>6, <1>7 DEF FirstBestRow, FirstBestFormats
<1> QED
  BY <1>8 DEF T

-----------------------------------------------------------------------------
(* The format of batches *)

JudgedOf(S) == {s \in S : s.batch # <<>>}

\* The best of a batch, and the time of the first that has it.
BatchBest(J, p, b) == Max({s.batch[b] : s \in OfProblem(J, p)})
BatchFirst(J, p, b) == Min({s.date : s \in {t \in OfProblem(J, p) : t.batch[b] = BatchBest(J, p, b)}})
Both(J, p) == BatchBest(J, p, 1) + BatchBest(J, p, 2)
BothTimes(J, p, from) == Largest({0} \cup {BatchFirst(J, p, b) - from : b \in {1, 2}})

\* The row as a function of the judged submissions.
BatchRow(c, J, from) ==
    Row(SumFunction([p \in ProblemsOf(J) |-> Both(J, p)]),
        IF c.cumtime THEN SumFunction([p \in {q \in ProblemsOf(J) : Both(J, q) # 0} |-> BothTimes(J, p, from)])
        ELSE 0, 0)

LEMMA JudgedAre ==
    ASSUME NEW S, Tabled(S)
    PROVE  Tabled(JudgedOf(S)) /\ \A s \in JudgedOf(S) : s.batch \in [1..2 -> 0..1]
<1>1. JudgedOf(S) \in SUBSET S
  BY DEF JudgedOf
<1>2. Tabled(JudgedOf(S))
  BY <1>1, FS_Subset DEF Tabled
<1>3. \A s \in JudgedOf(S) : s.batch \in [1..2 -> 0..1]
  <2> SUFFICES ASSUME NEW s \in JudgedOf(S) PROVE s.batch \in [1..2 -> 0..1]
    OBVIOUS
  <2>1. s \in Judged /\ s.batch # <<>>
    BY DEF JudgedOf, Tabled
  <2> QED
    BY <2>1, FieldsAre DEF Batches
<1> QED
  BY <1>2, <1>3

\* A batch of a judged problem has a best and a first.
LEMMA BatchIs ==
    ASSUME NEW S, Tabled(S), NEW p \in ProblemsOf(JudgedOf(S)), NEW b \in {1, 2}
    PROVE  LET J == JudgedOf(S) IN
           /\ BatchBest(J, p, b) \in 0..1 /\ BatchFirst(J, p, b) \in Nat
           /\ \A s \in OfProblem(J, p) :
                  /\ s.batch[b] <= BatchBest(J, p, b)
                  /\ s.batch[b] = BatchBest(J, p, b) => BatchFirst(J, p, b) <= s.date
           /\ \E s \in OfProblem(J, p) : s.batch[b] = BatchBest(J, p, b) /\ s.date = BatchFirst(J, p, b)
<1> DEFINE O == OfProblem(JudgedOf(S), p)
           f == [s \in O |-> s.batch[b]]
           D == {f[s] : s \in O}
<1>1. IsFiniteSet(O) /\ O \subseteq Judged /\ O # {} /\ \A s \in O : s.batch \in [1..2 -> 0..1]
  <2>1. O \subseteq JudgedOf(S)
    BY DEF OfProblem
  <2> QED
    BY <2>1, JudgedAre, OfOneProblem
<1>2. \A s \in O : s.batch[b] \in 0..1 /\ s.batch[b] \in Int
  <2>1. b \in 1..2
    OBVIOUS
  <2> HIDE DEF O
  <2>2. \A s \in O : s.batch[b] \in 0..1
    BY <1>1, <2>1
  <2> QED
    BY <2>2
<1>3. PICK n : n = BatchBest(JudgedOf(S), p, b)
  OBVIOUS
<1>4. n \in D /\ \A y \in D : y <= n
  <2>1. D = {s.batch[b] : s \in O}
    BY Zenon
  <2>2. IsFiniteSet(D)
    <3> HIDE DEF f, O
    <3> QED
      BY <1>1, FiniteImage
  <2>3. D # {}
    BY <1>1
  <2>4. D \subseteq Int
    BY <1>2
  <2>5. n = Max(D)
    <3>1. n = Max({s.batch[b] : s \in O})
      BY <1>3 DEF BatchBest
    <3> HIDE DEF D, O
    <3> QED
      BY <2>1, <3>1
  <2> HIDE DEF D
  <2> QED
    BY <2>2, <2>3, <2>4, <2>5, MaxIs
<1> DEFINE T == {t \in O : t.batch[b] = n}
<1>5. IsFiniteSet(T) /\ T \subseteq Judged /\ T # {}
  <2>1. T \in SUBSET O
    OBVIOUS
  <2>2. T # {}
    BY <1>4
  <2> HIDE DEF O, T
  <2> QED
    BY <1>1, <2>1, <2>2, FS_Subset
<1>6. PICK d : d = BatchFirst(JudgedOf(S), p, b)
  OBVIOUS
<1>7. d \in {s.date : s \in T} /\ \A y \in {s.date : s \in T} : d <= y
  <2>1. d = Min({s.date : s \in T})
    BY <1>3, <1>6 DEF BatchFirst
  <2> HIDE DEF O, T
  <2> QED
    BY <1>5, <2>1, FiniteDates, MinIs
<1>8. n \in 0..1 /\ d \in Nat
  <2>1. \A s \in O : s.date \in Nat
    BY <1>1, FieldsAre
  <2> QED
    BY <1>2, <1>4, <1>7, <2>1
<1>9. \A s \in O : s.batch[b] <= n /\ (s.batch[b] = n => d <= s.date)
  BY <1>4, <1>7
<1>10. \E s \in O : s.batch[b] = n /\ s.date = d
  BY <1>7
<1> QED
  <2> HIDE DEF O
  <2>1. /\ BatchBest(JudgedOf(S), p, b) \in 0..1 /\ BatchFirst(JudgedOf(S), p, b) \in Nat
        /\ \A s \in O :
               /\ s.batch[b] <= BatchBest(JudgedOf(S), p, b)
               /\ s.batch[b] = BatchBest(JudgedOf(S), p, b) => BatchFirst(JudgedOf(S), p, b) <= s.date
        /\ \E s \in O : s.batch[b] = BatchBest(JudgedOf(S), p, b) /\ s.date = BatchFirst(JudgedOf(S), p, b)
    BY <1>3, <1>6, <1>8, <1>9, <1>10
  <2> QED
    BY <2>1 DEF O

LEMMA SumOfTwo ==
    ASSUME NEW f, DOMAIN f = {1, 2}, f[1] \in Int, f[2] \in Int
    PROVE  SumFunction(f) = f[1] + f[2]
<1>1. IsFiniteSet({1, 2}) /\ IsFiniteSet({2}) /\ {1, 2} \ {1} = {2} /\ {2} \ {2} = {}
  <2>1. IsFiniteSet({2}) /\ {1, 2} = {2} \cup {1}
    BY FS_Singleton
  <2> QED
    BY <2>1, FS_AddElement
<1>2. SumFunctionOnSet(f, {1, 2}) = f[1] + SumFunctionOnSet(f, {2})
  BY <1>1, SumWithout
<1>3. SumFunctionOnSet(f, {2}) = f[2] + 0
  BY <1>1, SumWithout, SumOfNothing
<1> QED
  BY <1>2, <1>3 DEF SumFunction

\* The operators of IOI, by their names there.
Having(S, p, b) == {s \in OfProblem(S, p) : b \in DOMAIN s.batch}
IOIBatches(S, p) == UNION {DOMAIN s.batch : s \in OfProblem(S, p)}
IOIBest(S, p, b) == Max({s.batch[b] : s \in Having(S, p, b)})
IOIDelay(S, p, b, from) == Min({s.date : s \in {t \in Having(S, p, b) : t.batch[b] = IOIBest(S, p, b)}}) - from
IOIPoints(S, p) == SumFunction([b \in IOIBatches(S, p) |-> IOIBest(S, p, b)])
IOITime(S, p, from) == Largest({0} \cup {IOIDelay(S, p, b, from) : b \in IOIBatches(S, p)})

LEMMA IOIIs ==
    ASSUME NEW c, NEW S, NEW from
    PROVE  IOI(c, S, from) =
               Row(SumFunction([p \in ProblemsOf(S) |-> IOIPoints(S, p)]),
                   IF c.cumtime THEN SumFunction([p \in {n \in ProblemsOf(S) : IOIPoints(S, n) # 0} |-> IOITime(S, p, from)])
                   ELSE 0, 0)
BY Zenon DEF IOI, IOIPoints, IOITime, IOIDelay, IOIBest, IOIBatches, Having

\* Of a problem that is judged there are both batches, of another none.
LEMMA BatchesAre ==
    ASSUME NEW S, Tabled(S), NEW p, NEW from
    PROVE  /\ p \in ProblemsOf(JudgedOf(S)) =>
                  IOIPoints(S, p) = Both(JudgedOf(S), p) /\ IOITime(S, p, from) = BothTimes(JudgedOf(S), p, from)
           /\ p \notin ProblemsOf(JudgedOf(S)) => IOIPoints(S, p) = 0
<1> DEFINE J == JudgedOf(S)
<1>1. \A s \in OfProblem(S, p) : IF s \in J THEN DOMAIN s.batch = {1, 2} ELSE DOMAIN s.batch = {}
  <2> SUFFICES ASSUME NEW s \in OfProblem(S, p)
               PROVE  IF s \in J THEN DOMAIN s.batch = {1, 2} ELSE DOMAIN s.batch = {}
    OBVIOUS
  <2>1. CASE s \in J
    <3>1. DOMAIN s.batch = 1..2
      BY <2>1, JudgedAre
    <3> QED
      BY <2>1, <3>1
  <2>2. CASE s \notin J
    BY <2>2 DEF JudgedOf, OfProblem
  <2> QED
    BY <2>1, <2>2
<1>2. OfProblem(J, p) \subseteq OfProblem(S, p) /\ \A s \in OfProblem(S, p) : s \in J <=> s \in OfProblem(J, p)
  BY DEF OfProblem, JudgedOf
<1>3. CASE p \in ProblemsOf(J)
  <2>1. OfProblem(J, p) # {}
    BY <1>3, JudgedAre, OfOneProblem
  <2>2. IOIBatches(S, p) = {1, 2}
    <3>1. PICK s \in OfProblem(J, p) : TRUE
      BY <2>1
    <3>2. {1, 2} \in {DOMAIN t.batch : t \in OfProblem(S, p)}
      BY <1>1, <1>2, <3>1
    <3>3. \A X \in {DOMAIN t.batch : t \in OfProblem(S, p)} : X \subseteq {1, 2}
      BY <1>1
    <3> HIDE DEF J
    <3> QED
      BY <3>2, <3>3 DEF IOIBatches
  <2>3. ASSUME NEW b \in {1, 2}
        PROVE  Having(S, p, b) = OfProblem(J, p)
    BY <1>1, <1>2 DEF Having
  <2>4. ASSUME NEW b \in {1, 2}
        PROVE  IOIBest(S, p, b) = BatchBest(J, p, b) /\ IOIDelay(S, p, b, from) = BatchFirst(J, p, b) - from
    <3> HIDE DEF J
    <3>1. IOIBest(S, p, b) = BatchBest(J, p, b)
      BY <2>3 DEF IOIBest, BatchBest
    <3> QED
      BY <2>3, <3>1 DEF IOIDelay, BatchFirst
  <2>5. IOIPoints(S, p) = Both(J, p)
    <3> DEFINE f == [b \in {1, 2} |-> BatchBest(J, p, b)]
    <3>1. [b \in IOIBatches(S, p) |-> IOIBest(S, p, b)] = f
      <4> HIDE DEF J
      <4> QED
        BY <2>2, <2>4
    <3>2. BatchBest(J, p, 1) \in Int /\ BatchBest(J, p, 2) \in Int
      BY <1>3, BatchIs
    <3>3. SumFunction(f) = f[1] + f[2]
      <4>1. DOMAIN f = {1, 2} /\ f[1] \in Int /\ f[2] \in Int
        BY <3>2
      <4> HIDE DEF f
      <4> QED
        BY <4>1, SumOfTwo
    <3>4. IOIPoints(S, p) = SumFunction(f)
      <4> HIDE DEF f
      <4> QED
        BY <3>1 DEF IOIPoints
    <3> QED
      BY <3>3, <3>4 DEF Both
  <2>6. IOITime(S, p, from) = BothTimes(J, p, from)
    <3>1. {IOIDelay(S, p, b, from) : b \in IOIBatches(S, p)} = {BatchFirst(J, p, b) - from : b \in {1, 2}}
      <4> HIDE DEF J
      <4> QED
        BY <2>2, <2>4
    <3> HIDE DEF J
    <3> QED
      BY <3>1 DEF IOITime, BothTimes
  <2> QED
    BY <1>3, <2>5, <2>6
<1>4. CASE p \notin ProblemsOf(J)
  <2>1. OfProblem(J, p) = {}
    BY <1>4, JudgedAre, OfOneProblem
  <2>2. \A X \in {DOMAIN t.batch : t \in OfProblem(S, p)} : X = {}
    BY <1>1, <1>2, <2>1
  <2>3. IOIBatches(S, p) = {}
    <3> HIDE DEF J
    <3> QED
      BY <2>2 DEF IOIBatches
  <2>4. DOMAIN [b \in IOIBatches(S, p) |-> IOIBest(S, p, b)] = {}
    BY <2>3
  <2>5. IOIPoints(S, p) = 0
    BY <2>4, SumOfNothing DEF IOIPoints, SumFunction
  <2> QED
    BY <1>4, <2>5
<1> QED
  BY <1>3, <1>4

\* Only the submissions that are judged count.
LEMMA BatchRowIs ==
    ASSUME NEW S, Tabled(S), NEW c, NEW from, NEW to, c.format = "ioi16"
    PROVE  update_participation(c, S, from, to) = BatchRow(c, JudgedOf(S), from)
<1> DEFINE J == JudgedOf(S)
           f == [p \in ProblemsOf(S) |-> IOIPoints(S, p)]
           g == [p \in ProblemsOf(J) |-> Both(J, p)]
<1>1. update_participation(c, S, from, to) = IOI(c, S, from)
  BY DEF update_participation
<1>2. ProblemsOf(J) \in SUBSET ProblemsOf(S)
  BY DEF ProblemsOf, JudgedOf
<1>3. /\ \A p \in ProblemsOf(J) : IOIPoints(S, p) = Both(J, p) /\ IOITime(S, p, from) = BothTimes(J, p, from)
      /\ \A p \in ProblemsOf(S) \ ProblemsOf(J) : IOIPoints(S, p) = 0
  BY BatchesAre
<1>4. \A p \in ProblemsOf(J) : Both(J, p) \in Int
  <2> SUFFICES ASSUME NEW p \in ProblemsOf(J) PROVE Both(J, p) \in Int
    OBVIOUS
  <2>1. BatchBest(J, p, 1) \in 0..1 /\ BatchBest(J, p, 2) \in 0..1
    BY BatchIs
  <2> HIDE DEF J
  <2> QED
    BY <2>1 DEF Both
<1> HIDE DEF J
<1>5. SumFunction(f) = SumFunction(g)
  <2>1. \A p \in ProblemsOf(S) : f[p] \in Int
    BY <1>3, <1>4
  <2>2. DOMAIN f = ProblemsOf(S) /\ DOMAIN g = ProblemsOf(J)
    OBVIOUS
  <2>3. (\A p \in ProblemsOf(J) : g[p] = f[p]) /\ \A p \in ProblemsOf(S) \ ProblemsOf(J) : f[p] = 0
    BY <1>2, <1>3
  <2> HIDE DEF f, g
  <2> QED
    BY <1>2, <2>1, <2>2, <2>3, FiniteProblems, SumShrinks
<1>6. [p \in {n \in ProblemsOf(S) : IOIPoints(S, n) # 0} |-> IOITime(S, p, from)]
          = [p \in {n \in ProblemsOf(J) : Both(J, n) # 0} |-> BothTimes(J, p, from)]
  <2>1. {n \in ProblemsOf(S) : IOIPoints(S, n) # 0} = {n \in ProblemsOf(J) : Both(J, n) # 0}
    BY <1>2, <1>3
  <2>2. \A p \in {n \in ProblemsOf(J) : Both(J, n) # 0} : IOITime(S, p, from) = BothTimes(J, p, from)
    BY <1>3
  <2> QED
    BY <2>1, <2>2
<1>7. IOI(c, S, from) = BatchRow(c, J, from)
  BY <1>5, <1>6, IOIIs DEF BatchRow
<1> QED
  BY <1>1, <1>7 DEF J

LEMMA VoidBatch ==
    ASSUME NEW S, NEW v, v.batch = <<>>
    PROVE  JudgedOf(S \cup {v}) = JudgedOf(S)
BY DEF JudgedOf

\* What the rules look at: who has the most of a batch.
Reaching(J, p, b) == {t \in J : t.prob = p /\ \A u \in J : u.prob = t.prob => u.batch[b] <= t.batch[b]}
RuleBatch(J, p, b) == CHOOSE n \in {s.batch[b] : s \in Reaching(J, p, b)} : TRUE
RuleWhen(J, p, b, from) == Min({s.date : s \in Reaching(J, p, b)}) - from
RuleBoth(J, p) == RuleBatch(J, p, 1) + RuleBatch(J, p, 2)

LEMMA BatchStanding ==
    ASSUME NEW S, NEW c, NEW from, NEW to, c.format = "ioi16"
    PROVE  LET J == JudgedOf(S) IN
           Standing(c, S, from, to) =
               Row(SumFunction([p \in ProblemsOf(J) |-> RuleBoth(J, p)]),
                   IF c.cumtime
                   THEN SumFunction([p \in {n \in ProblemsOf(J) : RuleBoth(J, n) > 0} |->
                                        Largest({RuleWhen(J, p, 1, from), RuleWhen(J, p, 2, from)})])
                   ELSE 0, 0)
BY DEF Standing, JudgedOf, RuleBoth, RuleWhen, RuleBatch, Reaching

LEMMA ReachingIs ==
    ASSUME NEW S, Tabled(S), NEW p \in ProblemsOf(JudgedOf(S)), NEW b \in {1, 2}, NEW from
    PROVE  LET J == JudgedOf(S) IN
           RuleBatch(J, p, b) = BatchBest(J, p, b) /\ RuleWhen(J, p, b, from) = BatchFirst(J, p, b) - from
<1> DEFINE J == JudgedOf(S)
           T == {t \in OfProblem(J, p) : t.batch[b] = BatchBest(J, p, b)}
<1>1. PICK n : n = BatchBest(J, p, b) /\ n \in 0..1
  BY BatchIs
<1>2. /\ \A s \in OfProblem(J, p) : s.batch[b] <= n
      /\ \E s \in OfProblem(J, p) : s.batch[b] = n
  BY <1>1, BatchIs
<1>3. \A s \in OfProblem(J, p) : s.batch[b] \in 0..1
  <2>1. \A s \in J : s.batch \in [1..2 -> 0..1]
    BY JudgedAre
  <2>2. b \in 1..2 /\ OfProblem(J, p) \subseteq J
    BY DEF OfProblem
  <2> HIDE DEF J
  <2> QED
    BY <2>1, <2>2
<1>4. Reaching(J, p, b) = T
  <2>1. OfProblem(J, p) = {t \in J : t.prob = p}
    BY DEF OfProblem
  <2>2. ASSUME NEW t \in J
        PROVE  t \in Reaching(J, p, b) <=> t \in T
    <3>1. t \in Reaching(J, p, b) <=> t \in OfProblem(J, p) /\ \A u \in OfProblem(J, p) : u.batch[b] <= t.batch[b]
      <4> HIDE DEF J
      <4> QED
        BY <2>1, <2>2 DEF Reaching
    <3>2. t \in T <=> t \in OfProblem(J, p) /\ t.batch[b] = n
      BY <1>1
    <3>3. ASSUME t \in OfProblem(J, p)
          PROVE  (\A u \in OfProblem(J, p) : u.batch[b] <= t.batch[b]) <=> t.batch[b] = n
      <4> HIDE DEF J
      <4> QED
        BY <1>1, <1>2, <1>3, <3>3
    <3> QED
      BY <3>1, <3>2, <3>3
  <2>3. Reaching(J, p, b) \subseteq J /\ T \subseteq J
    BY DEF Reaching, OfProblem
  <2> HIDE DEF J, T
  <2> QED
    BY <2>2, <2>3
<1>5. RuleBatch(J, p, b) = n
  <2>1. {s.batch[b] : s \in T} = {n}
    <3>1. \A s \in T : s.batch[b] = n
      BY <1>1
    <3>2. T # {}
      BY <1>1, <1>2
    <3> HIDE DEF T
    <3> QED
      BY <3>1, <3>2
  <2> HIDE DEF T, J
  <2> QED
    BY <1>4, <2>1 DEF RuleBatch
<1>6. RuleWhen(J, p, b, from) = BatchFirst(J, p, b) - from
  <2>1. BatchFirst(J, p, b) = Min({s.date : s \in T})
    BY DEF BatchFirst
  <2> HIDE DEF T, J
  <2> QED
    BY <1>4, <2>1 DEF RuleWhen
<1> QED
  BY <1>1, <1>5, <1>6

LEMMA BothAre ==
    ASSUME NEW S, Tabled(S), NEW p \in ProblemsOf(JudgedOf(S)), NEW from \in Int
    PROVE  Both(JudgedOf(S), p) \in Nat /\ BothTimes(JudgedOf(S), p, from) \in Nat
<1>1. PICK n, m, d, e : /\ n = BatchBest(JudgedOf(S), p, 1) /\ m = BatchBest(JudgedOf(S), p, 2)
                        /\ d = BatchFirst(JudgedOf(S), p, 1) /\ e = BatchFirst(JudgedOf(S), p, 2)
                        /\ n \in 0..1 /\ m \in 0..1 /\ d \in Nat /\ e \in Nat
  BY BatchIs
<1>2. Both(JudgedOf(S), p) = n + m
  BY <1>1 DEF Both
<1>3. {0} \cup {BatchFirst(JudgedOf(S), p, b) - from : b \in {1, 2}} = {0, d - from, e - from}
  BY <1>1
<1>4. IsFiniteSet({0, d - from, e - from})
  <2>1. {0, d - from, e - from} = ({0} \cup {d - from}) \cup {e - from}
    OBVIOUS
  <2>2. IsFiniteSet({0} \cup {d - from})
    BY FS_Singleton, FS_AddElement
  <2> QED
    BY <2>1, <2>2, FS_AddElement
<1>5. Max({0, d - from, e - from}) \in Nat
  <2>1. {0, d - from, e - from} \subseteq Int /\ {0, d - from, e - from} # {}
    BY <1>1
  <2>2. PICK m0 : m0 = Max({0, d - from, e - from})
    OBVIOUS
  <2>3. m0 \in {0, d - from, e - from} /\ 0 <= m0
    BY <1>4, <2>1, <2>2, MaxIs
  <2> QED
    BY <1>1, <2>2, <2>3
<1>6. BothTimes(JudgedOf(S), p, from) = Max({0, d - from, e - from})
  BY <1>3 DEF BothTimes, Largest
<1> QED
  BY <1>1, <1>2, <1>5, <1>6

LEMMA BatchRowAre ==
    ASSUME NEW S, Tabled(S), NEW c, c.cumtime \in BOOLEAN, NEW from \in Int
    PROVE  BatchRow(c, JudgedOf(S), from).score \in Int /\ BatchRow(c, JudgedOf(S), from).cumtime \in Nat
<1> DEFINE J == JudgedOf(S)
           f == [p \in ProblemsOf(J) |-> Both(J, p)]
           Q == {q \in ProblemsOf(J) : Both(J, q) # 0}
           g == [p \in Q |-> BothTimes(J, p, from)]
<1>1. \A p \in ProblemsOf(J) : Both(J, p) \in Int /\ BothTimes(J, p, from) \in Nat
  BY BothAre
<1>2. IsFiniteSet(ProblemsOf(J)) /\ IsFiniteSet(Q)
  <2>1. Tabled(J)
    BY JudgedAre
  <2> HIDE DEF J
  <2> QED
    BY <2>1, FiniteProblems, FS_Subset
<1> HIDE DEF J
<1>3. SumFunction(f) \in Int
  <2>1. DOMAIN f = ProblemsOf(J) /\ \A p \in ProblemsOf(J) : f[p] \in Int
    BY <1>1
  <2> HIDE DEF f
  <2> QED
    BY <1>2, <2>1, SumIsNumber
<1>4. SumFunction(g) \in Nat
  <2>1. DOMAIN g = Q /\ \A p \in Q : g[p] \in Nat
    BY <1>1
  <2> HIDE DEF g, Q
  <2> QED
    BY <1>2, <2>1, SumIsNumber
<1>5. BatchRow(c, J, from) = Row(SumFunction(f), IF c.cumtime THEN SumFunction(g) ELSE 0, 0)
  BY DEF BatchRow
<1>6. BatchRow(c, J, from).score \in Int /\ BatchRow(c, J, from).cumtime \in Nat
  <2> HIDE DEF f, g
  <2> QED
    BY <1>3, <1>4, <1>5 DEF Row
<1> QED
  BY <1>6 DEF J

\* IOI scores by the rules.
LEMMA BatchByTheRules ==
    ASSUME NEW S, NEW c, NEW from \in Int, NEW to, Complete(S, from), c.format = "ioi16"
    PROVE  BatchRow(c, JudgedOf(S), from) = Standing(c, S, from, to)
<1> DEFINE J == JudgedOf(S)
<1>0. Tabled(S)
  BY DEF Complete
<1>1. ASSUME NEW p \in ProblemsOf(J)
      PROVE  /\ RuleBoth(J, p) = Both(J, p) /\ Both(J, p) \in Nat
             /\ Largest({RuleWhen(J, p, 1, from), RuleWhen(J, p, 2, from)}) = BothTimes(J, p, from)
  <2>1. PICK n, m, d, e : /\ n = BatchBest(J, p, 1) /\ m = BatchBest(J, p, 2)
                          /\ d = BatchFirst(J, p, 1) /\ e = BatchFirst(J, p, 2)
    OBVIOUS
  <2>2. /\ RuleBatch(J, p, 1) = n /\ RuleBatch(J, p, 2) = m
        /\ RuleWhen(J, p, 1, from) = d - from /\ RuleWhen(J, p, 2, from) = e - from
    BY <1>0, <2>1, ReachingIs
  <2>3. d - from \in Nat /\ e - from \in Nat
    <3>1. \A s \in OfProblem(J, p) : from <= s.date
      BY DEF Complete, OfProblem, JudgedOf
    <3>2. d \in Nat /\ e \in Nat /\ from <= d /\ from <= e
      BY <1>0, <2>1, <3>1, BatchIs
    <3> QED
      BY <3>2
  <2>4. RuleBoth(J, p) = Both(J, p)
    BY <2>1, <2>2 DEF RuleBoth, Both
  <2>5. Largest({d - from, e - from}) = Largest({0, d - from, e - from})
    <3> DEFINE x == d - from
               y == e - from
    <3>1. PICK z \in {x, y} : \A w \in {x, y} : w <= z
      BY <2>3
    <3>2. Max({x, y}) = z
      <4>1. {x, y} \in SUBSET Int
        BY <2>3
      <4> HIDE DEF x, y
      <4> QED
        BY <3>1, <4>1, MaxIsOnly
    <3>3. Max({0, x, y}) = z
      <4>1. {0, x, y} \in SUBSET Int
        BY <2>3
      <4>2. z \in {0, x, y} /\ \A w \in {0, x, y} : w <= z
        BY <2>3, <3>1
      <4> HIDE DEF x, y
      <4> QED
        BY <4>1, <4>2, MaxIsOnly
    <3> QED
      BY <3>2, <3>3 DEF Largest
  <2>6. BothTimes(J, p, from) = Largest({0, d - from, e - from})
    <3>1. {0} \cup {BatchFirst(J, p, b) - from : b \in {1, 2}} = {0, d - from, e - from}
      BY <2>1
    <3> QED
      BY <3>1 DEF BothTimes
  <2>7. Both(J, p) \in Nat
    BY <1>0, BothAre
  <2> HIDE DEF J
  <2>8. Largest({RuleWhen(J, p, 1, from), RuleWhen(J, p, 2, from)}) = BothTimes(J, p, from)
    BY <2>2, <2>5, <2>6
  <2> QED
    BY <2>4, <2>7, <2>8
<1> HIDE DEF J
<1>2. [p \in ProblemsOf(J) |-> RuleBoth(J, p)] = [p \in ProblemsOf(J) |-> Both(J, p)]
  BY <1>1
<1>3. [p \in {n \in ProblemsOf(J) : RuleBoth(J, n) > 0} |->
           Largest({RuleWhen(J, p, 1, from), RuleWhen(J, p, 2, from)})]
      = [p \in {n \in ProblemsOf(J) : Both(J, n) # 0} |-> BothTimes(J, p, from)]
  <2>1. {n \in ProblemsOf(J) : RuleBoth(J, n) > 0} = {n \in ProblemsOf(J) : Both(J, n) # 0}
    <3>1. ASSUME NEW n \in ProblemsOf(J)
          PROVE  RuleBoth(J, n) > 0 <=> Both(J, n) # 0
      <4>1. PICK x \in Nat : x = RuleBoth(J, n) /\ x = Both(J, n)
        BY <1>1
      <4> QED
        BY <4>1
    <3> QED
      BY <3>1
  <2> QED
    BY <1>1, <2>1
<1>4. Standing(c, S, from, to) =
          Row(SumFunction([p \in ProblemsOf(J) |-> RuleBoth(J, p)]),
              IF c.cumtime
              THEN SumFunction([p \in {n \in ProblemsOf(J) : RuleBoth(J, n) > 0} |->
                                   Largest({RuleWhen(J, p, 1, from), RuleWhen(J, p, 2, from)})])
              ELSE 0, 0)
  BY BatchStanding DEF J
<1>5. Standing(c, S, from, to) = BatchRow(c, J, from)
  BY <1>2, <1>3, <1>4 DEF BatchRow
<1> QED
  BY <1>5 DEF J

-----------------------------------------------------------------------------
(* The format of the last submission's time, and that of the last submission *)

\* The last of some submissions, and of those at once the best.
LastOf(T) == CHOOSE s \in T : \A t \in T : t.date < s.date \/ (t.date = s.date /\ t.points <= s.points)
LastDate(T) == Max({s.date : s \in T})
LastPoints(T) == Max({s.points : s \in {t \in T : t.date = LastDate(T)}})

LEMMA LastIs ==
    ASSUME NEW T, IsFiniteSet(T), T \subseteq Judged, T # {}
    PROVE  /\ LastOf(T) \in T /\ LastOf(T).date = LastDate(T) /\ LastOf(T).points = LastPoints(T)
           /\ LastDate(T) \in Nat /\ LastPoints(T) \in Nat
<1> DEFINE D == {t \in T : t.date = LastDate(T)}
           Last(s) == \A t \in T : t.date < s.date \/ (t.date = s.date /\ t.points <= s.points)
<1>1. PICK d : d = LastDate(T)
  OBVIOUS
<1>2. d \in {s.date : s \in T} /\ \A y \in {s.date : s \in T} : y <= d
  BY <1>1, FiniteDates, MaxIs DEF LastDate
<1>3. IsFiniteSet(D) /\ D \subseteq Judged /\ D # {}
  <2>1. D \in SUBSET T
    OBVIOUS
  <2>2. D # {}
    BY <1>1, <1>2
  <2> HIDE DEF D
  <2> QED
    BY <2>1, <2>2, FS_Subset
<1>4. PICK n : n = LastPoints(T)
  OBVIOUS
<1>5. n \in {s.points : s \in D} /\ \A y \in {s.points : s \in D} : y <= n
  <2>1. n = Max({s.points : s \in D})
    BY <1>4 DEF LastPoints
  <2> HIDE DEF D
  <2> QED
    BY <1>3, <2>1, FinitePoints, MaxIs
<1>6. \A s \in T : s.date \in Nat /\ s.points \in Nat
  BY FieldsAre
<1>7. PICK s \in D : s.points = n
  BY <1>5
<1>8. s.date = d /\ d \in Nat /\ n \in Nat
  BY <1>1, <1>6, <1>7
<1>9. Last(s)
  <2> SUFFICES ASSUME NEW t \in T
               PROVE  t.date < s.date \/ (t.date = s.date /\ t.points <= s.points)
    OBVIOUS
  <2>1. CASE t.date = d
    <3>1. t \in D
      BY <1>1, <2>1
    <3> QED
      BY <1>5, <1>7, <1>8, <2>1, <3>1
  <2>2. CASE t.date # d
    <3>1. t.date <= d /\ t.date \in Nat
      BY <1>2, <1>6
    <3> QED
      BY <1>8, <2>2, <3>1
  <2> QED
    BY <2>1, <2>2
<1>10. PICK l : l = LastOf(T)
  OBVIOUS
<1>11. l \in T /\ Last(l)
  <2>1. l = CHOOSE x \in T : Last(x)
    BY <1>10 DEF LastOf
  <2>2. s \in T
    OBVIOUS
  <2> HIDE DEF Last, D
  <2> QED
    BY <1>9, <2>1, <2>2
<1>12. l.date = d
  <2>1. l.date <= d
    BY <1>2, <1>11
  <2>2. d <= l.date
    BY <1>6, <1>8, <1>11
  <2> QED
    BY <1>6, <1>8, <1>11, <2>1, <2>2
<1>13. l.points = n
  <2>1. l.points <= n
    BY <1>1, <1>5, <1>11, <1>12
  <2>2. n <= l.points
    BY <1>6, <1>7, <1>8, <1>11, <1>12
  <2> QED
    BY <1>6, <1>8, <1>11, <2>1, <2>2
<1> QED
  BY <1>1, <1>4, <1>8, <1>10, <1>11, <1>12, <1>13

\* DefaultContestFormat.
LastDelays(S, from) == [p \in Solved(S) |-> LastDate(OfProblem(S, p)) - from]

LEMMA DefaultIs ==
    ASSUME NEW S, Tabled(S), NEW c, NEW from, NEW to, c.format = "default"
    PROVE  update_participation(c, S, from, to)
               = Row(SumFunction(Bests(S)), Largest({0, SumFunction(LastDelays(S, from))}), 0)
<1>1. update_participation(c, S, from, to) = Default(c, S, from)
  BY DEF update_participation
<1>2. Default(c, S, from) = Row(TotalBest(S), Largest({0, SumFunction(LastDelays(S, from))}), 0)
  BY Zenon DEF Default, LastDelays, LastDate
<1>3. TotalBest(S) = SumFunction(Bests(S))
  BY TotalIs DEF Bests
<1> QED
  BY <1>1, <1>2, <1>3

LEMMA LastOfSolved ==
    ASSUME NEW S, Tabled(S), NEW p \in ProblemsOf(S)
    PROVE  LET O == OfProblem(S, p) IN
           LastOf(O) \in S /\ LastOf(O).date = LastDate(O) /\ LastDate(O) \in Nat
<1>1. IsFiniteSet(OfProblem(S, p)) /\ OfProblem(S, p) \subseteq Judged /\ OfProblem(S, p) # {}
  BY OfOneProblem
<1>2. OfProblem(S, p) \subseteq S
  BY DEF OfProblem
<1> QED
  BY <1>1, <1>2, LastIs

LEMMA LastDelaysAre ==
    ASSUME NEW S, NEW from \in Int, Complete(S, from)
    PROVE  SumFunction(LastDelays(S, from)) \in Nat
<1>1. Tabled(S)
  BY DEF Complete
<1>2. IsFiniteSet(Solved(S)) /\ Solved(S) \in SUBSET ProblemsOf(S)
  BY <1>1, SolvedIs
<1>3. \A p \in Solved(S) : LastDelays(S, from)[p] \in Nat
  <2> SUFFICES ASSUME NEW p \in Solved(S) PROVE LastDate(OfProblem(S, p)) - from \in Nat
    BY DEF LastDelays
  <2>1. PICK s \in S : s.date = LastDate(OfProblem(S, p)) /\ s.date \in Nat
    BY <1>1, <1>2, LastOfSolved
  <2>2. from <= s.date
    BY DEF Complete
  <2> QED
    BY <2>1, <2>2
<1> QED
  <2>1. DOMAIN LastDelays(S, from) = Solved(S)
    BY DEF LastDelays
  <2> QED
    BY <1>2, <1>3, <2>1, SumIsNumber

LEMMA DefaultByTheRules ==
    ASSUME NEW S, NEW c, NEW from \in Int, NEW to, Complete(S, from), c.format = "default"
    PROVE  update_participation(c, S, from, to) = Standing(c, S, from, to)
<1>1. Tabled(S)
  BY DEF Complete
<1> DEFINE f == [p \in TopSolved(S) |-> LastOf(OfProblem(S, p)).date - from]
           g == [p \in TopSolved(S) |-> Top(S, p).points]
<1>2. Standing(c, S, from, to) = Row(SumFunction(g), SumFunction(f), 0)
  BY DEF Standing, TopSolved, LastOf
<1>3. g = Bests(S) /\ TopSolved(S) = Solved(S)
  BY <1>1, TopsAre
<1>4. f = LastDelays(S, from)
  <2>1. \A p \in Solved(S) : LastOf(OfProblem(S, p)).date = LastDate(OfProblem(S, p))
    BY <1>1, SolvedIs, LastOfSolved
  <2> QED
    BY <1>3, <2>1 DEF LastDelays
<1>5. Largest({0, SumFunction(LastDelays(S, from))}) = SumFunction(LastDelays(S, from))
  BY LastDelaysAre, NoLess
<1> HIDE DEF f, g
<1> QED
  BY <1>1, <1>2, <1>3, <1>4, <1>5, DefaultIs

\* ECOO.
CountedOf(S) == {s \in S : s.result \notin Uncounted}
OnlyBonus(c, O, p) == IF Cardinality(O) = 1 /\ LastPoints(O) = c.worth[p] THEN c.first_ac_bonus ELSE 0
EarlyBonus(c, O, to) == IF c.time_bonus = 0 THEN 0 ELSE (to - LastDate(O)) \div c.time_bonus
Bonus(c, O, p, to) == IF LastPoints(O) > 0 THEN OnlyBonus(c, O, p) + EarlyBonus(c, O, to) ELSE 0

WithBonus(c, T, to) ==
    [p \in ProblemsOf(T) |-> LastPoints(OfProblem(T, p)) + Bonus(c, OfProblem(T, p), p, to)]
CountedDelays(T, from) == [p \in ProblemsOf(T) |-> LastDate(OfProblem(T, p)) - from]

ECOORow(c, T, from, to) ==
    Row(SumFunction(WithBonus(c, T, to)), IF c.cumtime THEN SumFunction(CountedDelays(T, from)) ELSE 0, 0)

LEMMA ECOOIs ==
    ASSUME NEW S, NEW c, NEW from, NEW to, c.format = "ecoo"
    PROVE  update_participation(c, S, from, to) = ECOORow(c, CountedOf(S), from, to)
<1>1. update_participation(c, S, from, to) = ECOO(c, S, from, to)
  BY DEF update_participation
<1>2. ECOO(c, S, from, to) = ECOORow(c, CountedOf(S), from, to)
  BY Zenon DEF ECOO, ECOORow, CountedOf, WithBonus, CountedDelays, Bonus, EarlyBonus, OnlyBonus, LastPoints,
               LastDate
<1> QED
  BY <1>1, <1>2

LEMMA CountedAre ==
    ASSUME NEW S, Tabled(S)
    PROVE  LET T == CountedOf(S) IN
           /\ Tabled(T) /\ T \subseteq S /\ IsFiniteSet(ProblemsOf(T))
           /\ \A p \in ProblemsOf(T) :
                  LET O == OfProblem(T, p) IN
                  /\ IsFiniteSet(O) /\ O # {} /\ O \subseteq T
                  /\ LastOf(O) \in O /\ LastOf(O).date = LastDate(O) /\ LastOf(O).points = LastPoints(O)
                  /\ LastDate(O) \in Nat /\ LastPoints(O) \in Nat
<1> DEFINE T == CountedOf(S)
<1>1. T \in SUBSET S
  BY DEF CountedOf
<1>2. Tabled(T) /\ T \subseteq S
  BY <1>1, FS_Subset DEF Tabled
<1> HIDE DEF T
<1>3. ASSUME NEW p \in ProblemsOf(T)
      PROVE  LET O == OfProblem(T, p) IN
             /\ IsFiniteSet(O) /\ O # {} /\ O \subseteq T
             /\ LastOf(O) \in O /\ LastOf(O).date = LastDate(O) /\ LastOf(O).points = LastPoints(O)
             /\ LastDate(O) \in Nat /\ LastPoints(O) \in Nat
  <2>1. IsFiniteSet(OfProblem(T, p)) /\ OfProblem(T, p) \subseteq Judged /\ OfProblem(T, p) # {}
    BY <1>2, OfOneProblem
  <2>2. OfProblem(T, p) \subseteq T
    BY DEF OfProblem
  <2> QED
    BY <2>1, <2>2, LastIs
<1> QED
  BY <1>2, <1>3, FiniteProblems DEF T

\* What the proofs need of the configuration of a format.
Configured(c) ==
    /\ c.format \in Formats /\ c.worth \in [Problem -> Nat \ {0}] /\ c.cumtime \in BOOLEAN
    /\ c.penalty \in Nat /\ c.first_ac_bonus \in Nat /\ c.time_bonus \in Nat

LEMMA BonusIs ==
    ASSUME NEW c, Configured(c), NEW O, NEW p, NEW to \in Int, LastDate(O) \in Nat
    PROVE  /\ OnlyBonus(c, O, p) \in Int /\ EarlyBonus(c, O, to) \in Int /\ Bonus(c, O, p, to) \in Int
<1>1. OnlyBonus(c, O, p) \in Int
  BY DEF OnlyBonus, Configured
<1>2. EarlyBonus(c, O, to) \in Int
  <2>1. ASSUME NEW x \in Int, NEW n \in Nat, n # 0 PROVE x \div n \in Int
    BY <2>1
  <2>2. to - LastDate(O) \in Int /\ c.time_bonus \in Nat
    BY DEF Configured
  <2> QED
    BY <2>1, <2>2 DEF EarlyBonus
<1> QED
  BY <1>1, <1>2 DEF Bonus

LEMMA ECOORowAre ==
    ASSUME NEW S, Tabled(S), NEW c, Configured(c), NEW from \in Int, NEW to \in Int
    PROVE  /\ ECOORow(c, CountedOf(S), from, to).score \in Int
           /\ ECOORow(c, CountedOf(S), from, to).cumtime \in Int
<1> DEFINE T == CountedOf(S)
<1>1. IsFiniteSet(ProblemsOf(T))
  BY CountedAre
<1>2. \A p \in ProblemsOf(T) : WithBonus(c, T, to)[p] \in Int /\ CountedDelays(T, from)[p] \in Int
  <2> SUFFICES ASSUME NEW p \in ProblemsOf(T)
               PROVE  /\ LastPoints(OfProblem(T, p)) + Bonus(c, OfProblem(T, p), p, to) \in Int
                      /\ LastDate(OfProblem(T, p)) - from \in Int
    BY DEF WithBonus, CountedDelays
  <2>1. LastDate(OfProblem(T, p)) \in Nat /\ LastPoints(OfProblem(T, p)) \in Nat
    BY CountedAre
  <2> HIDE DEF T
  <2>2. Bonus(c, OfProblem(T, p), p, to) \in Int
    BY <2>1, BonusIs
  <2> QED
    BY <2>1, <2>2
<1>3. DOMAIN WithBonus(c, T, to) = ProblemsOf(T) /\ DOMAIN CountedDelays(T, from) = ProblemsOf(T)
  BY DEF WithBonus, CountedDelays
<1> HIDE DEF T
<1>4. SumFunction(WithBonus(c, T, to)) \in Int /\ SumFunction(CountedDelays(T, from)) \in Int
  BY <1>1, <1>2, <1>3, SumIsNumber
<1>5. ECOORow(c, T, from, to).score \in Int /\ ECOORow(c, T, from, to).cumtime \in Int
  BY <1>4 DEF ECOORow, Row, Configured
<1> QED
  BY <1>5 DEF T

\* The rule of a problem, as the page tells it.
ByTheLast(c, T, p, to) ==
    LET last == LastOf(OfProblem(T, p)) IN
    IF last.points = 0 THEN 0
    ELSE last.points + (IF OfProblem(T, p) = {last} /\ last.points = c.worth[p] THEN c.first_ac_bonus ELSE 0)
         + (IF c.time_bonus = 0 THEN 0 ELSE (to - last.date) \div c.time_bonus)

LEMMA ECOOStanding ==
    ASSUME NEW S, NEW c, NEW from, NEW to, c.format = "ecoo"
    PROVE  LET T == CountedOf(S) IN
           Standing(c, S, from, to) =
               Row(SumFunction([p \in ProblemsOf(T) |-> ByTheLast(c, T, p, to)]),
                   IF c.cumtime THEN SumFunction([p \in ProblemsOf(T) |-> LastOf(OfProblem(T, p)).date - from])
                   ELSE 0, 0)
BY DEF Standing, CountedOf, ByTheLast, LastOf

LEMMA ECOOByTheRules ==
    ASSUME NEW S, Tabled(S), NEW c, Configured(c), NEW from, NEW to \in Int, c.format = "ecoo"
    PROVE  ECOORow(c, CountedOf(S), from, to) = Standing(c, S, from, to)
<1> DEFINE T == CountedOf(S)
<1>1. ASSUME NEW p \in ProblemsOf(T)
      PROVE  /\ ByTheLast(c, T, p, to) = LastPoints(OfProblem(T, p)) + Bonus(c, OfProblem(T, p), p, to)
             /\ LastOf(OfProblem(T, p)).date = LastDate(OfProblem(T, p))
  <2>1. PICK O, l : O = OfProblem(T, p) /\ l = LastOf(O)
    OBVIOUS
  <2>2. /\ IsFiniteSet(O) /\ l \in O /\ l.date = LastDate(O) /\ l.points = LastPoints(O)
        /\ LastDate(O) \in Nat /\ LastPoints(O) \in Nat
    BY <2>1, CountedAre
  <2>3. Cardinality(O) = 1 <=> O = {l}
    BY <2>2, FS_Singleton
  <2>4. OnlyBonus(c, O, p) = IF O = {l} /\ l.points = c.worth[p] THEN c.first_ac_bonus ELSE 0
    BY <2>2, <2>3 DEF OnlyBonus
  <2>5. EarlyBonus(c, O, to) = IF c.time_bonus = 0 THEN 0 ELSE (to - l.date) \div c.time_bonus
    BY <2>2 DEF EarlyBonus
  <2>6. OnlyBonus(c, O, p) \in Int /\ EarlyBonus(c, O, to) \in Int
    BY <2>2, BonusIs
  <2> HIDE DEF T
  <2>7. ByTheLast(c, T, p, to) = IF l.points = 0 THEN 0 ELSE l.points + OnlyBonus(c, O, p) + EarlyBonus(c, O, to)
    BY <2>1, <2>4, <2>5 DEF ByTheLast
  <2>8. ByTheLast(c, T, p, to) = LastPoints(O) + Bonus(c, O, p, to)
    <3>1. CASE LastPoints(O) = 0
      BY <2>2, <2>7, <3>1 DEF Bonus
    <3>2. CASE LastPoints(O) # 0
      <4>1. LastPoints(O) > 0
        BY <2>2, <3>2
      <4> QED
        BY <2>2, <2>6, <2>7, <4>1 DEF Bonus
    <3> QED
      BY <3>1, <3>2
  <2> QED
    BY <2>1, <2>2, <2>8
<1> HIDE DEF T
<1>2. [p \in ProblemsOf(T) |-> ByTheLast(c, T, p, to)] = WithBonus(c, T, to)
  BY <1>1 DEF WithBonus
<1>3. [p \in ProblemsOf(T) |-> LastOf(OfProblem(T, p)).date - from] = CountedDelays(T, from)
  BY <1>1 DEF CountedDelays
<1>4. Standing(c, S, from, to) =
          Row(SumFunction([p \in ProblemsOf(T) |-> ByTheLast(c, T, p, to)]),
              IF c.cumtime THEN SumFunction([p \in ProblemsOf(T) |-> LastOf(OfProblem(T, p)).date - from])
              ELSE 0, 0)
  BY ECOOStanding DEF T
<1>5. Standing(c, S, from, to) = ECOORow(c, T, from, to)
  BY <1>2, <1>3, <1>4 DEF ECOORow
<1> QED
  BY <1>5 DEF T

-----------------------------------------------------------------------------
(* What every format gives *)

\* Whatever the submissions are, the parts of a row are numbers.
LEMMA PartsAreNumbers ==
    ASSUME NEW S, Tabled(S), NEW from \in Int
    PROVE  /\ SumFunction(Bests(S)) \in Int /\ SumFunction(Delays(S, from)) \in Int
           /\ SumFunction(Prevs(S)) \in Int /\ LastDelay(S, from) \in Int
           /\ SumFunction(LastDelays(S, from)) \in Int
<1>1. /\ IsFiniteSet(Solved(S)) /\ Solved(S) \in SUBSET ProblemsOf(S)
      /\ \A p \in Solved(S) : Best(S, p) \in Nat /\ FirstBest(S, p) \in Nat
  BY SolvedIs DEF BestIsAt
<1>2. ASSUME NEW p \in Solved(S)
      PROVE  Prev(S, p) \in Int /\ LastDate(OfProblem(S, p)) \in Nat
  <2> DEFINE X == {s \in {t \in OfProblem(S, p) : t.result # None /\ t.result \notin Uncounted} :
                       s.date <= FirstBest(S, p)}
  <2>1. Prev(S, p) = Cardinality(X) - 1
    BY DEF Prev
  <2>2. X \in SUBSET OfProblem(S, p) /\ IsFiniteSet(OfProblem(S, p))
    BY OfOneProblem
  <2>3. Cardinality(X) \in Nat
    <3> HIDE DEF X
    <3> QED
      BY <2>2, FS_Subset, FS_CardinalityType
  <2> HIDE DEF X
  <2> QED
    BY <1>1, <2>1, <2>3, LastOfSolved
<1>3. /\ DOMAIN Bests(S) = Solved(S) /\ DOMAIN Delays(S, from) = Solved(S) /\ DOMAIN Prevs(S) = Solved(S)
      /\ DOMAIN LastDelays(S, from) = Solved(S)
  BY DEF Bests, Delays, Prevs, LastDelays
<1>4. \A p \in Solved(S) :
          Bests(S)[p] \in Int /\ Delays(S, from)[p] \in Int /\ Prevs(S)[p] \in Int /\ LastDelays(S, from)[p] \in Int
  BY <1>1, <1>2 DEF Bests, Delays, Prevs, LastDelays
<1>5. /\ SumFunction(Bests(S)) \in Int /\ SumFunction(Delays(S, from)) \in Int
      /\ SumFunction(Prevs(S)) \in Int /\ SumFunction(LastDelays(S, from)) \in Int
  BY <1>1, <1>3, <1>4, SumIsNumber
<1>6. LastDelay(S, from) \in Int
  <2> DEFINE T == {Delays(S, from)[p] : p \in Solved(S)}
  <2>1. T = {FirstBest(S, p) - from : p \in Solved(S)}
    BY DEF Delays
  <2>2. T \subseteq Int
    BY <1>4
  <2>3. IsFiniteSet(T)
    BY <1>1, FiniteImage
  <2>4. Largest(T) \in Int
    <3> HIDE DEF T
    <3>1. CASE T = {}
      BY <3>1 DEF Largest
    <3>2. CASE T # {}
      BY <2>2, <2>3, <3>2, MaxIs DEF Largest
    <3> QED
      BY <3>1, <3>2
  <2> QED
    BY <2>1, <2>4 DEF LastDelay
<1> QED
  BY <1>5, <1>6

LEMMA NotBelow ==
    ASSUME NEW n \in Int PROVE Largest({0, n}) \in Nat
<1>1. PICK m \in {0, n} : \A y \in {0, n} : y <= m
  OBVIOUS
<1>2. {0, n} \in SUBSET Int
  OBVIOUS
<1>3. Max({0, n}) = m
  BY <1>1, <1>2, MaxIsOnly
<1>4. m \in Nat
  BY <1>1
<1> QED
  BY <1>3, <1>4 DEF Largest

\* A row is one of numbers, whatever the submissions are.
LEMMA UpIsTyped ==
    ASSUME NEW S, Tabled(S), NEW c, Configured(c), NEW from \in Int, NEW to \in Int
    PROVE  /\ update_participation(c, S, from, to).score \in Int
           /\ update_participation(c, S, from, to).cumtime \in Int
<1>1. PICK b, d, v, l, e :
          /\ b = SumFunction(Bests(S)) /\ d = SumFunction(Delays(S, from)) /\ v = SumFunction(Prevs(S))
          /\ l = LastDelay(S, from) /\ e = SumFunction(LastDelays(S, from))
  OBVIOUS
<1>2. b \in Int /\ d \in Int /\ v \in Int /\ l \in Int /\ e \in Int
  BY <1>1, PartsAreNumbers
<1>3. c.penalty * v \in Int /\ c.cumtime \in BOOLEAN
  <2>1. c.penalty \in Nat
    BY DEF Configured
  <2> QED
    BY <1>2, <2>1 DEF Configured
<1>4. CASE c.format \in FirstBestFormats
  <2>1. PICK x : x = c.penalty * v /\ x \in Int
    BY <1>3
  <2>2. update_participation(c, S, from, to) =
            CASE c.format = "icpc"    -> Row(b, d + x, l)
              [] c.format = "atcoder" -> Row(b, l + x, 0)
              [] c.format = "ioi"     -> Row(b, IF c.cumtime THEN Largest({0, d}) ELSE 0, 0)
    BY <1>1, <1>4, <2>1, FirstBestRowIs DEF FirstBestRow
  <2>3. Largest({0, d}) \in Nat
    BY <1>2, NotBelow
  <2> QED
    BY <1>2, <1>3, <1>4, <2>1, <2>2, <2>3 DEF FirstBestFormats, Row
<1>5. CASE c.format = "default"
  <2>1. update_participation(c, S, from, to) = Row(b, Largest({0, e}), 0)
    BY <1>1, <1>5, DefaultIs
  <2>2. Largest({0, e}) \in Nat
    BY <1>2, NotBelow
  <2> QED
    BY <1>2, <2>1, <2>2 DEF Row
<1>6. CASE c.format = "ecoo"
  BY <1>6, ECOOIs, ECOORowAre
<1>7. CASE c.format = "ioi16"
  BY <1>3, <1>7, BatchRowIs, BatchRowAre
<1> QED
  BY <1>4, <1>5, <1>6, <1>7 DEF Configured, Formats, FirstBestFormats

\* Only ECOO looks at the end, and only for its bonus.
LEMMA EndMatters ==
    ASSUME NEW S, Tabled(S), NEW c, Configured(c), NEW from, NEW to, NEW other,
           c.format # "ecoo" \/ c.time_bonus = 0
    PROVE  update_participation(c, S, from, to) = update_participation(c, S, from, other)
<1>1. CASE c.format \in FirstBestFormats
  BY <1>1, FirstBestRowIs
<1>2. CASE c.format = "default"
  BY <1>2, DefaultIs
<1>3. CASE c.format = "ecoo"
  <2>1. c.time_bonus = 0
    BY <1>3
  <2>2. \A O : EarlyBonus(c, O, to) = EarlyBonus(c, O, other)
    BY <2>1 DEF EarlyBonus
  <2>3. \A O, p : Bonus(c, O, p, to) = Bonus(c, O, p, other)
    BY <2>2 DEF Bonus
  <2>4. WithBonus(c, CountedOf(S), to) = WithBonus(c, CountedOf(S), other)
    BY <2>3 DEF WithBonus
  <2> QED
    BY <1>3, <2>4, ECOOIs DEF ECOORow
<1>4. CASE c.format = "ioi16"
  BY <1>4, BatchRowIs
<1> QED
  BY <1>1, <1>2, <1>3, <1>4 DEF Configured, Formats, FirstBestFormats

\* Whoever has submitted nothing has the row a participation begins with.
LEMMA NothingSubmitted ==
    ASSUME NEW c, Configured(c), NEW from, NEW to
    PROVE  update_participation(c, {}, from, to) = Row(0, 0, 0)
<1>1. Tabled({}) /\ ProblemsOf({}) = {} /\ JudgedOf({}) = {} /\ CountedOf({}) = {}
  BY FS_EmptySet DEF Tabled, ProblemsOf, JudgedOf, CountedOf
<1>2. Solved({}) = {}
  BY <1>1 DEF Solved
<1>3. ASSUME NEW f, DOMAIN f = {} PROVE SumFunction(f) = 0
  BY <1>3, SumOfNothing DEF SumFunction
<1>4. /\ SumFunction(Bests({})) = 0 /\ SumFunction(Delays({}, from)) = 0 /\ SumFunction(Prevs({})) = 0
      /\ SumFunction(LastDelays({}, from)) = 0 /\ SumFunction(WithBonus(c, {}, to)) = 0
      /\ SumFunction(CountedDelays({}, from)) = 0
  BY <1>1, <1>2, <1>3 DEF Bests, Delays, Prevs, LastDelays, WithBonus, CountedDelays
<1>5. LastDelay({}, from) = 0
  BY <1>2 DEF LastDelay, Largest
<1>6. Largest({0, 0}) = 0
  BY NoLess
<1>7. c.penalty * 0 = 0
  <2>1. c.penalty \in Nat
    BY DEF Configured
  <2> QED
    BY <2>1
<1>8. CASE c.format \in FirstBestFormats
  <2>1. update_participation(c, {}, from, to) =
            CASE c.format = "icpc"    -> Row(0, 0 + c.penalty * 0, 0)
              [] c.format = "atcoder" -> Row(0, 0 + c.penalty * 0, 0)
              [] c.format = "ioi"     -> Row(0, IF c.cumtime THEN Largest({0, 0}) ELSE 0, 0)
    <3>1. update_participation(c, {}, from, to) = FirstBestRow(c, {}, from)
      BY <1>1, <1>8, FirstBestRowIs
    <3>2. FirstBestRow(c, {}, from) =
              CASE c.format = "icpc"    -> Row(0, 0 + c.penalty * 0, 0)
                [] c.format = "atcoder" -> Row(0, 0 + c.penalty * 0, 0)
                [] c.format = "ioi"     -> Row(0, IF c.cumtime THEN Largest({0, 0}) ELSE 0, 0)
      BY <1>4, <1>5 DEF FirstBestRow
    <3> QED
      BY <3>1, <3>2
  <2> QED
    BY <1>6, <1>7, <1>8, <2>1 DEF FirstBestFormats
<1>9. CASE c.format = "default"
  BY <1>1, <1>4, <1>6, <1>9, DefaultIs
<1>10. CASE c.format = "ecoo"
  <2>1. update_participation(c, {}, from, to) = ECOORow(c, {}, from, to)
    BY <1>1, <1>10, ECOOIs
  <2>2. ECOORow(c, {}, from, to) = Row(0, IF c.cumtime THEN 0 ELSE 0, 0)
    BY <1>4 DEF ECOORow
  <2> QED
    BY <2>1, <2>2
<1>11. CASE c.format = "ioi16"
  <2>1. update_participation(c, {}, from, to) = BatchRow(c, {}, from)
    BY <1>1, <1>11, BatchRowIs
  <2> DEFINE f == [p \in ProblemsOf({}) |-> Both({}, p)]
             g == [p \in {q \in ProblemsOf({}) : Both({}, q) # 0} |-> BothTimes({}, p, from)]
  <2>2. DOMAIN f = {} /\ DOMAIN g = {}
    BY <1>1
  <2>3. BatchRow(c, {}, from) = Row(SumFunction(f), IF c.cumtime THEN SumFunction(g) ELSE 0, 0)
    BY DEF BatchRow
  <2> HIDE DEF f, g
  <2>4. SumFunction(f) = 0 /\ SumFunction(g) = 0
    BY <1>3, <2>2
  <2> QED
    BY <2>1, <2>3, <2>4
<1> QED
  BY <1>8, <1>9, <1>10, <1>11 DEF Configured, Formats, FirstBestFormats

\* What is worth nothing changes nothing.
SameScore(c, S, T) ==
    \A from, to : update_participation(c, T, from, to) = update_participation(c, S, from, to)

LEMMA VoidIsNothing ==
    ASSUME NEW S, Tabled(S), NEW c, NEW v, Void(v, c.format), c.format \in FirstBestFormats \cup {"ioi16"}
    PROVE  SameScore(c, S, S \cup {v})
<1>1. PICK T : T = S \cup {v} /\ Tabled(T) /\ JudgedOf(T) = JudgedOf(S)
  BY AddedIsTabled, VoidBatch DEF Void
<1>2. ASSUME NEW from, NEW to
      PROVE  update_participation(c, T, from, to) = update_participation(c, S, from, to)
  <2>1. CASE c.format \in FirstBestFormats
    <3>1. update_participation(c, T, from, to) = FirstBestRow(c, T, from)
      BY <1>1, <2>1, FirstBestRowIs
    <3>2. update_participation(c, S, from, to) = FirstBestRow(c, S, from)
      BY <2>1, FirstBestRowIs
    <3>3. SameRow(c, S, T)
      BY <1>1, <2>1, VoidFirstBest
    <3> QED
      BY <3>1, <3>2, <3>3 DEF SameRow
  <2>2. CASE c.format = "ioi16"
    BY <1>1, <2>2, BatchRowIs
  <2> QED
    BY <2>1, <2>2
<1>3. SameScore(c, S, T)
  BY <1>2 DEF SameScore
<1> QED
  BY <1>1, <1>3

\* Such a table has a time that the row can hold.
LEMMA CumtimeIsThere ==
    ASSUME NoneIsNothing, NEW S, NEW c, Configured(c), NEW from \in Int, NEW to \in Int, Timely(S, from)
    PROVE  update_participation(c, S, from, to).cumtime \in Nat
<1>1. Tabled(S) /\ c.cumtime \in BOOLEAN
  BY DEF Timely, Configured
<1>2. CASE c.format \in FirstBestFormats
  <2>1. PICK b, d, v, l : /\ b = SumFunction(Bests(S)) /\ d = SumFunction(Delays(S, from))
                          /\ v = SumFunction(Prevs(S)) /\ l = LastDelay(S, from)
    OBVIOUS
  <2>2. d \in Nat /\ v \in Nat /\ l \in Nat
    BY <2>1, DelaysAre
  <2>3. PICK x : x = c.penalty * v /\ x \in Nat
    <3>1. c.penalty \in Nat
      BY DEF Configured
    <3> QED
      BY <2>2, <3>1
  <2>4. update_participation(c, S, from, to) =
            CASE c.format = "icpc"    -> Row(b, d + x, l)
              [] c.format = "atcoder" -> Row(b, l + x, 0)
              [] c.format = "ioi"     -> Row(b, IF c.cumtime THEN Largest({0, d}) ELSE 0, 0)
    BY <1>1, <1>2, <2>1, <2>3, FirstBestRowIs DEF FirstBestRow
  <2>5. Largest({0, d}) \in Nat
    BY <2>2, NotBelow
  <2> QED
    BY <1>1, <1>2, <2>2, <2>3, <2>4, <2>5 DEF FirstBestFormats, Row
<1>3. CASE c.format = "default"
  <2>1. Largest({0, SumFunction(LastDelays(S, from))}) \in Nat
    BY <1>1, PartsAreNumbers, NotBelow
  <2> QED
    BY <1>1, <1>3, <2>1, DefaultIs DEF Row
<1>4. CASE c.format = "ecoo"
  <2>1. PICK T : T = CountedOf(S)
    OBVIOUS
  <2>2. IsFiniteSet(ProblemsOf(T))
    BY <1>1, <2>1, CountedAre
  <2>3. \A p \in ProblemsOf(T) : CountedDelays(T, from)[p] \in Nat
    <3> SUFFICES ASSUME NEW p \in ProblemsOf(T) PROVE LastDate(OfProblem(T, p)) - from \in Nat
      BY DEF CountedDelays
    <3>1. PICK s \in S : s.date = LastDate(OfProblem(T, p)) /\ s.date \in Nat
      BY <1>1, <2>1, CountedAre
    <3>2. from <= s.date
      BY DEF Timely
    <3> QED
      BY <3>1, <3>2
  <2>4. SumFunction(CountedDelays(T, from)) \in Nat
    <3>1. DOMAIN CountedDelays(T, from) = ProblemsOf(T)
      BY DEF CountedDelays
    <3> QED
      BY <2>2, <2>3, <3>1, SumIsNumber
  <2>5. update_participation(c, S, from, to) =
            Row(SumFunction(WithBonus(c, T, to)), IF c.cumtime THEN SumFunction(CountedDelays(T, from)) ELSE 0, 0)
    BY <1>4, <2>1, ECOOIs DEF ECOORow
  <2> QED
    BY <1>1, <2>4, <2>5 DEF Row
<1>5. CASE c.format = "ioi16"
  BY <1>1, <1>5, BatchRowIs, BatchRowAre
<1> QED
  BY <1>2, <1>3, <1>4, <1>5 DEF Configured, Formats, FirstBestFormats

\* Where everything is judged to the end, the formats score by the rules.
LEMMA RulesAreKept ==
    ASSUME NoneIsNothing, NEW S, NEW c, Configured(c), NEW from \in Int, NEW to \in Int, Complete(S, from)
    PROVE  update_participation(c, S, from, to) = Standing(c, Fair(S), from, to)
<1>1. Fair(S) = S
  <2> DEFINE g(s) == [s EXCEPT !.points = IF s.result \in {"AC", "WA"} THEN @ ELSE 0]
  <2>1. ASSUME NEW s \in S PROVE g(s) = s
    <3>1. s \in Judged /\ (s.result \in {"AC", "WA"} \/ s.points = 0)
      BY DEF Complete, Counts, Tabled
    <3> QED
      BY <3>1 DEF Judged
  <2>2. Fair(S) = {g(s) : s \in S}
    BY DEF Fair
  <2> HIDE DEF g
  <2> QED
    BY <2>1, <2>2
<1>2. Tabled(S)
  BY DEF Complete
<1>3. CASE c.format \in FirstBestFormats
  BY <1>1, <1>2, <1>3, FirstBestRowIs, FirstBestByTheRules
<1>4. CASE c.format = "default"
  BY <1>1, <1>4, DefaultByTheRules
<1>5. CASE c.format = "ecoo"
  BY <1>1, <1>2, <1>5, ECOOIs, ECOOByTheRules
<1>6. CASE c.format = "ioi16"
  BY <1>1, <1>2, <1>6, BatchRowIs, BatchByTheRules
<1> QED
  BY <1>3, <1>4, <1>5, <1>6 DEF Configured, Formats, FirstBestFormats

-----------------------------------------------------------------------------
(* What a step does to a submission, in full *)

\* Row i becomes s, a submission of the same participation, problem and time.
Moves(i, s) ==
    /\ Becomes(i, s) /\ s.sub \in Judged
    /\ s.sub.id = subs[i].sub.id /\ s.sub.date = subs[i].sub.date

\* A submission is made, judged to the end, scored, failed or judged again.
Sent(u, p, s) ==
    /\ Submit(u, p) /\ subs' = Append(subs, s)
    /\ s \in Submission /\ s.of = <<u, current[u]>> /\ s.at = "judging" /\ ~s.again
    /\ s.sub \in Judged /\ s.sub.id = Len(subs) + 1 /\ s.sub.date = now
    /\ s.sub.result = None /\ s.sub.points = 0 /\ s.sub.batch = <<>>

JudgedToTheEnd(i, s) == Moves(i, s) /\ s.at = "graded" /\ Counts(s.sub)

Scored(i, s) ==
    /\ Moves(i, s) /\ subs[i].at = "graded" /\ s.at = "done"
    /\ s.sub.result = subs[i].sub.result /\ s.sub.batch = subs[i].sub.batch

FailedAs(i, s, result) ==
    /\ Moves(i, s) /\ subs[i].at = "judging" /\ s.at = "done" /\ s.again = subs[i].again
    /\ s.sub.result = result /\ s.sub.points = subs[i].sub.points /\ s.sub.batch = subs[i].sub.batch

Again(i, s) ==
    /\ Moves(i, s) /\ s.at = "judging" /\ s.again
    /\ s.sub.result = None /\ s.sub.batch = <<>>

\* The fields of a submission, one by one.
LEMMA SubmissionFields ==
    ASSUME NEW s \in Submission
    PROVE  \E o \in Key, a \in {"judging", "graded", "done"}, g \in BOOLEAN, w \in BOOLEAN, id \in Nat, p \in Problem,
              d \in Nat, r \in Answer, n \in Nat, b \in Batches :
               s = [of |-> o, at |-> a, again |-> g, public |-> w,
                    sub |-> [id |-> id, prob |-> p, date |-> d, result |-> r, points |-> n, batch |-> b]]
<1>1. /\ s = [of |-> s.of, at |-> s.at, again |-> s.again, public |-> s.public, sub |-> s.sub]
      /\ s.of \in Key /\ s.at \in {"judging", "graded", "done"} /\ s.again \in BOOLEAN /\ s.public \in BOOLEAN
      /\ s.sub \in Judged
  BY DEF Submission
<1>2. s.sub = [id |-> s.sub.id, prob |-> s.sub.prob, date |-> s.sub.date, result |-> s.sub.result,
               points |-> s.sub.points, batch |-> s.sub.batch]
  BY <1>1 DEF Judged
<1>3. /\ s.sub.id \in Nat /\ s.sub.prob \in Problem /\ s.sub.date \in Nat /\ s.sub.result \in Answer
      /\ s.sub.points \in Nat /\ s.sub.batch \in Batches
  BY <1>1 DEF Judged
<1>4. s = [of |-> s.of, at |-> s.at, again |-> s.again, public |-> s.public,
           sub |-> [id |-> s.sub.id, prob |-> s.sub.prob, date |-> s.sub.date, result |-> s.sub.result,
                    points |-> s.sub.points, batch |-> s.sub.batch]]
  BY <1>1, <1>2
<1> USE <1>1, <1>3
<1> WITNESS s.of \in Key, s.at \in {"judging", "graded", "done"}, s.again \in BOOLEAN, s.public \in BOOLEAN,
            s.sub.id \in Nat, s.sub.prob \in Problem, s.sub.date \in Nat, s.sub.result \in Answer,
            s.sub.points \in Nat, s.sub.batch \in Batches
<1> QED
  BY <1>4

LEMMA SentIs ==
    ASSUME Shapes, NEW u \in Users, NEW p \in Problem, Submit(u, p)
    PROVE  \E s : Sent(u, p, s)
<1>1. <<u, current[u]>> \in Existing
  BY DEF Submit, InContest, Shapes, People
<1>2. Len(subs) + 1 \in Nat /\ now \in Nat
  BY DEF Shapes, Submissions, Scened
<1> DEFINE r == [id |-> Len(subs) + 1, prob |-> p, date |-> now, result |-> None, points |-> 0, batch |-> <<>>]
           s == [of |-> <<u, current[u]>>, at |-> "judging", again |-> FALSE, public |-> FALSE, sub |-> r]
<1>3. r \in Judged
  BY <1>2 DEF Judged, Answer, Batches
<1>4. s \in Submission
  BY <1>1, <1>3 DEF Submission, Existing
<1>5. subs' = Append(subs, s)
  BY DEF Submit
<1>6. Sent(u, p, s)
  BY <1>3, <1>4, <1>5 DEF Sent
<1> QED
  BY <1>6

LEMMA GradingEndIs ==
    ASSUME Shapes, NEW i \in DOMAIN subs, NEW v \in scene.verdicts, GradingEnd(i, v)
    PROVE  \E s : JudgedToTheEnd(i, s)
<1>1. v \in [1..2 -> 0..1]
  BY SceneAssumption DEF Shapes, Scened
<1>2. PICK ans : ans = IF CasePoints(v) = 2 THEN "AC" ELSE "WA"
  OBVIOUS
<1>3. PICK public \in BOOLEAN : public = (subs[i].sub.prob \in open)
  <2>1. (subs[i].sub.prob \in open) \in BOOLEAN
    OBVIOUS
  <2> QED
    BY <2>1, Zenon
<1>4. PICK o \in Key, a \in {"judging", "graded", "done"}, g \in BOOLEAN, w \in BOOLEAN, id \in Nat, p \in Problem,
           d \in Nat, r \in Answer, n \in Nat, b \in Batches :
               subs[i] = [of |-> o, at |-> a, again |-> g, public |-> w,
                          sub |-> [id |-> id, prob |-> p, date |-> d, result |-> r, points |-> n, batch |-> b]]
  BY SubmissionIs, SubmissionFields DEF Shapes
<1> DEFINE t == [id |-> id, prob |-> p, date |-> d, result |-> ans, points |-> n, batch |-> v]
           s == [of |-> o, at |-> "graded", again |-> g, public |-> public, sub |-> t]
<1>5. t \in Judged
  BY <1>1, <1>2 DEF Judged, Answer, Batches
<1>6. s \in Submission
  BY <1>5 DEF Submission
<1>7. subs' = [subs EXCEPT ![i] = [[[[subs[i] EXCEPT !.at = "graded"] EXCEPT !.sub.batch = v] EXCEPT !.public = public]
                                   EXCEPT !.sub.result = ans]]
  BY <1>2, <1>3 DEF GradingEnd
<1>8. [[[[subs[i] EXCEPT !.at = "graded"] EXCEPT !.sub.batch = v] EXCEPT !.public = public] EXCEPT !.sub.result = ans] = s
  <2>1. PICK x : x = [subs[i] EXCEPT !.at = "graded"]
    OBVIOUS
  <2>2. x = [of |-> o, at |-> "graded", again |-> g, public |-> w,
             sub |-> [id |-> id, prob |-> p, date |-> d, result |-> r, points |-> n, batch |-> b]]
    BY <1>4, <2>1
  <2>3. PICK y : y = [x EXCEPT !.sub.batch = v]
    OBVIOUS
  <2>4. y = [of |-> o, at |-> "graded", again |-> g, public |-> w,
             sub |-> [id |-> id, prob |-> p, date |-> d, result |-> r, points |-> n, batch |-> v]]
    BY <2>2, <2>3
  <2>5. PICK z : z = [y EXCEPT !.public = public]
    OBVIOUS
  <2>6. z = [of |-> o, at |-> "graded", again |-> g, public |-> public,
             sub |-> [id |-> id, prob |-> p, date |-> d, result |-> r, points |-> n, batch |-> v]]
    BY <2>4, <2>5
  <2>7. [z EXCEPT !.sub.result = ans] = s
    BY <2>6
  <2> QED
    BY <2>1, <2>3, <2>5, <2>7
<1>9. subs' = [subs EXCEPT ![i] = s]
  BY <1>7, <1>8
<1>10. Moves(i, s)
  BY <1>1, <1>4, <1>5, <1>6, <1>9 DEF Moves, Becomes
<1>11. Counts(s.sub)
  BY <1>1, <1>2 DEF Counts
<1>12. JudgedToTheEnd(i, s)
  BY <1>10, <1>11 DEF JudgedToTheEnd
<1> QED
  BY <1>12

LEMMA UpdateContestIs ==
    ASSUME Shapes, NEW i \in DOMAIN subs, UpdateContest(i)
    PROVE  \E s : Scored(i, s)
<1>1. subs[i].at = "graded" /\ subs[i].sub.batch \in [1..2 -> 0..1]
  BY DEF UpdateContest, Shapes, Submissions
<1>2. PICK m \in Nat : m = ContestPoints(subs[i].sub.prob, subs[i].sub.batch)
  BY <1>1, PointsAreNumbers
<1>3. PICK o \in Key, a \in {"judging", "graded", "done"}, g \in BOOLEAN, w \in BOOLEAN, id \in Nat, p \in Problem,
           d \in Nat, r \in Answer, n \in Nat, b \in Batches :
               subs[i] = [of |-> o, at |-> a, again |-> g, public |-> w,
                          sub |-> [id |-> id, prob |-> p, date |-> d, result |-> r, points |-> n, batch |-> b]]
  BY SubmissionIs, SubmissionFields DEF Shapes
<1>0. PICK no \in BOOLEAN : no = FALSE
  OBVIOUS
<1> DEFINE t == [id |-> id, prob |-> p, date |-> d, result |-> r, points |-> m, batch |-> b]
           s == [of |-> o, at |-> "done", again |-> g, public |-> no, sub |-> t]
<1>4. subs' = [subs EXCEPT ![i] = [[[subs[i] EXCEPT !.at = "done"] EXCEPT !.public = no] EXCEPT !.sub.points = m]]
  BY <1>0, <1>2 DEF UpdateContest
<1>5. [[[subs[i] EXCEPT !.at = "done"] EXCEPT !.public = no] EXCEPT !.sub.points = m] = s
  <2>1. PICK x : x = [subs[i] EXCEPT !.at = "done"]
    OBVIOUS
  <2>2. x = [of |-> o, at |-> "done", again |-> g, public |-> w,
             sub |-> [id |-> id, prob |-> p, date |-> d, result |-> r, points |-> n, batch |-> b]]
    BY <1>3, <2>1
  <2>3. PICK y : y = [x EXCEPT !.public = no]
    OBVIOUS
  <2>4. y = [of |-> o, at |-> "done", again |-> g, public |-> no,
             sub |-> [id |-> id, prob |-> p, date |-> d, result |-> r, points |-> n, batch |-> b]]
    BY <2>2, <2>3
  <2>5. [y EXCEPT !.sub.points = m] = s
    BY <2>4
  <2> QED
    BY <2>1, <2>3, <2>5
<1>6. subs' = [subs EXCEPT ![i] = s]
  BY <1>4, <1>5
<1>7. PICK z : Becomes(i, z) /\ z.at = "done"
  BY UpdateContestDoes
<1>8. z = s
  BY <1>6, <1>7 DEF Becomes
<1>9. s \in Submission /\ Becomes(i, s)
  BY <1>7, <1>8, Zenon DEF Becomes
<1>10. s.sub \in Judged
  BY <1>9 DEF Submission
<1>11. /\ s.sub.id = subs[i].sub.id /\ s.sub.date = subs[i].sub.date
       /\ s.sub.result = subs[i].sub.result /\ s.sub.batch = subs[i].sub.batch /\ s.at = "done"
  BY <1>3
<1>12. Scored(i, s)
  <2> HIDE DEF s, t
  <2> QED
    BY <1>1, <1>9, <1>10, <1>11 DEF Scored, Moves
<1> QED
  BY <1>12

LEMMA GradingFailsIs ==
    ASSUME Shapes, NEW i \in DOMAIN subs, NEW result \in {"CE", "IE", "AB"}, GradingFails(i, result)
    PROVE  \E s : FailedAs(i, s, result)
<1>1. PICK o \in Key, a \in {"judging", "graded", "done"}, g \in BOOLEAN, w \in BOOLEAN, id \in Nat, p \in Problem,
           d \in Nat, r \in Answer, n \in Nat, b \in Batches :
               subs[i] = [of |-> o, at |-> a, again |-> g, public |-> w,
                          sub |-> [id |-> id, prob |-> p, date |-> d, result |-> r, points |-> n, batch |-> b]]
  BY SubmissionIs, SubmissionFields DEF Shapes
<1> DEFINE t == [id |-> id, prob |-> p, date |-> d, result |-> result, points |-> n, batch |-> b]
           s == [of |-> o, at |-> "done", again |-> g, public |-> w, sub |-> t]
<1>2. t \in Judged
  BY DEF Judged, Answer
<1>3. s \in Submission
  BY <1>2 DEF Submission
<1>4. subs' = [subs EXCEPT ![i] = [[subs[i] EXCEPT !.at = "done"] EXCEPT !.sub.result = result]]
  BY DEF GradingFails
<1>5. [[subs[i] EXCEPT !.at = "done"] EXCEPT !.sub.result = result] = s
  <2>1. PICK x : x = [subs[i] EXCEPT !.at = "done"]
    OBVIOUS
  <2>2. x = [of |-> o, at |-> "done", again |-> g, public |-> w,
             sub |-> [id |-> id, prob |-> p, date |-> d, result |-> r, points |-> n, batch |-> b]]
    BY <1>1, <2>1
  <2>3. [x EXCEPT !.sub.result = result] = s
    BY <2>2
  <2> QED
    BY <2>1, <2>3
<1>6. subs' = [subs EXCEPT ![i] = s]
  BY <1>4, <1>5
<1>7. Moves(i, s)
  BY <1>1, <1>2, <1>3, <1>6 DEF Moves, Becomes
<1>8. FailedAs(i, s, result)
  BY <1>1, <1>7 DEF FailedAs, GradingFails
<1> QED
  BY <1>8

LEMMA RejudgeIs ==
    ASSUME Shapes, NEW i \in DOMAIN subs, Rejudge(i)
    PROVE  \E s : Again(i, s)
<1>1. PICK o \in Key, a \in {"judging", "graded", "done"}, g \in BOOLEAN, w \in BOOLEAN, id \in Nat, p \in Problem,
           d \in Nat, r \in Answer, n \in Nat, b \in Batches :
               subs[i] = [of |-> o, at |-> a, again |-> g, public |-> w,
                          sub |-> [id |-> id, prob |-> p, date |-> d, result |-> r, points |-> n, batch |-> b]]
  BY SubmissionIs, SubmissionFields DEF Shapes
<1>0. PICK yes \in BOOLEAN : yes = TRUE
  OBVIOUS
<1> DEFINE t == [id |-> id, prob |-> p, date |-> d, result |-> None, points |-> n, batch |-> <<>>]
           s == [of |-> o, at |-> "judging", again |-> yes, public |-> w, sub |-> t]
<1>2. t \in Judged
  BY DEF Judged, Answer, Batches
<1>3. s \in Submission
  BY <1>2 DEF Submission
<1>4. subs' = [subs EXCEPT ![i] = [[[[subs[i] EXCEPT !.at = "judging"] EXCEPT !.again = yes]
                                    EXCEPT !.sub.result = None] EXCEPT !.sub.batch = <<>>]]
  BY <1>0 DEF Rejudge
<1>5. [[[[subs[i] EXCEPT !.at = "judging"] EXCEPT !.again = yes] EXCEPT !.sub.result = None] EXCEPT !.sub.batch = <<>>] = s
  <2>1. PICK x : x = [subs[i] EXCEPT !.at = "judging"]
    OBVIOUS
  <2>2. x = [of |-> o, at |-> "judging", again |-> g, public |-> w,
             sub |-> [id |-> id, prob |-> p, date |-> d, result |-> r, points |-> n, batch |-> b]]
    BY <1>1, <2>1
  <2>3. PICK y : y = [x EXCEPT !.again = yes]
    OBVIOUS
  <2>4. y = [of |-> o, at |-> "judging", again |-> yes, public |-> w,
             sub |-> [id |-> id, prob |-> p, date |-> d, result |-> r, points |-> n, batch |-> b]]
    BY <2>2, <2>3
  <2>5. PICK z : z = [y EXCEPT !.sub.result = None]
    OBVIOUS
  <2>6. z = [of |-> o, at |-> "judging", again |-> yes, public |-> w,
             sub |-> [id |-> id, prob |-> p, date |-> d, result |-> None, points |-> n, batch |-> b]]
    BY <2>4, <2>5
  <2>7. [z EXCEPT !.sub.batch = <<>>] = s
    BY <2>6
  <2> QED
    BY <2>1, <2>3, <2>5, <2>7
<1>6. subs' = [subs EXCEPT ![i] = s]
  BY <1>4, <1>5
<1>7. Moves(i, s)
  BY <1>1, <1>2, <1>3, <1>6 DEF Moves, Becomes
<1>8. Again(i, s)
  BY <1>0, <1>7 DEF Again
<1> QED
  BY <1>8

\* Every step, as far as submissions go.
LEMMA SubsDo ==
    ASSUME Shapes, [Next]_vars
    PROVE  \/ UNCHANGED subs
           \/ \E u \in Users, p \in Problem : \E s : Sent(u, p, s)
           \/ \E i \in DOMAIN subs : \E s :
                  \/ JudgedToTheEnd(i, s) /\ \E v \in scene.verdicts : GradingEnd(i, v)
                  \/ Scored(i, s) /\ UpdateContest(i)
                  \/ Again(i, s) /\ Rejudge(i)
                  \/ \E result \in {"CE", "IE", "AB"} : FailedAs(i, s, result) /\ GradingFails(i, result)
BY SubsMove, SentIs, GradingEndIs, UpdateContestIs, RejudgeIs, GradingFailsIs

\* Of a row that moves the others stay.
LEMMA MovesIs ==
    ASSUME Shapes, NEW i \in DOMAIN subs, NEW s, Moves(i, s)
    PROVE  /\ DOMAIN subs' = DOMAIN subs /\ subs'[i] = s /\ \A n \in DOMAIN subs \ {i} : subs'[n] = subs[n]
           /\ s.of = subs[i].of
<1>1. subs' = [subs EXCEPT ![i] = s] /\ s.of = subs[i].of
  BY DEF Moves, Becomes
<1> QED
  BY <1>1 DEF Shapes, Submissions

LEMMA SentDoes ==
    ASSUME Shapes, NEW u \in Users, NEW p \in Problem, NEW s, Sent(u, p, s)
    PROVE  /\ Len(subs) \in Nat /\ DOMAIN subs = 1..Len(subs)
           /\ DOMAIN subs' = DOMAIN subs \cup {Len(subs) + 1} /\ subs'[Len(subs) + 1] = s
           /\ \A n \in DOMAIN subs : subs'[n] = subs[n]
<1>1. subs \in Seq(Submission) /\ subs' = Append(subs, s)
  BY DEF Sent, Shapes, Submissions
<1> QED
  BY <1>1

-----------------------------------------------------------------------------
(* What a step does to a participation and to its recomputation *)

LEMMA NamesStay ==
    ASSUME [Next]_vars
    PROVE  scene' = scene /\ Key' = Key /\ Users' = Users /\ Actor' = Actor /\ Virtual' = Virtual
BY SceneStays DEF Key, Users, Virtual, Actor, Judge, Editor, Page, Admin

\* Save() writes flag and result together, or nothing.
LEMMA SavedIs ==
    ASSUME Shapes, NEW a \in Actor, Save(a)
    PROVE  /\ job[a].at = "save" /\ job[a].of \in Existing
           /\ \A x \in Key \ {job[a].of} : part'[x] = part[x]
           /\ \/ part' = part
              \/ /\ job[a].res.cumtime >= 0
                 /\ part'[job[a].of] = [real_start |-> part[job[a].of].real_start, is_disqualified |-> job[a].disq,
                                        res |-> Result(job[a].disq, job[a].res)]
           /\ part'[job[a].of].real_start = part[job[a].of].real_start
<1>1. DOMAIN part = Key /\ \A k \in Existing : IsPart(part[k])
  BY DEF Shapes, People
<1>2. PICK k \in Existing : k = job[a].of /\ job[a].at = "save"
  <2>1. job[a] # Idle /\ job[a].at = "save"
    BY DEF Save, Idle
  <2> QED
    BY <2>1 DEF Shapes, Jobs
<1>3. k \in Key
  BY DEF Existing
<1>4. CASE job[a].res.cumtime >= 0
  <2>1. PICK r, d : r = Result(job[a].disq, job[a].res) /\ d = job[a].disq
    OBVIOUS
  <2>2. PICK x, y, z : part[k] = [real_start |-> x, is_disqualified |-> y, res |-> z]
    BY <1>1 DEF IsPart
  <2>3. part' = [part EXCEPT ![k] = [[part[k] EXCEPT !.is_disqualified = d] EXCEPT !.res = r]]
    BY <1>1, <1>2, <1>4, <2>1 DEF Save
  <2>4. PICK w : w = [part[k] EXCEPT !.is_disqualified = d]
    OBVIOUS
  <2>5. w = [real_start |-> x, is_disqualified |-> d, res |-> z]
    BY <2>2, <2>4
  <2>6. [w EXCEPT !.res = r] = [real_start |-> x, is_disqualified |-> d, res |-> r]
    BY <2>5
  <2>7. part[k].real_start = x
    BY <2>2
  <2>8. PICK v : v = [real_start |-> part[k].real_start, is_disqualified |-> d, res |-> r]
    OBVIOUS
  <2>9. part' = [part EXCEPT ![k] = v]
    BY <2>3, <2>4, <2>6, <2>7, <2>8
  <2>10. part'[k] = v /\ v.real_start = part[k].real_start /\ \A o \in Key \ {k} : part'[o] = part[o]
    BY <1>1, <1>3, <2>8, <2>9
  <2> QED
    BY <1>2, <1>4, <2>1, <2>8, <2>10
<1>5. CASE ~(job[a].res.cumtime >= 0)
  BY <1>2, <1>5 DEF Save
<1> QED
  BY <1>4, <1>5

\* A participation stays but for its flag and its result, and those that are made
\* begin now and have nothing.
LEMMA PartsStay ==
    ASSUME NoneIsNothing, Shapes, [Next]_vars
    PROVE  /\ Existing \subseteq Existing'
           /\ \A k \in Existing : part'[k].real_start = part[k].real_start
           /\ \A k \in Existing' \ Existing : \E u \in Users :
                  /\ Enter(u) /\ k = Entered(u)
                  /\ part'[k] = [real_start |-> now, is_disqualified |-> FALSE, res |-> Row(0, 0, 0)]
<1>0. Key' = Key /\ Existing \subseteq Key /\ DOMAIN part = Key
  BY NamesStay DEF Existing, Shapes, People
<1>1. Existing \subseteq Existing'
  BY PeopleStep
<1>2. CASE UNCHANGED part
  BY <1>0, <1>1, <1>2 DEF Existing
<1>3. ASSUME NEW u \in Users, Enter(u)
      PROVE  /\ \A k \in Existing : part'[k].real_start = part[k].real_start
             /\ \A k \in Existing' \ Existing :
                    k = Entered(u) /\ part'[k] = [real_start |-> now, is_disqualified |-> FALSE, res |-> Row(0, 0, 0)]
  <2>1. PICK k \in Key : k = Entered(u)
    BY <1>3, EnteredIs DEF Shapes, Enter
  <2>2. PICK x : x = [real_start |-> now, is_disqualified |-> FALSE, res |-> Row(0, 0, 0)]
    OBVIOUS
  <2>3. part' = IF part[k] = None THEN [part EXCEPT ![k] = x] ELSE part
    BY <1>3, <2>1, <2>2 DEF Enter, NewPart
  <2>4. \A y \in Key : part'[y] = IF y = k /\ part[k] = None THEN x ELSE part[y]
    BY <1>0, <2>3
  <2> QED
    BY <1>0, <2>1, <2>2, <2>4 DEF Existing
<1>4. ASSUME NEW a \in Actor, Save(a)
      PROVE  Existing' = Existing /\ \A k \in Existing : part'[k].real_start = part[k].real_start
  <2>1. Existing' = Existing
    BY <1>4, SaveDoes, NamesStay
  <2>2. \A x \in Key : part'[x].real_start = part[x].real_start
    <3>1. PICK k : k = job[a].of /\ part'[k].real_start = part[k].real_start /\ \A x \in Key \ {k} : part'[x] = part[x]
      BY <1>4, SavedIs
    <3> QED
      BY <3>1
  <2> QED
    BY <1>0, <2>1, <2>2
<1>5. ASSUME NEW u \in Users, Leave(u)
      PROVE  UNCHANGED part
  BY <1>5 DEF Leave
<1>6. ASSUME NEW a \in Actor, Expel(a)
      PROVE  UNCHANGED part
  BY <1>6 DEF Expel
<1> QED
  BY <1>1, <1>2, <1>3, <1>4, <1>5, <1>6, PeopleMove

\* Actor a begins j: nobody else's recomputation of that participation is under
\* way, or it is tangled.
Starts(a, j) ==
    /\ a \in Actor /\ job[a] = Idle
    /\ j # Idle /\ j.of \in Existing /\ j.at \in {"load", "read"}
    /\ Begins(a, j.of, j) /\ UNCHANGED part

LEMMA StartsIs ==
    ASSUME Shapes, JudgesAreFree
    PROVE  /\ \A i \in DOMAIN subs : UpdateContest(i) => \E j : Starts(Judge(i), j) /\ j.of = subs[i].of
           /\ \A k \in Existing : Recalculate(k) => \E j : Starts(Admin, j)
           /\ \A k \in Existing : Toggle(k) => \E j : Starts(Editor, j)
           /\ \A u \in Users, counted \in BOOLEAN : Report(u, counted) =>
                  UNCHANGED <<job, tangled>> \/ \E j : Starts(Page, j)
<1>1. ASSUME NEW i \in DOMAIN subs, UpdateContest(i)
      PROVE  \E j : Starts(Judge(i), j) /\ j.of = subs[i].of
  <2> DEFINE j == [at |-> "load", of |-> subs[i].of, sentence |-> FALSE]
  <2>1. i \in 1..scene.max_subs
    <3>1. scene.max_subs \in Nat
      BY SceneAssumption DEF Shapes, Scened
    <3> QED
      BY <3>1 DEF Shapes, Submissions
  <2>2. subs[i].of \in Existing /\ Judge(i) \in Actor /\ job[Judge(i)] = Idle
    BY <1>1, <2>1 DEF Shapes, Submissions, Actor, JudgesAreFree, UpdateContest
  <2>3. j # Idle /\ j.of = subs[i].of /\ j.at = "load"
    BY DEF Idle
  <2>4. Begins(Judge(i), subs[i].of, j) /\ UNCHANGED part
    BY <1>1 DEF UpdateContest
  <2> HIDE DEF j
  <2>5. Starts(Judge(i), j)
    BY <2>2, <2>3, <2>4 DEF Starts
  <2> QED
    BY <2>3, <2>5
<1>2. ASSUME NEW k \in Existing, Recalculate(k)
      PROVE  \E j : Starts(Admin, j)
  <2> DEFINE j == [at |-> "load", of |-> k, sentence |-> FALSE]
  <2>1. Admin \in Actor /\ job[Admin] = Idle /\ Begins(Admin, k, j) /\ UNCHANGED part
    BY <1>2 DEF Recalculate, Actor
  <2>2. j # Idle /\ j.of = k /\ j.at = "load"
    BY DEF Idle
  <2> HIDE DEF j
  <2>3. Starts(Admin, j)
    BY <2>1, <2>2 DEF Starts
  <2> QED
    BY <2>3
<1>3. ASSUME NEW k \in Existing, Toggle(k)
      PROVE  \E j : Starts(Editor, j)
  <2>0. PICK d : d = ~part[k].is_disqualified
    OBVIOUS
  <2> DEFINE j == [at |-> "read", of |-> k, sentence |-> TRUE, disq |-> d]
  <2>1. Editor \in Actor /\ job[Editor] = Idle /\ Begins(Editor, k, j) /\ UNCHANGED part
    BY <1>3, <2>0 DEF Toggle, Sentenced, Actor
  <2>2. j # Idle /\ j.of = k /\ j.at = "read"
    BY DEF Idle
  <2> HIDE DEF j
  <2>3. Starts(Editor, j)
    BY <2>1, <2>2 DEF Starts
  <2> QED
    BY <2>3
<1>4. ASSUME NEW u \in Users, NEW counted \in BOOLEAN, Report(u, counted)
      PROVE  UNCHANGED <<job, tangled>> \/ \E j : Starts(Page, j)
  <2> DEFINE j == [at |-> "read", of |-> LiveKey(u), sentence |-> TRUE, disq |-> TRUE]
  <2>1. LiveKey(u) \in Existing
    BY <1>4 DEF Report, InContest, Shapes, People, LiveKey, LIVE
  <2>2. /\ UNCHANGED <<job, tangled>> \/ Begins(Page, LiveKey(u), j)
        /\ Page \in Actor /\ job[Page] = Idle /\ UNCHANGED part
    BY <1>4 DEF Report, Sentenced, Actor
  <2>3. j # Idle /\ j.of = LiveKey(u) /\ j.at = "read"
    BY DEF Idle
  <2> HIDE DEF j
  <2>4. UNCHANGED <<job, tangled>> \/ Starts(Page, j)
    BY <2>1, <2>2, <2>3 DEF Starts
  <2> QED
    BY <2>4
<1> QED
  BY <1>1, <1>2, <1>3, <1>4

GoesOnWith(a) == (Load(a) \/ Read(a) \/ Save(a) \/ Expel(a) \/ Ban(a)) /\ UNCHANGED <<subs, tangled>>

\* Every step, as far as submissions, participations and recomputations go.
LEMMA StepIs ==
    ASSUME Shapes, JudgesAreFree, [Next]_vars
    PROVE  \/ UNCHANGED <<subs, part, job, tangled>>
           \/ \E u \in Users : Enter(u) /\ UNCHANGED <<subs, job, tangled>>
           \/ \E u \in Users, p \in Problem : \E s : Sent(u, p, s) /\ UNCHANGED <<part, job, tangled>>
           \/ \E i \in DOMAIN subs : \E s :
                  \/ (JudgedToTheEnd(i, s) \/ Again(i, s)) /\ UNCHANGED <<part, job, tangled>>
                  \/ Scored(i, s) /\ \E j : Starts(Judge(i), j) /\ j.of = subs[i].of
                  \/ \E result \in {"CE", "IE", "AB"} :
                         FailedAs(i, s, result) /\ GradingFails(i, result) /\ UNCHANGED <<part, job, tangled>>
           \/ \E a \in Actor : \E j : Starts(a, j) /\ UNCHANGED subs
           \/ \E a \in Actor : GoesOnWith(a)
<1>1. CASE Tick /\ UNCHANGED pubVars
  BY <1>1 DEF Tick, jobs
<1>2. CASE Organizing
  BY <1>2 DEF Organizing, PublishStart, ReadBlocked, Publish, Extend, SaveProblem, SaveCommit, Hide, contestVars, jobs
<1>3. CASE UNCHANGED vars
  BY <1>3 DEF vars, contestVars, jobs
<1>4. ASSUME NEW u \in Users, JoinContest(u) \/ UpdateUserCount(u) \/ Leave(u)
      PROVE  UNCHANGED <<subs, part, job, tangled>>
  BY <1>4 DEF JoinContest, UpdateUserCount, Leave, jobs, people
<1>5. ASSUME NEW u \in Users, Enter(u)
      PROVE  UNCHANGED <<subs, job, tangled>>
  BY <1>5 DEF Enter
<1>6. ASSUME NEW u \in Users, NEW p \in Problem, Submit(u, p)
      PROVE  \E s : Sent(u, p, s) /\ UNCHANGED <<part, job, tangled>>
  BY <1>6, SentIs DEF Submit, jobs
<1>7. ASSUME NEW u \in Users, NEW counted \in BOOLEAN, Report(u, counted)
      PROVE  UNCHANGED <<subs, part, job, tangled>> \/ \E j : Starts(Page, j) /\ UNCHANGED subs
  BY <1>7, StartsIs DEF Report
<1>8. ASSUME NEW i \in DOMAIN subs, NEW v \in scene.verdicts, GradingEnd(i, v)
      PROVE  \E s : JudgedToTheEnd(i, s) /\ UNCHANGED <<part, job, tangled>>
  BY <1>8, GradingEndIs DEF GradingEnd, jobs
<1>9. ASSUME NEW i \in DOMAIN subs, UpdateContest(i)
      PROVE  \E s : Scored(i, s) /\ \E j : Starts(Judge(i), j) /\ j.of = subs[i].of
  BY <1>9, UpdateContestIs, StartsIs
<1>10. ASSUME NEW i \in DOMAIN subs, Rejudge(i)
       PROVE  \E s : Again(i, s) /\ UNCHANGED <<part, job, tangled>>
  BY <1>10, RejudgeIs DEF Rejudge, jobs
<1>11. ASSUME NEW i \in DOMAIN subs, NEW result \in {"CE", "IE", "AB"}, GradingFails(i, result)
       PROVE  \E s : FailedAs(i, s, result) /\ GradingFails(i, result) /\ UNCHANGED <<part, job, tangled>>
  BY <1>11, GradingFailsIs DEF GradingFails, jobs
<1>12. ASSUME NEW a \in Actor, Load(a) \/ Read(a) \/ Save(a) \/ Expel(a) \/ Ban(a)
       PROVE  GoesOnWith(a)
  BY <1>12 DEF GoesOnWith, Load, Read, Save, Expel, Ban
<1>13. ASSUME NEW k \in Existing, Recalculate(k) \/ Toggle(k)
       PROVE  \E a \in Actor : \E j : Starts(a, j) /\ UNCHANGED subs
  <2>1. UNCHANGED subs /\ \E a : \E j : Starts(a, j)
    BY <1>13, StartsIs DEF Recalculate, Toggle
  <2> QED
    BY <2>1 DEF Starts
<1>14. Page \in Actor
  BY DEF Actor
<1>15. CASE Participants
  BY <1>15, <1>4, <1>5, <1>6, <1>7, <1>14 DEF Participants
<1>16. CASE Judging
  BY <1>16, <1>8, <1>9, <1>10, <1>11 DEF Judging
<1>17. CASE Recomputing
  BY <1>17, <1>12, <1>13 DEF Recomputing
<1> QED
  BY <1>1, <1>2, <1>3, <1>15, <1>16, <1>17 DEF Next, ContestNext

-----------------------------------------------------------------------------
(* The window of a participation *)

LEMMA StartStays ==
    ASSUME NoneIsNothing, Shapes, [Next]_vars, NEW k \in Existing
    PROVE  start(k)' = start(k)
<1>1. part'[k].real_start = part[k].real_start /\ scene' = scene
  BY PartsStay, NamesStay
<1> QED
  BY <1>1 DEF start

LEMMA ConfIs ==
    ASSUME Shapes
    PROVE  Configured(scene.conf) /\ scene.start[Main] \in Nat /\ scene.limit \in Nat \cup {None}
<1>1. scene \in Scenes /\ Main \in Contests
  BY ContestsAssumption DEF Shapes, Scened
<1>2. /\ scene.conf.format \in Formats /\ scene.conf.worth \in [Problem -> Nat \ {0}]
      /\ {scene.conf.penalty, scene.conf.first_ac_bonus, scene.conf.time_bonus} \subseteq Nat
      /\ {scene.conf.cumtime, scene.conf.partial} \subseteq BOOLEAN
      /\ scene.start[Main] \in Nat /\ scene.limit \in Nat \cup {None}
  BY <1>1, SceneAssumption
<1>3. scene.conf.penalty \in Nat /\ scene.conf.first_ac_bonus \in Nat /\ scene.conf.time_bonus \in Nat
  BY <1>2
<1>4. scene.conf.cumtime \in BOOLEAN
  BY <1>2
<1> QED
  BY <1>2, <1>3, <1>4 DEF Configured

LEMMA WindowIs ==
    ASSUME NoneIsNothing, Shapes, Times, NEW k \in Existing
    PROVE  start(k) \in Nat /\ end_time(k) \in Int
<1>1. scene.start[Main] \in Nat /\ scene.limit \in Nat \cup {None}
  BY ConfIs
<1>2. part[k].real_start \in Nat /\ row[Main].end \in Int /\ k[2] \in Virtual
  BY ContestsAssumption DEF Times, Shapes, Rows, IsRow, Existing, Key
<1>3. PICK r, e, s, l : r = part[k].real_start /\ e = row[Main].end /\ s = scene.start[Main] /\ l = scene.limit
  OBVIOUS
<1>4. start(k) \in Nat
  BY <1>1, <1>2 DEF start
<1>5. k[2] = SPECTATE \/ k[2] > LIVE \/ k[2] = LIVE
  <2>1. scene.max_virtual \in Nat
    BY SceneAssumption DEF Shapes, Scened
  <2> QED
    BY <1>2, <2>1 DEF Virtual, SPECTATE, LIVE
<1>6. CASE k[2] = SPECTATE
  <2>1. k[2] # LIVE /\ ~(k[2] > LIVE)
    BY <1>6 DEF SPECTATE, LIVE
  <2>2. end_time(k) = e
    BY <1>3, <1>6, <2>1 DEF end_time
  <2> QED
    BY <1>2, <1>3, <1>4, <2>2
<1>7. CASE k[2] > LIVE
  <2>1. k[2] # SPECTATE /\ k[2] # LIVE
    BY <1>7, <1>5 DEF SPECTATE, LIVE
  <2>2. end_time(k) = r + (IF l # None THEN l ELSE e - s)
    BY <1>3, <1>7, <2>1 DEF end_time
  <2> QED
    BY <1>1, <1>2, <1>3, <1>4, <2>2
<1>8. CASE k[2] = LIVE
  <2>1. k[2] # SPECTATE /\ ~(k[2] > LIVE)
    BY <1>8 DEF SPECTATE, LIVE
  <2>2. end_time(k) = IF l = None THEN e ELSE Min({r + l, e})
    BY <1>3, <1>8, <2>1 DEF end_time
  <2>3. ASSUME NEW x \in Int, NEW y \in Int PROVE Min({x, y}) \in Int
    <3>1. \E z \in {x, y} : \A w \in {x, y} : z <= w
      OBVIOUS
    <3>2. Min({x, y}) \in {x, y}
      BY <3>1 DEF Min
    <3> QED
      BY <3>2
  <2>4. l # None => r + l \in Int
    BY <1>1, <1>2, <1>3
  <2> QED
    BY <1>2, <1>3, <1>4, <2>2, <2>3, <2>4
<1> QED
  BY <1>5, <1>6, <1>7, <1>8

-----------------------------------------------------------------------------
(* The parts of the invariant that are about one thing each *)

\* A submission keeps its participation, number and time; a new one is made now.
LEMMA SubsKeep ==
    ASSUME Shapes, [Next]_vars, NEW i \in DOMAIN subs'
    PROVE  /\ subs'[i].of \in Existing
           /\ \/ /\ i \in DOMAIN subs /\ subs'[i].of = subs[i].of
                 /\ subs'[i].sub.date = subs[i].sub.date /\ subs'[i].sub.id = subs[i].sub.id
              \/ subs'[i].sub.date = now /\ subs'[i].sub.id = i
<1>1. \A n \in DOMAIN subs : subs[n].of \in Existing
  BY DEF Shapes, Submissions
<1>2. CASE UNCHANGED subs
  BY <1>1, <1>2
<1>3. ASSUME NEW u \in Users, NEW p \in Problem, NEW s, Sent(u, p, s)
      PROVE  /\ subs'[i].of \in Existing
             /\ \/ i \in DOMAIN subs /\ subs'[i] = subs[i]
                \/ subs'[i].sub.date = now /\ subs'[i].sub.id = i
  <2>1. s.sub.date = now /\ s.sub.id = Len(subs) + 1 /\ s.of = <<u, current[u]>>
    BY <1>3 DEF Sent
  <2>2. s.of \in Existing
    BY <1>3, <2>1 DEF Sent, Submit, InContest, Shapes, People
  <2>3. /\ DOMAIN subs' = DOMAIN subs \cup {Len(subs) + 1} /\ subs'[Len(subs) + 1] = s
        /\ \A n \in DOMAIN subs : subs'[n] = subs[n]
    BY <1>3, SentDoes
  <2>4. CASE i \in DOMAIN subs
    BY <1>1, <2>3, <2>4
  <2>5. CASE i = Len(subs) + 1
    BY <2>1, <2>2, <2>3, <2>5
  <2> QED
    BY <2>3, <2>4, <2>5
<1>4. ASSUME NEW n \in DOMAIN subs, NEW s, Moves(n, s)
      PROVE  /\ i \in DOMAIN subs /\ subs'[i].of = subs[i].of
             /\ subs'[i].sub.date = subs[i].sub.date /\ subs'[i].sub.id = subs[i].sub.id
  <2>1. s.sub.date = subs[n].sub.date /\ s.sub.id = subs[n].sub.id
    BY <1>4 DEF Moves
  <2> QED
    BY <1>4, <2>1, MovesIs
<1>5. \/ UNCHANGED subs
      \/ \E u \in Users, p \in Problem : \E s : Sent(u, p, s)
      \/ \E n \in DOMAIN subs : \E s : Moves(n, s)
  BY SubsDo DEF JudgedToTheEnd, Scored, Again, FailedAs
<1> QED
  BY <1>1, <1>2, <1>3, <1>4, <1>5

LEMMA TimesStep ==
    ASSUME NoneIsNothing, Shapes, Times, [Next]_vars
    PROVE  Times'
<1>1. scene' = scene /\ now \in Nat /\ now' \in Nat /\ now <= now' /\ scene.start[Main] \in Nat
  BY SceneStays, ConfIs DEF Shapes, Scened
<1>2. scene.start[Main] <= now
  BY DEF Times
<1>3. ASSUME NEW k \in Existing'
      PROVE  part'[k].real_start \in Nat /\ part'[k].real_start <= now'
  <2>1. CASE k \in Existing
    BY <1>1, <2>1, PartsStay DEF Times
  <2>2. CASE k \notin Existing
    <3>1. part'[k] = [real_start |-> now, is_disqualified |-> FALSE, res |-> Row(0, 0, 0)]
      BY <2>2, PartsStay
    <3> QED
      BY <1>1, <3>1
  <2> QED
    BY <2>1, <2>2
<1>4. ASSUME NEW i \in DOMAIN subs'
      PROVE  start(subs[i].of)' <= subs'[i].sub.date
  <2>1. PICK k \in Existing : k = subs'[i].of
    BY SubsKeep
  <2>2. start(k)' = start(k)
    BY StartStays
  <2>3. start(k) <= now
    BY <1>2 DEF start, Times
  <2>4. start(subs[i].of)' = start(k)'
    BY <2>1 DEF start
  <2>5. CASE i \in DOMAIN subs /\ subs'[i].of = subs[i].of /\ subs'[i].sub.date = subs[i].sub.date
    BY <2>1, <2>2, <2>4, <2>5 DEF Times
  <2>6. CASE subs'[i].sub.date = now
    BY <2>2, <2>3, <2>4, <2>6
  <2> QED
    BY <2>5, <2>6, SubsKeep
<1>5. scene'.start[Main] <= now'
  BY <1>1, <1>2
<1> QED
  BY <1>3, <1>4, <1>5 DEF Times

\* The live participations can be counted.
LEMMA LiveOnes ==
    ASSUME Shapes
    PROVE  Cardinality({k \in Existing : k[2] = LIVE}) \in Nat
<1> DEFINE L == Users \X {LIVE}
<1>1. IsFiniteSet(Users)
  BY SceneAssumption DEF Shapes, Scened, Users
<1>2. IsFiniteSet(L)
  BY <1>1, FS_Singleton, FS_Product
<1>3. {k \in Existing : k[2] = LIVE} \in SUBSET L
  BY DEF Existing, Key
<1>4. IsFiniteSet({k \in Existing : k[2] = LIVE})
  BY <1>2, <1>3, FS_Subset
<1> QED
  BY <1>4, FS_CardinalityType

LEMMA NumbersStep ==
    ASSUME NoneIsNothing, Shapes, Numbers, [Next]_vars
    PROVE  Numbers'
<1>0. Users' = Users /\ Main \in Contests
  BY NamesStay, ContestsAssumption
<1>1. \A c \in Contests : row[c].end \in Nat /\ row[c].users \in Nat
  BY DEF Numbers
<1>2. DOMAIN row = Contests /\ \A c \in Contests : IsRow(row[c])
  BY DEF Shapes, Rows
<1>3. \A c \in Contests : row'[c].end \in Nat /\ row'[c].users \in Nat
  <2>1. CASE UNCHANGED row
    BY <1>1, <2>1
  <2>2. ASSUME NEW u \in Users, UpdateUserCount(u)
        PROVE  \A c \in Contests : row'[c].end \in Nat /\ row'[c].users \in Nat
    <3>1. PICK n \in Nat : n = Cardinality({k \in Existing : k[2] = LIVE})
      BY LiveOnes
    <3>2. join[u] # Idle /\ IsJoin(join[u]) /\ join[u].copy.end \in Nat
      BY <2>2 DEF UpdateUserCount, Idle, Shapes, Joins, Numbers
    <3>3. IsRow(join[u].copy)
      BY <3>2 DEF IsJoin
    <3>4. PICK r : r = [join[u].copy EXCEPT !.users = n]
      OBVIOUS
    <3>5. r.end = join[u].copy.end /\ r.users = n
      BY <3>3, <3>4 DEF IsRow
    <3>6. row' = [row EXCEPT ![Main] = r]
      BY <2>2, <3>1, <3>4 DEF UpdateUserCount
    <3> QED
      BY <1>0, <1>1, <1>2, <3>1, <3>2, <3>5, <3>6
  <2>3. ASSUME NEW c \in Contests, NEW w, row' = [row EXCEPT ![c] = w], w.end \in Nat, w.users = row[c].users
        PROVE  \A x \in Contests : row'[x].end \in Nat /\ row'[x].users \in Nat
    BY <1>1, <1>2, <2>3
  <2>4. ASSUME NEW c \in Contests, NEW b, row' = [row EXCEPT ![c].published = b]
        PROVE  \A x \in Contests : row'[x].end \in Nat /\ row'[x].users \in Nat
    <3>1. PICK w : w = [row[c] EXCEPT !.published = b]
      OBVIOUS
    <3>2. w.end = row[c].end /\ w.users = row[c].users
      BY <1>2, <3>1 DEF IsRow
    <3>3. row' = [row EXCEPT ![c] = w]
      BY <2>4, <3>1
    <3> QED
      BY <1>1, <2>3, <3>2, <3>3
  <2>5. ASSUME NEW c \in Contests, NEW minutes \in {-1, 1}, Extend(c, minutes)
        PROVE  \A x \in Contests : row'[x].end \in Nat /\ row'[x].users \in Nat
    <3>1. PICK e : e = row[c].end + minutes
      OBVIOUS
    <3>2. scene.start[c] \in Nat
      BY SceneAssumption DEF Shapes, Scened
    <3>3. e \in Nat
      BY <1>1, <2>5, <3>1, <3>2 DEF Extend
    <3>4. PICK w : w = [row[c] EXCEPT !.end = e]
      OBVIOUS
    <3>5. w.end = e /\ w.users = row[c].users
      BY <1>2, <3>4 DEF IsRow
    <3>6. row' = [row EXCEPT ![c] = w]
      BY <2>5, <3>1, <3>4 DEF Extend
    <3> QED
      BY <2>3, <3>3, <3>5, <3>6
  <2>6. ASSUME Publish
        PROVE  \A x \in Contests : row'[x].end \in Nat /\ row'[x].users \in Nat
    <3>1. This \in Contests
      BY <2>6, ThisIs DEF Publish, Locked
    <3>2. \E b : row' = [row EXCEPT ![This].published = b]
      BY <2>6 DEF Publish
    <3> QED
      BY <2>4, <3>1, <3>2
  <2>7. ASSUME SaveCommit
        PROVE  \A x \in Contests : row'[x].end \in Nat /\ row'[x].users \in Nat
    <3>1. saving.c \in Contests
      BY <2>7 DEF SaveCommit, Shapes, Commands
    <3>2. \E b : row' = [row EXCEPT ![saving.c].published = b]
      BY <2>7 DEF SaveCommit
    <3> QED
      BY <2>4, <3>1, <3>2
  <2>8. ASSUME NEW i \in DOMAIN subs, UpdateContest(i)
        PROVE  UNCHANGED row
    BY <2>8 DEF UpdateContest
  <2>9. ASSUME NEW p \in Problem, Hide(p)
        PROVE  UNCHANGED row
    BY <2>9 DEF Hide
  <2> QED
    BY <2>1, <2>2, <2>5, <2>6, <2>7, <2>8, <2>9, RowsMove
<1>4. \A u \in Users : join'[u] # Idle => join'[u].copy.end \in Nat
  <2>1. DOMAIN join = Users /\ \A u \in Users : IsJoin(join[u]) /\ (join[u] # Idle => join[u].copy.end \in Nat)
    BY DEF Shapes, Joins, Numbers
  <2>2. CASE UNCHANGED join
    BY <2>1, <2>2
  <2>3. ASSUME NEW u \in Users, JoinContest(u)
        PROVE  \A x \in Users : join'[x] # Idle => join'[x].copy.end \in Nat
    <3>1. PICK b : join' = [join EXCEPT ![u] = [at |-> "enter", copy |-> row[Main], over |-> b]]
      BY <2>3 DEF JoinContest
    <3> QED
      BY <1>0, <1>1, <2>1, <3>1
  <2>4. ASSUME NEW u \in Users, Enter(u)
        PROVE  \A x \in Users : join'[x] # Idle => join'[x].copy.end \in Nat
    <3>1. join[u] # Idle /\ join[u] = [at |-> join[u].at, copy |-> join[u].copy, over |-> join[u].over]
      BY <2>1, <2>4 DEF Enter, Idle, IsJoin
    <3>2. PICK w : w = [join[u] EXCEPT !.at = "count"]
      OBVIOUS
    <3>3. w.copy = join[u].copy
      BY <3>1, <3>2
    <3>4. join' = [join EXCEPT ![u] = w]
      BY <2>4, <3>2 DEF Enter
    <3> QED
      BY <2>1, <3>1, <3>3, <3>4
  <2>5. ASSUME NEW u \in Users, UpdateUserCount(u)
        PROVE  \A x \in Users : join'[x] # Idle => join'[x].copy.end \in Nat
    BY <2>1, <2>5 DEF UpdateUserCount
  <2> QED
    BY <2>2, <2>3, <2>4, <2>5, JoinMove
<1> QED
  BY <1>0, <1>3, <1>4 DEF Numbers, Idle

LEMMA EndStaysStep ==
    ASSUME NoneIsNothing, Shapes, EndStays, [Next]_vars
    PROVE  EndStays'
<1>0. scene' = scene /\ Users' = Users /\ Main \in Contests
  BY NamesStay, ContestsAssumption
<1> SUFFICES ASSUME "extend" \notin scene.acts
             PROVE  /\ row'[Main].end = scene.end[Main]
                    /\ \A u \in Users : join'[u] # Idle => join'[u].copy.end = scene.end[Main]
  BY <1>0 DEF EndStays, Idle
<1>1. PICK e : e = scene.end[Main] /\ row[Main].end = e /\ \A u \in Users : join[u] # Idle => join[u].copy.end = e
  BY DEF EndStays
<1>2. DOMAIN row = Contests /\ \A c \in Contests : IsRow(row[c])
  BY DEF Shapes, Rows
<1>3. DOMAIN join = Users /\ \A u \in Users : IsJoin(join[u])
  BY DEF Shapes, Joins
<1>4. row'[Main].end = e
  <2>1. CASE UNCHANGED row
    BY <1>1, <2>1
  <2>2. ASSUME NEW u \in Users, UpdateUserCount(u)
        PROVE  row'[Main].end = e
    <3>1. PICK r, n : n = Cardinality({k \in Existing : k[2] = LIVE}) /\ r = [join[u].copy EXCEPT !.users = n]
      OBVIOUS
    <3>2. join[u] # Idle
      BY <2>2 DEF UpdateUserCount, Idle
    <3>3. IsRow(join[u].copy)
      BY <1>3, <3>2 DEF IsJoin
    <3>4. r.end = join[u].copy.end
      BY <3>1, <3>3 DEF IsRow
    <3>5. row' = [row EXCEPT ![Main] = r]
      BY <2>2, <3>1 DEF UpdateUserCount
    <3> QED
      BY <1>0, <1>1, <1>2, <3>2, <3>4, <3>5
  <2>3. ASSUME NEW c \in Contests, NEW b, row' = [row EXCEPT ![c].published = b]
        PROVE  row'[Main].end = e
    <3>1. PICK w : w = [row[c] EXCEPT !.published = b]
      OBVIOUS
    <3>2. w.end = row[c].end
      BY <1>2, <3>1 DEF IsRow
    <3>3. row' = [row EXCEPT ![c] = w]
      BY <2>3, <3>1
    <3> QED
      BY <1>0, <1>1, <1>2, <3>2, <3>3
  <2>4. ASSUME NEW c \in Contests, NEW minutes \in {-1, 1}, Extend(c, minutes)
        PROVE  FALSE
    BY <2>4 DEF Extend, Act
  <2>5. ASSUME Publish
        PROVE  row'[Main].end = e
    <3>1. This \in Contests
      BY <2>5, ThisIs DEF Publish, Locked
    <3>2. \E b : row' = [row EXCEPT ![This].published = b]
      BY <2>5 DEF Publish
    <3> QED
      BY <2>3, <3>1, <3>2
  <2>6. ASSUME SaveCommit
        PROVE  row'[Main].end = e
    <3>1. saving.c \in Contests
      BY <2>6 DEF SaveCommit, Shapes, Commands
    <3>2. \E b : row' = [row EXCEPT ![saving.c].published = b]
      BY <2>6 DEF SaveCommit
    <3> QED
      BY <2>3, <3>1, <3>2
  <2>7. ASSUME NEW i \in DOMAIN subs, UpdateContest(i)
        PROVE  UNCHANGED row
    BY <2>7 DEF UpdateContest
  <2>8. ASSUME NEW p \in Problem, Hide(p)
        PROVE  UNCHANGED row
    BY <2>8 DEF Hide
  <2> QED
    BY <2>1, <2>2, <2>4, <2>5, <2>6, <2>7, <2>8, RowsMove
<1>5. \A u \in Users : join'[u] # Idle => join'[u].copy.end = e
  <2>1. CASE UNCHANGED join
    BY <1>1, <2>1
  <2>2. ASSUME NEW u \in Users, JoinContest(u)
        PROVE  \A x \in Users : join'[x] # Idle => join'[x].copy.end = e
    <3>1. PICK b : join' = [join EXCEPT ![u] = [at |-> "enter", copy |-> row[Main], over |-> b]]
      BY <2>2 DEF JoinContest
    <3> QED
      BY <1>1, <1>3, <3>1
  <2>3. ASSUME NEW u \in Users, Enter(u)
        PROVE  \A x \in Users : join'[x] # Idle => join'[x].copy.end = e
    <3>1. join[u] # Idle
      BY <2>3 DEF Enter, Idle
    <3>2. join[u] = [at |-> join[u].at, copy |-> join[u].copy, over |-> join[u].over]
      BY <1>3, <3>1 DEF IsJoin
    <3>3. PICK w : w = [join[u] EXCEPT !.at = "count"]
      OBVIOUS
    <3>4. w.copy = join[u].copy
      BY <3>2, <3>3
    <3>5. join' = [join EXCEPT ![u] = w]
      BY <2>3, <3>3 DEF Enter
    <3> QED
      BY <1>1, <1>3, <3>1, <3>4, <3>5
  <2>4. ASSUME NEW u \in Users, UpdateUserCount(u)
        PROVE  \A x \in Users : join'[x] # Idle => join'[x].copy.end = e
    BY <1>1, <1>3, <2>4 DEF UpdateUserCount
  <2> QED
    BY <2>1, <2>2, <2>3, <2>4, JoinMove
<1> QED
  BY <1>1, <1>4, <1>5

LEMMA VerdictsStep ==
    ASSUME NoneIsNothing, Shapes, Verdicts, [Next]_vars
    PROVE  Verdicts'
<1> DEFINE Known(n, s) == /\ s.sub.id = n
                          /\ s.at = "judging" => Waiting(s)
                          /\ s.at = "graded" => Counts(s.sub)
                          /\ s.at = "done" => Counts(s.sub) \/ Failed(s.sub)
<1>0. scene' = scene
  BY NamesStay
<1>1. \A n \in DOMAIN subs : Known(n, subs[n])
  BY DEF Verdicts, Failed
<1>3. CASE UNCHANGED subs
  BY <1>0, <1>3 DEF Verdicts, Waiting, Counts, Failed, Stay, May
<1>4. ASSUME NEW u \in Users, NEW p \in Problem, NEW s, Sent(u, p, s)
      PROVE  \A n \in DOMAIN subs' : Known(n, subs'[n])
  <2>1. Known(Len(subs) + 1, s)
    BY <1>4 DEF Sent, Waiting
  <2>2. /\ DOMAIN subs' = DOMAIN subs \cup {Len(subs) + 1} /\ subs'[Len(subs) + 1] = s
        /\ \A n \in DOMAIN subs : subs'[n] = subs[n]
    BY <1>4, SentDoes
  <2> HIDE DEF Known
  <2> QED
    BY <1>1, <2>1, <2>2
<1>5. ASSUME NEW i \in DOMAIN subs, NEW s, Moves(i, s), Known(i, s)
      PROVE  \A n \in DOMAIN subs' : Known(n, subs'[n])
  <2>1. DOMAIN subs' = DOMAIN subs /\ subs'[i] = s /\ \A n \in DOMAIN subs \ {i} : subs'[n] = subs[n]
    BY <1>5, MovesIs
  <2> HIDE DEF Known
  <2> QED
    BY <1>1, <1>5, <2>1
<1>6. ASSUME NEW i \in DOMAIN subs, NEW s, JudgedToTheEnd(i, s)
      PROVE  Moves(i, s) /\ Known(i, s)
  BY <1>1, <1>6 DEF JudgedToTheEnd, Moves
<1>7. ASSUME NEW i \in DOMAIN subs, NEW s, Scored(i, s)
      PROVE  Moves(i, s) /\ Known(i, s)
  BY <1>1, <1>7 DEF Scored, Moves, Counts
<1>8. ASSUME NEW i \in DOMAIN subs, NEW s, Again(i, s)
      PROVE  Moves(i, s) /\ Known(i, s)
  BY <1>1, <1>8 DEF Again, Moves, Waiting
<1>9. ASSUME NEW i \in DOMAIN subs, NEW s, NEW result \in {"CE", "IE", "AB"}, FailedAs(i, s, result),
             GradingFails(i, result)
      PROVE  Moves(i, s) /\ Known(i, s)
  <2>1. Moves(i, s) /\ s.at = "done" /\ s.sub.id = i
    BY <1>1, <1>9 DEF FailedAs, Moves
  <2>2. Waiting(subs[i])
    BY <1>1, <1>9 DEF FailedAs
  <2>3. s.sub.batch = <<>> /\ (Stay("spoilt") => s.sub.points = 0)
    BY <1>9, <2>2 DEF FailedAs, Waiting, GradingFails, Stay, May
  <2>4. \/ s.sub.result \in Uncounted /\ May("ce")
        \/ s.sub.result = "AB" /\ May("ab")
    BY <1>9 DEF FailedAs, GradingFails
  <2>5. Failed(s.sub)
    BY <2>3, <2>4 DEF Failed
  <2> QED
    BY <2>1, <2>5
<1>10. CASE \A n \in DOMAIN subs' : Known(n, subs'[n])
  <2>1. \A n \in DOMAIN subs' : Failed(subs'[n].sub) => Failed(subs[n].sub)'
    BY <1>0 DEF Failed, Stay, May
  <2> QED
    BY <1>10, <2>1 DEF Verdicts, Waiting, Counts
<1> HIDE DEF Known
<1> QED
  BY <1>3, <1>4, <1>5, <1>6, <1>7, <1>8, <1>9, <1>10, SubsDo

\* A recomputation that goes on stays one of the same participation.
LEMMA GoesOnDoes ==
    ASSUME Shapes, NEW a \in Actor, GoesOnWith(a)
    PROVE  /\ \A b \in Actor \ {a} : job'[b] = job[b]
           /\ job[a] # Idle /\ (job'[a] # Idle => job'[a].of = job[a].of)
<1>1. PICK j : GoesOn(a, j)
  BY JobGoesOn DEF GoesOnWith
<1>2. DOMAIN job = Actor
  BY DEF Shapes, Jobs
<1>3. j # Idle => j.of = job[a].of
  BY <1>1 DEF GoesOn
<1> QED
  BY <1>1, <1>2, <1>3 DEF GoesOn

LEMMA StartsDoes ==
    ASSUME Shapes, NEW a \in Actor, NEW j, Starts(a, j)
    PROVE  /\ job'[a] = j /\ \A b \in Actor \ {a} : job'[b] = job[b]
           /\ tangled' = IF Busy(j.of) THEN tangled \cup {j.of} ELSE tangled \ {j.of}
<1>1. DOMAIN job = Actor
  BY DEF Shapes, Jobs
<1> QED
  BY <1>1 DEF Starts, Begins

LEMMA OneAtWorkStep ==
    ASSUME NoneIsNothing, Shapes, JudgesAreFree, OneAtWork, [Next]_vars
    PROVE  OneAtWork'
<1>0. Actor' = Actor
  BY NamesStay
<1>1. \A a \in Actor : job[a] # Idle => job[a].of \in Existing
  BY DEF Shapes, Jobs
<1>2. ASSUME tangled' = tangled, \A b \in Actor : \A k : At(b, k)' => At(b, k)
      PROVE  OneAtWork'
  <2>1. \A k \in Existing' \ tangled' : \A a, b \in Actor : At(a, k)' /\ At(b, k)' => a = b
    BY <1>1, <1>2 DEF OneAtWork, At
  <2> QED
    BY <1>0, <2>1 DEF OneAtWork
<1>3. CASE UNCHANGED <<job, tangled>>
  BY <1>2, <1>3 DEF At
<1>4. ASSUME NEW a \in Actor, GoesOnWith(a)
      PROVE  OneAtWork'
  <2>1. \A b \in Actor : \A k : At(b, k)' => At(b, k)
    BY <1>4, GoesOnDoes DEF At
  <2> QED
    BY <1>2, <1>4, <2>1 DEF GoesOnWith
<1>5. ASSUME NEW a \in Actor, NEW j, Starts(a, j)
      PROVE  OneAtWork'
  <2>1. /\ job'[a] = j /\ \A b \in Actor \ {a} : job'[b] = job[b]
        /\ tangled' = IF Busy(j.of) THEN tangled \cup {j.of} ELSE tangled \ {j.of}
    BY <1>5, StartsDoes
  <2>2. ASSUME NEW k \in Existing' \ tangled', NEW b \in Actor, NEW c \in Actor, At(b, k)', At(c, k)'
        PROVE  b = c
    <3>1. CASE k = j.of
      <4>1. ~Busy(k)
        BY <2>1, <2>2, <3>1
      <4>2. \A d \in Actor : ~At(d, k)
        BY <4>1 DEF Busy, At
      <4> QED
        BY <2>1, <2>2, <4>2 DEF At
    <3>2. CASE k # j.of
      <4>1. At(b, k) /\ At(c, k) /\ k \notin tangled
        BY <2>1, <2>2, <3>2 DEF At
      <4> QED
        BY <1>1, <4>1 DEF OneAtWork, At
    <3> QED
      BY <3>1, <3>2
  <2> QED
    BY <1>0, <2>2 DEF OneAtWork
<1> QED
  BY <1>3, <1>4, <1>5, StepIs DEF Starts

\* The submissions of a participation, as a set.
LEMMA TableIs ==
    ASSUME Shapes, NEW k
    PROVE  Tabled(Table(k))
<1> DEFINE D == {n \in DOMAIN subs : subs[n].of = k}
           f == [n \in DOMAIN subs |-> subs[n].sub]
<1>1. Len(subs) \in Nat /\ DOMAIN subs = 1..Len(subs)
  BY DEF Shapes, Submissions
<1>2. IsFiniteSet(DOMAIN subs)
  BY <1>1, FS_Interval
<1>3. IsFiniteSet(D)
  <2>1. D \in SUBSET DOMAIN subs
    OBVIOUS
  <2> QED
    BY <1>2, <2>1, FS_Subset
<1>4. IsFiniteSet({f[n] : n \in D})
  <2> HIDE DEF D, f
  <2> QED
    BY <1>3, FiniteImage
<1>5. {f[n] : n \in D} = Table(k)
  BY DEF Table
<1>6. \A n \in DOMAIN subs : subs[n].sub \in Judged
  BY SubmissionIs DEF Shapes, Submission
<1>7. Table(k) \subseteq Judged
  BY <1>6 DEF Table
<1> QED
  BY <1>4, <1>5, <1>7 DEF Tabled

LEMMA FoundStep ==
    ASSUME NoneIsNothing, Shapes, Times, JudgesAreFree, FoundIsNumber, [Next]_vars
    PROVE  FoundIsNumber'
<1>0. Actor' = Actor /\ Existing \subseteq Existing'
  BY NamesStay, PartsStay
<1>1. /\ \A a \in Actor : job[a].at = "save" => job[a].res.score \in Int /\ job[a].res.cumtime \in Int
      /\ \A k \in Existing : part[k].res.score \in Int /\ part[k].res.cumtime \in Nat
  BY DEF FoundIsNumber
<1>2. DOMAIN job = Actor /\ DOMAIN part = Key /\ Existing \subseteq Key
  BY DEF Shapes, Jobs, People, Existing
<1>3. \A a \in Actor : job'[a].at = "save" => job'[a].res.score \in Int /\ job'[a].res.cumtime \in Int
  <2>1. CASE UNCHANGED job
    BY <1>1, <2>1
  <2>2. ASSUME NEW a \in Actor, NEW j, Starts(a, j)
        PROVE  \A b \in Actor : job'[b].at = "save" => job'[b].res.score \in Int /\ job'[b].res.cumtime \in Int
    <3>1. /\ job'[a] = j /\ \A b \in Actor \ {a} : job'[b] = job[b]
          /\ j.at # "save"
      BY <2>2, StartsDoes DEF Starts
    <3> QED
      BY <1>1, <3>1
  <2>3. ASSUME NEW a \in Actor, Read(a)
        PROVE  job'[a].res.score \in Int /\ job'[a].res.cumtime \in Int
    <3>1. PICK k \in Existing : k = job[a].of
      <4>1. job[a] # Idle
        BY <2>3 DEF Read, Idle
      <4> QED
        BY <4>1 DEF Shapes, Jobs
    <3>2. Configured(scene.conf) /\ start(k) \in Int /\ end_time(k) \in Int /\ Tabled(Table(k))
      BY ConfIs, WindowIs, TableIs
    <3>3. PICK x : x = update_participation(scene.conf, Table(k), start(k), end_time(k))
      OBVIOUS
    <3>4. x.score \in Int /\ x.cumtime \in Int
      BY <3>2, <3>3, UpIsTyped
    <3>5. job' = [job EXCEPT ![a] = [at |-> "save", of |-> k, sentence |-> job[a].sentence, disq |-> job[a].disq,
                                     res |-> x]]
      BY <2>3, <3>1, <3>3 DEF Read
    <3>6. job'[a].res = x
      BY <1>2, <3>5
    <3> QED
      BY <3>4, <3>6
  <2>4. ASSUME NEW a \in Actor, Load(a) \/ Save(a) \/ Expel(a) \/ Ban(a)
        PROVE  job'[a].at # "save"
    <3>1. IsJob(job[a])
      BY DEF Shapes, Jobs
    <3>2. CASE Load(a)
      BY <1>2, <3>2 DEF Load
    <3>3. CASE Save(a)
      <4>1. job' = [job EXCEPT ![a] = Idle]
            \/ job' = [job EXCEPT ![a] = [at |-> IF job[a].disq THEN "expel" ELSE "ban", of |-> job[a].of,
                                          disq |-> job[a].disq]]
        BY <3>3 DEF Save
      <4> QED
        BY <1>2, <4>1 DEF Idle
    <3>4. CASE Expel(a)
      <4>1. job[a].at = "expel" /\ job' = [job EXCEPT ![a].at = "ban"]
        BY <3>4 DEF Expel
      <4>2. PICK o, d : job[a] = [at |-> "expel", of |-> o, disq |-> d]
        <5>1. job[a].at = "expel"
          BY <4>1
        <5>2. job[a] # Idle
          BY <5>1 DEF Idle
        <5>3. job[a] \in [at : {"expel", "ban"}, of : Key, disq : BOOLEAN]
          BY <3>1, <5>1, <5>2 DEF IsJob
        <5>4. job[a] = [at |-> job[a].at, of |-> job[a].of, disq |-> job[a].disq]
          BY <5>3
        <5> QED
          BY <5>1, <5>4
      <4>3. [job[a] EXCEPT !.at = "ban"].at = "ban"
        BY <4>2
      <4> QED
        BY <1>2, <4>1, <4>3
    <3>5. CASE Ban(a)
      BY <1>2, <3>5 DEF Ban, Idle
    <3> QED
      BY <2>4, <3>2, <3>3, <3>4, <3>5
  <2>5. ASSUME NEW a \in Actor, GoesOnWith(a)
        PROVE  \A b \in Actor : job'[b].at = "save" => job'[b].res.score \in Int /\ job'[b].res.cumtime \in Int
    <3>1. \A b \in Actor \ {a} : job'[b] = job[b]
      BY <2>5, GoesOnDoes
    <3>2. job'[a].at = "save" => job'[a].res.score \in Int /\ job'[a].res.cumtime \in Int
      BY <2>3, <2>4, <2>5 DEF GoesOnWith
    <3> QED
      BY <1>1, <3>1, <3>2
  <2>6. ASSUME NEW a, NEW j, Starts(a, j) PROVE a \in Actor
    BY <2>6 DEF Starts
  <2> QED
    BY <2>1, <2>2, <2>5, <2>6, StepIs
<1>4. ASSUME NEW k \in Existing'
      PROVE  part'[k].res.score \in Int /\ part'[k].res.cumtime \in Nat
  <2>1. CASE k \notin Existing
    <3>1. PICK r : r = Row(0, 0, 0)
      OBVIOUS
    <3>2. part'[k] = [real_start |-> now, is_disqualified |-> FALSE, res |-> r]
      BY <2>1, <3>1, PartsStay
    <3>3. r.score \in Int /\ r.cumtime \in Nat
      BY <3>1 DEF Row
    <3> QED
      BY <3>2, <3>3
  <2>2. CASE k \in Existing /\ part'[k] = part[k]
    BY <1>1, <2>2
  <2>3. ASSUME k \in Existing, NEW a \in Actor, Save(a)
        PROVE  part'[k].res.score \in Int /\ part'[k].res.cumtime \in Nat
    <3>1. PICK o : o = job[a].of /\ job[a].at = "save"
      BY <2>3, SavedIs
    <3>2. CASE part'[k] = part[k]
      BY <2>2, <2>3, <3>2
    <3>3. CASE k = o /\ part' # part
      <4>1. PICK r : r = Result(job[a].disq, job[a].res)
        OBVIOUS
      <4>2. /\ job[a].res.cumtime >= 0
            /\ part'[k] = [real_start |-> part[k].real_start, is_disqualified |-> job[a].disq, res |-> r]
        BY <2>3, <3>1, <3>3, <4>1, SavedIs
      <4>3. job[a].res.score \in Int /\ job[a].res.cumtime \in Int
        BY <1>1, <3>1
      <4>4. r = job[a].res \/ r = Row(-9999, 0, 0)
        BY <4>1 DEF Result
      <4>5. r.score \in Int /\ r.cumtime \in Nat
        BY <4>2, <4>3, <4>4 DEF Row
      <4>6. part'[k].res = r
        BY <4>2
      <4> QED
        BY <4>5, <4>6
    <3> QED
      BY <1>2, <2>3, <3>1, <3>2, <3>3, SavedIs
  <2>4. ASSUME k \in Existing, NEW u \in Users, Enter(u)
        PROVE  part'[k] = part[k]
    <3>1. PICK y \in Key : y = Entered(u)
      BY <2>4, EnteredIs DEF Shapes, Enter
    <3>2. part' = part \/ (part[y] = None /\ \E x : part' = [part EXCEPT ![y] = x])
      BY <2>4, <3>1 DEF Enter
    <3> QED
      BY <1>2, <2>4, <3>1, <3>2 DEF Existing
  <2>5. ASSUME NEW u \in Users, Leave(u)
        PROVE  UNCHANGED part
    BY <2>5 DEF Leave
  <2>6. ASSUME NEW a \in Actor, Expel(a)
        PROVE  UNCHANGED part
    BY <2>6 DEF Expel
  <2>7. \/ UNCHANGED part
        \/ \E u \in Users : Enter(u)
        \/ \E a \in Actor : Save(a)
    BY <2>5, <2>6, PeopleMove
  <2> QED
    BY <2>1, <2>2, <2>3, <2>4, <2>7
<1> QED
  BY <1>0, <1>3, <1>4 DEF FoundIsNumber

\* The virtual participations of a user are numbered without a gap.
LEMMA NumberedStep ==
    ASSUME NoneIsNothing, Shapes, Numbered, [Next]_vars
    PROVE  Numbered'
<1>1. Existing \subseteq Existing'
  BY PartsStay
<1>2. ASSUME NEW k \in Existing' \ Existing, k[2] > 1
      PROVE  <<k[1], k[2] - 1>> \in Existing
  <2>1. PICK u \in Users : Enter(u) /\ k = Entered(u)
    BY <1>2, PartsStay
  <2>2. k = <<u, NextVirtual(u)>>
    BY <1>2, <2>1 DEF Entered, LiveKey, LIVE, SPECTATE
  <2> DEFINE T == {LIVE} \cup {x[2] : x \in {y \in Existing : y[1] = u}}
  <2>3. scene.max_virtual \in Nat
    BY SceneAssumption DEF Shapes, Scened
  <2>4. \A x \in Existing : x[2] \in Virtual /\ x = <<x[1], x[2]>>
    BY DEF Existing, Key
  <2>5. T \in SUBSET Int /\ \A x \in T : x <= scene.max_virtual
    BY <2>3, <2>4 DEF Virtual, LIVE, SPECTATE
  <2>6. \E x \in T : \A y \in T : x >= y
    <3>1. T # {} /\ scene.max_virtual \in Int
      BY <2>3
    <3> HIDE DEF T
    <3> QED
      BY <2>5, <3>1, Greatest
  <2>7. PICK m : m = Max(T) /\ m \in T
    BY <2>6 DEF Max
  <2>8. NextVirtual(u) = m + 1
    BY <2>7 DEF NextVirtual, Largest
  <2>9. m \in Int /\ k[2] = m + 1 /\ k[1] = u
    BY <2>2, <2>5, <2>7, <2>8
  <2>10. m # LIVE
    BY <1>2, <2>9 DEF LIVE
  <2>11. PICK x \in Existing : x[1] = u /\ x[2] = m
    BY <2>7, <2>10
  <2>12. <<u, m>> \in Existing
    BY <2>4, <2>11
  <2>13. k[2] - 1 = m
    BY <2>9
  <2> QED
    BY <2>9, <2>12, <2>13
<1>3. ASSUME NEW k \in Existing', k[2] > 1
      PROVE  <<k[1], k[2] - 1>> \in Existing'
  BY <1>1, <1>2, <1>3 DEF Numbered
<1> QED
  BY <1>3 DEF Numbered

\* Only who takes part is banned.
LEMMA BannedAreUsers ==
    ASSUME Shapes, banned \subseteq Users, [Next]_vars
    PROVE  banned' \subseteq Users'
<1>0. Users' = Users
  BY NamesStay
<1>1. ASSUME NEW a \in Actor, Ban(a)
      PROVE  banned' \subseteq Users
  <2>1. job[a] # Idle
    BY <1>1 DEF Ban, Idle
  <2>2. job[a].of \in Key
    BY <2>1 DEF Shapes, Jobs, Existing
  <2>3. job[a].of[1] \in Users
    BY <2>2 DEF Key
  <2> QED
    BY <1>1, <2>3 DEF Ban
<1> QED
  BY <1>0, <1>1, BannedMove

-----------------------------------------------------------------------------
(* The score of a participation *)

\* What Current says of one participation.
Good(k) ==
    Steady(k) =>
        /\ \A a \in Actor : At(a, k) /\ job[a].at = "save" => job[a].res = Worth(k)
        /\ (\A a \in Actor : At(a, k) => Pending(a)) =>
               part[k].res = Result(part[k].is_disqualified, Worth(k))

\* Only the ECOO bonus looks at the end, which then does not move.
LEMMA UpStays ==
    ASSUME NoneIsNothing, Shapes, EndStays, ~BonusMoves, [Next]_vars, NEW k \in Existing, NEW S, Tabled(S)
    PROVE  update_participation(scene.conf, S, start(k)', end_time(k)')
               = update_participation(scene.conf, S, start(k), end_time(k))
<1>1. PICK from, to, other : from = start(k) /\ to = end_time(k) /\ other = end_time(k)'
  OBVIOUS
<1>2. start(k)' = from /\ Configured(scene.conf) /\ scene' = scene
  BY <1>1, StartStays, ConfIs, NamesStay
<1>3. CASE scene.conf.format # "ecoo" \/ scene.conf.time_bonus = 0
  <2>1. update_participation(scene.conf, S, from, to) = update_participation(scene.conf, S, from, other)
    BY <1>2, <1>3, EndMatters
  <2> QED
    BY <1>1, <1>2, <2>1
<1>4. CASE "extend" \notin scene.acts
  <2>1. row'[Main].end = row[Main].end
    BY <1>2, <1>4, EndStaysStep DEF EndStays
  <2>2. part'[k].real_start = part[k].real_start
    BY PartsStay
  <2>3. other = to
    BY <1>1, <1>2, <2>1, <2>2 DEF end_time
  <2> QED
    BY <1>1, <1>2, <2>3
<1> QED
  BY <1>3, <1>4 DEF BonusMoves

LEMMA WorthStays ==
    ASSUME NoneIsNothing, Shapes, EndStays, ~BonusMoves, [Next]_vars, NEW k \in Existing, Table(k)' = Table(k)
    PROVE  Worth(k)' = Worth(k)
<1>1. PICK S : S = Table(k) /\ Tabled(S) /\ S = Table(k)'
  BY TableIs
<1>2. scene' = scene
  BY NamesStay
<1>3. Worth(k)' = update_participation(scene.conf, S, start(k)', end_time(k)')
  BY <1>1, <1>2 DEF Worth
<1>4. Worth(k) = update_participation(scene.conf, S, start(k), end_time(k))
  BY <1>1 DEF Worth
<1> QED
  BY <1>1, <1>3, <1>4, UpStays

\* A submission that can have no influence on a score takes the place of another.
LEMMA WorthOfVoid ==
    ASSUME NoneIsNothing, Shapes, EndStays, ~BonusMoves, [Next]_vars, NEW k \in Existing,
           NEW S, NEW v, NEW T, SameScore(scene.conf, S, Table(k)), SameScore(scene.conf, S, T), T = Table(k)', Tabled(S)
    PROVE  Worth(k)' = Worth(k)
<1>1. PICK R : R = Table(k)
  OBVIOUS
<1>2. PICK from, to, from1, to1 : from = start(k) /\ to = end_time(k) /\ from1 = start(k)' /\ to1 = end_time(k)'
  OBVIOUS
<1>3. update_participation(scene.conf, R, from, to) = update_participation(scene.conf, S, from, to)
  BY <1>1 DEF SameScore
<1>4. update_participation(scene.conf, T, from1, to1) = update_participation(scene.conf, S, from1, to1)
  BY DEF SameScore
<1>5. update_participation(scene.conf, S, from1, to1) = update_participation(scene.conf, S, from, to)
  BY <1>2, UpStays
<1>6. Worth(k) = update_participation(scene.conf, R, from, to)
  BY <1>1, <1>2 DEF Worth
<1>7. Worth(k)' = update_participation(scene.conf, T, from1, to1)
  BY <1>2, NamesStay DEF Worth
<1> QED
  BY <1>3, <1>4, <1>5, <1>6, <1>7

LEMMA GoodKept ==
    ASSUME Actor' = Actor, NEW k, Good(k), Steady(k)' => Steady(k), Worth(k)' = Worth(k),
           part'[k].res = part[k].res, part'[k].is_disqualified = part[k].is_disqualified,
           \A a \in Actor : At(a, k)' /\ job'[a].at = "save" =>
               At(a, k) /\ job[a].at = "save" /\ job'[a].res = job[a].res,
           (\A a \in Actor : At(a, k)' => Pending(a)') => \A a \in Actor : At(a, k) => Pending(a)
    PROVE  Good(k)'
<1>1. PICK w : w = Worth(k) /\ w = Worth(k)'
  OBVIOUS
<1> SUFFICES ASSUME Steady(k)'
             PROVE  /\ \A a \in Actor : At(a, k)' /\ job'[a].at = "save" => job'[a].res = w
                    /\ (\A a \in Actor : At(a, k)' => Pending(a)') =>
                           part'[k].res = Result(part'[k].is_disqualified, w)
  BY <1>1 DEF Good, Result
<1>2. /\ \A a \in Actor : At(a, k) /\ job[a].at = "save" => job[a].res = w
      /\ (\A a \in Actor : At(a, k) => Pending(a)) => part[k].res = Result(part[k].is_disqualified, w)
  BY <1>1 DEF Good
<1> QED
  BY <1>2

\* The same, when nothing happens to the participation and its recomputation.
LEMMA GoodStays ==
    ASSUME NoneIsNothing, Shapes, EndStays, ~BonusMoves, [Next]_vars, NEW k \in Existing, Good(k),
           Steady(k)' => Steady(k), Worth(k)' = Worth(k),
           part'[k] = part[k], \A a \in Actor : At(a, k) \/ At(a, k)' => job'[a] = job[a]
    PROVE  Good(k)'
<1>1. Actor' = Actor
  BY NamesStay
<1>2. \A a \in Actor : At(a, k)' /\ job'[a].at = "save" => At(a, k) /\ job[a].at = "save" /\ job'[a].res = job[a].res
  BY DEF At
<1>3. (\A a \in Actor : At(a, k)' => Pending(a)') => \A a \in Actor : At(a, k) => Pending(a)
  BY DEF At, Pending
<1> QED
  BY <1>1, <1>2, <1>3, GoodKept

\* Nothing is known of the score while somebody has still to read.
LEMMA GoodWhileRead ==
    ASSUME Actor' = Actor, NEW k, NEW a \in Actor, At(a, k)', job'[a].at \in {"load", "read"},
           \A b \in Actor : At(b, k)' => b = a
    PROVE  Good(k)'
<1>1. \A b \in Actor : ~(At(b, k)' /\ job'[b].at = "save")
  OBVIOUS
<1>2. ~(\A b \in Actor : At(b, k)' => Pending(b)')
  BY DEF Pending
<1> QED
  BY <1>1, <1>2 DEF Good

\* The submissions of the others stay when one moves, or is made.
LEMMA OthersStay ==
    ASSUME Shapes, NEW i \in DOMAIN subs, NEW s, Moves(i, s), NEW k, k # s.of, scene' = scene
    PROVE  Table(k)' = Table(k) /\ (Steady(k)' => Steady(k))
<1>1. /\ DOMAIN subs' = DOMAIN subs /\ subs'[i] = s /\ \A n \in DOMAIN subs \ {i} : subs'[n] = subs[n]
      /\ s.of = subs[i].of
  BY MovesIs
<1>2. \A n \in DOMAIN subs : subs'[n].of = k <=> subs[n].of = k
  BY <1>1
<1>3. \A n \in DOMAIN subs : subs[n].of = k => subs'[n] = subs[n]
  BY <1>1
<1>4. {n \in DOMAIN subs' : subs'[n].of = k} = {n \in DOMAIN subs : subs[n].of = k}
  BY <1>1, <1>2
<1>5. Table(k)' = Table(k)
  BY <1>3, <1>4 DEF Table
<1>6. Steady(k)' => Steady(k)
  BY <1>1, <1>2, <1>3 DEF Steady
<1> QED
  BY <1>5, <1>6

LEMMA OneMore ==
    ASSUME Shapes, NEW u \in Users, NEW p \in Problem, NEW s, Sent(u, p, s), NEW k, scene' = scene
    PROVE  /\ Table(k)' = IF k = s.of THEN Table(k) \cup {s.sub} ELSE Table(k)
           /\ Steady(k)' => Steady(k) /\ (k = s.of => scene.conf.format \notin {"default", "ecoo"})
<1>1. PICK m : m = Len(subs) + 1
  OBVIOUS
<1>2. /\ DOMAIN subs' = DOMAIN subs \cup {m} /\ subs'[m] = s
      /\ \A n \in DOMAIN subs : subs'[n] = subs[n]
  BY <1>1, SentDoes
<1>3. m \notin DOMAIN subs
  BY <1>1, SentDoes
<1>4. {n \in DOMAIN subs' : subs'[n].of = k} =
          {n \in DOMAIN subs : subs[n].of = k} \cup (IF k = s.of THEN {m} ELSE {})
  BY <1>2, <1>3
<1>5. Table(k)' = {subs'[n].sub : n \in {x \in DOMAIN subs' : subs'[x].of = k}}
  BY DEF Table
<1>6. Table(k)' = IF k = s.of THEN Table(k) \cup {s.sub} ELSE Table(k)
  BY <1>2, <1>4, <1>5 DEF Table
<1>7. Steady(k)' => Steady(k) /\ (k = s.of => scene.conf.format \notin {"default", "ecoo"})
  <2>1. s.at = "judging"
    BY DEF Sent
  <2> QED
    BY <1>2, <2>1 DEF Steady
<1> QED
  BY <1>6, <1>7

\* What Good() needs of the rest of the invariant.
Ground == Shapes /\ JudgesAreFree /\ Times /\ EndStays /\ Verdicts /\ OneAtWork /\ FoundIsNumber

\* Someone who comes in has nothing, and that is what it is worth.
LEMMA NewIsGood ==
    ASSUME NoneIsNothing, Ground, [Next]_vars, NEW k \in Existing' \ Existing, UNCHANGED <<subs, job>>
    PROVE  Good(k)'
<1>1. PICK r : r = Row(0, 0, 0)
  OBVIOUS
<1>2. part'[k].res = r /\ ~part'[k].is_disqualified
  BY <1>1, PartsStay DEF Ground
<1>3. \A n \in DOMAIN subs : subs[n].of # k
  BY DEF Ground, Shapes, Submissions
<1>4. Table(k)' = {}
  BY <1>3 DEF Table
<1>5. Worth(k)' = r
  <2>1. scene' = scene /\ Configured(scene.conf)
    BY NamesStay, ConfIs DEF Ground
  <2>2. Worth(k)' = update_participation(scene.conf, {}, start(k)', end_time(k)')
    BY <1>4, <2>1 DEF Worth
  <2> QED
    BY <1>1, <2>1, <2>2, NothingSubmitted
<1>6. \A a \in Actor : ~At(a, k)'
  BY DEF Ground, Shapes, Jobs, At
<1>7. Actor' = Actor
  BY NamesStay
<1>8. Result(part'[k].is_disqualified, r) = r
  BY <1>2 DEF Result
<1> QED
  BY <1>2, <1>5, <1>6, <1>7, <1>8 DEF Good, Result

LEMMA EnterKeeps ==
    ASSUME Shapes, NEW u \in Users, Enter(u), NEW k \in Existing
    PROVE  part'[k] = part[k]
<1>1. PICK y \in Key : y = Entered(u)
  BY EnteredIs DEF Shapes, Enter
<1>2. part' = part \/ (part[y] = None /\ \E x : part' = [part EXCEPT ![y] = x])
  BY <1>1 DEF Enter
<1>3. DOMAIN part = Key
  BY DEF Shapes, People
<1> QED
  BY <1>1, <1>2, <1>3 DEF Existing

\* A submission that waits for its first verdict has no influence on the score,
\* nor has it one when it fails in a way that is not seen by the rules.
LEMMA SentIsGood ==
    ASSUME NoneIsNothing, Ground, ~BonusMoves, [Next]_vars, NEW u \in Users, NEW p \in Problem, NEW s, Sent(u, p, s),
           UNCHANGED <<part, job>>, NEW k \in Existing, Good(k), Steady(k)'
    PROVE  Good(k)'
<1>0. Shapes /\ EndStays /\ scene' = scene
  BY NamesStay DEF Ground
<1>1. Table(k)' = (IF k = s.of THEN Table(k) \cup {s.sub} ELSE Table(k))
      /\ Steady(k) /\ (k = s.of => scene.conf.format \notin {"default", "ecoo"})
  BY <1>0, OneMore
<1>2. Worth(k)' = Worth(k)
  <2>1. CASE k # s.of
    BY <1>0, <1>1, <2>1, WorthStays
  <2>2. CASE k = s.of
    <3>1. PICK S, v, T : S = Table(k) /\ v = s.sub /\ T = Table(k)' /\ T = S \cup {v}
      BY <1>1, <2>2
    <3>2. Tabled(S) /\ Void(v, scene.conf.format)
      BY <1>0, <3>1, TableIs DEF Sent, Void
    <3>3. scene.conf.format \in FirstBestFormats \cup {"ioi16"}
      BY <1>0, <1>1, <2>2, ConfIs DEF Configured, Formats, FirstBestFormats
    <3>4. SameScore(scene.conf, S, T)
      BY <3>1, <3>2, <3>3, VoidIsNothing
    <3>5. SameScore(scene.conf, S, Table(k))
      BY <3>1 DEF SameScore
    <3> QED
      BY <1>0, <3>1, <3>2, <3>4, <3>5, WorthOfVoid
  <2> QED
    BY <2>1, <2>2
<1> QED
  BY <1>0, <1>1, <1>2, GoodStays

LEMMA FailedIsGood ==
    ASSUME NoneIsNothing, Ground, Undoubted, [Next]_vars, NEW i \in DOMAIN subs, NEW s, NEW result \in {"CE", "IE", "AB"},
           FailedAs(i, s, result), GradingFails(i, result), UNCHANGED <<part, job>>, NEW k \in Existing, Good(k), Steady(k)'
    PROVE  Good(k)'
<1>0. Shapes /\ EndStays /\ scene' = scene /\ ~BonusMoves /\ Moves(i, s)
  BY NamesStay DEF Ground, Undoubted, FailedAs
<1>1. /\ DOMAIN subs' = DOMAIN subs /\ subs'[i] = s /\ \A n \in DOMAIN subs \ {i} : subs'[n] = subs[n]
      /\ s.of = subs[i].of
  BY <1>0, MovesIs
<1>2. CASE k # s.of
  <2>1. Table(k)' = Table(k) /\ (Steady(k)' => Steady(k))
    BY <1>0, <1>2, OthersStay
  <2> QED
    BY <1>0, <2>1, WorthStays, GoodStays
<1>3. CASE k = s.of
  <2>1. Stay("spoilt") /\ ~subs[i].again /\ subs[i].at = "judging"
    BY DEF GradingFails, Undoubted, Without, Stay, May
  <2>2. Waiting(subs[i])
    BY <2>1 DEF Ground, Verdicts
  <2>3. /\ scene.conf.format \in FirstBestFormats \cup {"ioi16"}
        /\ result \in Uncounted \/ scene.conf.format \in {"ioi", "ioi16"}
    <3>0. Without({"spoilt"} \cup Unseen(scene.conf.format))
      BY DEF Undoubted
    <3>1. /\ scene.conf.format \in Formats
          /\ (result \in Uncounted /\ May("ce")) \/ (result = "AB" /\ May("ab"))
          /\ \A e \in Unseen(scene.conf.format) : ~May(e)
      <4>1. scene.conf.format \in Formats
        BY <1>0, ConfIs DEF Configured
      <4>2. (result \in Uncounted /\ May("ce")) \/ (result = "AB" /\ May("ab"))
        BY DEF GradingFails
      <4>3. \A e \in Unseen(scene.conf.format) : ~May(e)
        BY <3>0 DEF Without, May
      <4> QED
        BY <4>1, <4>2, <4>3
    <3>2. scene.conf.format \in {"default", "ecoo"} => Unseen(scene.conf.format) = {"ce", "ab"}
      BY DEF Unseen
    <3>3. scene.conf.format \in {"icpc", "atcoder"} => Unseen(scene.conf.format) = {"ab"}
      BY DEF Unseen
    <3> QED
      BY <3>1, <3>2, <3>3 DEF Formats, FirstBestFormats
  <2>4. subs[i] \in Submission /\ s \in Submission /\ s.sub \in Judged /\ subs[i].sub \in Judged
    <3>1. subs[i] \in Submission /\ s \in Submission /\ s.sub \in Judged
      BY <1>0, SubmissionIs DEF Shapes, Moves, Becomes
    <3> QED
      BY <3>1 DEF Submission
  <2>5. Void(subs[i].sub, scene.conf.format)
    BY <2>1, <2>2, <2>4 DEF Void, Waiting
  <2>6. Void(s.sub, scene.conf.format)
    BY <2>1, <2>2, <2>3, <2>4 DEF Void, Waiting, FailedAs
  <2> DEFINE O == {n \in DOMAIN subs \ {i} : subs[n].of = k}
             S == {subs[n].sub : n \in O}
  <2>7. {n \in DOMAIN subs : subs[n].of = k} = O \cup {i} /\ {n \in DOMAIN subs' : subs'[n].of = k} = O \cup {i}
    BY <1>1, <1>3
  <2>8. Table(k) = S \cup {subs[i].sub}
    BY <2>7 DEF Table
  <2>9. Table(k)' = S \cup {s.sub}
    <3>1. Table(k)' = {subs'[n].sub : n \in {x \in DOMAIN subs' : subs'[x].of = k}}
      BY DEF Table
    <3> QED
      BY <1>1, <2>7, <3>1
  <2>10. Tabled(S)
    <3>1. Tabled(Table(k)) /\ S \subseteq Table(k)
      BY <1>0, <2>8, TableIs
    <3> HIDE DEF S
    <3> QED
      BY <3>1, FS_Subset DEF Tabled
  <2>11. Worth(k)' = Worth(k)
    <3> HIDE DEF S
    <3>1. SameScore(scene.conf, S, Table(k))
      BY <2>3, <2>5, <2>8, <2>10, VoidIsNothing
    <3>2. PICK T : T = Table(k)' /\ SameScore(scene.conf, S, T)
      BY <2>3, <2>6, <2>9, <2>10, VoidIsNothing
    <3> QED
      BY <1>0, <2>10, <3>1, <3>2, WorthOfVoid
  <2>12. Steady(k)
    <3>1. scene.conf.format \notin {"default", "ecoo"}
      BY <2>3 DEF FirstBestFormats
    <3> QED
      BY <1>0, <1>1, <2>1, <3>1 DEF Steady
  <2> QED
    BY <1>0, <2>11, <2>12, GoodStays
<1> QED
  BY <1>2, <1>3

\* Someone begins to recompute j.of: it is tangled, or nothing is known yet.
LEMMA StartIsGood ==
    ASSUME NoneIsNothing, Ground, ~BonusMoves, [Next]_vars, NEW a \in Actor, NEW j, Starts(a, j),
           NEW k \in Existing \ tangled', k \notin tangled => Good(k),
           k # j.of => Table(k)' = Table(k) /\ (Steady(k)' => Steady(k))
    PROVE  Good(k)'
<1>0. Shapes /\ EndStays /\ Actor' = Actor
  BY NamesStay DEF Ground
<1>1. /\ job'[a] = j /\ \A b \in Actor \ {a} : job'[b] = job[b]
      /\ tangled' = IF Busy(j.of) THEN tangled \cup {j.of} ELSE tangled \ {j.of}
      /\ j # Idle /\ j.at \in {"load", "read"} /\ job[a] = Idle /\ UNCHANGED part
  BY <1>0, StartsDoes DEF Starts
<1>2. CASE k = j.of
  <2>1. ~Busy(k)
    BY <1>1, <1>2
  <2>2. \A b \in Actor : At(b, k)' => b = a
    BY <1>1, <2>1 DEF Busy, At
  <2>3. At(a, k)' /\ job'[a].at \in {"load", "read"}
    BY <1>1, <1>2 DEF At
  <2> QED
    BY <1>0, <2>2, <2>3, GoodWhileRead
<1>3. CASE k # j.of
  <2>1. Good(k)
    BY <1>1, <1>3
  <2>2. \A b \in Actor : At(b, k) \/ At(b, k)' => job'[b] = job[b]
    BY <1>1, <1>3 DEF At
  <2>3. part'[k] = part[k]
    BY <1>1
  <2> QED
    BY <1>0, <1>3, <2>1, <2>2, <2>3, WorthStays, GoodStays
<1> QED
  BY <1>2, <1>3

\* The next step of a recomputation: what it finds is the worth of its participation.
LEMMA NextIs ==
    ASSUME Shapes, NEW a \in Actor, GoesOnWith(a)
    PROVE  \/ job'[a].at = "read" /\ job'[a] # Idle /\ UNCHANGED part
           \/ job'[a].at = "save" /\ job'[a] # Idle /\ job'[a].res = Worth(job[a].of) /\ UNCHANGED part
           \/ Save(a) /\ (job'[a] = Idle \/ Pending(a)')
           \/ Pending(a) /\ (job'[a] = Idle \/ Pending(a)') /\ UNCHANGED part
<1>1. DOMAIN job = Actor /\ IsJob(job[a])
  BY DEF Shapes, Jobs
<1>2. CASE Load(a)
  BY <1>1, <1>2 DEF Load, Idle
<1>3. CASE Read(a)
  <2>1. PICK o, x : o = job[a].of /\ x = Worth(o)
    OBVIOUS
  <2>2. /\ UNCHANGED part
        /\ job' = [job EXCEPT ![a] = [at |-> "save", of |-> o, sentence |-> job[a].sentence, disq |-> job[a].disq,
                                      res |-> x]]
    BY <1>3, <2>1 DEF Read, Worth
  <2>3. job'[a] = [at |-> "save", of |-> o, sentence |-> job[a].sentence, disq |-> job[a].disq, res |-> x]
    BY <1>1, <2>2
  <2> QED
    BY <2>1, <2>2, <2>3 DEF Idle
<1>4. CASE Save(a)
  <2>1. \/ job' = [job EXCEPT ![a] = Idle]
        \/ job' = [job EXCEPT ![a] = [at |-> IF job[a].disq THEN "expel" ELSE "ban", of |-> job[a].of,
                                      disq |-> job[a].disq]]
    BY <1>4 DEF Save
  <2> QED
    BY <1>1, <1>4, <2>1 DEF Pending
<1>5. CASE Expel(a)
  <2>1. job[a].at = "expel" /\ job' = [job EXCEPT ![a].at = "ban"] /\ UNCHANGED part
    BY <1>5 DEF Expel
  <2>2. job[a] # Idle
    BY <2>1 DEF Idle
  <2>3. job[a] \in [at : {"expel", "ban"}, of : Key, disq : BOOLEAN]
    BY <1>1, <2>1, <2>2 DEF IsJob
  <2>4. job[a] = [at |-> job[a].at, of |-> job[a].of, disq |-> job[a].disq]
    BY <2>3
  <2>5. [job[a] EXCEPT !.at = "ban"].at = "ban"
    BY <2>4
  <2>6. job'[a].at = "ban"
    BY <1>1, <2>1, <2>5
  <2> QED
    BY <2>1, <2>6 DEF Pending
<1>6. CASE Ban(a)
  BY <1>1, <1>6 DEF Ban, Pending
<1> QED
  BY <1>2, <1>3, <1>4, <1>5, <1>6 DEF GoesOnWith

\* Nothing that is submitted has points but for a verdict, or comes before the begin.
LEMMA SteadyIsTimely ==
    ASSUME Ground, Undoubted, NEW k \in Existing, Steady(k)
    PROVE  Timely(Table(k), start(k))
<1>0. Stay("spoilt") /\ Shapes
  BY DEF Undoubted, Without, Stay, Ground
<1>1. ASSUME NEW n \in DOMAIN subs, subs[n].of = k
      PROVE  start(k) <= subs[n].sub.date /\ (subs[n].sub.points # 0 => subs[n].sub.result \in {"AC", "WA"})
  <2>1. start(k) <= subs[n].sub.date
    BY <1>1 DEF Ground, Times
  <2>2. CASE subs[n].at = "done"
    <3>1. Counts(subs[n].sub) \/ Failed(subs[n].sub)
      BY <2>2 DEF Ground, Verdicts
    <3> QED
      BY <1>0, <2>1, <3>1 DEF Counts, Failed
  <2>3. CASE subs[n].at = "judging" /\ ~subs[n].again
    <3>1. Waiting(subs[n])
      BY <2>3 DEF Ground, Verdicts
    <3> QED
      BY <2>1, <2>3, <3>1 DEF Waiting
  <2> QED
    BY <1>1, <2>2, <2>3 DEF Steady
<1>2. Tabled(Table(k))
  BY <1>0, TableIs
<1>3. \A s \in Table(k) : start(k) <= s.date /\ (s.points # 0 => s.result \in {"AC", "WA"})
  BY <1>1 DEF Table
<1> QED
  BY <1>2, <1>3 DEF Timely

LEMMA SteadyStays ==
    ASSUME UNCHANGED subs, scene' = scene, NEW k
    PROVE  Table(k)' = Table(k) /\ (Steady(k)' <=> Steady(k))
BY DEF Table, Steady

\* The recomputation goes on: it writes what the participation is worth.
LEMMA WorkIsGood ==
    ASSUME NoneIsNothing, Ground, Undoubted, [Next]_vars, NEW a \in Actor, GoesOnWith(a),
           NEW k \in Existing \ tangled, Good(k)
    PROVE  Good(k)'
<1>0. Shapes /\ EndStays /\ Actor' = Actor /\ scene' = scene /\ ~BonusMoves /\ UNCHANGED subs
  BY NamesStay DEF Ground, GoesOnWith, Undoubted
<1>1. /\ \A b \in Actor \ {a} : job'[b] = job[b]
      /\ job[a] # Idle /\ (job'[a] # Idle => job'[a].of = job[a].of)
  BY <1>0, GoesOnDoes
<1>2. Table(k)' = Table(k) /\ (Steady(k)' <=> Steady(k))
  BY <1>0, SteadyStays
<1>3. Worth(k)' = Worth(k)
  BY <1>0, <1>2, WorthStays
<1>4. k \in Key
  BY DEF Existing
<1>5. CASE k # job[a].of
  <2>1. part'[k] = part[k]
    BY <1>0, <1>4, <1>5, SavedIs, NextIs
  <2>2. \A b \in Actor : At(b, k) \/ At(b, k)' => job'[b] = job[b]
    BY <1>1, <1>5 DEF At
  <2> QED
    BY <1>0, <1>2, <1>3, <2>1, <2>2, GoodStays
<1>6. CASE k = job[a].of
  <2>1. \A b \in Actor : At(b, k) => b = a
    BY <1>1, <1>6 DEF Ground, OneAtWork, At
  <2>2. \A b \in Actor : At(b, k)' => b = a
    BY <1>1, <2>1 DEF At
  <2>3. CASE job'[a].at = "read" /\ job'[a] # Idle
    <3>1. At(a, k)'
      BY <1>1, <1>6, <2>3 DEF At
    <3> QED
      BY <1>0, <2>2, <2>3, <3>1, GoodWhileRead
  <2>4. CASE job'[a].at = "save" /\ job'[a] # Idle /\ job'[a].res = Worth(k)
    <3>1. At(a, k)' /\ ~Pending(a)'
      BY <1>1, <1>6, <2>4 DEF At, Pending
    <3>2. \A b \in Actor : At(b, k)' /\ job'[b].at = "save" => job'[b].res = Worth(k)'
      BY <1>3, <2>2, <2>4
    <3> QED
      BY <1>0, <3>1, <3>2 DEF Good
  <2>5. CASE Pending(a) /\ (job'[a] = Idle \/ Pending(a)') /\ UNCHANGED part
    <3>1. \A b \in Actor : ~(At(b, k)' /\ job'[b].at = "save")
      BY <2>2, <2>5 DEF At, Pending
    <3>2. \A b \in Actor : At(b, k) => Pending(b)
      BY <2>1, <2>5
    <3>3. part'[k].res = part[k].res /\ part'[k].is_disqualified = part[k].is_disqualified
      BY <2>5
    <3> QED
      BY <1>0, <1>2, <1>3, <3>1, <3>2, <3>3, GoodKept
  <2>6. CASE Save(a) /\ (job'[a] = Idle \/ Pending(a)')
    <3>1. \A b \in Actor : ~(At(b, k)' /\ job'[b].at = "save")
      BY <2>2, <2>6 DEF At, Pending
    <3>2. ASSUME Steady(k)
          PROVE  part'[k].res = Result(part'[k].is_disqualified, Worth(k))
      <4>1. PICK w : w = Worth(k)
        OBVIOUS
      <4>2. job[a].at = "save" /\ At(a, k)
        BY <1>0, <1>1, <1>6, <2>6, SavedIs DEF At
      <4>3. job[a].res = w
        BY <3>2, <4>1, <4>2 DEF Good
      <4>4. w.cumtime \in Nat
        <5>1. Configured(scene.conf) /\ start(k) \in Int /\ end_time(k) \in Int
          BY <1>0, ConfIs, WindowIs DEF Ground
        <5> QED
          BY <3>2, <4>1, <5>1, SteadyIsTimely, CumtimeIsThere DEF Worth
      <4>5. DOMAIN part = Key /\ IsPart(part[k])
        BY <1>0 DEF Shapes, People
      <4>6. PICK r, d : r = Result(job[a].disq, w) /\ d = job[a].disq
        OBVIOUS
      <4>7. part' = [part EXCEPT ![k].is_disqualified = d, ![k].res = r]
        BY <1>6, <2>6, <4>3, <4>4, <4>6 DEF Save
      <4>8. part'[k].is_disqualified = d /\ part'[k].res = r
        <5>1. PICK x, y, z : part[k] = [real_start |-> x, is_disqualified |-> y, res |-> z]
          BY <4>5 DEF IsPart
        <5>2. PICK v : v = [part[k] EXCEPT !.is_disqualified = d]
          OBVIOUS
        <5>3. v = [real_start |-> x, is_disqualified |-> d, res |-> z]
          BY <5>1, <5>2
        <5>4. PICK n : n = [v EXCEPT !.res = r]
          OBVIOUS
        <5>5. n = [real_start |-> x, is_disqualified |-> d, res |-> r]
          BY <5>3, <5>4
        <5>6. part' = [part EXCEPT ![k] = n]
          BY <4>5, <4>7, <5>2, <5>4, <1>4
        <5>7. part'[k] = n
          BY <1>4, <4>5, <5>6
        <5> QED
          BY <5>5, <5>7
      <4> QED
        BY <4>1, <4>6, <4>8
    <3>3. PICK w, f, g : w = Worth(k) /\ w = Worth(k)' /\ f = part'[k].res /\ g = part'[k].is_disqualified
      BY <1>3
    <3>4. Steady(k)' => f = Result(g, w)
      BY <1>2, <3>2, <3>3
    <3> QED
      BY <1>0, <3>1, <3>3, <3>4 DEF Good, Result
  <2> QED
    BY <1>0, <1>6, <2>3, <2>4, <2>5, <2>6, NextIs
<1> QED
  BY <1>5, <1>6

LEMMA CurrentStep ==
    ASSUME NoneIsNothing, Ground, Current, [Next]_vars
    PROVE  Current'
<1>0. Shapes /\ JudgesAreFree /\ EndStays /\ scene' = scene /\ Existing \subseteq Existing'
  BY NamesStay, PartsStay DEF Ground
<1> SUFFICES ASSUME Undoubted, NEW k \in Existing' \ tangled'
             PROVE  Good(k)'
  <2>1. Undoubted' <=> Undoubted
    BY <1>0 DEF Undoubted, Without, BonusMoves, Unseen
  <2>2. Current' <=> (Undoubted' => \A k \in Existing' \ tangled' : Good(k)')
    BY DEF Current, Good
  <2> QED
    BY <2>1, <2>2
<1>1. \A x \in Existing \ tangled : Good(x)
  BY DEF Current, Good
<1>2. ~BonusMoves
  BY DEF Undoubted
<1>3. UNCHANGED part => Existing' = Existing
  BY NamesStay DEF Existing
<1>4. CASE UNCHANGED <<subs, part, job, tangled>>
  <2>1. k \in Existing /\ Good(k)
    BY <1>1, <1>3, <1>4
  <2>2. Table(k)' = Table(k) /\ (Steady(k)' <=> Steady(k))
    BY <1>0, <1>4, SteadyStays
  <2> QED
    BY <1>0, <1>2, <1>4, <2>1, <2>2, WorthStays, GoodStays
<1>5. ASSUME NEW u \in Users, Enter(u), UNCHANGED <<subs, job, tangled>>
      PROVE  Good(k)'
  <2>1. CASE k \in Existing
    <3>1. Good(k) /\ part'[k] = part[k]
      BY <1>0, <1>1, <1>5, <2>1, EnterKeeps
    <3>2. Table(k)' = Table(k) /\ (Steady(k)' <=> Steady(k))
      BY <1>0, <1>5, SteadyStays
    <3> QED
      BY <1>0, <1>2, <1>5, <2>1, <3>1, <3>2, WorthStays, GoodStays
  <2>2. CASE k \notin Existing
    BY <1>5, <2>2, NewIsGood
  <2> QED
    BY <2>1, <2>2
<1>6. ASSUME NEW u \in Users, NEW p \in Problem, NEW s, Sent(u, p, s), UNCHANGED <<part, job, tangled>>
      PROVE  Good(k)'
  <2>1. k \in Existing /\ Good(k)
    BY <1>1, <1>3, <1>6
  <2>2. CASE Steady(k)'
    BY <1>2, <1>6, <2>1, <2>2, SentIsGood
  <2> QED
    BY <2>2 DEF Good
<1>7. ASSUME NEW i \in DOMAIN subs, NEW s, JudgedToTheEnd(i, s) \/ Again(i, s), UNCHANGED <<part, job, tangled>>
      PROVE  Good(k)'
  <2>1. k \in Existing /\ Good(k)
    BY <1>1, <1>3, <1>7
  <2>2. Moves(i, s) /\ (s.at = "graded" \/ (s.at = "judging" /\ s.again))
    BY <1>7 DEF JudgedToTheEnd, Again
  <2>3. CASE k = s.of
    <3>1. i \in DOMAIN subs' /\ subs'[i] = s
      BY <1>0, <2>2, MovesIs
    <3>2. ~Steady(k)'
      BY <2>2, <2>3, <3>1 DEF Steady
    <3> QED
      BY <3>2 DEF Good
  <2>4. CASE k # s.of
    <3>1. Table(k)' = Table(k) /\ (Steady(k)' => Steady(k))
      BY <1>0, <2>2, <2>4, OthersStay
    <3> QED
      BY <1>0, <1>2, <1>7, <2>1, <3>1, WorthStays, GoodStays
  <2> QED
    BY <2>3, <2>4
<1>8. ASSUME NEW i \in DOMAIN subs, NEW s, Scored(i, s), NEW j, Starts(Judge(i), j), j.of = subs[i].of
      PROVE  Good(k)'
  <2>1. Judge(i) \in Actor /\ UNCHANGED part /\ Moves(i, s)
    BY <1>8 DEF Starts, Scored
  <2>2. k \in Existing \ tangled' /\ (k \notin tangled => Good(k))
    BY <1>1, <1>3, <2>1
  <2>3. j.of = s.of
    BY <1>0, <1>8, <2>1, MovesIs
  <2>4. k # j.of => Table(k)' = Table(k) /\ (Steady(k)' => Steady(k))
    BY <1>0, <2>1, <2>3, OthersStay
  <2> QED
    BY <1>2, <1>8, <2>1, <2>2, <2>4, StartIsGood
<1>9. ASSUME NEW i \in DOMAIN subs, NEW s, NEW result \in {"CE", "IE", "AB"},
             FailedAs(i, s, result), GradingFails(i, result), UNCHANGED <<part, job, tangled>>
      PROVE  Good(k)'
  <2>1. k \in Existing /\ Good(k)
    BY <1>1, <1>3, <1>9
  <2>2. CASE Steady(k)'
    BY <1>9, <2>1, <2>2, FailedIsGood
  <2> QED
    BY <2>2 DEF Good
<1>10. ASSUME NEW a \in Actor, NEW j, Starts(a, j), UNCHANGED subs
       PROVE  Good(k)'
  <2>1. k \in Existing \ tangled' /\ (k \notin tangled => Good(k))
    BY <1>1, <1>3, <1>10 DEF Starts
  <2>2. Table(k)' = Table(k) /\ (Steady(k)' => Steady(k))
    BY <1>0, <1>10, SteadyStays
  <2> QED
    BY <1>2, <1>10, <2>1, <2>2, StartIsGood
<1>11. ASSUME NEW a \in Actor, GoesOnWith(a)
       PROVE  Good(k)'
  <2>1. Existing' = Existing
    <3>1. UNCHANGED part \/ Save(a)
      BY <1>0, <1>11, NextIs
    <3>2. Save(a) => Existing' = Existing
      BY <1>0, SaveDoes
    <3> QED
      BY <1>3, <3>1, <3>2
  <2>2. k \in Existing \ tangled /\ Good(k)
    BY <1>1, <1>11, <2>1 DEF GoesOnWith
  <2> QED
    BY <1>11, <2>2, WorkIsGood
<1> QED
  BY <1>0, <1>4, <1>5, <1>6, <1>7, <1>8, <1>9, <1>10, <1>11, StepIs

-----------------------------------------------------------------------------
(* The theorems *)

Scores == Ground /\ Numbers /\ Numbered /\ banned \subseteq Users /\ Current

LEMMA ScoresInit ==
    ASSUME NoneIsNothing, PubInit
    PROVE  Scores
<1>1. Shapes /\ Sentences
  BY ShapesInit, SentencesInit
<1>2. /\ now = scene.start[Main] /\ now \in Nat /\ subs = <<>> /\ banned = {}
      /\ \A a \in Actor : job[a] = Idle
      /\ \A u \in Users : join[u] = Idle
  BY <1>1 DEF PubInit, Init, Shapes, Scened
<1>3. PICK r : r = Row(0, 0, 0)
  OBVIOUS
<1>4. \A k \in Existing : /\ part[k].real_start = now /\ ~part[k].is_disqualified /\ part[k].res = r
                          /\ k[2] = LIVE
  BY <1>3 DEF PubInit, Init, Existing, NewPart
<1>5. JudgesAreFree
  <2>1. \A i \in 1..scene.max_subs : Judge(i) \in Actor
    BY DEF Actor
  <2> QED
    BY <1>2, <2>1 DEF JudgesAreFree
<1>6. Times /\ Verdicts /\ OneAtWork
  <2>1. DOMAIN subs = {}
    BY <1>2
  <2>2. now <= now
    BY <1>2
  <2>3. \A a \in Actor : \A k : ~At(a, k)
    BY <1>2 DEF At
  <2>4. OneAtWork
    BY <2>3 DEF OneAtWork
  <2>5. Verdicts
    BY <2>1 DEF Verdicts
  <2>6. Times
    BY <1>2, <1>4, <2>1, <2>2 DEF Times
  <2> QED
    BY <2>4, <2>5, <2>6
<1>7. scene \in Scenes /\ Main \in Contests
  BY <1>1, ContestsAssumption DEF Shapes, Scened
<1>8. PICK n \in Nat : n = Cardinality(scene.here)
  <2>1. IsFiniteSet(scene.users) /\ scene.here \subseteq scene.users
    BY <1>7, SceneAssumption
  <2>2. Cardinality(scene.here) \in Nat
    BY <2>1, FS_Subset, FS_CardinalityType
  <2> QED
    BY <2>2
<1>9. \A c \in Contests : row[c].end = scene.end[c] /\ row[c].end \in Nat /\ row[c].users \in Nat
  <2>1. \A c \in Contests : scene.end[c] \in Nat
    BY <1>7, SceneAssumption
  <2>2. row = [c \in Contests |-> [end |-> scene.end[c], published |-> FALSE, users |-> IF c = Main THEN n ELSE 0]]
    BY <1>8 DEF PubInit, Init
  <2> QED
    BY <2>1, <2>2
<1>10. EndStays /\ Numbers
  BY <1>2, <1>7, <1>9 DEF EndStays, Numbers
<1>11. FoundIsNumber
  <2>1. r.score = 0 /\ r.cumtime = 0
    BY <1>3 DEF Row
  <2>2. \A a \in Actor : job[a].at # "save"
    BY <1>2 DEF Idle
  <2> QED
    BY <1>4, <2>1, <2>2 DEF FoundIsNumber
<1>12. Numbered
  BY <1>4 DEF Numbered, LIVE
<1>13. Current
  <2>1. ASSUME NEW k \in Existing
        PROVE  Worth(k) = r
    <3>1. Table(k) = {}
      BY <1>2 DEF Table
    <3> QED
      BY <1>1, <1>3, <3>1, ConfIs, NothingSubmitted DEF Worth
  <2>2. \A a \in Actor : \A k : ~At(a, k)
    BY <1>2 DEF At
  <2>3. \A k \in Existing : part[k].res = Result(part[k].is_disqualified, r)
    BY <1>4 DEF Result
  <2> QED
    BY <2>1, <2>2, <2>3 DEF Current
<1> QED
  BY <1>1, <1>2, <1>5, <1>6, <1>10, <1>11, <1>12, <1>13 DEF Scores, Ground

LEMMA ScoresStep ==
    ASSUME NoneIsNothing, Scores, [Next]_vars
    PROVE  Scores'
<1>1. Shapes'
  BY ShapesStep DEF Scores, Ground
<1>2. JudgesAreFree' /\ Times' /\ EndStays' /\ Verdicts' /\ OneAtWork' /\ FoundIsNumber'
  BY JudgesAreFreeStep, TimesStep, EndStaysStep, VerdictsStep, OneAtWorkStep, FoundStep DEF Scores, Ground
<1>3. Numbers' /\ Numbered' /\ (banned \subseteq Users)' /\ Current'
  BY NumbersStep, NumberedStep, BannedAreUsers, CurrentStep DEF Scores, Ground
<1> QED
  BY <1>1, <1>2, <1>3 DEF Scores, Ground

\* In every contest there is the scores are what the recomputations make of them.
THEOREM ScoresInvariant ==
    ASSUME NoneIsNothing
    PROVE  Spec => []Scores
<1>1. PubInit => Scores
  BY ScoresInit
<1>2. Scores /\ [Next]_vars => Scores'
  BY ScoresStep
<1> QED
  BY <1>1, <1>2, PTL DEF Spec

\* The rows of src/judge/models/contest.py hold what their fields may: times and
\* scores that are numbers, a cumtime that is not negative, users and submissions
\* of a participation that exists, virtual participations numbered without a gap.
THEOREM TypeCorrect ==
    ASSUME NoneIsNothing
    PROVE  Spec => []TypeOK
<1>1. Scores => TypeOK
  <2> SUFFICES ASSUME Scores
               PROVE  TypeOK
    OBVIOUS
  <2>1. now \in Nat /\ open \subseteq Problem /\ banned \subseteq Users
    BY DEF Scores, Ground, Shapes, Scened, Rows
  <2>2. \A c \in Contests : row[c].end \in Nat /\ row[c].published \in BOOLEAN /\ row[c].users \in Nat
    BY DEF Scores, Ground, Numbers, Shapes, Rows, IsRow
  <2>3. \A k \in Existing : /\ part[k].is_disqualified \in BOOLEAN /\ part[k].real_start \in 0..now
                            /\ part[k].res.score \in Int /\ part[k].res.cumtime \in Nat
    <3>1. \A k \in Existing : part[k].real_start \in Nat /\ part[k].real_start <= now
      BY DEF Scores, Ground, Times
    <3>2. \A k \in Existing : part[k].is_disqualified \in BOOLEAN
      BY DEF Scores, Ground, Shapes, People, IsPart
    <3>3. \A k \in Existing : part[k].res.score \in Int /\ part[k].res.cumtime \in Nat
      BY DEF Scores, Ground, FoundIsNumber
    <3> QED
      BY <2>1, <3>1, <3>2, <3>3
  <2>4. \A u \in Users : current[u] = None \/ <<u, current[u]>> \in Existing
    BY DEF Scores, Ground, Shapes, People
  <2>5. \A i \in DOMAIN subs : subs[i].of \in Existing /\ subs[i].at \in {"judging", "graded", "done"}
    <3>1. Submissions
      BY DEF Scores, Ground, Shapes
    <3>2. \A i \in DOMAIN subs : subs[i] \in Submission
      BY <3>1, SubmissionIs
    <3> QED
      BY <3>1, <3>2 DEF Submissions, Submission
  <2>6. \A k \in Existing : k[2] > 1 => <<k[1], k[2] - 1>> \in Existing
    BY DEF Scores, Numbered
  <2> QED
    BY <2>1, <2>2, <2>3, <2>4, <2>5, <2>6 DEF TypeOK
<1> QED
  BY <1>1, ScoresInvariant, PTL

\* When everything is judged the score of a participation, of every one of the
\* six formats of src/judge/contest_format, is the one the contest's page
\* promises for its submissions: what update_participation() finds, whoever calls
\* it and in whatever order verdicts, rejudgements, recalculations and sentences
\* come, is the standing of the rules, and it is the last thing that is written.
THEOREM ScoresAreCurrent ==
    ASSUME NoneIsNothing
    PROVE  Spec => []ScoreIsCurrent
<1>1. Scores => ScoreIsCurrent
  <2> SUFFICES ASSUME Scores, ~BonusMoves, Without({"spoilt"} \cup Unseen(scene.conf.format)),
                      NEW k \in Existing \ tangled, AtRest(k)
               PROVE  part[k].res = Result(part[k].is_disqualified,
                                           Standing(scene.conf, Fair(Table(k)), start(k), end_time(k)))
    BY DEF ScoreIsCurrent, ScoresAreOfTheRules
  <2>1. Undoubted /\ Shapes /\ Stay("spoilt") /\ Ground
    BY DEF Undoubted, Scores, Ground, Without, Stay
  <2>2. \A n \in DOMAIN subs : subs[n].of = k => subs[n].at = "done"
    BY DEF AtRest
  <2>3. Steady(k)
    BY <2>2 DEF Steady
  <2>4. \A a \in Actor : ~At(a, k)
    BY DEF AtRest, Busy, At
  <2>5. PICK w : w = Worth(k) /\ part[k].res = Result(part[k].is_disqualified, w)
    BY <2>1, <2>3, <2>4 DEF Scores, Current
  <2>6. Complete(Table(k), start(k))
    <3>1. ASSUME NEW n \in DOMAIN subs, subs[n].of = k
          PROVE  /\ start(k) <= subs[n].sub.date
                 /\ \/ Counts(subs[n].sub)
                    \/ /\ subs[n].sub.result \in {"CE", "IE", "AB"}
                       /\ subs[n].sub.points = 0 /\ subs[n].sub.batch = <<>>
      <4>1. start(k) <= subs[n].sub.date
        BY <2>1, <3>1 DEF Ground, Times
      <4>2. Counts(subs[n].sub) \/ Failed(subs[n].sub)
        BY <2>1, <2>2, <3>1 DEF Ground, Verdicts
      <4> QED
        BY <2>1, <4>1, <4>2 DEF Failed, Uncounted
    <3>2. Tabled(Table(k))
      BY <2>1, TableIs
    <3>3. \A s \in Table(k) :
              /\ start(k) <= s.date
              /\ Counts(s) \/ (s.result \in {"CE", "IE", "AB"} /\ s.points = 0 /\ s.batch = <<>>)
      BY <3>1 DEF Table
    <3> QED
      BY <3>2, <3>3 DEF Complete
  <2>7. w = Standing(scene.conf, Fair(Table(k)), start(k), end_time(k))
    <3>1. Configured(scene.conf) /\ start(k) \in Int /\ end_time(k) \in Int
      BY <2>1, ConfIs, WindowIs DEF Ground
    <3> QED
      BY <2>5, <2>6, <3>1, RulesAreKept DEF Worth
  <2> QED
    BY <2>5, <2>7
<1> QED
  BY <1>1, ScoresInvariant, PTL
=============================================================================
