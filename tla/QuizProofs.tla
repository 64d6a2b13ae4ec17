----------------------------- MODULE QuizProofs -----------------------------
(***************************************************************************)
(* The promises of a live quiz game, for every set of phones and every     *)
(* game that may be played on them.                                        *)
(*                                                                         *)
(* Shapes is what every value looks like.  Each promise then has a         *)
(* strengthening of its own, under the events it allows: Locked and        *)
(* Synced for the state in the cache, Seats for the limit of players,      *)
(* Tallies for the counters a close before its time trusts, Runs for the   *)
(* streaks.                                                                *)
(***************************************************************************)
EXTENDS QuizGame, Sums

-----------------------------------------------------------------------------
(* What the points of an answer can be *)

\* round() of a fraction is a whole number half a unit away at most.
LEMMA RoundIsNear ==
    ASSUME NEW n \in Nat, NEW d \in Nat \ {0}
    PROVE  /\ Round(n, d) \in Nat
           /\ 2 * (d * Round(n, d)) <= 2 * n + d
           /\ 2 * (d * Round(n, d)) >= 2 * n - d
<1> DEFINE q == n \div d
           r == n % d
<1>1. q \in Nat /\ r \in 0..(d - 1) /\ n = d * q + r
  OBVIOUS
<1> HIDE DEF q, r
<1>2. CASE 2 * r > d \/ (2 * r = d /\ q % 2 = 1)
  <2>1. Round(n, d) = q + 1
    BY <1>2 DEF Round, q, r
  <2>2. d * (q + 1) = d * q + d
    BY <1>1
  <2>3. d * q \in Nat
    BY <1>1
  <2>4. 2 * r >= d
    BY <1>1, <1>2
  <2> DEFINE x == d * q
  <2> HIDE DEF x
  <2>5. x \in Nat /\ n = x + r /\ d * Round(n, d) = x + d
    BY <1>1, <2>1, <2>2, <2>3 DEF x
  <2> QED
    BY <1>1, <2>1, <2>4, <2>5
<1>3. CASE ~(2 * r > d \/ (2 * r = d /\ q % 2 = 1))
  <2>1. Round(n, d) = q
    BY <1>3 DEF Round, q, r
  <2> DEFINE x == d * q
  <2>2. x \in Nat
    BY <1>1
  <2>3. 2 * r <= d
    BY <1>1, <1>3
  <2> HIDE DEF x
  <2>4. n = x + r /\ d * Round(n, d) = x
    BY <1>1, <2>1 DEF x
  <2> QED
    BY <1>1, <2>1, <2>2, <2>3, <2>4
<1> QED
  BY <1>2, <1>3

\* The share an answer earns is a fraction between nothing and one, and one when
\* the answer is right.
LEMMA ShareIsAFraction ==
    ASSUME NEW key, IsKey(key), NEW v, Fits(key, v)
    PROVE  LET value == clean_value(key, v)
               f == Fraction(key, value)
           IN  /\ f[1] \in Nat /\ f[2] \in Nat \ {0} /\ f[1] <= f[2]
               /\ Correct(key, value) \in BOOLEAN
               /\ Correct(key, value) => f[1] = f[2]
<1> DEFINE value == clean_value(key, v)
           f == Fraction(key, value)
<1>1. CASE key.type \in Unscored
  <2>1. f = Nothing /\ ~Correct(key, value) /\ Correct(key, value) \in BOOLEAN
    BY <1>1 DEF Fraction, Correct, Unscored
  <2> HIDE DEF f, value
  <2>2. f[1] = 0 /\ f[2] = 1
    BY <2>1 DEF Nothing
  <2> QED
    BY <2>1, <2>2 DEF f, value
<1>2. CASE key.type = "multi" /\ key.correct # {}
  <2>1. value = v /\ v \subseteq key.options /\ IsFiniteSet(key.options) /\ key.correct \subseteq key.options
    BY <1>2 DEF IsKey, Fits, clean_value, OneOf
  <2>2. f = MultiFraction(key, value) /\ (Correct(key, value) => value = key.correct) /\ Correct(key, value) \in BOOLEAN
    BY <1>2 DEF Fraction, Correct, OneOf, Unscored
  <2> DEFINE hits == Cardinality(value \cap key.correct)
             misses == Cardinality(value \ key.correct)
             all == Cardinality(key.correct)
  <2>3. IsFiniteSet(key.correct) /\ IsFiniteSet(value)
    BY <2>1, FS_Subset
  <2>4. IsFiniteSet(value \cap key.correct) /\ IsFiniteSet(value \ key.correct)
    BY <2>3, FS_Subset, value \cap key.correct \subseteq value, value \ key.correct \subseteq value
  <2>5. hits \in Nat /\ misses \in Nat /\ all \in Nat /\ hits <= all
    BY <2>3, <2>4, FS_CardinalityType, FS_Subset, value \cap key.correct \subseteq key.correct
  <2>6. all # 0
    BY <2>3, <1>2, FS_EmptySet
  <2>7. value = key.correct => hits = all /\ misses = 0
    <3> SUFFICES ASSUME value = key.correct  PROVE hits = all /\ misses = 0
      OBVIOUS
    <3>1. value \cap key.correct = key.correct /\ value \ key.correct = {}
      OBVIOUS
    <3> QED
      BY <3>1, FS_EmptySet
  <2>8. f[1] = Most(0, hits - misses) /\ f[2] = all
    BY <2>2 DEF MultiFraction
  <2> HIDE DEF hits, misses, all, f, value
  <2>9. f[1] \in Nat /\ f[2] \in Nat \ {0} /\ f[1] <= f[2]
    BY <2>5, <2>6, <2>8 DEF Most
  <2>10. Correct(key, value) => f[1] = f[2]
    BY <2>2, <2>5, <2>7, <2>8 DEF Most
  <2> QED
    BY <2>2, <2>9, <2>10 DEF f, value
<1>3. CASE key.type = "multi" /\ key.correct = {}
  <2>1. f = Nothing /\ ~Correct(key, value) /\ Correct(key, value) \in BOOLEAN
    BY <1>3 DEF Fraction, Correct, OneOf, Unscored
  <2> HIDE DEF f, value
  <2>2. f[1] = 0 /\ f[2] = 1
    BY <2>1 DEF Nothing
  <2> QED
    BY <2>1, <2>2 DEF f, value
<1>4. CASE key.type = "slider"
  <2>1. v \in Int /\ {key.min, key.max, key.answer, key.tolerance} \subseteq Int
    BY <1>4 DEF IsKey, Fits, OneOf
  <2>2. value = Clamp(v, key.min, key.max)
    BY <1>4 DEF clean_value
  <2>3. value \in Int
    BY <2>1, <2>2 DEF Clamp, Least, Most
  <2>4. f = SliderFraction(key, value) /\ (Correct(key, value) => f = Full) /\ Correct(key, value) \in BOOLEAN
    BY <1>4 DEF Fraction, Correct, OneOf, Unscored
  <2> DEFINE over == Distance(value, key.answer) - key.tolerance
             scale == key.max - key.min
  <2>5. over \in Int /\ scale \in Int
    BY <2>1, <2>3 DEF Distance, Most
  <2>6. f = IF over <= 0 THEN Full ELSE <<Most(0, scale - 5 * over), Most(scale, 1)>>
    BY <2>4 DEF SliderFraction
  <2> HIDE DEF over, scale, f, value
  <2>7. f[1] \in Nat /\ f[2] \in Nat \ {0} /\ f[1] <= f[2]
    BY <2>5, <2>6 DEF Full, Most
  <2>8. f = Full => f[1] = f[2]
    BY DEF Full
  <2> QED
    BY <2>4, <2>7, <2>8 DEF f, value
<1>5. CASE ~(key.type \in Unscored) /\ key.type \notin {"multi", "slider"}
  <2>1. f \in {Full, Nothing} /\ (Correct(key, value) => f = Full) /\ Correct(key, value) \in BOOLEAN
    BY <1>5 DEF Fraction, Correct, Exact, OneOf
  <2> HIDE DEF f, value
  <2>2. f[1] \in Nat /\ f[2] \in Nat \ {0} /\ f[1] <= f[2]
    BY <2>1 DEF Full, Nothing
  <2>3. f = Full => f[1] = f[2]
    BY DEF Full
  <2> QED
    BY <2>1, <2>2, <2>3 DEF f, value
<1> QED
  BY <1>1, <1>2, <1>3, <1>4, <1>5

\* The points of an answer, whatever the streak.
LEMMA PointsOfAnAnswer ==
    ASSUME NEW key, IsKey(key), NEW f, NEW correct \in BOOLEAN, NEW elapsed \in Int, NEW streak \in Nat,
           f[1] \in Nat, f[2] \in Nat \ {0}, f[1] <= f[2], correct => f[1] = f[2]
    PROVE  LET p == points(key, f, correct, elapsed, streak)
               full == IF scored(key) THEN BASE_POINTS * key.weight ELSE 0
           IN  /\ p \in Nat
               /\ correct => 2 * p >= full /\ p <= full + STREAK_MAX
               /\ ~correct => 2 * f[2] * p <= 2 * full * f[1] + f[2]
<1> DEFINE limit == Most(key.time, 1)
           e == Clamp(elapsed, 0, limit)
           n == BASE_POINTS * (2 * limit - e) * key.weight * f[1]
           d == 2 * limit * f[2]
           bonus == IF correct THEN Least(STREAK_STEP * streak, STREAK_MAX) ELSE 0
           p == points(key, f, correct, elapsed, streak)
           full == IF scored(key) THEN BASE_POINTS * key.weight ELSE 0
<1>1. limit \in Nat \ {0} /\ e \in 0..limit /\ key.weight \in Nat
  BY DEF IsKey, Most, Clamp, Least
<1>2. full \in Nat
  BY <1>1 DEF BASE_POINTS
<1>3. bonus \in 0..STREAK_MAX /\ (~correct => bonus = 0)
  BY DEF Least, STREAK_MAX, STREAK_STEP
<1>4. CASE ~scored(key) \/ f[1] <= 0
  <2>1. p = 0
    BY <1>4 DEF points
  <2>2. scored(key) => f[1] = 0
    BY <1>4
  <2>3. correct => full = 0
    BY <2>2
  <2> HIDE DEF p, full
  <2>4. 2 * f[2] * p = 0 /\ 2 * full * f[1] \in Nat
    BY <2>1, <1>2
  <2>5. STREAK_MAX \in Nat
    BY DEF STREAK_MAX
  <2> QED
    BY <2>1, <2>3, <2>4, <2>5, <1>2 DEF p, full
<1>5. CASE ~(~scored(key) \/ f[1] <= 0)
  <2> DEFINE base == Round(n, d)
             w == 1000 * key.weight
             s == 2 * limit - e
  <2>1. p = base + bonus /\ full = w
    BY <1>5 DEF points, BASE_POINTS
  <2>2. w \in Nat /\ s \in Nat /\ s <= 2 * limit /\ s >= limit
    BY <1>1
  <2>3. d \in Nat \ {0}
    BY <1>1
  <2>4. n = (w * s) * f[1]
    BY <1>1 DEF BASE_POINTS
  <2>5. n \in Nat
    BY <2>2, <2>4
  <2>6. base \in Nat /\ 2 * (d * base) <= 2 * n + d /\ 2 * (d * base) >= 2 * n - d
    BY <2>3, <2>5, RoundIsNear
  <2> HIDE DEF base, w, s, n, limit, e
  <2>7. n <= (w * f[1]) * (2 * limit)
    BY <1>1, <2>2, <2>4
  <2>8. n >= (w * f[1]) * limit
    BY <1>1, <2>2, <2>4
  <2>9. 2 * f[2] * base <= 2 * w * f[1] + f[2]
    <3> DEFINE L == 2 * limit
               x == 2 * f[2] * base
               y == 2 * w * f[1] + f[2]
    <3>1. L \in Nat \ {0} /\ x \in Nat /\ y \in Nat
      BY <1>1, <2>2, <2>6
    <3>2. L * x = 2 * (d * base)
      BY <1>1, <2>2, <2>6
    <3>3. L * y = 2 * ((w * f[1]) * (2 * limit)) + d
      BY <1>1, <2>2
    <3>4. L * x <= L * y
      BY <1>1, <2>2, <2>3, <2>5, <2>6, <2>7, <3>2, <3>3
    <3> HIDE DEF L, x, y
    <3>5. x <= y
      BY <3>1, <3>4
    <3> QED
      BY <3>5 DEF x, y
  <2>10. correct => 2 * base >= w /\ base <= w
    <3> SUFFICES ASSUME correct  PROVE 2 * base >= w /\ base <= w
      OBVIOUS
    <3>1. f[1] = f[2]
      OBVIOUS
    <3>2. 2 * base <= 2 * w + 1
      <4> DEFINE x == 2 * base
                 y == 2 * w + 1
      <4>1. f[2] * x = 2 * f[2] * base /\ f[2] * y = 2 * w * f[1] + f[2] /\ x \in Nat /\ y \in Nat
        BY <3>1, <2>2, <2>6
      <4>2. f[2] * x <= f[2] * y
        BY <2>9, <4>1
      <4> HIDE DEF x, y
      <4>3. x <= y
        BY <4>1, <4>2
      <4> QED
        BY <4>3 DEF x, y
    <3>3. 2 * base >= w - 1
      <4> DEFINE x == 2 * base
                 y == w - 1
      <4>1. d * y = 2 * ((w * f[1]) * limit) - d
        BY <3>1, <1>1, <2>2
      <4>2. d * x = 2 * (d * base)
        BY <1>1, <2>6
      <4>3. d * x >= d * y /\ x \in Int /\ y \in Int
        BY <4>1, <4>2, <2>2, <2>3, <2>5, <2>6, <2>8, <1>1
      <4> HIDE DEF x, y, d
      <4>4. x >= y
        BY <4>3, <2>3
      <4> QED
        BY <4>4 DEF x, y
    <3>4. w = 2 * (500 * key.weight)
      BY <1>1 DEF w
    <3> QED
      BY <3>2, <3>3, <3>4, <2>2, <2>6, <1>1
  <2>11. STREAK_MAX \in Nat
    BY DEF STREAK_MAX
  <2> HIDE DEF p, full, bonus
  <2>12. p \in Nat
    BY <2>1, <2>6, <1>3, <2>11
  <2>13. correct => 2 * p >= full /\ p <= full + STREAK_MAX
    BY <2>1, <2>10, <1>3, <2>6, <2>2, <2>11
  <2>14. ~correct => p = base
    BY <2>1, <1>3, <2>6
  <2>15. ~correct => 2 * f[2] * p <= 2 * full * f[1] + f[2]
    BY <2>14, <2>9, <2>1
  <2> QED
    BY <2>12, <2>13, <2>15 DEF p, full
<1> QED
  BY <1>4, <1>5

-----------------------------------------------------------------------------
(* The shape of every value *)

\* A phase and the number of a question that go together.
Place(ph, i) ==
    /\ ph \in Statuses /\ i \in 0..N
    /\ ph = "question" => i >= 1
    /\ ph = "lobby" => i = 0

IsState(s) == s \in States /\ Place(s.ph, s.i)

\* A row of Answer to question q.
IsAnswer(r, q) ==
    /\ \E t \in game.tries[q] : r \in Rows(game.keys[q], t)
    /\ FairPoints(game.keys[q], r)

\* A request that changes the phase, what it has read and what it will write.
SomeRows(rows, R) == DOMAIN rows \subseteq Player /\ rows \in [DOMAIN rows -> R]
NewPlaces == [rank : Nat]
NewResults == [score : Nat, correct : Nat, streak : Nat, rank : Nat]
Changing == {"hold", "written"}
IsChange(j) ==
    /\ j.at \in Changing
    /\ \E r \in {j.rows} :
        \/ /\ j \in [at : Changing, op : {"close"}, st : States, then : {"none", "finish"}, rows : {r}]
           /\ SomeRows(r, NewResults)
        \/ /\ j \in [at : Changing, op : {"finish"}, st : States, then : {"none"}, rows : {r}]
           /\ SomeRows(r, NewPlaces)
        \/ /\ j \in [at : Changing, op : {"open", "board"}, st : States, then : {"none"}, rows : {r}]
           /\ r = <<>>
    /\ IsState(j.st)
    /\ j.st.ph # "finished"
    /\ j.op = "close" <=> j.st.ph = "question"
    /\ j.op = "open" => j.st.i < N
    /\ j.op = "board" => j.st.ph = "reveal"

IsJob(j) ==
    \/ j = Idle
    \/ j \in [at : {"want"}, what : {"everyone"}, q : Question]
    \/ j \in [at : {"want"}, what : {"due"}, v : Nat]
    \/ IsChange(j)
    \/ /\ j.at = "answer"
       /\ \E q \in Question, r \in {j.row} : j = [at |-> "answer", q |-> q, row |-> r] /\ IsAnswer(r, q)
    \/ j \in [at : {"count"}, q : Question]
    \/ j \in [at : {"check"}, q : Question, n : Int]
    \/ j \in [at : {"join"}, n : Int]
    \/ j \in [at : {"rebuild"}, s : [ph : Statuses, i : Nat]] /\ Place(j.s.ph, j.s.i)
    \/ j \in [at : {"lookup", "recount"}]
    \/ j \in [at : {"refill"}, n : Int]

DbShape ==
    /\ Place(status, current)
    /\ joined \in Seq(Player)
    /\ player \in [Player -> [score : Nat, streak : Nat, correct : Nat, rank : Nat \cup {None}, is_removed : BOOLEAN]]

AnswerShape ==
    /\ DOMAIN answers = Player
    /\ \A p \in Player : answers[p] = [q \in Question |-> answers[p][q]]
    /\ \A p \in Player, q \in Question : answers[p][q] = None \/ IsAnswer(answers[p][q], q)

StateShape ==
    /\ st = None \/ IsState(st)
    /\ clock \in {"ready", "early", "open", "up"}

CountShape ==
    /\ np \in Int \cup {None}
    /\ na \in [Question -> Int \cup {None}]
    /\ ns \in [Question -> Nat \cup {None}]
    /\ marks \subseteq ({"a", "seen"} \X Question \X Player) \cup ({"x"} \X Player)

KeyShape ==
    /\ me \in [Player -> Nat \cup {None}]
    /\ due \in Nat
    /\ lock \in Proc \cup {None}
    /\ events \in Nat

JobShape ==
    /\ DOMAIN job = Proc
    /\ \A p \in Proc : IsJob(job[p])

Shapes == game \in Games /\ DbShape /\ AnswerShape /\ StateShape /\ CountShape /\ KeyShape /\ JobShape

-----------------------------------------------------------------------------
(* The state in the cache *)

Holding(p) == job[p].at \in {"hold", "written"}

\* Only a reset takes the state away: then nobody is at work but the one who
\* rebuilds it.
Kept == st # None /\ np # None /\ ~Refilling

Awake ==
    Without({"flush"}) =>
        /\ st = None => \A p \in Proc : job[p].at \in {"idle", "rebuild"}
        /\ st # None => \A p \in Proc : job[p].at # "rebuild"
        /\ \A p, o \in Proc : job[p].at = "rebuild" /\ job[o].at = "rebuild" => p = o
        /\ Without({"reset"}) => Kept

\* Who changes the phase has the lock, and what has been read is still so.
Locked ==
    Without({"slow", "flush"}) =>
        \A p \in Proc : Holding(p) => lock = p /\ st # None /\ job[p].st = st

\* The database and the cache agree but for what is being written.
Synced ==
    Without({"slow", "killed", "flush"}) =>
        /\ \A p \in Proc :
            /\ job[p].at = "written" => status = PhaseAfter(job[p].op) /\ current = NewState(job[p]).i
            /\ job[p].at = "rebuild" => job[p].s = Stored
        /\ st # None /\ (\A p \in Proc : job[p].at # "written") => st.ph = status /\ st.i = current

-----------------------------------------------------------------------------
(* The places of the players *)

Coming == {p \in Player : job[p].at = "join"}
Admitted == {p \in Coming : job[p].n <= game.limit}

\* The count is never lost, or nobody comes or goes while it is made anew.
Watched == Without({"flush"}) /\ (Without({"refill_race"}) \/ Without({"reset"}))

\* The count stands for those who are in and those who may come in, as long as
\* there is one; nobody may come in while it is lost, and who makes it anew has
\* counted everyone.
Seats ==
    Watched =>
        /\ np # None => np >= Cardinality(Active) + Cardinality(Coming)
        /\ Cardinality(Active) + Cardinality(Admitted) <= game.limit
        /\ np = None \/ Refilling => Coming = {}
        /\ \A p \in Proc : job[p].at = "refill" => job[p].n >= Cardinality(Active)

-----------------------------------------------------------------------------
(* The counters of a question *)

\* A removed player is marked, as long as nothing is lost.
Barred ==
    Without({"flush", "reset"}) =>
        \A p \in Player : player[p].is_removed => <<"x", p>> \in marks

Answered(q) == {p \in Active : <<"a", q, p>> \in marks}
Seen(q) == {p \in Active : <<"seen", q, p>> \in marks}
Pending(q) == {p \in Player : job[p].at \in {"answer", "count"} /\ job[p].q = q}

Orderly == Without({"kick_race", "flush", "reset", "slow"})

\* Who has received or answered a question has come in, and the question was opened.
MarkAgrees(q, p) ==
    <<"a", q, p>> \in marks \/ <<"seen", q, p>> \in marks => q <= st.i /\ p \in Range(joined)

MarksGoTogether == \A q \in Question : \A p \in Player : MarkAgrees(q, p)

AnswerersAreIn ==
    \A p \in Player : job[p].at \in {"answer", "count", "check"} => p \in Answered(job[p].q)

MarksAgree == st # None /\ MarksGoTogether /\ AnswerersAreIn

\* The counters of question q count nobody who has left or not yet stored an
\* answer, and nobody who has the question is left out.
CountsWell(q) ==
    /\ q > st.i => na[q] \in {None, 0}
    /\ q <= st.i => ns[q] # None
    /\ ns[q] # None => ns[q] >= Cardinality(Seen(q))
    /\ na[q] # None /\ (Pending(q) # {} \/ (st.ph = "question" /\ q = st.i)) =>
         na[q] <= Cardinality(Answered(q) \ Pending(q))

OpensCount == \A p \in Proc : job[p].at = "written" /\ job[p].op = "open" => ns[job[p].st.i + 1] # None

ChecksAgree == \A p \in Player : job[p].at = "check" => job[p].n <= Cardinality(Answered(job[p].q))

CountersAgree == (\A q \in Question : CountsWell(q)) /\ OpensCount /\ ChecksAgree

Tallies == Orderly => MarksAgree /\ CountersAgree

-----------------------------------------------------------------------------
(* The streaks *)

Settled == Without({"late", "slow", "killed", "flush"})
Punctual == Without({"late", "slow", "killed", "flush", "reset"})

Streak(p) == IF me[p] = None THEN 0 ELSE me[p]

\* The question a streak leads to.
NextQuestion == IF st.ph = "question" THEN st.i ELSE st.i + 1

NoAnswers(p) == \A q \in Question : answers[p][q] = None

Earned(p, q, a) ==
    a.points = points(game.keys[q], Fraction(game.keys[q], a.value), a.is_correct, a.time, RunBefore(p, q))

\* Who has the results of a question in hand, and who has written them.
Closes(o) == Holding(o) /\ job[o].op = "close"
Wrote(o) == job[o].at = "written" /\ job[o].op = "close"

\* Answers are given to the open question by somebody who has come in, and are in
\* the database before it is closed.
OnTime(p) ==
    job[p].at = "answer" =>
        /\ job[p].q = st.i /\ st.ph = "question" /\ ~Closing
        /\ p \in Range(joined)
        /\ Earned(p, st.i, job[p].row)

AnswerEarned(q, p) == answers[p][q] # None => q <= st.i /\ Earned(p, q, answers[p][q])

IsNew(p) == NoAnswers(p) /\ me[p] = None /\ player[p].streak = 0

InTime ==
    /\ st # None
    /\ \A p \in Player : OnTime(p)
    /\ \A q \in Question : \A p \in Player : AnswerEarned(q, p)
    /\ \A p \in Player : p \notin Range(joined) => IsNew(p)

\* The streak of everyone in the game, in the cache, in the database and in the
\* hands of the request that closes the question.
StreakKnown(p) ==
    /\ Streak(p) = RunBefore(p, NextQuestion)
    /\ (\A o \in Proc : ~Wrote(o)) => player[p].streak = RunBefore(p, NextQuestion)

ResultKnown(o, p) ==
    /\ p \in DOMAIN job[o].rows => job[o].rows[p].streak = RunBefore(p, st.i + 1)
    /\ p \notin DOMAIN job[o].rows => NoAnswers(p)
    /\ job[o].at = "written" => player[p].streak = RunBefore(p, st.i + 1)

StreaksAgree ==
    /\ \A p \in Active : StreakKnown(p)
    /\ \A o \in Proc : Closes(o) =>
          DOMAIN job[o].rows \subseteq Range(joined) /\ \A p \in Active : ResultKnown(o, p)

Runs == Punctual => InTime /\ StreaksAgree

-----------------------------------------------------------------------------
(* The scores *)

\* What the answers to the questions that were closed have brought.
Total(p) == SumFunctionOnSet(Points(p), {q \in Question : Closed(q)})

\* Who has counted the points of a question and not yet written them.
Counting(o) == job[o].at = "hold" /\ job[o].op = "close"

AnswersInTime ==
    \A p \in Player : job[p].at = "answer" =>
        /\ st # None /\ st.ph = "question" /\ job[p].q = st.i /\ ~Closing
        /\ p \in Range(joined)

NewcomersHaveNothing ==
    \A p \in Player : p \notin Range(joined) => NoAnswers(p) /\ player[p].score = 0

\* The scores in the hands of the request that closes the question have its
\* points in them; who has come in since it has read the rows has none.
ScoreKnown(o, p) ==
    IF p \in DOMAIN job[o].rows THEN job[o].rows[p].score = Total(p) + Points(p)[job[o].st.i]
    ELSE NoAnswers(p)

Scores ==
    /\ \A p \in Active : player[p].score = Total(p)
    /\ \A o \in Proc : Counting(o) =>
          DOMAIN job[o].rows \subseteq Range(joined) /\ \A p \in Active : ScoreKnown(o, p)

Totals == Settled => AnswersInTime /\ NewcomersHaveNothing /\ Scores

IInv ==
    /\ Shapes /\ Awake /\ Locked /\ Synced /\ Seats
    /\ Barred /\ NobodyIsLockedOut /\ Tallies /\ Runs /\ Totals

-----------------------------------------------------------------------------
(* What a game is made of *)

LEMMA GameFacts ==
    ASSUME game \in Games
    PROVE  /\ N \in Nat \ {0} /\ Question = 1..N
           /\ \A q \in Question : IsKey(game.keys[q])
           /\ \A q \in Question : \A t \in game.tries[q] : Fits(game.keys[q], t.value) /\ t.time \in Int
           /\ \A q \in Question : \A t \in game.tries[q] : None \notin Rows(game.keys[q], t)
           /\ game.limit \in Nat /\ (game.mode = "solo" => game.limit = 1)
           /\ game.here \in Seq(Player) /\ Len(game.here) <= game.limit /\ IsInjective(game.here)
           /\ game.come \subseteq Player
<1>1. game.keys \in Seq(Range(game.keys)) /\ Len(game.keys) > 0
  BY GamesAssumption
<1>2. Len(game.keys) \in Nat /\ DOMAIN game.keys = 1..Len(game.keys)
  BY <1>1
<1>3. N \in Nat \ {0} /\ Question = 1..N
  BY <1>1, <1>2 DEF N, Question
<1>4. /\ \A q \in Question : IsKey(game.keys[q])
      /\ \A q \in Question : \A t \in game.tries[q] : Fits(game.keys[q], t.value) /\ t.time \in Int
  BY GamesAssumption DEF Question
<1>5. \A q \in Question : \A t \in game.tries[q] : None \notin Rows(game.keys[q], t)
  BY NoneAssumption DEF Question
<1>6. /\ game.limit \in Nat /\ (game.mode = "solo" => game.limit = 1)
      /\ game.here \in Seq(Player) /\ Len(game.here) <= game.limit /\ IsInjective(game.here)
      /\ game.come \subseteq Player
  BY GamesAssumption
<1> QED
  BY <1>3, <1>4, <1>5, <1>6

\* The row of an answer is one, and earns what is fair.
LEMMA RowIsAnAnswer ==
    ASSUME game \in Games, NEW q \in Question, NEW t \in game.tries[q], NEW k \in Nat
    PROVE  IsAnswer(Row(game.keys[q], t, k), q)
<1> DEFINE key == game.keys[q]
           value == clean_value(key, t.value)
           f == Fraction(key, value)
           right == Correct(key, value)
           earned == points(key, f, right, t.time, k)
           full == IF scored(key) THEN BASE_POINTS * key.weight ELSE 0
           r == Row(key, t, k)
<1>1. IsKey(key) /\ Fits(key, t.value) /\ t.time \in Int
  BY GameFacts
<1>2. f[1] \in Nat /\ f[2] \in Nat \ {0} /\ f[1] <= f[2] /\ right \in BOOLEAN /\ (right => f[1] = f[2])
  BY <1>1, ShareIsAFraction
<1>3. r = [value |-> value, is_correct |-> right, time |-> t.time, points |-> earned]
  BY DEF Row
<1> HIDE DEF r, value, f, right, key
<1>4. /\ earned \in Nat
      /\ right => 2 * earned >= full /\ earned <= full + STREAK_MAX
      /\ ~right => 2 * f[2] * earned <= 2 * full * f[1] + f[2]
  BY <1>1, <1>2, PointsOfAnAnswer
<1> HIDE DEF earned, full
<1>5. r.value = value /\ r.is_correct = right /\ r.points = earned
  BY <1>3
<1>6. r \in Rows(key, t)
  BY <1>2, <1>3, <1>4 DEF Rows, value
<1>7. Fraction(key, r.value) = f
  BY <1>5 DEF f
<1>8. FairPoints(key, r)
  BY <1>4, <1>5, <1>7, <1>2 DEF FairPoints, full
<1> QED
  BY <1>6, <1>8 DEF IsAnswer, r, key

\* None is neither a state nor a row.
LEMMA StatesAndRows ==
    ASSUME game \in Games
    PROVE  /\ \A s : IsState(s) => s # None
           /\ \A q \in Question : \A r : IsAnswer(r, q) => r # None
BY GameFacts, NoneAssumption DEF IsState, IsAnswer

\* What is said of a value under the game stays true of it.
LEMMA SameGame ==
    ASSUME game' = game
    PROVE  /\ N' = N /\ Question' = Question
           /\ \A ph, i : Place(ph, i)' <=> Place(ph, i)
           /\ \A s : IsState(s)' <=> IsState(s)
           /\ \A r, q : IsAnswer(r, q)' <=> IsAnswer(r, q)
           /\ \A j : IsJob(j)' <=> IsJob(j)
<1>1. N' = N /\ Question' = Question
  BY DEF N, Question
<1>2. \A ph, i : Place(ph, i)' <=> Place(ph, i)
  BY <1>1 DEF Place
<1>3. \A s : IsState(s)' <=> IsState(s)
  BY <1>2 DEF IsState
<1>4. \A r, q : IsAnswer(r, q)' <=> IsAnswer(r, q)
  BY DEF IsAnswer
<1>5. \A j : IsChange(j)' <=> IsChange(j)
  BY <1>1, <1>3 DEF IsChange
<1>6. \A j : IsJob(j)' <=> IsJob(j)
  BY <1>1, <1>2, <1>4, <1>5 DEF IsJob
<1> QED
  BY <1>1, <1>2, <1>3, <1>4, <1>6

\* What a request may have still to do, place by place.
LEMMA JobKinds ==
    ASSUME NEW j, IsJob(j)
    PROVE  /\ j.at \in {"idle", "want", "hold", "written", "answer", "count", "check", "join",
                       "rebuild", "lookup", "recount", "refill"}
           /\ j.at = "idle" => j = Idle
           /\ j.at \in Changing => IsChange(j)
           /\ j.at = "answer" => j.q \in Question /\ IsAnswer(j.row, j.q)
           /\ j.at = "count" => j.q \in Question
           /\ j.at = "check" => j.q \in Question /\ j.n \in Int
           /\ j.at = "join" => j.n \in Int
           /\ j.at = "rebuild" => j.s \in [ph : Statuses, i : Nat] /\ Place(j.s.ph, j.s.i)
           /\ j.at = "refill" => j.n \in Int
<1>1. CASE j = Idle
  BY <1>1 DEF Idle, Changing
<1>2. CASE j \in [at : {"want"}, what : {"everyone"}, q : Question]
           \/ j \in [at : {"want"}, what : {"due"}, v : Nat]
  BY <1>2 DEF Changing
<1>3. CASE IsChange(j)
  BY <1>3 DEF IsChange, Changing
<1>4. CASE j.at = "answer" /\ \E q \in Question, r \in {j.row} :
               j = [at |-> "answer", q |-> q, row |-> r] /\ IsAnswer(r, q)
  <2>1. PICK q \in Question, r \in {j.row} : j = [at |-> "answer", q |-> q, row |-> r] /\ IsAnswer(r, q)
    BY <1>4
  <2>2. j.q = q /\ j.row = r
    BY <2>1
  <2> QED
    BY <1>4, <2>1, <2>2 DEF Changing
<1>5. CASE j \in [at : {"count"}, q : Question] \/ j \in [at : {"check"}, q : Question, n : Int]
           \/ j \in [at : {"join"}, n : Int]
  BY <1>5 DEF Changing
<1>6. CASE j \in [at : {"rebuild"}, s : [ph : Statuses, i : Nat]] /\ Place(j.s.ph, j.s.i)
  BY <1>6 DEF Changing
<1>7. CASE j \in [at : {"lookup", "recount"}] \/ j \in [at : {"refill"}, n : Int]
  BY <1>7 DEF Changing
<1> QED
  BY <1>1, <1>2, <1>3, <1>4, <1>5, <1>6, <1>7 DEF IsJob

\* One request goes on and the others stay.
LEMMA JobMoves ==
    ASSUME JobShape, game' = game, NEW p \in Proc, NEW j, IsJob(j), job' = [job EXCEPT ![p] = j]
    PROVE  JobShape' /\ job'[p] = j /\ \A o \in Proc \ {p} : job'[o] = job[o]
<1>1. DOMAIN job' = Proc
  BY DEF JobShape
<1>2. job'[p] = j /\ \A o \in Proc \ {p} : job'[o] = job[o]
  BY DEF JobShape
<1>3. PICK f : f = job'
  OBVIOUS
<1>4. \A o \in Proc : IsJob(f[o])
  BY <1>2, <1>3 DEF JobShape
<1>5. \A o \in Proc : IsJob(f[o])'
  BY <1>4, SameGame
<1> QED
  BY <1>1, <1>2, <1>3, <1>5 DEF JobShape

LEMMA JobsStay ==
    ASSUME JobShape, game' = game, job' = job
    PROVE  JobShape'
BY SameGame DEF JobShape

LEMMA IdleIsAJob == IsJob(Idle)
BY DEF IsJob

\* What stays as it is keeps its shape.
LEMMA Stays ==
    ASSUME Shapes, game' = game
    PROVE  /\ game' \in Games
           /\ UNCHANGED <<status, current, joined, player>> => DbShape'
           /\ UNCHANGED answers => AnswerShape'
           /\ UNCHANGED <<st, clock>> => StateShape'
           /\ UNCHANGED <<np, na, ns, marks>> => CountShape'
           /\ UNCHANGED <<me, due, lock, events>> => KeyShape'
<1>1. UNCHANGED <<status, current, joined, player>> => DbShape'
  BY SameGame DEF Shapes, DbShape
<1>2. UNCHANGED answers => AnswerShape'
  BY SameGame DEF Shapes, AnswerShape
<1>3. UNCHANGED <<st, clock>> => StateShape'
  BY SameGame DEF Shapes, StateShape
<1>4. UNCHANGED <<np, na, ns, marks>> => CountShape'
  BY SameGame DEF Shapes, CountShape
<1>5. UNCHANGED <<me, due, lock, events>> => KeyShape'
  BY DEF Shapes, KeyShape
<1> QED
  BY <1>1, <1>2, <1>3, <1>4, <1>5 DEF Shapes

-----------------------------------------------------------------------------
(* What a phase change reads *)

LEMMA ActiveIsFinite ==
    ASSUME DbShape
    PROVE  Active \subseteq Player /\ Active \subseteq Range(joined) /\ IsFiniteSet(Active)
<1>1. Range(joined) \subseteq Player
  BY DEF DbShape, Range
<1>2. Active \subseteq Player /\ Active \subseteq Range(joined)
  BY <1>1 DEF Active
<1> QED
  BY <1>2, PlayersAssumption, FS_Subset

LEMMA PlacesAreNumbers ==
    ASSUME NEW P, IsFiniteSet(P), NEW score
    PROVE  \A p \in P : Places(P, score)[p] \in Nat
<1> DEFINE At(p) == CHOOSE k \in DOMAIN joined : joined[k] = p
           Ahead(p) == {o \in P : score[o] > score[p] \/ (score[o] = score[p] /\ At(o) < At(p))}
<1>1. \A p \in P : Places(P, score)[p] = Cardinality(Ahead(p)) + 1
  BY DEF Places
<1>2. \A p \in P : Ahead(p) \subseteq P
  OBVIOUS
<1> HIDE DEF Ahead
<1>3. \A p \in P : Cardinality(Ahead(p)) \in Nat
  BY <1>2, FS_Subset, FS_CardinalityType
<1> QED
  BY <1>1, <1>3

\* The points of an answer, none when there is none.
LEMMA AnswerPoints ==
    ASSUME game \in Games, NEW q \in Question, NEW a, IsAnswer(a, q)
    PROVE  a.points \in Nat /\ a.is_correct \in BOOLEAN
BY DEF IsAnswer, Rows

LEMMA CountedShape ==
    ASSUME game \in Games, DbShape, AnswerShape, NEW q \in Question
    PROVE  SomeRows(Counted(q), NewResults) /\ DOMAIN Counted(q) = Active
<1> DEFINE Right(p) == answers[p][q] # None /\ answers[p][q].is_correct
           score == [p \in Active |->
                       player[p].score + IF answers[p][q] = None THEN 0 ELSE answers[p][q].points]
           R(p) == [score   |-> score[p],
                    correct |-> player[p].correct + IF Right(p) THEN 1 ELSE 0,
                    streak  |-> IF ~scored(game.keys[q]) THEN player[p].streak
                                ELSE IF Right(p) THEN player[p].streak + 1 ELSE 0,
                    rank    |-> Places(Active, score)[p]]
<1>1. Counted(q) = [p \in Active |-> R(p)]
  BY DEF Counted
<1>2. Active \subseteq Player /\ IsFiniteSet(Active)
  BY ActiveIsFinite
<1>3. \A p \in Active : score[p] \in Nat
  <2> TAKE p \in Active
  <2>1. player[p].score \in Nat
    BY <1>2 DEF DbShape
  <2>2. answers[p][q] # None => answers[p][q].points \in Nat
    BY <1>2, AnswerPoints DEF AnswerShape
  <2> QED
    BY <2>1, <2>2
<1>4. \A p \in Active : Places(Active, score)[p] \in Nat
  BY <1>2, PlacesAreNumbers
<1> HIDE DEF score
<1>5. \A p \in Active : R(p) \in NewResults
  <2> TAKE p \in Active
  <2>1. player[p].correct \in Nat /\ player[p].streak \in Nat
    BY <1>2 DEF DbShape
  <2> QED
    BY <2>1, <1>3, <1>4 DEF NewResults
<1> HIDE DEF R
<1>6. DOMAIN Counted(q) = Active /\ Counted(q) \in [Active -> NewResults]
  BY <1>1, <1>5
<1> QED
  BY <1>2, <1>6 DEF SomeRows

LEMMA RankedShape ==
    ASSUME DbShape
    PROVE  SomeRows(Ranked, NewPlaces)
<1>1. Active \subseteq Player /\ IsFiniteSet(Active)
  BY ActiveIsFinite
<1> DEFINE score == [o \in Active |-> player[o].score]
<1>2. \A p \in Active : Places(Active, score)[p] \in Nat
  BY <1>1, PlacesAreNumbers
<1>3. Ranked = [p \in Active |-> [rank |-> Places(Active, score)[p]]]
  BY DEF Ranked
<1> HIDE DEF score
<1>4. DOMAIN Ranked = Active /\ Ranked \in [Active -> NewPlaces]
  BY <1>2, <1>3 DEF NewPlaces
<1> QED
  BY <1>1, <1>4 DEF SomeRows

\* What may be done to a state.
LEMMA ChangeKinds ==
    ASSUME game \in Games, NEW s, IsState(s), NEW want
    PROVE  LET op == Change(want, s)
           IN  /\ op \in {"none", "open", "close", "board", "finish"}
               /\ op # "none" => /\ s.ph # "finished"
                                 /\ op = "close" <=> s.ph = "question"
                                 /\ op = "open" => s.i < N
                                 /\ op = "board" => s.ph = "reveal"
<1> DEFINE op == Change(want, s)
<1>1. s.ph \in Statuses /\ s.i \in 0..N /\ (s.ph = "lobby" => s.i = 0) /\ N \in Nat \ {0}
  BY GameFacts DEF IsState, Place
<1>2. CASE Stale(want, s) \/ s.ph = "finished"
  BY <1>2 DEF Change
<1>3. CASE ~(Stale(want, s) \/ s.ph = "finished") /\ want.what = "everyone"
  BY <1>3 DEF Change, Stale
<1>4. CASE ~(Stale(want, s) \/ s.ph = "finished") /\ want.what = "end"
  BY <1>4 DEF Change
<1>5. CASE ~(Stale(want, s) \/ s.ph = "finished") /\ want.what = "skip"
  BY <1>5 DEF Change
<1>6. CASE ~(Stale(want, s) \/ s.ph = "finished") /\ want.what \notin {"everyone", "end", "skip"}
  <2>1. op = CASE s.ph = "lobby" -> (IF game.mode = "solo" \/ player_count > 0 THEN "open" ELSE "none")
               [] s.ph = "question" -> "close"
               [] s.ph = "reveal" /\ game.mode # "solo" -> "board"
               [] OTHER -> Forward(s)
    BY <1>6 DEF Change
  <2>2. Forward(s) = IF s.i < N THEN "open" ELSE "finish"
    BY DEF Forward
  <2>3. s.ph # "finished"
    BY <1>6
  <2>4. CASE s.ph = "lobby"
    BY <2>1, <2>3, <2>4, <1>1
  <2>5. CASE s.ph = "question"
    BY <2>1, <2>3, <2>5
  <2>6. CASE s.ph = "reveal" /\ game.mode # "solo"
    BY <2>1, <2>3, <2>6
  <2>7. CASE s.ph # "lobby" /\ s.ph # "question" /\ ~(s.ph = "reveal" /\ game.mode # "solo")
    <3>1. op = Forward(s)
      BY <2>1, <2>7
    <3> HIDE DEF op
    <3> QED
      BY <3>1, <2>2, <2>3, <2>7 DEF op
  <2> QED
    BY <2>4, <2>5, <2>6, <2>7
<1> QED
  BY <1>2, <1>3, <1>4, <1>5, <1>6

LEMMA PlanIsAJob ==
    ASSUME Shapes, NEW s, IsState(s), s.ph # "finished",
           NEW op \in {"open", "close", "board", "finish"}, NEW then \in {"none", "finish"},
           op = "close" <=> s.ph = "question", op = "open" => s.i < N, op = "board" => s.ph = "reveal",
           then = "finish" => op = "close"
    PROVE  IsChange(Plan(op, s, then)) /\ IsJob(Plan(op, s, then))
<1> DEFINE rows == CASE op = "close" -> Counted(s.i) [] op = "finish" -> Ranked [] OTHER -> <<>>
           j == Plan(op, s, then)
<1>1. j = [at |-> "hold", op |-> op, st |-> s, then |-> then, rows |-> rows]
  BY DEF Plan
<1>2. op = "close" => s.i \in Question /\ rows = Counted(s.i)
  BY GameFacts DEF IsState, Place, Shapes
<1>3. op = "close" => SomeRows(rows, NewResults)
  BY <1>2, CountedShape DEF Shapes
<1>4. op = "finish" => SomeRows(rows, NewPlaces)
  BY RankedShape DEF Shapes
<1>5. op \in {"open", "board"} => rows = <<>>
  OBVIOUS
<1>6. s \in States
  BY DEF IsState
<1> HIDE DEF rows, j
<1>7. j.at = "hold" /\ j.op = op /\ j.st = s /\ j.rows = rows /\ j.at \in Changing
  BY <1>1 DEF Changing
<1>8. \E r \in {j.rows} :
        \/ /\ j \in [at : Changing, op : {"close"}, st : States, then : {"none", "finish"}, rows : {r}]
           /\ SomeRows(r, NewResults)
        \/ /\ j \in [at : Changing, op : {"finish"}, st : States, then : {"none"}, rows : {r}]
           /\ SomeRows(r, NewPlaces)
        \/ /\ j \in [at : Changing, op : {"open", "board"}, st : States, then : {"none"}, rows : {r}]
           /\ r = <<>>
  <2>1. CASE op = "close"
    BY <2>1, <1>1, <1>3, <1>6, <1>7
  <2>2. CASE op = "finish"
    BY <2>2, <1>1, <1>4, <1>6, <1>7
  <2>3. CASE op \in {"open", "board"}
    BY <2>3, <1>1, <1>5, <1>6, <1>7
  <2> QED
    BY <2>1, <2>2, <2>3
<1>9. IsChange(j)
  BY <1>7, <1>8 DEF IsChange
<1> QED
  BY <1>9 DEF IsJob, j

\* A request that has the lock drops its wish, or begins a change.
LEMMA EnterDoes ==
    ASSUME Shapes, NEW p \in Proc, NEW want, Enter(p, want)
    PROVE  /\ lock = None /\ st # None
           /\ \/ job' = [job EXCEPT ![p] = Idle] /\ lock' = lock
              \/ \E op \in {"open", "close", "board", "finish"}, then \in {"none", "finish"} :
                    /\ lock' = p
                    /\ job' = [job EXCEPT ![p] = Plan(op, st, then)]
                    /\ IsJob(Plan(op, st, then)) /\ IsChange(Plan(op, st, then))
                    /\ op = "close" <=> st.ph = "question"
                    /\ MayRead(op)
<1> DEFINE op == Change(want, st)
           then == IF want.what = "end" /\ op = "close" THEN "finish" ELSE "none"
<1>1. lock = None /\ st # None /\ MayRead(op)
  BY DEF Enter
<1>2. IsState(st) /\ game \in Games
  BY <1>1 DEF Shapes, StateShape
<1>3. CASE op = "none"
  BY <1>1, <1>3 DEF Enter
<1>4. CASE op # "none"
  <2>1. /\ op \in {"open", "close", "board", "finish"}
        /\ st.ph # "finished"
        /\ op = "close" <=> st.ph = "question"
        /\ op = "open" => st.i < N
        /\ op = "board" => st.ph = "reveal"
    BY <1>2, <1>4, ChangeKinds
  <2>2. then \in {"none", "finish"} /\ (then = "finish" => op = "close")
    OBVIOUS
  <2>3. lock' = p /\ job' = [job EXCEPT ![p] = Plan(op, st, then)]
    BY <1>4 DEF Enter
  <2> HIDE DEF op, then
  <2>4. IsChange(Plan(op, st, then)) /\ IsJob(Plan(op, st, then))
    BY <1>2, <2>1, <2>2, PlanIsAJob
  <2> QED
    BY <1>1, <2>1, <2>2, <2>3, <2>4
<1> QED
  BY <1>1, <1>3, <1>4

\* What a change is made of.
LEMMA ChangeParts ==
    ASSUME NEW j, IsChange(j)
    PROVE  /\ j.at \in Changing /\ j.op \in {"open", "close", "board", "finish"}
           /\ j.then \in {"none", "finish"} /\ (j.then = "finish" => j.op = "close")
           /\ IsState(j.st) /\ j.st.ph # "finished"
           /\ j.op = "close" <=> j.st.ph = "question"
           /\ j.op = "open" => j.st.i < N
           /\ j.op = "close" => SomeRows(j.rows, NewResults)
           /\ j.op = "finish" => SomeRows(j.rows, NewPlaces)
           /\ j.op \in {"open", "board"} => j.rows = <<>>
           /\ j = [at |-> j.at, op |-> j.op, st |-> j.st, then |-> j.then, rows |-> j.rows]
<1>1. PICK r \in {j.rows} :
        \/ /\ j \in [at : Changing, op : {"close"}, st : States, then : {"none", "finish"}, rows : {r}]
           /\ SomeRows(r, NewResults)
        \/ /\ j \in [at : Changing, op : {"finish"}, st : States, then : {"none"}, rows : {r}]
           /\ SomeRows(r, NewPlaces)
        \/ /\ j \in [at : Changing, op : {"open", "board"}, st : States, then : {"none"}, rows : {r}]
           /\ r = <<>>
  BY DEF IsChange
<1>2. r = j.rows
  OBVIOUS
<1> QED
  BY <1>1, <1>2 DEF IsChange

\* The state a change writes.
LEMMA NewStateShape ==
    ASSUME game \in Games, NEW j, IsChange(j)
    PROVE  /\ IsState(NewState(j))
           /\ NewState(j).ph = PhaseAfter(j.op) /\ NewState(j).v = j.st.v + 1 /\ ~NewState(j).paused
           /\ NewState(j).i = IF j.op = "open" THEN j.st.i + 1 ELSE j.st.i
           /\ PhaseAfter(j.op) \in Statuses \ {"lobby"}
           /\ PhaseAfter(j.op) = "question" <=> j.op = "open"
           /\ PhaseAfter(j.op) = "finished" <=> j.op = "finish"
           /\ Progress(NewState(j).ph, NewState(j).i) > Progress(j.st.ph, j.st.i)
           /\ j.op = "close" => j.st.i \in Question
           /\ j.op = "open" => j.st.i + 1 \in Question
<1>1. /\ j.op \in {"open", "close", "board", "finish"}
      /\ j.st.ph \in Statuses /\ j.st.i \in 0..N /\ j.st.v \in Nat /\ j.st.ph # "finished"
      /\ j.st.ph = "question" => j.st.i >= 1
      /\ j.op = "close" <=> j.st.ph = "question"
      /\ j.op = "open" => j.st.i < N
  BY ChangeParts DEF IsState, States, Place
<1>2. j.op = "board" => j.st.ph = "reveal"
  BY DEF IsChange
<1>3. N \in Nat \ {0} /\ Question = 1..N
  BY GameFacts
<1>4. NewState(j) = [ph |-> PhaseAfter(j.op), i |-> IF j.op = "open" THEN j.st.i + 1 ELSE j.st.i,
                     v |-> j.st.v + 1, paused |-> FALSE]
  BY DEF NewState
<1>5. /\ j.op = "open" => PhaseAfter(j.op) = "question"
      /\ j.op = "close" => PhaseAfter(j.op) = "reveal"
      /\ j.op = "board" => PhaseAfter(j.op) = "leaderboard"
      /\ j.op = "finish" => PhaseAfter(j.op) = "finished"
  BY DEF PhaseAfter
<1>6. /\ PhaseAfter(j.op) \in Statuses \ {"lobby"}
      /\ PhaseAfter(j.op) = "question" <=> j.op = "open"
      /\ PhaseAfter(j.op) = "finished" <=> j.op = "finish"
  BY <1>1, <1>5 DEF Statuses
<1>7. /\ NewState(j).ph = PhaseAfter(j.op) /\ NewState(j).v = j.st.v + 1 /\ ~NewState(j).paused
      /\ NewState(j).i = IF j.op = "open" THEN j.st.i + 1 ELSE j.st.i
  BY <1>4
<1>8. NewState(j) \in States
  BY <1>1, <1>3, <1>4, <1>6 DEF States
<1>9. Place(NewState(j).ph, NewState(j).i)
  BY <1>1, <1>3, <1>6, <1>7 DEF Place
<1>10. Progress(NewState(j).ph, NewState(j).i) > Progress(j.st.ph, j.st.i)
  <2>1. CASE j.op = "open"
    BY <2>1, <1>1, <1>3, <1>5, <1>7 DEF Progress, Statuses
  <2>2. CASE j.op = "close"
    BY <2>2, <1>1, <1>3, <1>5, <1>7 DEF Progress, Statuses
  <2>3. CASE j.op = "board"
    BY <2>3, <1>1, <1>2, <1>3, <1>5, <1>7 DEF Progress, Statuses
  <2>4. CASE j.op = "finish"
    BY <2>4, <1>1, <1>3, <1>5, <1>7 DEF Progress, Statuses
  <2> QED
    BY <2>1, <2>2, <2>3, <2>4, <1>1
<1> QED
  BY <1>1, <1>3, <1>6, <1>7, <1>8, <1>9, <1>10 DEF IsState

-----------------------------------------------------------------------------
(* What the steps do *)

\* Only results and places are written to the rows of players.
LEMMA UpdatedShape ==
    ASSUME DbShape, NEW u, SomeRows(u, NewResults) \/ SomeRows(u, NewPlaces) \/ u = <<>>
    PROVE  /\ Updated(u) \in [Player -> [score : Nat, streak : Nat, correct : Nat, rank : Nat \cup {None},
                                         is_removed : BOOLEAN]]
           /\ \A p \in Player : Updated(u)[p].is_removed = player[p].is_removed
           /\ \A p \in Player :
                IF p \in DOMAIN u /\ SomeRows(u, NewResults)
                THEN Updated(u)[p].streak = u[p].streak /\ Updated(u)[p].score = u[p].score
                ELSE Updated(u)[p].streak = player[p].streak /\ Updated(u)[p].score = player[p].score
<1> DEFINE R(p) == [f \in DOMAIN player[p] |-> IF f \in DOMAIN u[p] THEN u[p][f] ELSE player[p][f]]
           Good(r, p) ==
             /\ r \in [score : Nat, streak : Nat, correct : Nat, rank : Nat \cup {None}, is_removed : BOOLEAN]
             /\ r.is_removed = player[p].is_removed
             /\ IF p \in DOMAIN u /\ SomeRows(u, NewResults)
                THEN r.streak = u[p].streak /\ r.score = u[p].score
                ELSE r.streak = player[p].streak /\ r.score = player[p].score
<1>1. Updated(u) = [p \in Player |-> IF p \notin DOMAIN u THEN player[p] ELSE R(p)]
  BY DEF Updated
<1>2. \A p \in Player : Good(IF p \notin DOMAIN u THEN player[p] ELSE R(p), p)
  <2> SUFFICES ASSUME NEW p \in Player  PROVE Good(IF p \notin DOMAIN u THEN player[p] ELSE R(p), p)
    OBVIOUS
  <2>1. PICK a \in Nat, b \in Nat, c \in Nat, d \in Nat \cup {None}, e \in BOOLEAN :
          player[p] = [score |-> a, streak |-> b, correct |-> c, rank |-> d, is_removed |-> e]
    BY DEF DbShape
  <2>2. CASE p \notin DOMAIN u
    BY <2>1, <2>2
  <2>3. CASE p \in DOMAIN u /\ SomeRows(u, NewResults)
    <3>1. PICK x \in Nat, y \in Nat, z \in Nat, k \in Nat :
            u[p] = [score |-> x, correct |-> y, streak |-> z, rank |-> k]
      BY <2>3 DEF SomeRows, NewResults
    <3>2. R(p) = [score |-> x, streak |-> z, correct |-> y, rank |-> k, is_removed |-> e]
      BY <2>1, <3>1
    <3> HIDE DEF R
    <3> QED
      BY <2>1, <2>3, <3>1, <3>2
  <2>4. CASE p \in DOMAIN u /\ ~SomeRows(u, NewResults)
    <3>1. SomeRows(u, NewPlaces)
      BY <2>4
    <3>2. PICK k \in Nat : u[p] = [rank |-> k]
      BY <2>4, <3>1 DEF SomeRows, NewPlaces
    <3>3. R(p) = [score |-> a, streak |-> b, correct |-> c, rank |-> k, is_removed |-> e]
      BY <2>1, <3>2
    <3> HIDE DEF R
    <3> QED
      BY <2>1, <2>4, <3>3
  <2> QED
    BY <2>2, <2>3, <2>4
<1> HIDE DEF R
<1> QED
  BY <1>1, <1>2

LEMMA CommitDoes ==
    ASSUME Shapes, NEW p \in Proc, Commit(p)
    PROVE  \E j, w :
             /\ j = job[p] /\ IsChange(j) /\ j.at = "hold"
             /\ job' = [job EXCEPT ![p] = w] /\ IsChange(w) /\ IsJob(w) /\ w.at = "written"
             /\ w.op = j.op /\ w.st = j.st /\ w.then = j.then /\ w.rows = j.rows /\ NewState(w) = NewState(j)
             /\ player' = Updated(j.rows)
             /\ status' = PhaseAfter(j.op)
             /\ current' = IF j.op = "open" THEN j.st.i + 1 ELSE current
             /\ na' = IF j.op = "open" THEN [na EXCEPT ![j.st.i + 1] = 0] ELSE na
             /\ ns' = IF j.op = "open" THEN [ns EXCEPT ![j.st.i + 1] = 0] ELSE ns
             /\ UNCHANGED <<game, joined, answers, st, clock, np, marks, me, due, lock, events>>
<1> DEFINE j == job[p]
           w == [j EXCEPT !.at = "written"]
<1>1. j.at = "hold" /\ job' = [job EXCEPT ![p] = w]
  BY DEF Commit
<1>2. IsChange(j)
  BY <1>1, JobKinds DEF Shapes, JobShape, Changing
<1> HIDE DEF j
<1>3. PICK r \in {j.rows} :
        \/ /\ j \in [at : Changing, op : {"close"}, st : States, then : {"none", "finish"}, rows : {r}]
           /\ SomeRows(r, NewResults)
        \/ /\ j \in [at : Changing, op : {"finish"}, st : States, then : {"none"}, rows : {r}]
           /\ SomeRows(r, NewPlaces)
        \/ /\ j \in [at : Changing, op : {"open", "board"}, st : States, then : {"none"}, rows : {r}]
           /\ r = <<>>
  BY <1>2 DEF IsChange
<1>4. /\ w.at = "written" /\ w.op = j.op /\ w.st = j.st /\ w.then = j.then /\ w.rows = j.rows
      /\ \/ w \in [at : Changing, op : {"close"}, st : States, then : {"none", "finish"}, rows : {r}]
         \/ w \in [at : Changing, op : {"finish"}, st : States, then : {"none"}, rows : {r}]
         \/ w \in [at : Changing, op : {"open", "board"}, st : States, then : {"none"}, rows : {r}]
  BY <1>3 DEF Changing
<1>5. \/ /\ w \in [at : Changing, op : {"close"}, st : States, then : {"none", "finish"}, rows : {r}]
         /\ SomeRows(r, NewResults)
      \/ /\ w \in [at : Changing, op : {"finish"}, st : States, then : {"none"}, rows : {r}]
         /\ SomeRows(r, NewPlaces)
      \/ /\ w \in [at : Changing, op : {"open", "board"}, st : States, then : {"none"}, rows : {r}]
         /\ r = <<>>
  BY <1>3 DEF Changing
<1> HIDE DEF w
<1>6. IsChange(w) /\ NewState(w) = NewState(j)
  BY <1>2, <1>4, <1>5 DEF IsChange, Changing, NewState
<1>7. IsJob(w)
  BY <1>6 DEF IsJob
<1>8. /\ player' = Updated(j.rows)
      /\ status' = PhaseAfter(j.op)
      /\ current' = IF j.op = "open" THEN j.st.i + 1 ELSE current
      /\ na' = IF j.op = "open" THEN [na EXCEPT ![j.st.i + 1] = 0] ELSE na
      /\ ns' = IF j.op = "open" THEN [ns EXCEPT ![j.st.i + 1] = 0] ELSE ns
      /\ UNCHANGED <<game, joined, answers, st, clock, np, marks, me, due, lock, events>>
  BY DEF Commit, j
<1>9. j = job[p] /\ j.at = "hold"
  BY <1>1 DEF j
<1> QED
  BY <1>1, <1>2, <1>4, <1>6, <1>7, <1>8, <1>9

LEMMA SaveDoes ==
    ASSUME Shapes, NEW p \in Proc, Save(p)
    PROVE  \E j, k :
             /\ j = job[p] /\ IsChange(j) /\ j.at = "written"
             /\ st' = NewState(j) /\ clock' \in {"ready", "open"}
             /\ me' = Results(j)
             /\ job' = [job EXCEPT ![p] = k] /\ IsJob(k)
             /\ \/ k = Idle /\ lock' = None
                \/ /\ IsChange(k) /\ k.at = "hold" /\ k.op = "finish" /\ k.st = NewState(j)
                   /\ j.op = "close" /\ lock' = lock
             /\ UNCHANGED <<game, db, counters, due, events>>
<1> DEFINE j == job[p]
           plan == Plan("finish", NewState(j), "none")
<1>1. j.at = "written" /\ IsChange(j)
  BY JobKinds DEF Shapes, JobShape, Changing, Save
<1>2. st' = NewState(j) /\ clock' \in {"ready", "open"} /\ me' = Results(j)
      /\ UNCHANGED <<game, db, counters, due, events>>
  BY DEF Save
<1>3. CASE j.then # "finish"
  <2>1. job' = [job EXCEPT ![p] = Idle] /\ lock' = None
    BY <1>3 DEF Save
  <2> QED
    BY <1>1, <1>2, <2>1, IdleIsAJob
<1>4. CASE j.then = "finish"
  <2>1. job' = [job EXCEPT ![p] = plan] /\ lock' = lock
    BY <1>4 DEF Save
  <2>2. j.op = "close"
    BY <1>1, <1>4, ChangeParts
  <2>3. /\ IsState(NewState(j)) /\ NewState(j).ph = PhaseAfter(j.op)
        /\ PhaseAfter(j.op) = "question" <=> j.op = "open"
        /\ PhaseAfter(j.op) = "finished" <=> j.op = "finish"
    BY <1>1, NewStateShape DEF Shapes
  <2>4. NewState(j).ph # "question" /\ NewState(j).ph # "finished"
    BY <2>2, <2>3
  <2>5. IsChange(plan) /\ IsJob(plan)
    BY <2>3, <2>4, PlanIsAJob
  <2>6. plan.at = "hold" /\ plan.op = "finish" /\ plan.st = NewState(j)
    BY DEF Plan
  <2> QED
    BY <1>1, <1>2, <2>1, <2>2, <2>5, <2>6
<1> QED
  BY <1>3, <1>4

LEMMA JobForms ==
    /\ \A q \in Question : IsJob(WantClose(q))
    /\ \A v \in Nat : IsJob([at |-> "want", what |-> "due", v |-> v])
    /\ \A q \in Question : \A r : IsAnswer(r, q) => IsJob([at |-> "answer", q |-> q, row |-> r])
    /\ \A q \in Question : IsJob([at |-> "count", q |-> q])
    /\ \A q \in Question, n \in Int : IsJob([at |-> "check", q |-> q, n |-> n])
    /\ \A n \in Int : IsJob([at |-> "join", n |-> n])
    /\ \A ph, i : Place(ph, i) => IsJob([at |-> "rebuild", s |-> [ph |-> ph, i |-> i]])
    /\ IsJob([at |-> "lookup"]) /\ IsJob([at |-> "recount"])
    /\ \A n \in Int : IsJob([at |-> "refill", n |-> n])
<1>1. \A q \in Question : IsJob(WantClose(q))
  BY DEF IsJob, WantClose
<1>2. \A v \in Nat : IsJob([at |-> "want", what |-> "due", v |-> v])
  BY DEF IsJob
<1>3. \A q \in Question : \A r : IsAnswer(r, q) => IsJob([at |-> "answer", q |-> q, row |-> r])
  BY DEF IsJob
<1>4. \A q \in Question : IsJob([at |-> "count", q |-> q])
  BY DEF IsJob
<1>5. \A q \in Question, n \in Int : IsJob([at |-> "check", q |-> q, n |-> n])
  BY DEF IsJob
<1>6. \A n \in Int : IsJob([at |-> "join", n |-> n])
  BY DEF IsJob
<1>7. \A ph, i : Place(ph, i) => IsJob([at |-> "rebuild", s |-> [ph |-> ph, i |-> i]])
  BY DEF IsJob, Place
<1>8. IsJob([at |-> "lookup"]) /\ IsJob([at |-> "recount"])
  BY DEF IsJob
<1>9. \A n \in Int : IsJob([at |-> "refill", n |-> n])
  BY DEF IsJob
<1> QED
  BY <1>1, <1>2, <1>3, <1>4, <1>5, <1>6, <1>7, <1>8, <1>9

-----------------------------------------------------------------------------
(* The shapes are kept *)

LEMMA ShapesInit ==
    ASSUME Init
    PROVE  Shapes
<1>1. game \in Games
  BY DEF Init
<1>2. N \in Nat \ {0} /\ Question = 1..N /\ game.here \in Seq(Player)
  BY <1>1, GameFacts
<1>3. DbShape
  BY <1>2 DEF DbShape, Place, Init, NewPlayer, Statuses
<1>4. AnswerShape
  BY DEF AnswerShape, Init
<1>5. StateShape
  BY <1>2 DEF StateShape, IsState, Place, States, Statuses, Init
<1>6. CountShape
  BY <1>2 DEF CountShape, Init
<1>7. KeyShape
  BY DEF KeyShape, Init
<1>8. JobShape
  BY IdleIsAJob DEF JobShape, Init
<1> QED
  BY <1>1, <1>3, <1>4, <1>5, <1>6, <1>7, <1>8 DEF Shapes

LEMMA CommitKeepsShapes ==
    ASSUME Shapes, NEW p \in Proc, Commit(p)
    PROVE  Shapes'
<1>1. PICK j, w :
        /\ j = job[p] /\ IsChange(j) /\ j.at = "hold"
        /\ job' = [job EXCEPT ![p] = w] /\ IsJob(w)
        /\ player' = Updated(j.rows)
        /\ status' = PhaseAfter(j.op)
        /\ current' = IF j.op = "open" THEN j.st.i + 1 ELSE current
        /\ na' = IF j.op = "open" THEN [na EXCEPT ![j.st.i + 1] = 0] ELSE na
        /\ ns' = IF j.op = "open" THEN [ns EXCEPT ![j.st.i + 1] = 0] ELSE ns
        /\ UNCHANGED <<game, joined, answers, st, clock, np, marks, me, due, lock, events>>
  BY CommitDoes
<1>2. game \in Games /\ N \in Nat \ {0} /\ Question = 1..N
  BY GameFacts DEF Shapes
<1>3. /\ PhaseAfter(j.op) \in Statuses \ {"lobby"} /\ (PhaseAfter(j.op) = "question" <=> j.op = "open")
      /\ j.op = "open" => j.st.i + 1 \in Question
  BY <1>1, <1>2, NewStateShape
<1>4. Place(status, current)'
  <2>1. Place(status', current')
    BY <1>1, <1>2, <1>3 DEF Place, Shapes, DbShape
  <2> QED
    BY <2>1, <1>1, SameGame DEF Place
<1>5. SomeRows(j.rows, NewResults) \/ SomeRows(j.rows, NewPlaces) \/ j.rows = <<>>
  BY <1>1, ChangeParts
<1>6. DbShape'
  <2>1. joined' \in Seq(Player)
    BY <1>1 DEF Shapes, DbShape
  <2>2. player' \in [Player -> [score : Nat, streak : Nat, correct : Nat, rank : Nat \cup {None}, is_removed : BOOLEAN]]
    BY <1>1, <1>5, UpdatedShape DEF Shapes
  <2> QED
    BY <1>4, <2>1, <2>2 DEF DbShape
<1>7. CountShape'
  <2>1. na' \in [Question -> Int \cup {None}] /\ ns' \in [Question -> Nat \cup {None}]
    BY <1>1, <1>3 DEF Shapes, CountShape
  <2> QED
    BY <1>1, <2>1, SameGame DEF Shapes, CountShape
<1>8. JobShape'
  BY <1>1, JobMoves DEF Shapes
<1> QED
  BY <1>1, <1>6, <1>7, <1>8, Stays DEF Shapes

LEMMA SaveKeepsShapes ==
    ASSUME Shapes, NEW p \in Proc, Save(p)
    PROVE  Shapes'
<1>1. PICK j, k :
        /\ j = job[p] /\ IsChange(j)
        /\ st' = NewState(j) /\ clock' \in {"ready", "open"}
        /\ me' = Results(j)
        /\ job' = [job EXCEPT ![p] = k] /\ IsJob(k)
        /\ lock' \in {None, lock}
        /\ UNCHANGED <<game, db, counters, due, events>>
  BY SaveDoes
<1>2. IsState(NewState(j))
  BY <1>1, NewStateShape DEF Shapes
<1>3. StateShape'
  <2>1. IsState(st')
    BY <1>1, <1>2
  <2> QED
    BY <1>1, <2>1, SameGame DEF StateShape, IsState, Place
<1>4. KeyShape'
  <2>1. j.op = "close" => SomeRows(j.rows, NewResults)
    BY <1>1, ChangeParts
  <2>2. me' \in [Player -> Nat \cup {None}]
    BY <1>1, <2>1 DEF Results, SomeRows, NewResults, Shapes, KeyShape
  <2> QED
    BY <1>1, <2>2 DEF Shapes, KeyShape
<1>5. JobShape'
  BY <1>1, JobMoves DEF Shapes
<1> QED
  BY <1>1, <1>3, <1>4, <1>5, Stays DEF Shapes, db, counters

\* Move and Press.
LEMMA EnterKeepsShapes ==
    ASSUME Shapes, NEW p \in Proc, NEW want, Enter(p, want),
           UNCHANGED <<game, db, st, clock, counters, me, due, events>>
    PROVE  Shapes'
<1>1. PICK k : job' = [job EXCEPT ![p] = k] /\ IsJob(k)
  BY EnterDoes, IdleIsAJob
<1>2. JobShape'
  BY <1>1, JobMoves DEF Shapes
<1>3. lock' \in {lock, p}
  BY EnterDoes
<1>4. KeyShape'
  BY <1>3 DEF Shapes, KeyShape
<1> QED
  BY <1>2, <1>4, Stays DEF Shapes, db, counters

\* Pauses, ticks, polls and keys that expire.
LEMMA TimersKeepShapes ==
    ASSUME Shapes,
           \/ \E on \in BOOLEAN : Pause(on)
           \/ Tick
           \/ \E p \in Proc : Poll(p) \/ GiveUp(p)
           \/ ClaimExpires
           \/ LockExpires
    PROVE  Shapes'
<1>1. ASSUME NEW on \in BOOLEAN, Pause(on)  PROVE Shapes'
  <2>1. st # None /\ st' = [st EXCEPT !.paused = on, !.v = @ + 1] /\ events' \in {events, events + 1}
        /\ UNCHANGED <<game, db, clock, counters, me, due, lock, job>>
    BY <1>1 DEF Pause
  <2>2. IsState(st)
    BY <2>1 DEF Shapes, StateShape
  <2>3. PICK ph \in Statuses, i \in Nat, v \in Nat, b \in BOOLEAN : st = [ph |-> ph, i |-> i, v |-> v, paused |-> b]
    BY <2>2 DEF IsState, States
  <2>4. st' = [ph |-> ph, i |-> i, v |-> v + 1, paused |-> on]
    BY <2>1, <2>3
  <2>5. IsState(st')
    BY <2>2, <2>3, <2>4 DEF IsState, States
  <2>6. StateShape'
    BY <2>1, <2>5, SameGame DEF Shapes, StateShape, IsState, Place
  <2>7. KeyShape'
    BY <2>1 DEF Shapes, KeyShape
  <2>8. JobShape'
    BY <2>1, JobsStay DEF Shapes
  <2> QED
    BY <2>1, <2>6, <2>7, <2>8, Stays DEF Shapes, db, counters
<1>2. CASE Tick
  <2>1. UNCHANGED <<game, db, st, counters, me, due, lock, job, events>> /\ clock' = Later[clock] /\ clock # "up"
    BY <1>2 DEF Tick, OutOfTime
  <2>2. clock' \in {"early", "open", "up"}
    BY <2>1 DEF Later, Shapes, StateShape
  <2>3. StateShape'
    BY <2>1, <2>2, SameGame DEF Shapes, StateShape
  <2>4. JobShape'
    BY <2>1, JobsStay DEF Shapes
  <2> QED
    BY <2>1, <2>3, <2>4, Stays DEF Shapes, db, counters
<1>3. ASSUME NEW p \in Proc, Poll(p)  PROVE Shapes'
  <2>1. /\ st # None /\ due' = st.v
        /\ job' = [job EXCEPT ![p] = [at |-> "want", what |-> "due", v |-> st.v]]
        /\ UNCHANGED <<game, db, st, clock, counters, me, lock, events>>
    BY <1>3 DEF Poll
  <2>2. st.v \in Nat
    BY <2>1 DEF Shapes, StateShape, IsState, States
  <2>3. JobShape'
    BY <2>1, <2>2, JobForms, JobMoves DEF Shapes
  <2>4. KeyShape'
    BY <2>1, <2>2 DEF Shapes, KeyShape
  <2> QED
    BY <2>1, <2>3, <2>4, Stays DEF Shapes, db, counters
<1>4. ASSUME NEW p \in Proc, GiveUp(p)  PROVE Shapes'
  <2>1. job' = [job EXCEPT ![p] = Idle] /\ UNCHANGED <<game, db, cache, events>>
    BY <1>4 DEF GiveUp
  <2>2. UNCHANGED <<st, clock, np, na, ns, marks, me, due, lock>>
    BY <2>1 DEF cache, counters
  <2>3. JobShape'
    BY <2>1, IdleIsAJob, JobMoves DEF Shapes
  <2> QED
    BY <2>1, <2>2, <2>3, Stays DEF Shapes, db
<1>5. CASE ClaimExpires
  <2>1. due' = 0 /\ UNCHANGED <<game, db, st, clock, counters, me, lock, job, events>>
    BY <1>5 DEF ClaimExpires
  <2>2. KeyShape'
    BY <2>1 DEF Shapes, KeyShape
  <2>3. JobShape'
    BY <2>1, JobsStay DEF Shapes
  <2> QED
    BY <2>1, <2>2, <2>3, Stays DEF Shapes, db, counters
<1>6. CASE LockExpires
  <2>1. lock' = None /\ events' \in {events, events + 1} /\ UNCHANGED <<game, db, st, clock, counters, me, due, job>>
    BY <1>6 DEF LockExpires
  <2>2. KeyShape'
    BY <2>1 DEF Shapes, KeyShape
  <2>3. JobShape'
    BY <2>1, JobsStay DEF Shapes
  <2> QED
    BY <2>1, <2>2, <2>3, Stays DEF Shapes, db, counters
<1> QED
  BY <1>1, <1>2, <1>3, <1>4, <1>5, <1>6

\* Questions fetched, and answers from the mark to the look at the counters.
LEMMA AnswersKeepShapes ==
    ASSUME Shapes, NEW p \in Player,
           \/ Fetch(p) \/ Store(p) \/ Count(p) \/ Check(p)
           \/ \E t \in Tries : Answer(p, t)
    PROVE  Shapes'
<1>1. game \in Games /\ N \in Nat \ {0} /\ Question = 1..N /\ p \in Proc
  BY GameFacts DEF Shapes, Proc
<1>2. st # None /\ st.ph = "question" => st.i \in Question
  BY <1>1 DEF Shapes, StateShape, IsState, Place
<1>3. CASE Fetch(p)
  <2>1. /\ st.i \in Question
        /\ marks' = marks \cup {<<"seen", st.i, p>>}
        /\ ns' = [ns EXCEPT ![st.i] = IF @ = None THEN 1 ELSE @ + 1]
        /\ UNCHANGED <<game, db, st, clock, np, na, me, due, lock, job, events>>
    BY <1>2, <1>3 DEF Fetch
  <2>2. ns' \in [Question -> Nat \cup {None}]
    BY <2>1 DEF Shapes, CountShape
  <2>3. CountShape'
    BY <2>1, <2>2, SameGame DEF Shapes, CountShape
  <2>4. JobShape'
    BY <2>1, JobsStay DEF Shapes
  <2> QED
    BY <2>1, <2>3, <2>4, Stays DEF Shapes, db
<1>4. CASE Store(p)
  <2> DEFINE j == job[p]
  <2>1. j.at = "answer" /\ UNCHANGED <<game, status, current, joined, player, cache, events>>
    BY <1>4 DEF Store
  <2>2. j.q \in Question /\ IsAnswer(j.row, j.q)
    BY <1>1, <2>1, JobKinds DEF Shapes, JobShape
  <2>3. CASE Refused(p, j.q)
    <3>1. job' = [job EXCEPT ![p] = Idle] /\ UNCHANGED answers
      BY <1>4, <2>3 DEF Store
    <3>2. JobShape'
      BY <1>1, <2>1, <3>1, IdleIsAJob, JobMoves DEF Shapes
    <3> QED
      BY <2>1, <3>1, <3>2, Stays DEF Shapes, cache, counters
  <2>4. CASE ~Refused(p, j.q)
    <3>1. /\ answers' = [answers EXCEPT ![p][j.q] = j.row]
          /\ job' = [job EXCEPT ![p] = [at |-> "count", q |-> j.q]]
      BY <1>4, <2>4 DEF Store
    <3>2. JobShape'
      BY <1>1, <2>1, <2>2, <3>1, JobForms, JobMoves DEF Shapes
    <3>3. PICK q, r : q = j.q /\ r = j.row
      OBVIOUS
    <3>4. q \in Question /\ IsAnswer(r, q) /\ answers' = [answers EXCEPT ![p][q] = r]
      BY <2>2, <3>1, <3>3
    <3>5. DOMAIN answers' = Player
      BY <3>4 DEF Shapes, AnswerShape
    <3>6. \A o \in Player : answers'[o] = [x \in Question |-> answers'[o][x]]
      BY <3>4 DEF Shapes, AnswerShape
    <3>7. \A o \in Player, x \in Question : answers'[o][x] = IF o = p /\ x = q THEN r ELSE answers[o][x]
      BY <3>4 DEF Shapes, AnswerShape
    <3>8. \A o \in Player, x \in Question : answers'[o][x] = None \/ IsAnswer(answers'[o][x], x)
      BY <3>4, <3>7 DEF Shapes, AnswerShape
    <3>9. AnswerShape'
      <4>1. PICK f : f = answers'
        OBVIOUS
      <4>2. \A o \in Player, x \in Question : f[o][x] = None \/ IsAnswer(f[o][x], x)'
        BY <2>1, <3>8, <4>1, SameGame
      <4> QED
        BY <2>1, <3>5, <3>6, <4>1, <4>2, SameGame DEF AnswerShape
    <3> QED
      BY <2>1, <3>2, <3>9, Stays DEF Shapes, cache, counters
  <2> QED
    BY <2>3, <2>4
<1>5. CASE Count(p)
  <2> DEFINE q == job[p].q
             n == IF na[q] = None THEN 1 ELSE na[q] + 1
  <2>1. /\ job[p].at = "count" /\ na' = [na EXCEPT ![q] = n]
        /\ job' = [job EXCEPT ![p] = [at |-> "check", q |-> q, n |-> n]]
        /\ UNCHANGED <<game, db, st, clock, np, ns, marks, me, due, lock, events>>
    BY <1>5 DEF Count
  <2>2. q \in Question
    BY <1>1, <2>1, JobKinds DEF Shapes, JobShape
  <2>3. n \in Int
    BY <2>2 DEF Shapes, CountShape
  <2>4. JobShape'
    BY <1>1, <2>1, <2>2, <2>3, JobForms, JobMoves DEF Shapes
  <2>5. na' \in [Question -> Int \cup {None}]
    BY <2>1, <2>2, <2>3 DEF Shapes, CountShape
  <2>6. CountShape'
    BY <2>1, <2>5, SameGame DEF Shapes, CountShape
  <2> QED
    BY <2>1, <2>4, <2>6, Stays DEF Shapes, db
<1>6. CASE Check(p)
  <2>1. job[p].at = "check" /\ UNCHANGED <<game, db, cache, events>>
    BY <1>6 DEF Check
  <2>2. job[p].q \in Question
    BY <1>1, <2>1, JobKinds DEF Shapes, JobShape
  <2>3. \E k \in {WantClose(job[p].q), Idle} : job' = [job EXCEPT ![p] = k]
    BY <1>6 DEF Check
  <2>4. JobShape'
    BY <1>1, <2>1, <2>2, <2>3, JobForms, IdleIsAJob, JobMoves DEF Shapes
  <2>5. UNCHANGED <<st, clock, np, na, ns, marks, me, due, lock>>
    BY <2>1 DEF cache, counters
  <2> QED
    BY <2>1, <2>4, <2>5, Stays DEF Shapes, db
<1>7. ASSUME NEW t \in Tries, Answer(p, t)  PROVE Shapes'
  <2>1. PICK k : /\ k = IF me[p] = None THEN 0 ELSE me[p]
                 /\ job' = [job EXCEPT ![p] = [at |-> "answer", q |-> st.i, row |-> Row(game.keys[st.i], t, k)]]
    BY <1>7 DEF Answer
  <2>2. /\ st # None /\ st.ph = "question" /\ marks' = marks \cup {<<"a", st.i, p>>}
        /\ UNCHANGED <<game, db, st, clock, np, na, ns, me, due, lock, events>>
    BY <1>7 DEF Answer
  <2>3. st.i \in Question /\ t \in game.tries[st.i] /\ k \in Nat
    BY <1>1, <1>2, <2>1, <2>2 DEF Tries, Shapes, KeyShape
  <2>4. IsAnswer(Row(game.keys[st.i], t, k), st.i)
    BY <1>1, <2>3, RowIsAnAnswer
  <2>5. JobShape'
    BY <1>1, <2>1, <2>2, <2>3, <2>4, JobForms, JobMoves DEF Shapes
  <2>6. CountShape'
    BY <2>2, <2>3, SameGame DEF Shapes, CountShape
  <2> QED
    BY <2>2, <2>5, <2>6, Stays DEF Shapes, db
<1> QED
  BY <1>3, <1>4, <1>5, <1>6, <1>7

\* Those who come and those who are removed.
LEMMA PlayersKeepShapes ==
    ASSUME Shapes, NEW p \in Player, Join(p) \/ Joined(p) \/ Kick(p)
    PROVE  Shapes'
<1>1. game \in Games /\ N \in Nat \ {0} /\ Question = 1..N /\ p \in Proc /\ Host \in Proc
  BY GameFacts DEF Shapes, Proc
<1>2. IsFiniteSet(Active) /\ Active \subseteq Player
  BY ActiveIsFinite DEF Shapes
<1>3. CASE Join(p)
  <2>1. PICK n : /\ n = (IF np = None THEN Cardinality(Active) ELSE np) + 1
                 /\ np' = n /\ job' = [job EXCEPT ![p] = [at |-> "join", n |-> n]]
    BY <1>3 DEF Join
  <2>2. UNCHANGED <<game, db, st, clock, na, ns, marks, me, due, lock, events>>
    BY <1>3 DEF Join
  <2>3. n \in Int
    BY <1>2, <2>1, FS_CardinalityType DEF Shapes, CountShape
  <2>4. JobShape'
    BY <1>1, <2>1, <2>2, <2>3, JobForms, JobMoves DEF Shapes
  <2>5. CountShape'
    BY <2>1, <2>2, <2>3, SameGame DEF Shapes, CountShape
  <2> QED
    BY <2>2, <2>4, <2>5, Stays DEF Shapes, db
<1>4. CASE Joined(p)
  <2>1. /\ job' = [job EXCEPT ![p] = Idle]
        /\ UNCHANGED <<game, status, current, player, answers, st, clock, na, ns, marks, me, due, lock, events>>
        /\ np' \in {np, None, np - 1} /\ (np = None => np' = None)
        /\ joined' = joined \/ joined' = Append(joined, p)
    BY <1>4 DEF Joined, GiveBack
  <2>2. JobShape'
    BY <1>1, <2>1, IdleIsAJob, JobMoves DEF Shapes
  <2>3. CountShape'
    BY <2>1, SameGame DEF Shapes, CountShape
  <2>4. joined' \in Seq(Player)
    <3>1. joined \in Seq(Player)
      BY DEF Shapes, DbShape
    <3>2. Append(joined, p) \in Seq(Player)
      BY <3>1
    <3> QED
      BY <2>1, <3>1, <3>2
  <2>5. DbShape'
    BY <2>1, <2>4, SameGame DEF Shapes, DbShape
  <2> QED
    BY <2>1, <2>2, <2>3, <2>5, Stays DEF Shapes
<1>5. CASE Kick(p)
  <2>1. /\ st # None
        /\ player' = [player EXCEPT ![p].is_removed = TRUE]
        /\ marks' = marks \cup {<<"x", p>>}
        /\ np' = IF np = None THEN None ELSE np - 1
        /\ UNCHANGED <<game, status, current, joined, answers, st, clock, ns, me, due, lock, events>>
    BY <1>5 DEF Kick, GiveBack
  <2>2. st.ph = "question" => st.i \in Question
    BY <1>1, <2>1 DEF Shapes, StateShape, IsState, Place
  <2>3. /\ st.ph = "question" => na' = [na EXCEPT ![st.i] = CountWithout(p, st.i)]
        /\ st.ph # "question" => na' = na
    BY <1>5 DEF Kick
  <2>4. na' \in [Question -> Int \cup {None}]
    BY <2>2, <2>3 DEF CountWithout, Shapes, CountShape
  <2>5. CountShape'
    BY <2>1, <2>4, SameGame DEF Shapes, CountShape
  <2>6. player' \in [Player -> [score : Nat, streak : Nat, correct : Nat, rank : Nat \cup {None}, is_removed : BOOLEAN]]
    BY <2>1 DEF Shapes, DbShape
  <2>7. DbShape'
    BY <2>1, <2>6, SameGame DEF Shapes, DbShape
  <2>8. \/ job' = job
        \/ st.ph = "question" /\ \E k \in {WantClose(st.i), Idle} : job' = [job EXCEPT ![Host] = k]
    BY <1>5 DEF Kick
  <2>9. JobShape'
    BY <1>1, <2>1, <2>2, <2>8, JobForms, IdleIsAJob, JobMoves, JobsStay DEF Shapes
  <2> QED
    BY <2>1, <2>5, <2>7, <2>9, Stays DEF Shapes
<1> QED
  BY <1>3, <1>4, <1>5

\* The steps in which a lost count of players is made anew.
Refills(p) == Lookup(p) \/ Recount(p) \/ Refill(p)

LEMMA RefillsDo ==
    ASSUME Shapes, NEW p \in Proc, Refills(p)
    PROVE  /\ \E k : job' = [job EXCEPT ![p] = k] /\ IsJob(k) /\ k.at \in {"idle", "recount", "refill"}
           /\ job[p].at \in {"lookup", "recount", "refill"}
           /\ np' = np \/ np' \in Int
           /\ UNCHANGED <<game, status, current, joined, player, answers, st, clock, na, ns, marks,
                          me, due, lock, events>>
<1>1. CASE Lookup(p)
  <2>1. PICK k : k \in {[at |-> "recount"], Idle} /\ job' = [job EXCEPT ![p] = k]
    BY <1>1 DEF Lookup
  <2>2. IsJob(k) /\ k.at \in {"idle", "recount", "refill"}
    BY <2>1, JobForms, IdleIsAJob DEF Idle
  <2> QED
    BY <1>1, <2>1, <2>2 DEF Lookup, db, cache, counters
<1>2. CASE Recount(p)
  <2>1. Cardinality(Active) \in Int
    BY ActiveIsFinite, FS_CardinalityType DEF Shapes
  <2>2. PICK k : k = [at |-> "refill", n |-> Cardinality(Active)]
    OBVIOUS
  <2>3. IsJob(k) /\ k.at \in {"idle", "recount", "refill"}
    BY <2>1, <2>2, JobForms
  <2> QED
    BY <1>2, <2>2, <2>3 DEF Recount, db, cache, counters
<1>3. CASE Refill(p)
  <2>1. job[p].at = "refill" /\ np' = job[p].n /\ job' = [job EXCEPT ![p] = Idle]
    BY <1>3 DEF Refill
  <2>2. job[p].n \in Int
    BY <2>1, JobKinds DEF Shapes, JobShape
  <2>3. IsJob(Idle) /\ Idle.at \in {"idle", "recount", "refill"}
    BY IdleIsAJob DEF Idle
  <2> QED
    BY <1>3, <2>1, <2>2, <2>3 DEF Refill, db
<1> QED
  BY <1>1, <1>2, <1>3 DEF Refills

LEMMA FaultsKeepShapes ==
    ASSUME Shapes, Faults
    PROVE  Shapes'
<1>1. game \in Games
  BY DEF Shapes
<1>2. CASE Lost
  <2>1. /\ st' = None /\ np' = None /\ marks' = {} /\ due' = 0 /\ lock' = None /\ events' = events + 1
        /\ na' = [q \in Question |-> None] /\ ns' = [q \in Question |-> None]
        /\ me' = [p \in Player |-> None]
        /\ UNCHANGED <<game, db, clock, job>>
    BY <1>2 DEF Lost
  <2>2. StateShape' /\ KeyShape'
    BY <2>1 DEF Shapes, StateShape, KeyShape
  <2>3. CountShape'
    BY <2>1, SameGame DEF CountShape
  <2>4. JobShape'
    BY <2>1, JobsStay DEF Shapes
  <2> QED
    BY <2>1, <2>2, <2>3, <2>4, Stays DEF Shapes, db
<1>3. ASSUME NEW p \in Proc, Killed(p)  PROVE Shapes'
  <2>1. events' = events + 1 /\ job' = [job EXCEPT ![p] = Idle] /\ UNCHANGED <<game, db, cache>>
    BY <1>3 DEF Killed
  <2>2. UNCHANGED <<st, clock, np, na, ns, marks, me, due, lock>>
    BY <2>1 DEF cache, counters
  <2>3. JobShape'
    BY <2>1, IdleIsAJob, JobMoves DEF Shapes
  <2>4. KeyShape'
    BY <2>1, <2>2 DEF Shapes, KeyShape
  <2> QED
    BY <2>1, <2>2, <2>3, <2>4, Stays DEF Shapes, db
<1>4. ASSUME NEW p \in Proc, Rebuild(p)  PROVE Shapes'
  <2>1. job' = [job EXCEPT ![p] = [at |-> "rebuild", s |-> [ph |-> status, i |-> current]]]
        /\ UNCHANGED <<game, db, cache, events>>
    BY <1>4 DEF Rebuild, Stored
  <2>2. Place(status, current)
    BY DEF Shapes, DbShape
  <2>3. JobShape'
    BY <2>1, <2>2, JobForms, JobMoves DEF Shapes
  <2>4. UNCHANGED <<st, clock, np, na, ns, marks, me, due, lock>>
    BY <2>1 DEF cache, counters
  <2> QED
    BY <2>1, <2>3, <2>4, Stays DEF Shapes, db
<1>5. ASSUME NEW p \in Proc, Rebuilt(p)  PROVE Shapes'
  <2>1. PICK s : s = job[p].s
    OBVIOUS
  <2>2. /\ job[p].at = "rebuild"
        /\ st' = [ph |-> s.ph, i |-> s.i, v |-> 1000 * events, paused |-> FALSE]
        /\ clock' \in {"early", "open"}
        /\ job' = [job EXCEPT ![p] = [at |-> "lookup"]]
        /\ UNCHANGED <<game, db, np, na, ns, marks, me, due, lock, events>>
    BY <1>5, <2>1 DEF Rebuilt, counters
  <2>3. s.ph \in Statuses /\ s.i \in Nat /\ Place(s.ph, s.i)
    BY <2>1, <2>2, JobKinds DEF Shapes, JobShape
  <2>4. IsState(st')
    BY <2>2, <2>3 DEF IsState, States, Shapes, KeyShape
  <2>5. StateShape'
    BY <2>2, <2>4, SameGame DEF StateShape, IsState, Place
  <2>6. JobShape'
    BY <2>2, JobForms, JobMoves DEF Shapes
  <2> QED
    BY <2>2, <2>5, <2>6, Stays DEF Shapes, db
<1>6. ASSUME NEW p \in Proc, Refills(p)  PROVE Shapes'
  <2>1. PICK k : job' = [job EXCEPT ![p] = k] /\ IsJob(k)
    BY <1>6, RefillsDo
  <2>2. /\ np' = np \/ np' \in Int
        /\ UNCHANGED <<game, status, current, joined, player, answers, st, clock, na, ns, marks,
                       me, due, lock, events>>
    BY <1>6, RefillsDo
  <2>3. CountShape'
    BY <2>2, SameGame DEF Shapes, CountShape
  <2>4. JobShape'
    BY <2>1, <2>2, JobMoves DEF Shapes
  <2> QED
    BY <2>2, <2>3, <2>4, Stays DEF Shapes
<1> QED
  BY <1>2, <1>3, <1>4, <1>5, <1>6 DEF Faults, Refills

LEMMA ShapesStep ==
    ASSUME Shapes, [Next]_vars
    PROVE  Shapes'
<1>1. ASSUME NEW p \in Proc, Move(p)  PROVE Shapes'
  <2>1. Enter(p, job[p]) /\ UNCHANGED <<game, db, st, clock, counters, me, due, events>>
    BY <1>1 DEF Move
  <2> QED
    BY <2>1, EnterKeepsShapes
<1>2. ASSUME NEW p \in Proc, NEW what \in {"next", "skip", "end"}, Press(p, what)  PROVE Shapes'
  <2>1. Enter(p, [what |-> what]) /\ UNCHANGED <<game, db, st, clock, counters, me, due, events>>
    BY <1>2 DEF Press
  <2> QED
    BY <2>1, EnterKeepsShapes
<1>3. CASE Phases
  BY <1>1, <1>2, <1>3, CommitKeepsShapes, SaveKeepsShapes, TimersKeepShapes DEF Phases
<1>4. CASE Phones
  BY <1>4, AnswersKeepShapes, PlayersKeepShapes DEF Phones
<1>5. CASE Faults
  BY <1>5, FaultsKeepShapes
<1>6. CASE UNCHANGED vars
  <2>1. UNCHANGED <<game, db, st, clock, np, na, ns, marks, me, due, lock, job, events>>
    BY <1>6 DEF vars, cache, counters
  <2>2. JobShape'
    BY <2>1, JobsStay DEF Shapes
  <2> QED
    BY <2>1, <2>2, Stays DEF Shapes, db
<1> QED
  BY <1>3, <1>4, <1>5, <1>6 DEF Next

\* What every value looks like follows from the shapes.
LEMMA ShapesAreTypes ==
    ASSUME Shapes
    PROVE  TypeOK
<1>1. status \in Statuses /\ current \in 0..N /\ Range(joined) \subseteq Player
  BY DEF Shapes, DbShape, Place, Range
<1>2. \A p \in Player :
        /\ player[p].score \in Nat /\ player[p].streak \in Nat /\ player[p].correct \in Nat
        /\ player[p].rank \in Nat \cup {None} /\ player[p].is_removed \in BOOLEAN
        /\ me[p] \in Nat \cup {None}
  BY DEF Shapes, DbShape, KeyShape
<1>3. st = None \/ (st.ph \in Statuses /\ st.i \in 0..N /\ st.v \in Nat /\ st.paused \in BOOLEAN)
  BY DEF Shapes, StateShape, IsState, States, Place
<1>4. /\ clock \in {"ready", "early", "open", "up"} /\ np \in Int \cup {None}
      /\ \A q \in Question : na[q] \in Int \cup {None} /\ ns[q] \in Nat \cup {None}
      /\ lock \in Proc \cup {None}
  BY DEF Shapes, StateShape, CountShape, KeyShape
<1>5. \A p \in Proc : job[p].at \in {"idle", "want", "hold", "written", "answer",
                                      "count", "check", "join"} \cup Renewing
  BY JobKinds DEF Shapes, JobShape, Renewing
<1> QED
  BY <1>1, <1>2, <1>3, <1>4, <1>5 DEF TypeOK

\* Every value has its shape, in whatever order requests, timers and faults come.
THEOREM ShapesHold == Spec => []Shapes
<1>1. Init => Shapes
  BY ShapesInit
<1>2. Shapes /\ [Next]_vars => Shapes'
  BY ShapesStep
<1> QED
  BY <1>1, <1>2, PTL DEF Spec

\* Every value has its type in every game: the status and the number of the
\* question go together, no question is opened after the last one, and every
\* request is at a place it can go on from.
THEOREM TypeCorrect == Spec => []TypeOK
<1>1. Shapes => TypeOK
  BY ShapesAreTypes
<1> QED
  BY <1>1, ShapesHold, PTL

\* No answer earns more than its share, rounded to a point, nor a right one
\* less than half: whatever the question, the time, the streak and the order of
\* the requests.
THEOREM PointsAreAlwaysFair == Spec => []PointsAreFair
<1>1. Shapes => PointsAreFair
  <2> SUFFICES ASSUME Shapes  PROVE PointsAreFair
    OBVIOUS
  <2> QED
    BY DEF Shapes, AnswerShape, PointsAreFair, IsAnswer
<1> QED
  BY <1>1, ShapesHold, PTL

-----------------------------------------------------------------------------
(* Who a step is of *)

\* The requests a phone or the host makes, and those it goes on with.
Began(p) ==
    \/ \E what \in {"next", "skip", "end"} : Press(p, what)
    \/ Poll(p)
    \/ Rebuild(p)
    \/ p \in Player /\ (Join(p) \/ \E t \in Tries : Answer(p, t))
    \/ p = Host /\ \E o \in Player : Kick(o)

WentOn(p) ==
    \/ Commit(p) \/ Save(p) \/ GiveUp(p) \/ Move(p) \/ Killed(p) \/ Rebuilt(p) \/ Refills(p)
    \/ p \in Player /\ (Store(p) \/ Count(p) \/ Check(p) \/ Joined(p))

\* Only its own request changes what a phone has still to do, and the game
\* looked at never changes.
LEMMA WhoMoves ==
    ASSUME JobShape, [Next]_vars
    PROVE  /\ game' = game
           /\ \A p \in Proc : job'[p] = job[p] \/ Began(p) \/ WentOn(p)
<1>1. ASSUME NEW p \in Proc, NEW k, job' = [job EXCEPT ![p] = k]
      PROVE  \A o \in Proc \ {p} : job'[o] = job[o]
  BY <1>1 DEF JobShape
<1>2. ASSUME NEW p \in Proc, Commit(p) \/ Save(p) \/ GiveUp(p) \/ Move(p)
      PROVE  game' = game /\ \A o \in Proc \ {p} : job'[o] = job[o]
  <2>1. CASE Commit(p)
    BY <2>1 DEF Commit, JobShape
  <2>2. CASE Save(p)
    BY <2>2 DEF Save, JobShape
  <2>3. CASE GiveUp(p)
    BY <2>3 DEF GiveUp, JobShape
  <2>4. CASE Move(p)
    BY <2>4 DEF Move, Enter, JobShape
  <2> QED
    BY <1>2, <2>1, <2>2, <2>3, <2>4
<1>3. ASSUME NEW p \in Proc, NEW what \in {"next", "skip", "end"}, Press(p, what)
      PROVE  game' = game /\ \A o \in Proc \ {p} : job'[o] = job[o]
  BY <1>3 DEF Press, Enter, JobShape
<1>4. ASSUME (\E on \in BOOLEAN : Pause(on)) \/ Tick \/ ClaimExpires \/ LockExpires
      PROVE  game' = game /\ job' = job
  BY <1>4 DEF Pause, Tick, ClaimExpires, LockExpires
<1>5. ASSUME NEW p \in Proc, Poll(p)
      PROVE  game' = game /\ \A o \in Proc \ {p} : job'[o] = job[o]
  BY <1>5 DEF Poll, JobShape
<1>6. ASSUME NEW p \in Player, Fetch(p)
      PROVE  game' = game /\ job' = job
  BY <1>6 DEF Fetch
<1>7. ASSUME NEW p \in Player, \/ Store(p) \/ Count(p) \/ Check(p) \/ Join(p) \/ Joined(p)
                               \/ \E t \in Tries : Answer(p, t)
      PROVE  p \in Proc /\ game' = game /\ \A o \in Proc \ {p} : job'[o] = job[o]
  <2>1. CASE Store(p)
    BY <2>1 DEF Store, JobShape, Proc
  <2>2. CASE Count(p)
    BY <2>2 DEF Count, JobShape, Proc
  <2>3. CASE Check(p)
    BY <2>3 DEF Check, JobShape, Proc
  <2>4. CASE Join(p)
    BY <2>4 DEF Join, JobShape, Proc
  <2>5. CASE Joined(p)
    BY <2>5 DEF Joined, JobShape, Proc
  <2>6. CASE \E t \in Tries : Answer(p, t)
    BY <2>6 DEF Answer, JobShape, Proc
  <2> QED
    BY <1>7, <2>1, <2>2, <2>3, <2>4, <2>5, <2>6
<1>8. ASSUME NEW p \in Player, Kick(p)
      PROVE  Host \in Proc /\ game' = game /\ \A o \in Proc \ {Host} : job'[o] = job[o]
  BY <1>8 DEF Kick, JobShape, Proc
<1>9. ASSUME Lost
      PROVE  game' = game /\ job' = job
  BY <1>9 DEF Lost
<1>10. ASSUME NEW p \in Proc, Killed(p) \/ Rebuild(p) \/ Rebuilt(p) \/ Refills(p)
      PROVE  game' = game /\ \A o \in Proc \ {p} : job'[o] = job[o]
  <2>1. CASE Killed(p) \/ Rebuild(p) \/ Rebuilt(p)
    BY <2>1 DEF Killed, Rebuild, Rebuilt, JobShape
  <2>2. CASE Refills(p)
    BY <2>2 DEF Refills, Lookup, Recount, Refill, JobShape
  <2> QED
    BY <1>10, <2>1, <2>2
<1>11. CASE UNCHANGED vars
  BY <1>11 DEF vars
<1>12. CASE Phases
  BY <1>2, <1>3, <1>4, <1>5, <1>12 DEF Phases, Began, WentOn
<1>13. CASE Phones
  <2>1. PICK p \in Player : \/ Fetch(p) \/ Store(p) \/ Count(p) \/ Check(p)
                            \/ \E t \in Tries : Answer(p, t)
                            \/ Join(p) \/ Joined(p) \/ Kick(p)
    BY <1>13 DEF Phones
  <2> QED
    BY <1>6, <1>7, <1>8, <2>1 DEF Began, WentOn
<1>14. CASE Faults
  BY <1>9, <1>10, <1>14 DEF Faults, Began, WentOn, Refills
<1> QED
  BY <1>11, <1>12, <1>13, <1>14 DEF Next

\* A request begins on a phone that has none, and goes on from where it is.
LEMMA FromWhere ==
    ASSUME JobShape, NEW p \in Proc
    PROVE  /\ Began(p) => job[p] = Idle
           /\ Commit(p) => job[p].at = "hold"
           /\ Save(p) => job[p].at = "written"
           /\ GiveUp(p) \/ Move(p) => job[p].at = "want"
           /\ Killed(p) => job[p] # Idle
           /\ Rebuilt(p) => job[p].at = "rebuild"
           /\ Refills(p) => job[p].at \in {"lookup", "recount", "refill"}
           /\ Store(p) => job[p].at = "answer"
           /\ Count(p) => job[p].at = "count"
           /\ Check(p) => job[p].at = "check"
           /\ Joined(p) => job[p].at = "join"
<1>1. Began(p) => job[p] = Idle
  BY DEF Began, Press, Poll, Rebuild, Join, Answer, Kick, Free
<1>2. /\ Commit(p) => job[p].at = "hold"
      /\ Save(p) => job[p].at = "written"
      /\ GiveUp(p) \/ Move(p) => job[p].at = "want"
      /\ Killed(p) => job[p] # Idle
      /\ Rebuilt(p) => job[p].at = "rebuild"
      /\ Refills(p) => job[p].at \in {"lookup", "recount", "refill"}
  BY DEF Commit, Save, GiveUp, Move, Killed, Rebuilt, Free, Refills, Lookup, Recount, Refill
<1>3. /\ Store(p) => job[p].at = "answer"
      /\ Count(p) => job[p].at = "count"
      /\ Check(p) => job[p].at = "check"
      /\ Joined(p) => job[p].at = "join"
  BY DEF Store, Count, Check, Joined
<1> QED
  BY <1>1, <1>2, <1>3

-----------------------------------------------------------------------------
(* Nobody is locked out *)

\* A step makes no mark of an answer but with the answer, and takes no row away.
LEMMA MarksOfAnswers ==
    ASSUME Shapes, [Next]_vars, NEW p \in Player, NEW q \in Question
    PROVE  /\ <<"a", q, p>> \in marks' =>
                 \/ <<"a", q, p>> \in marks
                 \/ job'[p].at = "answer" /\ job'[p].q = q
           /\ answers[p][q] # None => answers'[p][q] = answers[p][q]
           /\ answers'[p][q] # answers[p][q] => Store(p) /\ job[p].q = q
<1> DEFINE m == <<"a", q, p>>
           New == m \in marks' => m \in marks \/ (job'[p].at = "answer" /\ job'[p].q = q)
<1>1. ASSUME UNCHANGED <<marks, answers>>
      PROVE  New /\ answers'[p][q] = answers[p][q]
  BY <1>1
<1>2. ASSUME NEW x \in Proc, Commit(x) \/ Save(x) \/ GiveUp(x) \/ Move(x) \/ Poll(x)
                             \/ Killed(x) \/ Rebuild(x) \/ Rebuilt(x) \/ Refills(x)
      PROVE  UNCHANGED <<marks, answers>>
  BY <1>2, RefillsDo DEF Commit, Save, GiveUp, Move, Poll, Killed, Rebuild, Rebuilt, db, cache, counters
<1>3. ASSUME \/ \E x \in Proc, what \in {"next", "skip", "end"} : Press(x, what)
             \/ \E on \in BOOLEAN : Pause(on)
             \/ Tick \/ ClaimExpires \/ LockExpires
      PROVE  UNCHANGED <<marks, answers>>
  BY <1>3 DEF Press, Pause, Tick, ClaimExpires, LockExpires, db, cache, counters
<1>4. CASE Phases
  BY <1>1, <1>2, <1>3, <1>4 DEF Phases
<1>5. CASE Faults
  <2>1. CASE Lost
    BY <2>1 DEF Lost, db
  <2> QED
    BY <1>1, <1>2, <1>5, <2>1 DEF Faults, Refills
<1>6. ASSUME NEW o \in Player, Fetch(o) \/ Count(o) \/ Check(o) \/ Join(o) \/ Joined(o) \/ Kick(o)
      PROVE  New /\ answers'[p][q] = answers[p][q]
  <2>1. CASE Fetch(o)
    BY <2>1 DEF Fetch, db
  <2>2. CASE Count(o) \/ Check(o) \/ Join(o)
    BY <2>2 DEF Count, Check, Join, db, cache, counters
  <2>3. CASE Joined(o) \/ Kick(o)
    BY <2>3 DEF Joined, Kick
  <2> QED
    BY <1>6, <2>1, <2>2, <2>3
<1>7. ASSUME NEW o \in Player, NEW t \in Tries, Answer(o, t)
      PROVE  New /\ answers'[p][q] = answers[p][q]
  <2>1. PICK row : job' = [job EXCEPT ![o] = [at |-> "answer", q |-> st.i, row |-> row]]
    BY <1>7 DEF Answer
  <2>2. marks' = marks \cup {<<"a", st.i, o>>} /\ answers' = answers
    BY <1>7 DEF Answer, db
  <2>3. o \in Proc
    BY DEF Proc
  <2>4. job'[o].at = "answer" /\ job'[o].q = st.i
    BY <2>1, <2>3 DEF Shapes, JobShape
  <2> QED
    BY <2>2, <2>4
<1>8. ASSUME NEW o \in Player, Store(o)
      PROVE  /\ New
             /\ answers[p][q] # None => answers'[p][q] = answers[p][q]
             /\ answers'[p][q] # answers[p][q] => o = p /\ job[p].q = q
  <2>1. marks' = marks
    BY <1>8 DEF Store, cache, counters
  <2>2. answers' = answers \/ (answers[o][job[o].q] = None /\ answers' = [answers EXCEPT ![o][job[o].q] = job[o].row])
    BY <1>8 DEF Store, Refused
  <2> QED
    BY <2>1, <2>2 DEF Shapes, AnswerShape
<1>9. CASE Phones
  <2>1. PICK o \in Player : \/ Fetch(o) \/ Count(o) \/ Check(o) \/ Join(o) \/ Joined(o) \/ Kick(o)
                            \/ Store(o)
                            \/ \E t \in Tries : Answer(o, t)
    BY <1>9 DEF Phones
  <2> QED
    BY <1>6, <1>7, <1>8, <2>1
<1>10. CASE UNCHANGED vars
  BY <1>1, <1>10 DEF vars, db, cache, counters
<1> QED
  BY <1>4, <1>5, <1>9, <1>10 DEF Next

LEMMA SameEvents ==
    ASSUME game' = game, NEW E
    PROVE  Without(E)' <=> Without(E)
BY DEF Without

LEMMA LockedOutStep ==
    ASSUME Shapes, NobodyIsLockedOut, [Next]_vars
    PROVE  NobodyIsLockedOut'
<1>1. game' = game /\ Question' = Question
  BY WhoMoves, SameGame DEF Shapes
<1>2. ASSUME Without({"killed"}), NEW p \in Player, NEW q \in Question, <<"a", q, p>> \in marks'
      PROVE  answers'[p][q] # None \/ (job'[p].at = "answer" /\ job'[p].q = q)
  <2>1. p \in Proc /\ game \in Games
    BY DEF Proc, Shapes
  <2>2. CASE <<"a", q, p>> \notin marks
    BY <1>2, <2>2, MarksOfAnswers
  <2>3. CASE answers[p][q] # None
    BY <2>3, MarksOfAnswers
  <2>4. CASE job[p].at = "answer" /\ job[p].q = q /\ job'[p] # job[p] /\ answers[p][q] = None
    <3>1. ~Began(p)
      BY <2>1, <2>4, FromWhere DEF Shapes, Idle
    <3>2. ~Killed(p)
      BY <1>2 DEF Killed, May, Without
    <3>3. Store(p)
      BY <2>1, <2>4, <3>1, <3>2, WhoMoves, FromWhere DEF Shapes, WentOn
    <3>4. answers' = [answers EXCEPT ![p][q] = job[p].row]
      BY <2>4, <3>3 DEF Store, Refused
    <3>5. answers'[p][q] = job[p].row
      BY <3>4 DEF Shapes, AnswerShape
    <3>6. job[p].row # None
      BY <2>1, <2>4, JobKinds, StatesAndRows DEF Shapes, JobShape
    <3> QED
      BY <3>5, <3>6
  <2>5. CASE job[p].at = "answer" /\ job[p].q = q /\ job'[p] = job[p]
    BY <2>5
  <2> QED
    BY <1>2, <2>2, <2>3, <2>4, <2>5 DEF NobodyIsLockedOut
<1> QED
  BY <1>1, <1>2, SameEvents DEF NobodyIsLockedOut

-----------------------------------------------------------------------------
(* Where a step leads, and what it leaves alone *)

LEMMA WhereTo ==
    ASSUME Shapes, NEW p \in Proc
    PROVE  /\ Commit(p) => job'[p].at = "written"
           /\ Save(p) => job'[p].at \in {"idle", "hold"}
           /\ Move(p) \/ (\E what \in {"next", "skip", "end"} : Press(p, what)) => job'[p].at \in {"idle", "hold"}
           /\ Poll(p) => job'[p].at = "want"
           /\ Rebuild(p) => job'[p].at = "rebuild"
           /\ GiveUp(p) \/ Killed(p) \/ Joined(p) => job'[p] = Idle
           /\ Rebuilt(p) => job'[p].at = "lookup"
           /\ Refills(p) => job'[p].at \in {"idle", "recount", "refill"}
           /\ Join(p) => job'[p].at = "join"
           /\ (\E t \in Tries : Answer(p, t)) => job'[p].at = "answer" /\ job'[p].q = st.i
           /\ Store(p) => job'[p] = Idle \/ (job'[p].at = "count" /\ job'[p].q = job[p].q)
           /\ Count(p) => job'[p].at = "check" /\ job'[p].q = job[p].q
           /\ Check(p) => job'[p].at \in {"idle", "want"}
           /\ (p = Host /\ \E o \in Player : Kick(o)) => job'[p].at \in {"idle", "want"}
<1>1. DOMAIN job = Proc
  BY DEF Shapes, JobShape
<1>2. Commit(p) => job'[p].at = "written"
  BY <1>1, CommitDoes
<1>3. Save(p) => job'[p].at \in {"idle", "hold"}
  BY <1>1, SaveDoes DEF Idle
<1>4. ASSUME NEW want, Enter(p, want)  PROVE job'[p].at \in {"idle", "hold"}
  <2>1. PICK k : job' = [job EXCEPT ![p] = k] /\ (k = Idle \/ k.at = "hold")
    BY <1>4, EnterDoes DEF Plan
  <2> QED
    BY <1>1, <2>1 DEF Idle
<1>5. Move(p) \/ (\E what \in {"next", "skip", "end"} : Press(p, what)) => job'[p].at \in {"idle", "hold"}
  BY <1>4 DEF Move, Press
<1>6. /\ Poll(p) => job'[p].at = "want"
      /\ Rebuild(p) => job'[p].at = "rebuild"
  BY <1>1 DEF Poll, Rebuild
<1>7. /\ GiveUp(p) \/ Killed(p) \/ Joined(p) => job'[p] = Idle
      /\ Rebuilt(p) => job'[p].at = "lookup"
  BY <1>1 DEF GiveUp, Killed, Rebuilt, Joined
<1>14. Refills(p) => job'[p].at \in {"idle", "recount", "refill"}
  BY <1>1, RefillsDo
<1>8. Join(p) => job'[p].at = "join"
  BY <1>1 DEF Join
<1>9. ASSUME NEW t \in Tries, Answer(p, t)  PROVE job'[p].at = "answer" /\ job'[p].q = st.i
  <2>1. PICK row : job' = [job EXCEPT ![p] = [at |-> "answer", q |-> st.i, row |-> row]]
    BY <1>9 DEF Answer
  <2> QED
    BY <1>1, <2>1
<1>10. Store(p) => job'[p] = Idle \/ (job'[p].at = "count" /\ job'[p].q = job[p].q)
  BY <1>1 DEF Store
<1>11. Count(p) => job'[p].at = "check" /\ job'[p].q = job[p].q
  <2> SUFFICES ASSUME Count(p)  PROVE job'[p].at = "check" /\ job'[p].q = job[p].q
    OBVIOUS
  <2>1. PICK n : job' = [job EXCEPT ![p] = [at |-> "check", q |-> job[p].q, n |-> n]]
    BY DEF Count
  <2> QED
    BY <1>1, <2>1
<1>12. Check(p) => job'[p].at \in {"idle", "want"}
  <2> SUFFICES ASSUME Check(p)  PROVE job'[p].at \in {"idle", "want"}
    OBVIOUS
  <2>1. PICK k \in {WantClose(job[p].q), Idle} : job' = [job EXCEPT ![p] = k]
    BY DEF Check
  <2> QED
    BY <1>1, <2>1 DEF WantClose, Idle
<1>13. ASSUME NEW o \in Player, Kick(o), p = Host  PROVE job'[p].at \in {"idle", "want"}
  <2>1. job[p] = Idle
    BY <1>13 DEF Kick, Free
  <2>2. job' = job \/ \E k \in {WantClose(st.i), Idle} : job' = [job EXCEPT ![p] = k]
    BY <1>13 DEF Kick
  <2> QED
    BY <1>1, <2>1, <2>2 DEF WantClose, Idle
<1> QED
  BY <1>2, <1>3, <1>5, <1>6, <1>7, <1>8, <1>9, <1>10, <1>11, <1>12, <1>13, <1>14

\* A lost count is made anew by who has made the state anew.
LEMMA RefillComes ==
    ASSUME Shapes, [Next]_vars, NEW p \in Proc, job'[p].at \in {"lookup", "recount", "refill"}
    PROVE  job'[p] = job[p] \/ Rebuilt(p) \/ Refills(p)
<1>1. Began(p) => job'[p].at \notin {"lookup", "recount", "refill"}
  BY WhereTo DEF Began
<1>2. WentOn(p) => job'[p].at \notin {"lookup", "recount", "refill"} \/ Rebuilt(p) \/ Refills(p)
  BY WhereTo DEF WentOn, Idle
<1> QED
  BY <1>1, <1>2, WhoMoves DEF Shapes

\* Who writes the state, the count of players, the database and the lock.
LEMMA WhoWrites ==
    ASSUME Shapes, [Next]_vars
    PROVE  /\ \/ st' = st
              \/ \E p \in Proc : Save(p) \/ Rebuilt(p)
              \/ \E on \in BOOLEAN : Pause(on)
              \/ Lost
           /\ np # None /\ np' = None => Lost
           /\ UNCHANGED <<status, current>> \/ \E p \in Proc : Commit(p)
           /\ \/ lock' = lock
              \/ \E p \in Proc : Save(p) \/ Move(p) \/ \E what \in {"next", "skip", "end"} : Press(p, what)
              \/ LockExpires
              \/ Lost
<1> DEFINE S == st' = st
           C == np # None => np' # None
           D == UNCHANGED <<status, current>>
           L == lock' = lock
<1>0. \A p \in Player : p \in Proc
  BY DEF Proc
<1>1. ASSUME NEW p \in Proc, Commit(p)  PROVE S /\ C /\ L
  BY <1>1 DEF Commit
<1>2. ASSUME NEW p \in Proc, Save(p)  PROVE C /\ D
  BY <1>2 DEF Save, db, counters
<1>3. ASSUME NEW p \in Proc, Move(p) \/ \E what \in {"next", "skip", "end"} : Press(p, what)  PROVE S /\ C /\ D
  BY <1>3 DEF Move, Press, db, counters
<1>4. ASSUME NEW p \in Proc, GiveUp(p) \/ Poll(p) \/ Killed(p) \/ Rebuild(p)  PROVE S /\ C /\ D /\ L
  BY <1>4 DEF GiveUp, Poll, Killed, Rebuild, db, cache, counters
<1>5. ASSUME NEW on \in BOOLEAN, Pause(on)  PROVE C /\ D /\ L
  BY <1>5 DEF Pause, db, counters
<1>6. CASE Tick \/ ClaimExpires
  BY <1>6 DEF Tick, ClaimExpires, db, counters
<1>7. CASE LockExpires
  BY <1>7 DEF LockExpires, db, counters
<1>8. ASSUME NEW p \in Player, Fetch(p) \/ Store(p) \/ Count(p) \/ Check(p)  PROVE S /\ C /\ D /\ L
  BY <1>8 DEF Fetch, Store, Count, Check, db, cache, counters
<1>9. ASSUME NEW p \in Player, NEW t \in Tries, Answer(p, t)  PROVE S /\ C /\ D /\ L
  BY <1>9 DEF Answer, db
<1>10. ASSUME NEW p \in Player, Join(p)  PROVE S /\ C /\ D /\ L
  <2>1. np' # None
    BY <1>10, ActiveIsFinite, FS_CardinalityType, NoneAssumption DEF Join, Shapes, CountShape
  <2> QED
    BY <1>10, <2>1 DEF Join, db
<1>11. ASSUME NEW p \in Player, Joined(p) \/ Kick(p)  PROVE S /\ C /\ D /\ L
  BY <1>11, NoneAssumption DEF Joined, Kick, GiveBack, Shapes, CountShape
<1>12. CASE Lost
  BY <1>12 DEF Lost, db
<1>13. ASSUME NEW p \in Proc, Rebuilt(p)  PROVE C /\ D /\ L
  BY <1>13 DEF Rebuilt, db, counters
<1>18. ASSUME NEW p \in Proc, Refills(p)  PROVE S /\ C /\ D /\ L
  BY <1>18, RefillsDo, NoneAssumption
<1>14. CASE UNCHANGED vars
  BY <1>14 DEF vars, db, cache, counters
<1>15. CASE Phases
  BY <1>1, <1>2, <1>3, <1>4, <1>5, <1>6, <1>7, <1>15 DEF Phases
<1>16. CASE Phones
  BY <1>8, <1>9, <1>10, <1>11, <1>16 DEF Phones
<1>17. CASE Faults
  BY <1>4, <1>12, <1>13, <1>17, <1>18 DEF Faults, Refills
<1> QED
  BY <1>14, <1>15, <1>16, <1>17 DEF Next

-----------------------------------------------------------------------------
(* The state in the cache *)

LEMMA RebuiltDoes ==
    ASSUME Shapes, NEW p \in Proc, Rebuilt(p)
    PROVE  st' \in States /\ st'.ph = job[p].s.ph /\ st'.i = job[p].s.i
<1>1. PICK s : s = job[p].s
  OBVIOUS
<1>2. st' = [ph |-> s.ph, i |-> s.i, v |-> 1000 * events, paused |-> FALSE]
  BY <1>1 DEF Rebuilt
<1>3. s.ph \in Statuses /\ s.i \in Nat
  BY <1>1, JobKinds DEF Rebuilt, Shapes, JobShape, Place
<1>4. 1000 * events \in Nat
  BY DEF Shapes, KeyShape
<1> QED
  BY <1>1, <1>2, <1>3, <1>4 DEF States

LEMMA PauseDoes ==
    ASSUME Shapes, NEW on \in BOOLEAN, Pause(on)
    PROVE  /\ st' \in States /\ st'.ph = st.ph /\ st'.i = st.i /\ st'.v = st.v + 1
           /\ lock = None /\ st # None /\ job' = job
<1>1. st # None /\ lock = None /\ job' = job /\ st' = [st EXCEPT !.paused = on, !.v = @ + 1] /\ IsState(st)
  BY DEF Pause, Shapes, StateShape
<1>2. PICK ph \in Statuses, i \in Nat, v \in Nat, b \in BOOLEAN : st = [ph |-> ph, i |-> i, v |-> v, paused |-> b]
  BY <1>1 DEF IsState, States
<1>3. st' = [ph |-> ph, i |-> i, v |-> v + 1, paused |-> on]
  BY <1>1, <1>2
<1> QED
  BY <1>1, <1>2, <1>3 DEF States

LEMMA AwakeStep ==
    ASSUME Shapes, Shapes', Awake, [Next]_vars
    PROVE  Awake'
<1>1. game' = game /\ game \in Games
  BY WhoMoves DEF Shapes
<1>2. SUFFICES ASSUME Without({"flush"})
      PROVE  /\ st' = None => \A p \in Proc : job'[p].at \in {"idle", "rebuild"}
             /\ st' # None => \A p \in Proc : job'[p].at # "rebuild"
             /\ \A p, o \in Proc : job'[p].at = "rebuild" /\ job'[o].at = "rebuild" => p = o
             /\ Without({"reset"}) => Kept'
  BY <1>1, SameEvents DEF Awake
<1>3. /\ st = None => \A p \in Proc : job[p].at \in {"idle", "rebuild"}
      /\ st # None => \A p \in Proc : job[p].at # "rebuild"
      /\ \A p, o \in Proc : job[p].at = "rebuild" /\ job[o].at = "rebuild" => p = o
      /\ Without({"reset"}) => Kept
  BY <1>2 DEF Awake
<1>4. ~May("flush")
  BY <1>2 DEF May, Without
<1>5. CASE st = None /\ st' = None
  <2>1. \A p \in Proc : job'[p] = job[p] \/ job'[p] = Idle \/ Rebuild(p)
    <3> TAKE p \in Proc
    <3>1. Began(p) => Rebuild(p)
      BY <1>5 DEF Began, Press, Enter, Poll, Join, Answer, Kick
    <3>2. ~Rebuilt(p)
      <4> SUFFICES ASSUME Rebuilt(p)  PROVE FALSE
        OBVIOUS
      <4>1. st' \in States
        BY RebuiltDoes
      <4> QED
        BY <1>5, <4>1, NoneAssumption
    <3>3. WentOn(p) => Killed(p)
      BY <1>3, <1>5, <3>2, FromWhere DEF WentOn, Shapes
    <3> QED
      BY <3>1, <3>3, WhoMoves, WhereTo DEF Shapes
  <2>2. \A p \in Proc : Rebuild(p) => \A o \in Proc : job[o].at # "rebuild" /\ (o # p => job'[o] = job[o])
    BY <1>4 DEF Rebuild, Shapes, JobShape
  <2>3. \A p \in Proc : Rebuild(p) => job'[p].at = "rebuild"
    BY WhereTo
  <2>4. \A p \in Proc : job'[p].at \in {"idle", "rebuild"}
    BY <1>3, <1>5, <2>1, <2>3 DEF Idle
  <2>5. \A p, o \in Proc : job'[p].at = "rebuild" /\ job'[o].at = "rebuild" => p = o
    <3> SUFFICES ASSUME NEW p \in Proc, NEW o \in Proc, job'[p].at = "rebuild", job'[o].at = "rebuild"
                 PROVE  p = o
      OBVIOUS
    <3>1. (job[p] = job'[p] \/ Rebuild(p)) /\ (job[o] = job'[o] \/ Rebuild(o))
      BY <2>1 DEF Idle
    <3>2. CASE Rebuild(p)
      BY <2>2, <3>1, <3>2
    <3>3. CASE Rebuild(o)
      BY <2>2, <3>1, <3>3
    <3>4. CASE job[p] = job'[p] /\ job[o] = job'[o]
      BY <1>3, <3>4
    <3> QED
      BY <3>1, <3>2, <3>3, <3>4
  <2>6. ~Without({"reset"})
    BY <1>3, <1>5 DEF Kept
  <2> QED
    BY <1>5, <2>4, <2>5, <2>6
<1>6. CASE st = None /\ st' # None
  <2>1. PICK p \in Proc : Rebuilt(p)
    <3>1. ~\E on \in BOOLEAN : Pause(on)
      BY <1>6 DEF Pause
    <3>2. ~Lost
      BY <1>6 DEF Lost
    <3>3. ~\E x \in Proc : Save(x)
      BY <1>3, <1>6, FromWhere DEF Shapes
    <3> QED
      BY <1>6, <3>1, <3>2, <3>3, WhoWrites
  <2>2. job[p].at = "rebuild" /\ job' = [job EXCEPT ![p] = [at |-> "lookup"]]
    BY <2>1 DEF Rebuilt
  <2>3. \A o \in Proc : job'[o].at # "rebuild"
    BY <1>3, <2>2 DEF Shapes, JobShape
  <2>4. ~Without({"reset"})
    BY <1>3, <1>6 DEF Kept
  <2> QED
    BY <1>6, <2>3, <2>4
<1>7. CASE st # None /\ st' = None
  <2>1. Lost
    <3>1. ~\E on \in BOOLEAN : Pause(on)
      BY <1>7, PauseDoes, NoneAssumption
    <3>2. ~\E x \in Proc : Save(x)
      BY <1>1, <1>7, SaveDoes, NewStateShape, StatesAndRows
    <3>3. ~\E x \in Proc : Rebuilt(x)
      BY <1>3, <1>7, FromWhere DEF Shapes
    <3> QED
      BY <1>7, <3>1, <3>2, <3>3, WhoWrites
  <2>2. job' = job /\ (\A p \in Proc : job[p] = Idle) /\ May("reset")
    BY <1>4, <2>1 DEF Lost, Free
  <2>3. ~Without({"reset"})
    BY <2>2 DEF May, Without
  <2> QED
    BY <1>3, <1>7, <2>2, <2>3 DEF Idle
<1>8. CASE st # None /\ st' # None
  <2>1. ASSUME Without({"reset"})  PROVE Kept'
    <3>1. np # None /\ ~Refilling
      BY <1>3, <2>1 DEF Kept
    <3>2. np' # None
      BY <1>8, <3>1, WhoWrites DEF Lost
    <3>3. ASSUME NEW p \in Proc, job'[p].at \in {"lookup", "recount", "refill"}  PROVE FALSE
      <4>1. ~Rebuilt(p) /\ ~Refills(p) /\ job'[p] # job[p]
        BY <1>3, <1>8, <3>1, <3>3, FromWhere DEF Refilling, Shapes
      <4> QED
        BY <3>3, <4>1, RefillComes
    <3> QED
      BY <1>8, <3>2, <3>3 DEF Kept, Refilling
  <2>2. \A p \in Proc : job'[p].at # "rebuild"
    <3> TAKE p \in Proc
    <3>1. ~Rebuild(p)
      BY <1>8 DEF Rebuild
    <3>2. Began(p) => job'[p].at # "rebuild"
      BY <3>1, WhereTo DEF Began, Idle
    <3>3. WentOn(p) => job'[p].at # "rebuild"
      BY WhereTo DEF WentOn, Idle
    <3> QED
      BY <1>3, <1>8, <3>2, <3>3, WhoMoves DEF Shapes
  <2> QED
    BY <1>8, <2>1, <2>2
<1> QED
  BY <1>5, <1>6, <1>7, <1>8

\* Who enters, commits or saves has the lock for itself.
LEMMA LockedStep ==
    ASSUME Shapes, Awake, Locked, [Next]_vars
    PROVE  Locked'
<1>1. game' = game /\ game \in Games
  BY WhoMoves DEF Shapes
<1>2. SUFFICES ASSUME Without({"slow", "flush"}), NEW p \in Proc, job'[p].at \in {"hold", "written"}
      PROVE  lock' = p /\ st' # None /\ job'[p].st = st'
  BY <1>1, SameEvents DEF Locked, Holding
<1>3. \A o \in Proc : Holding(o) => lock = o /\ st # None /\ job[o].st = st
  BY <1>2 DEF Locked
<1>4. Without({"flush"}) /\ ~May("slow") /\ ~May("flush")
  BY <1>2 DEF Without, May
<1>5. st # None => \A o \in Proc : job[o].at # "rebuild"
  BY <1>4 DEF Awake
<1>6. None \notin Proc
  BY NoneAssumption
<1>7. CASE job'[p] = job[p]
  <2>1. Holding(p) /\ lock = p /\ st # None /\ job[p].st = st
    BY <1>2, <1>3, <1>7 DEF Holding
  <2>2. ~\E o \in Proc : Save(o)
    <3> SUFFICES ASSUME NEW o \in Proc, Save(o)  PROVE FALSE
      OBVIOUS
    <3>1. job[o].at = "written"
      BY FromWhere DEF Shapes
    <3>2. o = p
      BY <1>3, <2>1, <3>1 DEF Holding
    <3>3. job'[p].at \in {"idle", "hold"}
      BY <3>2, WhereTo
    <3> QED
      BY <1>7, <3>1, <3>2, <3>3
  <2>3. ~Lost
    BY <1>4, <2>1 DEF Lost, Free, Holding, Idle
  <2>4. ~\E on \in BOOLEAN : Pause(on)
    BY <1>6, <2>1 DEF Pause
  <2>5. ~\E o \in Proc : Rebuilt(o)
    BY <1>5, <2>1, FromWhere DEF Shapes
  <2>6. ~\E o \in Proc : Move(o) \/ \E what \in {"next", "skip", "end"} : Press(o, what)
    BY <1>6, <2>1 DEF Move, Press, Enter
  <2>7. ~LockExpires
    BY <1>4, <2>1 DEF LockExpires, Holding
  <2>8. st' = st /\ lock' = lock
    BY <2>2, <2>3, <2>4, <2>5, <2>6, <2>7, WhoWrites
  <2> QED
    BY <1>7, <2>1, <2>8
<1>8. CASE Commit(p)
  <2>1. PICK j, w : /\ j = job[p] /\ j.at = "hold" /\ job' = [job EXCEPT ![p] = w] /\ w.st = j.st
                    /\ UNCHANGED <<game, joined, answers, st, clock, np, marks, me, due, lock, events>>
    BY <1>8, CommitDoes
  <2>2. Holding(p) /\ job'[p] = w
    BY <2>1 DEF Holding, Shapes, JobShape
  <2> QED
    BY <1>3, <2>1, <2>2
<1>9. CASE Save(p)
  <2>1. PICK j, k : /\ j = job[p] /\ j.at = "written" /\ IsChange(j) /\ st' = NewState(j)
                    /\ job' = [job EXCEPT ![p] = k]
                    /\ \/ k = Idle
                       \/ k.st = NewState(j) /\ lock' = lock
    BY <1>9, SaveDoes
  <2>2. Holding(p) /\ job'[p] = k
    BY <2>1 DEF Holding, Shapes, JobShape
  <2>3. k # Idle
    BY <1>2, <2>2 DEF Idle
  <2>4. st' # None
    BY <1>1, <2>1, NewStateShape, StatesAndRows
  <2> QED
    BY <1>3, <2>1, <2>2, <2>3, <2>4
<1>10. CASE Move(p) \/ \E what \in {"next", "skip", "end"} : Press(p, what)
  <2>1. PICK want : Enter(p, want) /\ st' = st
    BY <1>10 DEF Move, Press
  <2>2. \/ job' = [job EXCEPT ![p] = Idle]
        \/ \E op, then : lock' = p /\ job' = [job EXCEPT ![p] = Plan(op, st, then)]
    BY <2>1, EnterDoes
  <2>3. job'[p] # Idle
    BY <1>2 DEF Idle
  <2>4. PICK op, then : lock' = p /\ job' = [job EXCEPT ![p] = Plan(op, st, then)]
    BY <2>2, <2>3 DEF Shapes, JobShape
  <2>5. job'[p].st = st
    BY <2>4 DEF Shapes, JobShape, Plan
  <2>6. st # None
    BY <2>1 DEF Enter
  <2> QED
    BY <2>1, <2>4, <2>5, <2>6
<1>11. Began(p) => job'[p].at \notin {"hold", "written"} \/ \E what \in {"next", "skip", "end"} : Press(p, what)
  BY WhereTo DEF Began
<1>12. WentOn(p) => job'[p].at \notin {"hold", "written"} \/ Commit(p) \/ Save(p) \/ Move(p)
  BY WhereTo DEF WentOn, Idle
<1> QED
  BY <1>2, <1>7, <1>8, <1>9, <1>10, <1>11, <1>12, WhoMoves DEF Shapes

\* What a commit writes under the lock follows on what the state says.
LEMMA CommitIsNext ==
    ASSUME Shapes, Awake, Locked, Synced, Without({"slow", "killed", "flush"}), NEW p \in Proc, Commit(p)
    PROVE  /\ st # None /\ job[p].st = st /\ IsChange(job[p]) /\ st.ph = status /\ st.i = current
           /\ job'[p].op = job[p].op /\ NewState(job'[p]) = NewState(job[p])
           /\ status' = PhaseAfter(job[p].op) /\ current' = NewState(job[p]).i
<1>1. PICK j, w : /\ j = job[p] /\ IsChange(j) /\ j.at = "hold"
                  /\ job' = [job EXCEPT ![p] = w] /\ w.op = j.op /\ NewState(w) = NewState(j)
                  /\ status' = PhaseAfter(j.op)
                  /\ current' = IF j.op = "open" THEN j.st.i + 1 ELSE current
  BY CommitDoes
<1>2. Without({"slow", "flush"})
  BY DEF Without
<1>3. \A o \in Proc : Holding(o) => lock = o /\ st # None /\ job[o].st = st
  BY <1>2 DEF Locked
<1>4. lock = p /\ st # None /\ job[p].st = st
  BY <1>1, <1>3 DEF Holding
<1>5. \A o \in Proc : job[o].at # "written"
  BY <1>1, <1>3, <1>4 DEF Holding
<1>6. st.ph = status /\ st.i = current
  BY <1>4, <1>5 DEF Synced
<1>7. NewState(j).i = IF j.op = "open" THEN j.st.i + 1 ELSE j.st.i
  BY <1>1, NewStateShape DEF Shapes
<1>8. job'[p] = w
  BY <1>1 DEF Shapes, JobShape
<1> QED
  BY <1>1, <1>4, <1>6, <1>7, <1>8

LEMMA SyncedStep ==
    ASSUME Shapes, Awake, Locked, Synced, [Next]_vars
    PROVE  Synced'
<1>1. game' = game /\ game \in Games
  BY WhoMoves DEF Shapes
<1>2. SUFFICES ASSUME Without({"slow", "killed", "flush"})
      PROVE  /\ \A p \in Proc :
                  /\ job'[p].at = "written" => status' = PhaseAfter(job'[p].op) /\ current' = NewState(job'[p]).i
                  /\ job'[p].at = "rebuild" => job'[p].s = [ph |-> status', i |-> current']
             /\ st' # None /\ (\A p \in Proc : job'[p].at # "written") => st'.ph = status' /\ st'.i = current'
  BY <1>1, SameEvents DEF Synced, Stored, NewState
<1>3. Without({"slow", "flush"}) /\ Without({"flush"}) /\ ~May("killed") /\ ~May("flush")
  BY <1>2 DEF Without, May
<1>4. \A o \in Proc : Holding(o) => lock = o /\ st # None /\ job[o].st = st
  BY <1>3 DEF Locked
<1>5. st # None => \A o \in Proc : job[o].at # "rebuild"
  BY <1>3 DEF Awake
<1>6. /\ \A p \in Proc :
           /\ job[p].at = "written" => status = PhaseAfter(job[p].op) /\ current = NewState(job[p]).i
           /\ job[p].at = "rebuild" => job[p].s = Stored
      /\ st # None /\ (\A p \in Proc : job[p].at # "written") => st.ph = status /\ st.i = current
  BY <1>2 DEF Synced
<1>7. ASSUME NEW p \in Proc, job'[p].at = "written"
      PROVE  status' = PhaseAfter(job'[p].op) /\ current' = NewState(job'[p]).i
  <2>1. Commit(p) \/ job'[p] = job[p]
    <3>1. Began(p) => job'[p].at # "written"
      BY WhereTo DEF Began
    <3>2. WentOn(p) => job'[p].at # "written" \/ Commit(p)
      BY WhereTo DEF WentOn, Idle
    <3> QED
      BY <1>7, <3>1, <3>2, WhoMoves DEF Shapes
  <2>2. CASE Commit(p)
    BY <1>2, <2>2, CommitIsNext
  <2>3. CASE job'[p] = job[p]
    <3>1. ~\E o \in Proc : Commit(o)
      <4> SUFFICES ASSUME NEW o \in Proc, Commit(o)  PROVE FALSE
        OBVIOUS
      <4>1. job[o].at = "hold"
        BY FromWhere DEF Shapes
      <4> QED
        BY <1>4, <1>7, <2>3, <4>1 DEF Holding
    <3>2. UNCHANGED <<status, current>>
      BY <3>1, WhoWrites
    <3>3. job[p].at = "written"
      BY <1>7, <2>3
    <3> QED
      BY <1>6, <2>3, <3>2, <3>3
  <2> QED
    BY <2>1, <2>2, <2>3
<1>8. ASSUME NEW p \in Proc, job'[p].at = "rebuild"
      PROVE  job'[p].s = [ph |-> status', i |-> current']
  <2>1. Rebuild(p) \/ job'[p] = job[p]
    <3>1. Began(p) => job'[p].at # "rebuild" \/ Rebuild(p)
      BY WhereTo DEF Began
    <3>2. WentOn(p) => job'[p].at # "rebuild"
      BY WhereTo DEF WentOn, Idle
    <3> QED
      BY <1>8, <3>1, <3>2, WhoMoves DEF Shapes
  <2>2. CASE Rebuild(p)
    BY <2>2 DEF Rebuild, Stored, Shapes, JobShape, db
  <2>3. CASE job'[p] = job[p]
    <3>1. st = None
      BY <1>5, <1>8, <2>3
    <3>2. ~\E o \in Proc : Commit(o)
      BY <1>4, <3>1, FromWhere DEF Holding, Shapes
    <3>3. UNCHANGED <<status, current>>
      BY <3>2, WhoWrites
    <3> QED
      BY <1>6, <1>8, <2>3, <3>3 DEF Stored
  <2> QED
    BY <2>1, <2>2, <2>3
<1>9. ASSUME st' # None, \A p \in Proc : job'[p].at # "written"
      PROVE  st'.ph = status' /\ st'.i = current'
  <2>1. ~\E o \in Proc : Commit(o)
    BY <1>9, WhereTo
  <2>2. UNCHANGED <<status, current>>
    BY <2>1, WhoWrites
  <2>3. ASSUME NEW p \in Proc, Save(p)  PROVE st'.ph = status' /\ st'.i = current'
    <3>1. job[p].at = "written" /\ IsChange(job[p]) /\ st' = NewState(job[p])
      BY <2>3, SaveDoes
    <3> QED
      BY <1>1, <1>6, <2>2, <3>1, NewStateShape
  <2>4. ASSUME NEW p \in Proc, Rebuilt(p)  PROVE st'.ph = status' /\ st'.i = current'
    <3>1. job[p].at = "rebuild" /\ st'.ph = job[p].s.ph /\ st'.i = job[p].s.i
      BY <2>4, RebuiltDoes, FromWhere DEF Shapes
    <3> QED
      BY <1>6, <2>2, <3>1 DEF Stored
  <2>5. ASSUME NEW on \in BOOLEAN, Pause(on)  PROVE st'.ph = status' /\ st'.i = current'
    <3>1. st # None /\ st'.ph = st.ph /\ st'.i = st.i /\ lock = None
      BY <2>5, PauseDoes
    <3>2. \A p \in Proc : job[p].at # "written"
      BY <1>4, <3>1, NoneAssumption DEF Holding
    <3> QED
      BY <1>6, <2>2, <3>1, <3>2
  <2>6. CASE st' = st /\ ~\E p \in Proc : Save(p)
    <3>1. \A p \in Proc : job[p].at # "written"
      <4> SUFFICES ASSUME NEW p \in Proc, job[p].at = "written"  PROVE FALSE
        OBVIOUS
      <4>1. ~Began(p)
        BY FromWhere DEF Shapes, Idle
      <4>2. ~WentOn(p)
        BY <1>3, <2>1, <2>6, FromWhere DEF WentOn, Shapes, Killed
      <4> QED
        BY <1>9, <4>1, <4>2, WhoMoves DEF Shapes
    <3> QED
      BY <1>6, <1>9, <2>2, <2>6, <3>1
  <2>7. ~Lost
    BY <1>9 DEF Lost
  <2> QED
    BY <2>3, <2>4, <2>5, <2>6, <2>7, WhoWrites
<1> QED
  BY <1>7, <1>8, <1>9

LEMMA CacheInit ==
    ASSUME Init
    PROVE  Awake /\ Locked /\ Synced
<1>1. \A p \in Proc : job[p] = Idle
  BY DEF Init
<1>2. st = [ph |-> "lobby", i |-> 0, v |-> 1, paused |-> FALSE] /\ st.ph = status /\ st.i = current
  BY DEF Init
<1>3. st # None
  <2>1. st \in States
    BY <1>2 DEF States, Statuses
  <2> QED
    BY <2>1, NoneAssumption
<1>4. np # None
  <2>1. Len(joined) \in Nat
    BY GameFacts DEF Init
  <2> QED
    BY <2>1, NoneAssumption DEF Init
<1>5. Kept
  BY <1>1, <1>3, <1>4 DEF Kept, Refilling, Idle
<1> QED
  BY <1>1, <1>2, <1>3, <1>5 DEF Awake, Locked, Synced, Holding, Idle

\* The lock, and what the cache says of the database.
THEOREM CacheHolds == Spec => [](Shapes /\ Awake /\ Locked /\ Synced)
<1>1. Init => Shapes /\ Awake /\ Locked /\ Synced
  BY ShapesInit, CacheInit
<1>2. Shapes /\ Awake /\ Locked /\ Synced /\ [Next]_vars => (Shapes /\ Awake /\ Locked /\ Synced)'
  BY ShapesStep, AwakeStep, LockedStep, SyncedStep
<1> QED
  BY <1>1, <1>2, PTL DEF Spec

\* Whenever the lock is free, the state that everybody polls is what the
\* database says: however the requests of any number of phones meet, and when
\* the cache has been lost and rebuilt between two requests.
THEOREM CacheAgrees == Spec => []CacheIsCurrent
<1>1. Shapes /\ Awake /\ Locked /\ Synced => CacheIsCurrent
  <2> SUFFICES ASSUME Locked, Synced, Without({"slow", "killed", "flush"}), lock = None, st # None
               PROVE  st.ph = status /\ st.i = current
    BY DEF CacheIsCurrent
  <2>1. Without({"slow", "flush"})
    BY DEF Without
  <2>2. \A p \in Proc : job[p].at # "written"
    BY <2>1, NoneAssumption DEF Locked, Holding
  <2> QED
    BY <2>2 DEF Synced
<1> QED
  BY <1>1, CacheHolds, PTL

\* No step takes the state or the database back.
Forth ==
    /\ Without({"slow", "flush"}) /\ st # None /\ st' # None /\ st' # st =>
         /\ Progress(st'.ph, st'.i) >= Progress(st.ph, st.i)
         /\ st'.v > st.v
    /\ Without({"slow", "flush", "killed"}) =>
         Progress(status', current') >= Progress(status, current)

LEMMA ForthStep ==
    ASSUME Shapes, Awake, Locked, Synced, [Next]_vars
    PROVE  Forth
<1>1. game \in Games
  BY DEF Shapes
<1>2. \A ph, i : i \in Nat /\ ph \in Statuses => Progress(ph, i) \in Nat
  BY DEF Progress, Statuses
<1>3. ASSUME Without({"slow", "flush"}), st # None, st' # None, st' # st
      PROVE  Progress(st'.ph, st'.i) >= Progress(st.ph, st.i) /\ st'.v > st.v
  <2>1. st.ph \in Statuses /\ st.i \in Nat /\ st.v \in Nat
    BY <1>3 DEF Shapes, StateShape, IsState, States
  <2>2. ASSUME NEW p \in Proc, Save(p)
        PROVE  Progress(st'.ph, st'.i) >= Progress(st.ph, st.i) /\ st'.v > st.v
    <3>1. job[p].at = "written" /\ IsChange(job[p]) /\ st' = NewState(job[p])
      BY <2>2, SaveDoes
    <3>2. job[p].st = st
      BY <1>3, <3>1 DEF Locked, Holding
    <3>3. Progress(st'.ph, st'.i) > Progress(st.ph, st.i) /\ st'.v = st.v + 1 /\ IsState(st')
      BY <1>1, <3>1, <3>2, NewStateShape
    <3>4. st'.ph \in Statuses /\ st'.i \in Nat
      BY <3>3 DEF IsState, States
    <3> QED
      BY <1>2, <2>1, <3>3, <3>4
  <2>3. ASSUME NEW on \in BOOLEAN, Pause(on)
        PROVE  Progress(st'.ph, st'.i) >= Progress(st.ph, st.i) /\ st'.v > st.v
    <3>1. st'.ph = st.ph /\ st'.i = st.i /\ st'.v = st.v + 1
      BY <2>3, PauseDoes
    <3> QED
      BY <1>2, <2>1, <3>1
  <2>4. ~\E p \in Proc : Rebuilt(p)
    BY <1>3, FromWhere DEF Awake, Without, Shapes
  <2>5. ~Lost
    BY <1>3 DEF Lost
  <2> QED
    BY <1>3, <2>2, <2>3, <2>4, <2>5, WhoWrites
<1>4. ASSUME Without({"slow", "flush", "killed"})
      PROVE  Progress(status', current') >= Progress(status, current)
  <2>1. Without({"slow", "killed", "flush"}) /\ status \in Statuses /\ current \in Nat
    BY <1>4 DEF Without, Shapes, DbShape, Place
  <2>2. CASE UNCHANGED <<status, current>>
    BY <1>2, <2>1, <2>2
  <2>3. ASSUME NEW p \in Proc, Commit(p)
        PROVE  Progress(status', current') >= Progress(status, current)
    <3>1. /\ IsChange(job[p]) /\ job[p].st.ph = status /\ job[p].st.i = current
          /\ status' = PhaseAfter(job[p].op) /\ current' = NewState(job[p]).i
      BY <2>1, <2>3, CommitIsNext
    <3>2. /\ Progress(status', current') > Progress(status, current)
          /\ IsState(NewState(job[p])) /\ NewState(job[p]).ph = status'
      BY <1>1, <3>1, NewStateShape
    <3>3. status' \in Statuses /\ current' \in Nat
      BY <3>1, <3>2 DEF IsState, States
    <3> QED
      BY <1>2, <2>1, <3>2, <3>3
  <2> QED
    BY <2>2, <2>3, WhoWrites
<1> QED
  BY <1>3, <1>4 DEF Forth

\* No step takes the game back, in the cache or in the database, and no change
\* of the state keeps its version.
THEOREM NothingGoesBack == Spec => NeverBack
<1>1. Shapes /\ Awake /\ Locked /\ Synced /\ [Next]_vars => Forth
  BY ForthStep
<1> QED
  BY <1>1, CacheHolds, PTL DEF NeverBack, Spec, Forth

\* An answer is refused as already given only when it is stored or on its way,
\* for every order in which phones, timers and a lost cache meet.
THEOREM NobodyLockedOut == Spec => []NobodyIsLockedOut
<1>1. Init => Shapes /\ NobodyIsLockedOut
  BY ShapesInit DEF Init, NobodyIsLockedOut
<1>2. Shapes /\ NobodyIsLockedOut /\ [Next]_vars => (Shapes /\ NobodyIsLockedOut)'
  BY ShapesStep, LockedOutStep
<1> QED
  BY <1>1, <1>2, PTL DEF Spec

-----------------------------------------------------------------------------
(* The places of the players *)

LEMMA RangeOfAppend ==
    ASSUME NEW S, NEW s \in Seq(S), NEW e \in S
    PROVE  Range(Append(s, e)) = Range(s) \cup {e}
<1>1. /\ Len(Append(s, e)) = Len(s) + 1 /\ Append(s, e) \in Seq(S)
      /\ \A i \in 1..Len(s) : Append(s, e)[i] = s[i]
      /\ Append(s, e)[Len(s) + 1] = e
  OBVIOUS
<1>2. DOMAIN s = 1..Len(s) /\ DOMAIN Append(s, e) = 1..(Len(s) + 1) /\ Len(s) \in Nat
  BY <1>1
<1>3. \A x : x \in Range(Append(s, e)) => x \in Range(s) \cup {e}
  BY <1>1, <1>2 DEF Range
<1>4. \A x : x \in Range(s) \cup {e} => x \in Range(Append(s, e))
  BY <1>1, <1>2 DEF Range
<1> QED
  BY <1>3, <1>4

\* The rows of players that say who is in the game.
KeptPlayers ==
    /\ joined' = joined /\ Active' = Active
    /\ \A p \in Player : player'[p].is_removed = player[p].is_removed

\* Who is in the game changes when somebody comes in or is removed.
LEMMA Crowd ==
    ASSUME Shapes, [Next]_vars
    PROVE  \/ KeptPlayers /\ (np' = np \/ Lost \/ (\E p \in Proc : Refill(p)) \/ \E p \in Player : Join(p))
           \/ \E p \in Player : Joined(p) \/ Kick(p)
<1> DEFINE Same == joined' = joined /\ \A p \in Player : player'[p].is_removed = player[p].is_removed
           SameCount == np' = np
<1>1. Active \subseteq Player
  BY ActiveIsFinite DEF Shapes
<1>2. Same => KeptPlayers
  <2> SUFFICES ASSUME Same  PROVE Active' = Active
    BY DEF KeptPlayers
  <2>1. Range(joined) \subseteq Player /\ Range(joined') = Range(joined)
    BY DEF Shapes, DbShape, Range
  <2> QED
    BY <2>1 DEF Active
<1>3. ASSUME NEW p \in Proc, Commit(p)  PROVE Same /\ SameCount
  <2>1. PICK j : IsChange(j) /\ player' = Updated(j.rows) /\ joined' = joined /\ np' = np
    BY <1>3, CommitDoes
  <2>2. SomeRows(j.rows, NewResults) \/ SomeRows(j.rows, NewPlaces) \/ j.rows = <<>>
    BY <2>1, ChangeParts
  <2> QED
    BY <2>1, <2>2, UpdatedShape DEF Shapes
<1>4. ASSUME NEW p \in Proc, \/ Save(p) \/ GiveUp(p) \/ Move(p) \/ Poll(p) \/ Killed(p)
                             \/ Rebuild(p) \/ Rebuilt(p) \/ Lookup(p) \/ Recount(p)
                             \/ \E what \in {"next", "skip", "end"} : Press(p, what)
      PROVE  Same /\ SameCount
  BY <1>4 DEF Save, GiveUp, Move, Poll, Killed, Rebuild, Rebuilt, Lookup, Recount, Press, db, cache, counters
<1>5. ASSUME (\E on \in BOOLEAN : Pause(on)) \/ Tick \/ ClaimExpires \/ LockExpires
      PROVE  Same /\ SameCount
  BY <1>5 DEF Pause, Tick, ClaimExpires, LockExpires, db, counters
<1>6. ASSUME NEW p \in Player, \/ Fetch(p) \/ Store(p) \/ Count(p) \/ Check(p)
                               \/ \E t \in Tries : Answer(p, t)
      PROVE  Same /\ SameCount
  <2>1. CASE Fetch(p) \/ Store(p) \/ Count(p) \/ Check(p)
    BY <2>1 DEF Fetch, Store, Count, Check, db, cache, counters
  <2>2. CASE \E t \in Tries : Answer(p, t)
    BY <2>2 DEF Answer, db
  <2> QED
    BY <1>6, <2>1, <2>2
<1>7. ASSUME NEW p \in Player, Join(p)  PROVE Same
  BY <1>7 DEF Join, db
<1>8. ASSUME (\E p \in Proc : Refill(p)) \/ Lost  PROVE Same
  BY <1>8 DEF Refill, Lost, db
<1>9. ASSUME UNCHANGED vars  PROVE Same /\ SameCount
  BY <1>9 DEF vars, db, cache, counters
<1> HIDE DEF Same
<1>10. CASE Phases
  BY <1>2, <1>3, <1>4, <1>5, <1>10 DEF Phases
<1>11. CASE Phones
  BY <1>2, <1>6, <1>7, <1>11 DEF Phones
<1>12. CASE Faults
  BY <1>2, <1>4, <1>8, <1>12 DEF Faults
<1> QED
  BY <1>2, <1>9, <1>10, <1>11, <1>12 DEF Next

LEMMA OnlyJoinComes ==
    ASSUME Shapes, [Next]_vars, NEW p \in Player, job'[p].at = "join"
    PROVE  job'[p] = job[p] \/ Join(p)
<1>1. p \in Proc /\ p # Host
  BY PlayersAssumption DEF Proc
<1>2. Began(p) => job'[p].at # "join" \/ Join(p)
  BY <1>1, WhereTo DEF Began
<1>3. WentOn(p) => job'[p].at # "join"
  BY <1>1, WhereTo DEF WentOn, Idle
<1> QED
  BY <1>1, <1>2, <1>3, WhoMoves DEF Shapes

LEMMA JoinDoes ==
    ASSUME Shapes, NEW p \in Player, Join(p)
    PROVE  \E n \in Int :
             /\ n = (IF np = None THEN Cardinality(Active) ELSE np) + 1 /\ np' = n
             /\ job[p] = Idle /\ job'[p] = [at |-> "join", n |-> n] /\ st # None
             /\ \A o \in Proc \ {p} : job'[o] = job[o]
             /\ UNCHANGED <<game, db, st, clock, na, ns, marks, me, due, lock, events>>
<1>1. PICK n : n = (IF np = None THEN Cardinality(Active) ELSE np) + 1 /\ np' = n
               /\ job' = [job EXCEPT ![p] = [at |-> "join", n |-> n]]
  BY DEF Join
<1>2. job[p] = Idle /\ st # None /\ UNCHANGED <<game, db, st, clock, na, ns, marks, me, due, lock, events>>
  BY DEF Join, Free
<1>3. n \in Int
  BY <1>1, ActiveIsFinite, FS_CardinalityType DEF Shapes, CountShape
<1>4. p \in Proc
  BY DEF Proc
<1> QED
  BY <1>1, <1>2, <1>3, <1>4 DEF Shapes, JobShape

LEMMA JoinedDoes ==
    ASSUME Shapes, NEW p \in Player, Joined(p)
    PROVE  /\ job[p].at = "join" /\ job[p].n \in Int
           /\ job'[p] = Idle /\ \A o \in Proc \ {p} : job'[o] = job[o]
           /\ UNCHANGED <<game, status, current, player, answers, st, clock, na, ns, marks, me, due, lock, events>>
           /\ \/ np' = (IF np = None THEN None ELSE np - 1) /\ joined' = joined /\ Active' = Active
              \/ /\ job[p].n <= game.limit /\ np' = np
                 /\ Range(joined') = Range(joined) \cup {p}
                 /\ Active \subseteq Active' /\ Active' \subseteq Active \cup {p}
<1>1. p \in Proc
  BY DEF Proc
<1>2. /\ job[p].at = "join" /\ job' = [job EXCEPT ![p] = Idle]
      /\ UNCHANGED <<game, status, current, player, answers, st, clock, na, ns, marks, me, due, lock, events>>
      /\ \/ np' = (IF np = None THEN None ELSE np - 1) /\ joined' = joined
         \/ job[p].n <= game.limit /\ joined' = Append(joined, p) /\ np' = np
  BY DEF Joined, GiveBack
<1>3. job[p].n \in Int
  BY <1>1, <1>2, JobKinds DEF Shapes, JobShape
<1>4. joined' = joined => Active' = Active
  BY <1>2 DEF Active
<1>5. joined' = Append(joined, p) =>
        Range(joined') = Range(joined) \cup {p} /\ Active \subseteq Active' /\ Active' \subseteq Active \cup {p}
  <2>1. joined \in Seq(Player)
    BY DEF Shapes, DbShape
  <2>2. Range(Append(joined, p)) = Range(joined) \cup {p}
    BY <2>1, RangeOfAppend
  <2> QED
    BY <1>2, <2>2 DEF Active
<1> QED
  BY <1>1, <1>2, <1>3, <1>4, <1>5 DEF Shapes, JobShape

LEMMA KickDoes ==
    ASSUME Shapes, NEW p \in Player, Kick(p)
    PROVE  /\ p \in Active /\ Active' = Active \ {p} /\ joined' = joined
           /\ st # None /\ np' = (IF np = None THEN None ELSE np - 1)
           /\ marks' = marks \cup {<<"x", p>>}
           /\ \A o \in Proc \ {Host} : job'[o] = job[o]
           /\ \A o \in Player : job'[o] = job[o]
           /\ \A o \in Player : player'[o].is_removed <=> player[o].is_removed \/ o = p
           /\ \A o \in Player : player'[o].streak = player[o].streak /\ player'[o].score = player[o].score
           /\ game.mode # "solo" /\ May("kick")
           /\ UNCHANGED <<game, status, current, joined, answers, st, clock, ns, me, due, lock, events>>
<1>1. /\ p \in Active /\ st # None /\ game.mode # "solo" /\ May("kick")
      /\ player' = [player EXCEPT ![p].is_removed = TRUE]
      /\ marks' = marks \cup {<<"x", p>>}
      /\ np' = (IF np = None THEN None ELSE np - 1)
      /\ UNCHANGED <<game, status, current, joined, answers, st, clock, ns, me, due, lock, events>>
  BY DEF Kick, GiveBack
<1>2. \A o \in Proc \ {Host} : job'[o] = job[o]
  BY DEF Kick, Shapes, JobShape
<1>3. \A o \in Player : o \in Proc \ {Host}
  BY PlayersAssumption DEF Proc
<1>4. \A o \in Player : player'[o].is_removed = IF o = p THEN TRUE ELSE player[o].is_removed
  BY <1>1 DEF Shapes, DbShape
<1>5. \A o \in Player : player'[o].streak = player[o].streak /\ player'[o].score = player[o].score
  BY <1>1 DEF Shapes, DbShape
<1>6. Range(joined) \subseteq Player
  BY DEF Shapes, DbShape, Range
<1>7. Active' = Active \ {p}
  BY <1>1, <1>4, <1>6 DEF Active
<1> QED
  BY <1>1, <1>2, <1>3, <1>4, <1>5, <1>7

\* The sizes of sets of phones.
LEMMA Sizes ==
    /\ \A S : S \subseteq Player => IsFiniteSet(S) /\ Cardinality(S) \in Nat
    /\ \A S, T : S \subseteq T /\ T \subseteq Player => Cardinality(S) <= Cardinality(T)
    /\ \A S, T : S \subseteq T /\ T \subseteq Player /\ Cardinality(S) = Cardinality(T) => S = T
    /\ \A S, p : S \subseteq Player /\ p \in Player \ S => Cardinality(S \cup {p}) = Cardinality(S) + 1
    /\ \A S, p : S \subseteq Player /\ p \in S => Cardinality(S \ {p}) = Cardinality(S) - 1
<1>1. \A S : S \subseteq Player => IsFiniteSet(S) /\ Cardinality(S) \in Nat
  BY PlayersAssumption, FS_Subset, FS_CardinalityType
<1>2. \A S, T : S \subseteq T /\ T \subseteq Player => Cardinality(S) <= Cardinality(T)
  BY <1>1, FS_Subset
<1>3. \A S, T : S \subseteq T /\ T \subseteq Player /\ Cardinality(S) = Cardinality(T) => S = T
  BY <1>1, FS_Subset
<1>4. \A S, p : S \subseteq Player /\ p \in Player \ S => Cardinality(S \cup {p}) = Cardinality(S) + 1
  BY <1>1, FS_AddElement
<1>5. \A S, p : S \subseteq Player /\ p \in S => Cardinality(S \ {p}) = Cardinality(S) - 1
  BY <1>1, FS_RemoveElement
<1> QED
  BY <1>1, <1>2, <1>3, <1>4, <1>5

LEMMA SeatsInit ==
    ASSUME Init
    PROVE  Seats
<1>1. game \in Games /\ joined = game.here /\ np = Len(joined) /\ \A p \in Proc : job[p] = Idle
  BY DEF Init
<1>2. joined \in Seq(Player) /\ Len(joined) <= game.limit /\ Len(joined) \in Nat /\ game.limit \in Nat
  BY <1>1, GameFacts
<1>3. Coming = {} /\ Admitted = {}
  BY <1>1 DEF Coming, Admitted, Idle, Proc
<1>4. Cardinality(Coming) = 0 /\ Cardinality(Admitted) = 0
  BY <1>3, FS_EmptySet
<1>5. Range(joined) \subseteq Player /\ joined \in [1..Len(joined) -> Player]
  BY <1>2 DEF Range
<1>6. IsFiniteSet(1..Len(joined)) /\ Cardinality(1..Len(joined)) = Len(joined)
  <2>1. PICK n : n = Len(joined)
    OBVIOUS
  <2>2. n \in Int /\ 1 \in Int /\ n >= 0
    BY <1>2, <2>1
  <2>3. IsFiniteSet(1..n) /\ Cardinality(1..n) = IF 1 > n THEN 0 ELSE n - 1 + 1
    BY <2>2, FS_Interval, Zenon
  <2>4. n = IF 1 > n THEN 0 ELSE n - 1 + 1
    BY <2>2
  <2> QED
    BY <2>1, <2>3, <2>4
<1>7. joined \in Surjection(1..Len(joined), Range(joined))
  BY <1>5 DEF Surjection, Range
<1>8. Cardinality(Range(joined)) <= Len(joined)
  BY <1>6, <1>7, FS_Surjection
<1>9. Active \subseteq Range(joined)
  BY DEF Active
<1>10. Cardinality(Active) \in Nat /\ Cardinality(Range(joined)) \in Nat /\ Cardinality(Active) <= Cardinality(Range(joined))
  BY <1>5, <1>9, Sizes
<1>11. np \in Nat /\ Cardinality(Active) <= np /\ np <= game.limit
  BY <1>1, <1>2, <1>8, <1>10
<1>12. np >= Cardinality(Active) + Cardinality(Coming) /\ Cardinality(Active) + Cardinality(Admitted) <= game.limit
  <2>1. PICK a, c, d, l : a = Cardinality(Active) /\ c = Cardinality(Coming) /\ d = Cardinality(Admitted) /\ l = game.limit
    OBVIOUS
  <2>2. a \in Nat /\ c = 0 /\ d = 0 /\ l \in Nat /\ a <= np /\ np <= l /\ np \in Nat
    BY <1>2, <1>4, <1>10, <1>11, <2>1
  <2>3. np >= a + c /\ a + d <= l
    BY <2>2
  <2> QED
    BY <2>1, <2>3
<1>13. np # None
  BY <1>11, NoneAssumption
<1>14. \A p \in Proc : job[p].at # "refill"
  BY <1>1 DEF Idle
<1> QED
  BY <1>3, <1>12, <1>13, <1>14 DEF Seats

\* Nobody asks to come in, comes in or is removed while the count is made anew.
LEMMA NobodyMeanwhile ==
    ASSUME Shapes, Awake, Seats, Watched, [Next]_vars, NEW p \in Player
    PROVE  /\ Join(p) \/ Kick(p) => ~Refilling
           /\ job[p].at = "join" => np # None /\ ~Refilling /\ st # None
<1>1. p \in Proc
  BY DEF Proc
<1>2. Join(p) \/ Kick(p) => May("refill_race") \/ ~Refilling
  BY DEF Join, Kick
<1>3. May("refill_race") => ~Refilling
  BY DEF Watched, Awake, Kept, May, Without
<1>4. job[p].at = "join" => p \in Coming
  BY DEF Coming
<1>5. np = None \/ Refilling => Coming = {}
  BY DEF Seats
<1>6. st = None => job[p].at # "join"
  BY <1>1 DEF Watched, Awake
<1> QED
  BY <1>2, <1>3, <1>4, <1>5, <1>6

\* Nobody is on the way in when the count is lost, or is being made anew.
LEMMA NobodyComes ==
    ASSUME Shapes, Shapes', Awake, Seats, Watched, [Next]_vars, np' = None \/ Refilling'
    PROVE  Coming' = {}
<1>1. SUFFICES ASSUME NEW p \in Player, job'[p].at = "join"  PROVE FALSE
  BY DEF Coming
<1>2. p \in Proc /\ ~May("flush")
  BY DEF Proc, Watched, Without, May
<1>3. CASE Join(p)
  <2>1. PICK n \in Int : np' = n /\ \A o \in Proc \ {p} : job'[o] = job[o]
    BY <1>3, JoinDoes
  <2>2. np' # None
    BY <2>1, NoneAssumption
  <2>3. PICK o \in Proc : job'[o].at \in {"lookup", "recount", "refill"}
    BY <2>2 DEF Refilling
  <2>4. o # p /\ job'[o] = job[o]
    BY <1>1, <2>1, <2>3
  <2>5. Refilling
    BY <2>3, <2>4 DEF Refilling
  <2> QED
    BY <1>3, <2>5, NobodyMeanwhile
<1>4. CASE job'[p] = job[p]
  <2>1. np # None /\ ~Refilling /\ st # None
    BY <1>1, <1>4, NobodyMeanwhile
  <2>2. np' # None
    <3>1. ~Lost
      BY <1>1, <1>2, <1>4 DEF Lost, Free, Idle
    <3> QED
      BY <2>1, <3>1, WhoWrites
  <2>3. PICK o \in Proc : job'[o].at \in {"lookup", "recount", "refill"}
    BY <2>2 DEF Refilling
  <2>4. job[o].at \notin {"lookup", "recount", "refill"}
    BY <2>1 DEF Refilling
  <2>5. job[o].at # "rebuild"
    BY <2>1 DEF Awake, Watched
  <2> QED
    BY <2>3, <2>4, <2>5, RefillComes, FromWhere DEF Shapes
<1> QED
  BY <1>1, <1>3, <1>4, OnlyJoinComes

\* Who makes the count anew has counted everyone.
LEMMA EveryoneIsCounted ==
    ASSUME Shapes, Shapes', Awake, Seats, Watched, [Next]_vars, NEW p \in Proc, job'[p].at = "refill"
    PROVE  job'[p].n >= Cardinality(Active')
<1>1. Active \subseteq Player
  BY ActiveIsFinite DEF Shapes
<1>2. Cardinality(Active) \in Nat
  BY <1>1, Sizes
<1>3. CASE job'[p] = job[p]
  <2>1. Refilling /\ job[p].n >= Cardinality(Active)
    BY <1>3 DEF Refilling, Seats
  <2>2. ASSUME NEW o \in Player  PROVE ~Joined(o) /\ ~Kick(o)
    <3>1. o \in Proc
      BY DEF Proc
    <3> QED
      BY <2>1, <3>1, NobodyMeanwhile, FromWhere DEF Shapes
  <2>3. Active' = Active
    BY <2>2, Crowd DEF KeptPlayers
  <2> QED
    BY <1>3, <2>1, <2>3
<1>4. CASE Refills(p)
  <2>1. ~Refill(p)
    BY <1>4 DEF Refill, Shapes, JobShape, Idle
  <2>2. ~Lookup(p)
    <3> SUFFICES ASSUME Lookup(p)  PROVE FALSE
      OBVIOUS
    <3>1. PICK k : k \in {[at |-> "recount"], Idle} /\ job' = [job EXCEPT ![p] = k]
      BY DEF Lookup
    <3>2. job'[p] = k
      BY <3>1 DEF Shapes, JobShape
    <3> QED
      BY <3>1, <3>2 DEF Idle
  <2>3. Recount(p)
    BY <1>4, <2>1, <2>2 DEF Refills
  <2>4. Active' = Active
    BY <2>3 DEF Recount, Active, db
  <2>5. job'[p].n = Cardinality(Active)
    <3>1. PICK k : k = [at |-> "refill", n |-> Cardinality(Active)]
      OBVIOUS
    <3>2. job' = [job EXCEPT ![p] = k]
      BY <2>3, <3>1 DEF Recount
    <3>3. job'[p] = k
      BY <3>2 DEF Shapes, JobShape
    <3> QED
      BY <3>1, <3>3
  <2> QED
    BY <1>2, <2>4, <2>5
<1>5. ~Rebuilt(p)
  BY WhereTo
<1> QED
  BY <1>3, <1>4, <1>5, RefillComes

\* The count is raised before the limit is looked at: so those who have found
\* room and those who are in are never more than the limit.
LEMMA SeatsStep ==
    ASSUME Shapes, Shapes', Awake, Seats, [Next]_vars
    PROVE  Seats'
<1>1. game' = game /\ game \in Games
  BY WhoMoves DEF Shapes
<1> DEFINE Room == /\ np' # None => np' >= Cardinality(Active') + Cardinality(Coming')
                   /\ Cardinality(Active') + Cardinality(Admitted') <= game.limit
<1>2. SUFFICES ASSUME Watched
      PROVE  Room
  <2>1. Watched' <=> Watched
    BY <1>1 DEF Watched, Without
  <2> QED
    BY <1>1, <2>1, NobodyComes, EveryoneIsCounted DEF Seats
<1> DEFINE A == Cardinality(Active)
           C == Cardinality(Coming)
           D == Cardinality(Admitted)
<1>3. (np # None => np >= A + C) /\ A + D <= game.limit
  BY <1>2 DEF Seats
<1>4. np = None \/ Refilling => Coming = {} /\ C = 0
  BY <1>2, FS_EmptySet DEF Seats
<1>5. Active \subseteq Player /\ Coming \subseteq Player /\ Admitted \subseteq Coming
  BY ActiveIsFinite DEF Shapes, Coming, Admitted
<1>6. Active' \subseteq Player /\ Coming' \subseteq Player /\ Admitted' \subseteq Coming'
  <2>1. Range(joined') \subseteq Player
    BY DEF Shapes, DbShape, Range
  <2> QED
    BY <2>1 DEF Active, Coming, Admitted
<1>7. A \in Nat /\ C \in Nat /\ D \in Nat /\ D <= C
  BY <1>5, Sizes
<1>8. Cardinality(Active') \in Nat /\ Cardinality(Coming') \in Nat /\ Cardinality(Admitted') \in Nat
  <2>1. Admitted' \subseteq Player
    BY <1>6
  <2> QED
    BY <1>6, <2>1, Sizes
<1>9. game.limit \in Nat /\ np \in Int \cup {None} /\ np' \in Int \cup {None}
  BY <1>1, GameFacts DEF Shapes, CountShape
<1>10. \A p \in Player : p \in Proc /\ p # Host
  BY PlayersAssumption DEF Proc
<1>11. ASSUME NEW p \in Player, Join(p)
       PROVE  Room
  <2>1. PICK n \in Int :
           /\ n = (IF np = None THEN Cardinality(Active) ELSE np) + 1 /\ np' = n
           /\ job[p] = Idle /\ job'[p] = [at |-> "join", n |-> n] /\ st # None
           /\ \A o \in Proc \ {p} : job'[o] = job[o]
           /\ UNCHANGED <<game, db, st, clock, na, ns, marks, me, due, lock, events>>
    BY <1>11, JoinDoes
  <2>2. n >= A + C + 1
    <3>1. CASE np = None
      BY <1>4, <1>7, <2>1, <3>1
    <3>2. CASE np # None
      <4> HIDE DEF A, C, D
      <4> QED
        BY <1>3, <1>7, <1>9, <2>1, <3>2
    <3> QED
      BY <3>1, <3>2
  <2>3. p \notin Coming /\ p \notin Admitted
    BY <2>1 DEF Coming, Admitted, Idle
  <2>4. Coming' = Coming \cup {p}
    BY <1>10, <2>1 DEF Coming
  <2>5. Admitted' = IF n <= game.limit THEN Admitted \cup {p} ELSE Admitted
    <3>1. \A o \in Coming : o # p /\ job'[o] = job[o]
      BY <1>5, <1>10, <2>1, <2>3
    <3>2. job'[p].n = n
      BY <2>1
    <3>3. Admitted' = {o \in Coming \cup {p} : job'[o].n <= game.limit}
      BY <1>1, <2>4 DEF Admitted
    <3>4. \A o : o \in Admitted' <=> o \in Admitted \/ (o = p /\ n <= game.limit)
      BY <3>1, <3>2, <3>3 DEF Admitted
    <3> QED
      BY <3>4
  <2>6. Active' = Active
    BY <2>1 DEF Active, db
  <2>7. Cardinality(Coming') = C + 1
    BY <1>5, <2>3, <2>4, Sizes
  <2>8. Cardinality(Admitted') = IF n <= game.limit THEN D + 1 ELSE D
    BY <1>5, <2>3, <2>5, Sizes
  <2> HIDE DEF A, C, D
  <2>9. Cardinality(Active') = A
    BY <2>6 DEF A
  <2> QED
    BY <1>3, <1>7, <1>9, <2>1, <2>2, <2>7, <2>8, <2>9
<1>12. ASSUME NEW p \in Player, Joined(p)
       PROVE  Room
  <2>1. /\ job[p].at = "join" /\ job[p].n \in Int
        /\ job'[p] = Idle /\ \A o \in Proc \ {p} : job'[o] = job[o]
        /\ \/ np' = (IF np = None THEN None ELSE np - 1) /\ Active' = Active
           \/ job[p].n <= game.limit /\ np' = np /\ Active' \subseteq Active \cup {p}
    BY <1>12, JoinedDoes
  <2>2. np # None /\ np \in Int
    BY <1>2, <1>9, <2>1, NobodyMeanwhile
  <2>3. p \in Coming /\ Coming' = Coming \ {p}
    BY <1>10, <2>1 DEF Coming, Idle
  <2>4. Admitted' = Admitted \ {p}
    <3>1. \A o \in Coming : o # p => job'[o] = job[o]
      BY <1>5, <1>10, <2>1
    <3>2. Admitted' = {o \in Coming \ {p} : job'[o].n <= game.limit}
      BY <1>1, <2>3 DEF Admitted
    <3> QED
      BY <3>1, <3>2 DEF Admitted
  <2>5. Cardinality(Coming') = C - 1
    BY <1>5, <2>3, Sizes
  <2>6. /\ p \in Admitted => Cardinality(Admitted') = D - 1
        /\ p \notin Admitted => Cardinality(Admitted') = D
    <3>1. Admitted \subseteq Player
      BY <1>5
    <3>2. p \notin Admitted => Admitted' = Admitted
      BY <2>4
    <3> QED
      BY <2>4, <3>1, <3>2, Sizes
  <2>7. CASE np' = (IF np = None THEN None ELSE np - 1) /\ Active' = Active
    <3>1. np' = np - 1 /\ Cardinality(Active') = A
      BY <2>2, <2>7
    <3> HIDE DEF A, C, D
    <3> QED
      BY <1>3, <1>7, <1>9, <2>2, <2>5, <2>6, <3>1
  <2>8. CASE job[p].n <= game.limit /\ np' = np /\ Active' \subseteq Active \cup {p}
    <3>1. p \in Admitted
      BY <2>3, <2>8 DEF Admitted
    <3>2. Cardinality(Active') <= A + 1
      <4>1. Cardinality(Active') <= Cardinality(Active \cup {p}) /\ Cardinality(Active \cup {p}) \in Nat
        BY <1>5, <2>8, Sizes
      <4>2. CASE p \in Active
        <5>1. Active \cup {p} = Active
          BY <4>2
        <5>2. Cardinality(Active') <= A
          BY <4>1, <5>1
        <5> HIDE DEF A, C, D
        <5> QED
          BY <1>7, <1>8, <5>2
      <4>3. CASE p \notin Active
        BY <1>5, <1>7, <1>8, <4>1, <4>3, Sizes
      <4> QED
        BY <4>2, <4>3
    <3> HIDE DEF A, C, D
    <3> QED
      BY <1>3, <1>7, <1>8, <1>9, <2>2, <2>5, <2>6, <2>8, <3>1, <3>2
  <2> QED
    BY <2>1, <2>7, <2>8
<1>13. ASSUME NEW p \in Player, Kick(p)
       PROVE  Room
  <2>1. /\ p \in Active /\ Active' = Active \ {p} /\ st # None
        /\ np' = (IF np = None THEN None ELSE np - 1)
        /\ \A o \in Player : job'[o] = job[o]
    BY <1>13, KickDoes
  <2>2. (np = None /\ np' = None) \/ (np # None /\ np' = np - 1 /\ np \in Int)
    BY <1>9, <2>1
  <2>3. Coming' = Coming /\ Admitted' = Admitted
    BY <1>1, <2>1 DEF Coming, Admitted
  <2>4. Cardinality(Active') = A - 1
    BY <1>5, <2>1, Sizes
  <2>5. Cardinality(Coming') = C /\ Cardinality(Admitted') = D
    BY <2>3
  <2> HIDE DEF A, C, D
  <2> QED
    BY <1>3, <1>7, <1>9, <2>2, <2>4, <2>5
<1>14. CASE KeptPlayers /\ (\A p \in Player : ~Join(p)) /\ (np' = np \/ Lost \/ \E p \in Proc : Refill(p))
  <2>1. \A p \in Player : job'[p].at = "join" => job'[p] = job[p]
    BY <1>14, OnlyJoinComes
  <2>2. Coming' \subseteq Coming /\ Admitted' \subseteq Admitted
    BY <1>1, <2>1 DEF Coming, Admitted
  <2>3. Cardinality(Coming') <= C /\ Cardinality(Admitted') <= D
    <3>1. Admitted \subseteq Player
      BY <1>5
    <3> QED
      BY <1>5, <2>2, <3>1, Sizes
  <2>4. Cardinality(Active') = A
    BY <1>14 DEF KeptPlayers
  <2>5. Cardinality(Active') + Cardinality(Admitted') <= game.limit
    <3> HIDE DEF A, C, D
    <3> QED
      BY <1>3, <1>7, <1>8, <1>9, <2>3, <2>4
  <2>6. CASE np' = np
    <3> HIDE DEF A, C, D
    <3> QED
      BY <1>3, <1>7, <1>8, <1>9, <2>3, <2>4, <2>5, <2>6
  <2>7. CASE Lost
    BY <2>5, <2>7 DEF Lost
  <2>8. ASSUME NEW p \in Proc, Refill(p)  PROVE np' >= Cardinality(Active') + Cardinality(Coming')
    <3>1. job[p].at = "refill" /\ np' = job[p].n
      BY <2>8 DEF Refill
    <3>2. job[p].n \in Int
      BY <3>1, JobKinds DEF Shapes, JobShape
    <3>3. job[p].n >= A
      BY <1>2, <3>1 DEF Seats
    <3>4. C = 0
      BY <1>4, <3>1 DEF Refilling
    <3> HIDE DEF A, C, D
    <3> QED
      BY <1>7, <1>8, <2>3, <2>4, <3>1, <3>2, <3>3, <3>4
  <2> QED
    BY <1>14, <2>5, <2>6, <2>7, <2>8
<1> QED
  BY <1>11, <1>12, <1>13, <1>14, Crowd

\* There are never more players in a game than its limit, however many phones
\* ask at once, whoever of them dies on the way, whether the host removes
\* players and whether the cache is lost between two requests: as long as nobody
\* comes or goes while a request makes the lost count anew.
THEOREM NeverTooMany == Spec => []NeverOverfull
<1>1. Init => Shapes /\ Awake /\ Seats
  BY ShapesInit, CacheInit, SeatsInit
<1>2. Shapes /\ Awake /\ Seats /\ [Next]_vars => (Shapes /\ Awake /\ Seats)'
  BY ShapesStep, AwakeStep, SeatsStep
<1>3. Shapes /\ Seats => NeverOverfull
  <2> SUFFICES ASSUME Shapes, Seats, Without({"flush", "refill_race"})
               PROVE  Cardinality(Active) <= game.limit
    BY DEF NeverOverfull
  <2>3. Watched
    BY DEF Watched, Without
  <2>1. Active \subseteq Player /\ Admitted \subseteq Player
    BY ActiveIsFinite DEF Shapes, Admitted, Coming
  <2>2. Cardinality(Active) \in Nat /\ Cardinality(Admitted) \in Nat /\ game.limit \in Nat
    BY <2>1, Sizes, GameFacts DEF Shapes
  <2> QED
    BY <2>2, <2>3 DEF Seats
<1> QED
  BY <1>1, <1>2, <1>3, PTL DEF Spec

-----------------------------------------------------------------------------
(* The counters of a question *)

\* Where the steps of an answer come from.
LEMMA Origins ==
    ASSUME Shapes, [Next]_vars, NEW p \in Player
    PROVE  /\ job'[p].at = "answer" => job'[p] = job[p] \/ \E t \in Tries : Answer(p, t)
           /\ job'[p].at = "count" => job'[p] = job[p] \/ (Store(p) /\ job[p].at = "answer" /\ job'[p].q = job[p].q)
           /\ job'[p].at = "check" => job'[p] = job[p] \/ Count(p)
<1>1. p \in Proc /\ p # Host
  BY PlayersAssumption DEF Proc
<1>2. Began(p) => job'[p].at \in {"idle", "hold", "want", "rebuild", "join"} \/ \E t \in Tries : Answer(p, t)
  BY <1>1, WhereTo DEF Began
<1>3. (\E t \in Tries : Answer(p, t)) => job'[p].at = "answer"
  BY <1>1, WhereTo
<1>4. WentOn(p) => \/ job'[p].at \in {"idle", "hold", "want", "written", "lookup", "recount", "refill"}
                   \/ Store(p) \/ Count(p)
  BY <1>1, WhereTo DEF WentOn, Idle
<1>5. Store(p) => job[p].at = "answer" /\ (job'[p].at = "idle" \/ (job'[p].at = "count" /\ job'[p].q = job[p].q))
  BY <1>1, WhereTo, FromWhere DEF Shapes, Idle
<1>6. Count(p) => job'[p].at = "check"
  BY <1>1, WhereTo
<1> QED
  BY <1>1, <1>2, <1>3, <1>4, <1>5, <1>6, WhoMoves DEF Shapes

LEMMA WrittenComes ==
    ASSUME Shapes, [Next]_vars, NEW p \in Proc, job'[p].at = "written"
    PROVE  job'[p] = job[p] \/ Commit(p)
<1>1. Began(p) => job'[p].at # "written"
  BY WhereTo DEF Began
<1>2. WentOn(p) => job'[p].at # "written" \/ Commit(p)
  BY WhereTo DEF WentOn, Idle
<1> QED
  BY <1>1, <1>2, WhoMoves DEF Shapes

\* Who writes the marks and the counters.
LEMMA WhoCounts ==
    ASSUME [Next]_vars
    PROVE  \/ UNCHANGED <<marks, na, ns>>
           \/ Lost
           \/ marks' = marks /\ \E p \in Proc : Commit(p)
           \/ \E p \in Player : Fetch(p) \/ Count(p) \/ Kick(p) \/ \E t \in Tries : Answer(p, t)
<1> DEFINE Same == UNCHANGED <<marks, na, ns>>
<1>1. ASSUME NEW p \in Proc, Commit(p)  PROVE marks' = marks
  BY <1>1 DEF Commit
<1>2. ASSUME NEW p \in Proc, \/ Save(p) \/ GiveUp(p) \/ Move(p) \/ Poll(p) \/ Killed(p) \/ Rebuild(p) \/ Rebuilt(p)
                             \/ Lookup(p) \/ Recount(p) \/ Refill(p)
                             \/ \E what \in {"next", "skip", "end"} : Press(p, what)
      PROVE  Same
  BY <1>2 DEF Save, GiveUp, Move, Poll, Killed, Rebuild, Rebuilt, Lookup, Recount, Refill, Press, cache, counters
<1>3. ASSUME (\E on \in BOOLEAN : Pause(on)) \/ Tick \/ ClaimExpires \/ LockExpires
      PROVE  Same
  <2>1. ASSUME NEW on \in BOOLEAN, Pause(on)  PROVE Same
    BY <2>1 DEF Pause, counters
  <2>2. CASE Tick
    BY <2>2 DEF Tick, counters
  <2>3. CASE ClaimExpires \/ LockExpires
    BY <2>3 DEF ClaimExpires, LockExpires, counters
  <2> QED
    BY <1>3, <2>1, <2>2, <2>3
<1>4. ASSUME NEW p \in Player, Store(p) \/ Check(p) \/ Join(p) \/ Joined(p)
      PROVE  Same
  BY <1>4 DEF Store, Check, Join, Joined, cache, counters
<1>5. CASE UNCHANGED vars
  BY <1>5 DEF vars, cache, counters
<1> HIDE DEF Same
<1>6. CASE Phases
  BY <1>1, <1>2, <1>3, <1>6 DEF Phases, Same
<1>7. CASE Phones
  BY <1>4, <1>7 DEF Phones, Same
<1>8. CASE Faults
  BY <1>2, <1>8 DEF Faults, Same
<1> QED
  BY <1>5, <1>6, <1>7, <1>8 DEF Next, Same

\* Who is removed stays marked.
LEMMA BarredStep ==
    ASSUME Shapes, Barred, [Next]_vars
    PROVE  Barred'
<1>1. game' = game
  BY WhoMoves DEF Shapes
<1>2. SUFFICES ASSUME Without({"flush", "reset"}), NEW p \in Player, player'[p].is_removed
               PROVE  <<"x", p>> \in marks'
  BY <1>1, SameEvents DEF Barred
<1>3. ~Lost
  BY <1>2 DEF Lost, May, Without
<1>4. marks \subseteq marks'
  <2>1. \A o \in Player : Fetch(o) \/ Count(o) \/ Kick(o) \/ (\E t \in Tries : Answer(o, t)) => marks \subseteq marks'
    BY DEF Fetch, Count, Kick, Answer
  <2> QED
    BY <1>3, <2>1, WhoCounts
<1>5. CASE player[p].is_removed
  BY <1>2, <1>4, <1>5 DEF Barred
<1>6. CASE ~player[p].is_removed
  <2>1. PICK o \in Player : Joined(o) \/ Kick(o)
    BY <1>2, <1>6, Crowd DEF KeptPlayers
  <2>2. ~Joined(o)
    BY <1>2, <1>6 DEF Joined
  <2>3. Kick(o)
    BY <2>1, <2>2
  <2>4. p = o /\ marks' = marks \cup {<<"x", o>>}
    BY <1>2, <1>6, <2>3, KickDoes
  <2> QED
    BY <2>4
<1> QED
  BY <1>5, <1>6

LEMMA BarredInit ==
    ASSUME Init
    PROVE  Barred
BY DEF Init, Barred, NewPlayer

\* The sets and numbers that are compared.
CountTypes ==
    \A q \in Question :
        /\ Seen(q) \subseteq Player /\ Answered(q) \subseteq Player /\ Pending(q) \subseteq Player
        /\ Cardinality(Seen(q)) \in Nat /\ Cardinality(Answered(q)) \in Nat
        /\ Cardinality(Answered(q) \ Pending(q)) \in Nat
        /\ Cardinality(Answered(q) \ Pending(q)) <= Cardinality(Answered(q))
        /\ na[q] \in Int \cup {None} /\ ns[q] \in Nat \cup {None} /\ q \in Nat

LEMMA TallyTypes == Shapes => CountTypes
<1> SUFFICES ASSUME Shapes, NEW q \in Question
             PROVE  /\ Seen(q) \subseteq Player /\ Answered(q) \subseteq Player /\ Pending(q) \subseteq Player
                    /\ Cardinality(Seen(q)) \in Nat /\ Cardinality(Answered(q)) \in Nat
                    /\ Cardinality(Answered(q) \ Pending(q)) \in Nat
                    /\ Cardinality(Answered(q) \ Pending(q)) <= Cardinality(Answered(q))
                    /\ na[q] \in Int \cup {None} /\ ns[q] \in Nat \cup {None} /\ q \in Nat
  BY DEF CountTypes
<1>1. Seen(q) \subseteq Player /\ Answered(q) \subseteq Player /\ Pending(q) \subseteq Player
  BY ActiveIsFinite DEF Shapes, Seen, Answered, Pending
<1>2. Answered(q) \ Pending(q) \subseteq Answered(q)
  OBVIOUS
<1>3. /\ Cardinality(Seen(q)) \in Nat /\ Cardinality(Answered(q)) \in Nat
      /\ Cardinality(Answered(q) \ Pending(q)) \in Nat
      /\ Cardinality(Answered(q) \ Pending(q)) <= Cardinality(Answered(q))
  <2>1. Answered(q) \ Pending(q) \subseteq Player
    BY <1>1
  <2> QED
    BY <1>1, <1>2, <2>1, Sizes
<1>4. q \in Nat
  BY GameFacts DEF Shapes
<1> QED
  BY <1>1, <1>3, <1>4 DEF Shapes, CountShape

LEMMA StateFacts ==
    ASSUME Shapes, st # None
    PROVE  /\ st.i \in Nat /\ st.i <= N /\ N \in Nat /\ Question = 1..N
           /\ st.ph = "question" => st.i \in Question
<1>1. IsState(st)
  BY DEF Shapes, StateShape
<1> QED
  BY <1>1, GameFacts DEF Shapes, IsState, Place

\* The counts stay right when they and the question stay, nobody who has just
\* come has it, and no answer is taken back.
LEMMA CountsKept ==
    ASSUME Shapes, Shapes', game' = game, NEW q \in Question, CountsWell(q), st # None, st' # None,
           na'[q] = na[q], ns'[q] = ns[q], st'.i = st.i,
           Seen(q)' \subseteq Seen(q),
           Answered(q) \ Pending(q) \subseteq Answered(q)' \ Pending(q)',
           (Pending(q)' # {} \/ (st'.ph = "question" /\ q = st'.i)) =>
              (Pending(q) # {} \/ (st.ph = "question" /\ q = st.i))
    PROVE  CountsWell(q)'
<1>1. q \in Question'
  BY SameGame
<1>2. PICK a, b, c, d : /\ a = Cardinality(Seen(q)) /\ b = Cardinality(Seen(q))'
                        /\ c = Cardinality(Answered(q) \ Pending(q)) /\ d = Cardinality(Answered(q) \ Pending(q))'
  OBVIOUS
<1>3. a \in Nat /\ c \in Nat /\ na[q] \in Int \cup {None} /\ ns[q] \in Nat \cup {None} /\ Seen(q) \subseteq Player
  BY <1>2, TallyTypes DEF CountTypes
<1>4. b \in Nat /\ d \in Nat /\ Answered(q)' \subseteq Player
  <2>1. CountTypes'
    BY TallyTypes, PTL
  <2> QED
    BY <1>1, <1>2, <2>1 DEF CountTypes
<1>5. b <= a /\ c <= d
  <2>1. Answered(q)' \ Pending(q)' \subseteq Player
    BY <1>4
  <2> QED
    BY <1>2, <1>3, <2>1, Sizes
<1> QED
  BY <1>2, <1>3, <1>4, <1>5 DEF CountsWell

\* A phone receives the question: it is counted with the mark.
LEMMA FetchKeepsCounts ==
    ASSUME Shapes, Shapes', MarksAgree, CountersAgree, NEW p \in Player, Fetch(p)
    PROVE  MarksAgree' /\ CountersAgree'
<1>1. /\ p \in Range(joined) /\ st # None /\ st.ph = "question"
      /\ marks' = marks \cup {<<"seen", st.i, p>>}
      /\ ns' = [ns EXCEPT ![st.i] = IF ns[st.i] = None THEN 1 ELSE ns[st.i] + 1]
      /\ UNCHANGED <<game, db, st, na, job>>
  BY DEF Fetch
<1>2. PICK k : k = st.i
  OBVIOUS
<1>3. k \in Question /\ st.i \in Nat
  BY <1>1, <1>2, StateFacts
<1>4. game' = game /\ st' = st /\ na' = na /\ job' = job /\ joined' = joined /\ Active' = Active /\ Question' = Question
  BY <1>1, SameGame DEF db, Active
<1>5. \A q : Answered(q)' = Answered(q) /\ Pending(q)' = Pending(q)
  BY <1>1, <1>4 DEF Answered, Pending
<1>6. \A q : Seen(q)' \subseteq Seen(q) \cup {p} /\ (q # k => Seen(q)' = Seen(q))
  BY <1>1, <1>2, <1>4 DEF Seen
<1>7. MarksAgree'
  <2>1. MarksGoTogether'
    <3>1. MarksGoTogether /\ \A o, q : (q <= st.i /\ o \in Range(joined))' <=> (q <= st.i /\ o \in Range(joined))
      BY <1>4 DEF MarksAgree
    <3>2. ASSUME NEW o \in Player, NEW q \in Question
          PROVE  <<"a", q, o>> \in marks' \/ <<"seen", q, o>> \in marks' => (q <= st.i /\ o \in Range(joined))'
      <4>1. /\ <<"a", q, o>> \in marks' => <<"a", q, o>> \in marks
            /\ <<"seen", q, o>> \in marks' => <<"seen", q, o>> \in marks \/ (q = st.i /\ o = p)
        BY <1>1
      <4>2. <<"a", q, o>> \in marks \/ <<"seen", q, o>> \in marks => q <= st.i /\ o \in Range(joined)
        BY <3>1 DEF MarksGoTogether, MarkAgrees
      <4>3. p \in Range(joined) /\ st.i <= st.i
        BY <1>1, <1>3
      <4> QED
        BY <3>1, <4>1, <4>2, <4>3
    <3> QED
      BY <1>4, <3>2 DEF MarksGoTogether, MarkAgrees
  <2>2. AnswerersAreIn'
    BY <1>4, <1>5 DEF MarksAgree, AnswerersAreIn
  <2> QED
    BY <1>1, <1>4, <2>1, <2>2 DEF MarksAgree
<1>8. ns'[k] = (IF ns[k] = None THEN 1 ELSE ns[k] + 1) /\ \A q \in Question \ {k} : ns'[q] = ns[q]
  BY <1>1, <1>2 DEF Shapes, CountShape
<1>9. ns[k] # None /\ ns[k] \in Nat /\ ns[k] >= Cardinality(Seen(k)) /\ ns'[k] = ns[k] + 1
  <2>1. CountsWell(k) /\ k <= st.i /\ ns[k] \in Nat \cup {None}
    BY <1>2, <1>3 DEF CountersAgree, Shapes, CountShape
  <2> QED
    BY <1>8, <2>1 DEF CountsWell
<1>10. Cardinality(Seen(k)') <= Cardinality(Seen(k)) + 1
  <2>1. Seen(k) \subseteq Player /\ Seen(k) \cup {p} \subseteq Player /\ Seen(k)' \subseteq Player
    BY <1>3, <1>6, TallyTypes DEF CountTypes
  <2>2. PICK a, b, c : a = Cardinality(Seen(k)) /\ b = Cardinality(Seen(k)') /\ c = Cardinality(Seen(k) \cup {p})
    OBVIOUS
  <2>3. a \in Nat /\ b \in Nat /\ c \in Nat /\ b <= c
    BY <1>6, <2>1, <2>2, Sizes
  <2>4. c = a \/ c = a + 1
    <3>1. CASE p \in Seen(k)
      <4>1. Seen(k) \cup {p} = Seen(k)
        BY <3>1
      <4> QED
        BY <2>2, <4>1
    <3>2. CASE p \notin Seen(k)
      BY <2>1, <2>2, <3>2, Sizes
    <3> QED
      BY <3>1, <3>2
  <2> QED
    BY <2>2, <2>3, <2>4
<1>11. ASSUME NEW q \in Question  PROVE CountsWell(q)'
  <2>1. CASE q # k
    BY <1>1, <1>4, <1>5, <1>6, <1>8, <2>1, CountsKept DEF CountersAgree
  <2>2. CASE q = k
    <3>1. PICK a, b : a = Cardinality(Seen(k)) /\ b = Cardinality(Seen(k)')
      OBVIOUS
    <3>2. a \in Nat /\ b \in Nat /\ b <= a + 1 /\ ns[k] >= a
      <4>1. CountTypes'
        BY TallyTypes, PTL
      <4> QED
        BY <1>3, <1>4, <1>9, <1>10, <3>1, <4>1, TallyTypes DEF CountTypes
    <3>3. ns'[k] >= b /\ ns'[k] # None
      BY <1>9, <3>2, NoneAssumption
    <3>4. na'[k] = na[k] /\ st'.i = k /\ st'.ph = st.ph /\ CountsWell(k)
      BY <1>2, <1>3, <1>4 DEF CountersAgree
    <3>5. /\ Seen(k)' = Seen(q)' /\ (k > st.i)' = (k > st.i)
          /\ Answered(k)' = Answered(k) /\ Pending(k)' = Pending(k)
      BY <1>4, <1>5, <2>2
    <3> QED
      BY <1>2, <1>4, <2>2, <3>1, <3>3, <3>4, <3>5 DEF CountsWell
  <2> QED
    BY <2>1, <2>2
<1>12. OpensCount'
  <2> SUFFICES ASSUME NEW o \in Proc, job[o].at = "written", job[o].op = "open"
               PROVE  ns'[job[o].st.i + 1] # None
    BY <1>4 DEF OpensCount
  <2>1. IsChange(job[o])
    BY JobKinds DEF Shapes, JobShape, Changing
  <2>2. job[o].st.i + 1 \in Question
    BY <2>1, NewStateShape DEF Shapes
  <2>3. ns[job[o].st.i + 1] # None
    BY DEF CountersAgree, OpensCount
  <2>4. ns'[k] # None
    BY <1>9, NoneAssumption
  <2> QED
    BY <1>8, <2>2, <2>3, <2>4
<1>13. ChecksAgree'
  BY <1>4, <1>5 DEF CountersAgree, ChecksAgree
<1>14. CountersAgree'
  BY <1>4, <1>11, <1>12, <1>13 DEF CountersAgree
<1> QED
  BY <1>7, <1>14

\* An answer that is accepted is that of somebody in the game.
LEMMA AnswerKeepsCounts ==
    ASSUME Shapes, Shapes', Barred, Orderly, MarksAgree, CountersAgree,
           NEW p \in Player, NEW t \in Tries, Answer(p, t)
    PROVE  MarksAgree' /\ CountersAgree'
<1>1. PICK row : job' = [job EXCEPT ![p] = [at |-> "answer", q |-> st.i, row |-> row]]
  BY DEF Answer
<1>2. /\ job[p] = Idle /\ p \in Range(joined) /\ st # None /\ st.ph = "question"
      /\ <<"x", p>> \notin marks /\ <<"a", st.i, p>> \notin marks
      /\ marks' = marks \cup {<<"a", st.i, p>>}
      /\ UNCHANGED <<game, db, st, na, ns>>
  BY DEF Answer, Free
<1>3. PICK k : k = st.i
  OBVIOUS
<1>4. k \in Question /\ k <= st.i
  BY <1>2, <1>3, StateFacts
<1>5. /\ game' = game /\ st' = st /\ na' = na /\ ns' = ns /\ joined' = joined /\ player' = player
      /\ Active' = Active /\ Question' = Question
  BY <1>2, SameGame DEF db, Active
<1>7. p \in Active
  <2>1. ~player[p].is_removed
    BY <1>2 DEF Barred, Orderly, Without
  <2> QED
    BY <1>2, <2>1 DEF Active
<1>8. job'[p].at = "answer" /\ job'[p].q = k /\ \A o \in Proc \ {p} : job'[o] = job[o]
  BY <1>1, <1>3 DEF Shapes, JobShape, Proc
<1>9. \A o \in Player : o \in Proc
  BY DEF Proc
<1>10. \A q : Seen(q)' = Seen(q) /\ Answered(q)' = IF q = k THEN Answered(q) \cup {p} ELSE Answered(q)
  BY <1>2, <1>3, <1>5, <1>7 DEF Seen, Answered
<1>11. p \notin Answered(k)
  BY <1>2, <1>3 DEF Answered
<1>12. \A q : Pending(q)' = IF q = k THEN Pending(q) \cup {p} ELSE Pending(q)
  <2>1. job[p].at \notin {"answer", "count"}
    BY <1>2 DEF Idle
  <2> QED
    BY <1>8, <1>9, <2>1 DEF Pending
<1>13. MarksGoTogether'
  <2>1. MarksGoTogether
    BY DEF MarksAgree
  <2>2. ASSUME NEW o \in Player, NEW q \in Question
        PROVE  <<"a", q, o>> \in marks' \/ <<"seen", q, o>> \in marks' => (q <= st.i /\ o \in Range(joined))'
    <3>1. /\ <<"a", q, o>> \in marks' => <<"a", q, o>> \in marks \/ (q = k /\ o = p)
          /\ <<"seen", q, o>> \in marks' => <<"seen", q, o>> \in marks
      BY <1>2, <1>3
    <3>2. <<"a", q, o>> \in marks \/ <<"seen", q, o>> \in marks => q <= st.i /\ o \in Range(joined)
      BY <2>1 DEF MarksGoTogether, MarkAgrees
    <3>3. k <= st.i /\ p \in Range(joined)
      BY <1>2, <1>4
    <3> QED
      BY <1>5, <3>1, <3>2, <3>3
  <2> QED
    BY <1>5, <2>2 DEF MarksGoTogether, MarkAgrees
<1>14. AnswerersAreIn'
  <2>1. PICK f : f = job'
    OBVIOUS
  <2>2. ASSUME NEW o \in Player, f[o].at \in {"answer", "count", "check"}
        PROVE  o \in Active' /\ <<"a", f[o].q, o>> \in marks'
    <3>1. CASE o = p
      BY <1>2, <1>3, <1>5, <1>7, <1>8, <2>1, <3>1
    <3>2. CASE o # p
      BY <1>2, <1>5, <1>8, <1>9, <2>1, <2>2, <3>2 DEF MarksAgree, AnswerersAreIn, Answered
    <3> QED
      BY <3>1, <3>2
  <2> QED
    BY <2>1, <2>2 DEF AnswerersAreIn, Answered
<1>15. ASSUME NEW q \in Question  PROVE CountsWell(q)'
  <2>1. Answered(q) \ Pending(q) \subseteq Answered(q)' \ Pending(q)'
    BY <1>10, <1>11, <1>12
  <2>2. Seen(q)' \subseteq Seen(q)
    BY <1>10
  <2>3. (Pending(q)' # {} \/ (st'.ph = "question" /\ q = st'.i)) =>
           (Pending(q) # {} \/ (st.ph = "question" /\ q = st.i))
    BY <1>2, <1>3, <1>5, <1>12
  <2> QED
    BY <1>2, <1>5, <2>1, <2>2, <2>3, CountsKept DEF CountersAgree
<1>16. OpensCount'
  <2>1. \A o \in Proc : job'[o].at = "written" => job'[o] = job[o]
    BY <1>8
  <2> QED
    BY <1>5, <2>1 DEF CountersAgree, OpensCount
<1>17. ChecksAgree'
  <2>1. PICK f : f = job'
    OBVIOUS
  <2>2. ASSUME NEW o \in Player, f[o].at = "check"
        PROVE  f[o].n <= Cardinality(Answered(f[o].q))'
    <3>1. f[o] = job[o]
      BY <1>8, <1>9, <2>1, <2>2
    <3>2. job[o].q \in Question /\ job[o].n \in Int /\ job[o].n <= Cardinality(Answered(job[o].q))
      BY <1>9, <2>2, <3>1, JobKinds DEF Shapes, JobShape, CountersAgree, ChecksAgree
    <3>3. Answered(job[o].q) \subseteq Answered(job[o].q) \cup {p} /\ Answered(job[o].q) \cup {p} \subseteq Player
      BY <3>2, TallyTypes DEF CountTypes
    <3>4. PICK q : q = f[o].q
      OBVIOUS
    <3>5. Answered(q)' = IF q = k THEN Answered(q) \cup {p} ELSE Answered(q)
      BY <1>10
    <3>6. Cardinality(Answered(q)) <= Cardinality(Answered(q)') /\ Cardinality(Answered(q)) \in Nat
          /\ Cardinality(Answered(q)') \in Nat
      BY <3>1, <3>3, <3>4, <3>5, Sizes
    <3>7. job[o].n <= Cardinality(Answered(q)')
      BY <3>1, <3>2, <3>4, <3>6
    <3> QED
      BY <3>1, <3>4, <3>7
  <2> QED
    BY <2>1, <2>2 DEF ChecksAgree
<1>18. st' # None
  BY <1>2, <1>5
<1> QED
  BY <1>5, <1>13, <1>14, <1>15, <1>16, <1>17, <1>18 DEF MarksAgree, CountersAgree

\* What is marked agrees as long as nothing is marked, nobody leaves and the
\* game does not go back.
LEMMA MarksStay ==
    ASSUME Shapes, MarksGoTogether, st # None, Question' = Question,
           st'.i \in Nat, st.i <= st'.i, Range(joined) \subseteq Range(joined)',
           \A q, p : <<"a", q, p>> \in marks' <=> <<"a", q, p>> \in marks,
           \A q, p : <<"seen", q, p>> \in marks' <=> <<"seen", q, p>> \in marks
    PROVE  MarksGoTogether'
<1>1. ASSUME NEW o \in Player, NEW q \in Question
      PROVE  MarkAgrees(q, o)'
  <2>1. <<"a", q, o>> \in marks \/ <<"seen", q, o>> \in marks => q <= st.i /\ o \in Range(joined)
    BY DEF MarksGoTogether, MarkAgrees
  <2>2. st.i \in Nat /\ q \in Nat
    BY StateFacts
  <2>3. q <= st.i => q <= st'.i
    BY <2>2
  <2> QED
    BY <2>1, <2>3 DEF MarkAgrees
<1> QED
  BY <1>1 DEF MarksGoTogether

\* An answer that is stored is counted once.
LEMMA CountKeepsCounts ==
    ASSUME Shapes, Shapes', MarksAgree, CountersAgree, NEW p \in Player, Count(p)
    PROVE  MarksAgree' /\ CountersAgree'
<1>1. PICK k, n : /\ k = job[p].q /\ n = (IF na[k] = None THEN 1 ELSE na[k] + 1)
                  /\ na' = [na EXCEPT ![k] = n]
                  /\ job' = [job EXCEPT ![p] = [at |-> "check", q |-> k, n |-> n]]
  BY DEF Count
<1>2. job[p].at = "count" /\ UNCHANGED <<game, db, st, ns, marks>>
  BY DEF Count
<1>3. /\ game' = game /\ st' = st /\ ns' = ns /\ marks' = marks /\ joined' = joined
      /\ Active' = Active /\ Question' = Question /\ st # None
  BY <1>2, SameGame DEF db, Active, MarksAgree
<1>4. \A o \in Player : o \in Proc
  BY DEF Proc
<1>5. k \in Question
  BY <1>1, <1>2, <1>4, JobKinds DEF Shapes, JobShape
<1>6. p \in Answered(k) /\ k <= st.i
  <2>1. p \in Answered(k)
    BY <1>1, <1>2 DEF MarksAgree, AnswerersAreIn
  <2> QED
    BY <1>5, <2>1 DEF MarksAgree, MarksGoTogether, MarkAgrees, Answered
<1>7. job'[p].at = "check" /\ job'[p].q = k /\ job'[p].n = n /\ \A o \in Proc \ {p} : job'[o] = job[o]
  BY <1>1, <1>4 DEF Shapes, JobShape
<1>8. \A q : Seen(q)' = Seen(q) /\ Answered(q)' = Answered(q)
  BY <1>3 DEF Seen, Answered
<1>9. p \in Pending(k) /\ \A q : Pending(q)' = Pending(q) \ {p} /\ (q # k => Pending(q)' = Pending(q))
  BY <1>1, <1>2, <1>4, <1>7 DEF Pending
<1>10. na'[k] = n /\ \A q \in Question \ {k} : na'[q] = na[q]
  BY <1>1 DEF Shapes, CountShape
<1>11. /\ n <= Cardinality(Answered(k) \ Pending(k)') /\ n \in Int
       /\ Cardinality(Answered(k) \ Pending(k)') \in Nat
       /\ Cardinality(Answered(k) \ Pending(k)') <= Cardinality(Answered(k))
  <2>1. Answered(k) \ Pending(k)' = (Answered(k) \ Pending(k)) \cup {p}
    BY <1>6, <1>9
  <2>2. Answered(k) \ Pending(k) \subseteq Player /\ p \notin Answered(k) \ Pending(k) /\ Answered(k) \subseteq Player
    BY <1>5, <1>9, TallyTypes DEF CountTypes
  <2>3. PICK a, b : a = Cardinality(Answered(k) \ Pending(k)) /\ b = Cardinality(Answered(k) \ Pending(k)')
    OBVIOUS
  <2>4. a \in Nat /\ b = a + 1
    BY <2>1, <2>2, <2>3, Sizes
  <2>5. na[k] \in Int \cup {None} /\ (na[k] # None => na[k] <= a)
    BY <1>5, <1>9, <2>3, TallyTypes DEF CountTypes, CountersAgree, CountsWell
  <2>6. n \in Int /\ n <= b
    BY <1>1, <2>4, <2>5
  <2>7. b <= Cardinality(Answered(k))
    BY <2>2, <2>3, Sizes
  <2> QED
    BY <2>3, <2>4, <2>6, <2>7
<1>12. ASSUME NEW q \in Question  PROVE CountsWell(q)'
  <2>1. CASE q # k
    BY <1>3, <1>8, <1>9, <1>10, <2>1, CountsKept DEF CountersAgree
  <2>2. CASE q = k
    <3>1. CountsWell(k) /\ k \in Nat /\ st.i \in Nat
      BY <1>3, <1>5, TallyTypes, StateFacts DEF CountersAgree, CountTypes
    <3>2. ns'[k] = ns[k] /\ st'.i = st.i
      BY <1>3
    <3>3. Seen(k)' = Seen(k) /\ Answered(k)' = Answered(k)
      BY <1>8
    <3> QED
      BY <1>6, <1>10, <1>11, <2>2, <3>1, <3>2, <3>3 DEF CountsWell
  <2> QED
    BY <2>1, <2>2
<1>13. MarksGoTogether'
  <2>1. st.i \in Nat /\ st'.i = st.i /\ Range(joined)' = Range(joined) /\ MarksGoTogether
    BY <1>3, StateFacts DEF MarksAgree
  <2> QED
    BY <1>3, <2>1, MarksStay
<1>14. AnswerersAreIn'
  <2>1. PICK f : f = job'
    OBVIOUS
  <2>2. ASSUME NEW o \in Player, f[o].at \in {"answer", "count", "check"}
        PROVE  o \in Active' /\ <<"a", f[o].q, o>> \in marks'
    <3>1. CASE o = p
      BY <1>3, <1>6, <1>7, <2>1, <3>1 DEF Answered
    <3>2. CASE o # p
      BY <1>3, <1>4, <1>7, <2>1, <2>2, <3>2 DEF MarksAgree, AnswerersAreIn, Answered
    <3> QED
      BY <3>1, <3>2
  <2> QED
    BY <2>1, <2>2 DEF AnswerersAreIn, Answered
<1>15. OpensCount'
  BY <1>3, <1>7 DEF CountersAgree, OpensCount
<1>16. ChecksAgree'
  <2>1. PICK f : f = job'
    OBVIOUS
  <2>2. ASSUME NEW o \in Player, f[o].at = "check"
        PROVE  f[o].n <= Cardinality(Answered(f[o].q)')
    <3>1. PICK q : q = f[o].q
      OBVIOUS
    <3>2. Answered(q)' = Answered(q)
      BY <1>8
    <3>3. CASE o = p
      <4>1. f[o].n = n /\ q = k
        BY <1>7, <2>1, <3>1, <3>3
      <4>2. n <= Cardinality(Answered(k)) /\ Cardinality(Answered(k)) \in Nat
        <5>1. PICK a, b : a = Cardinality(Answered(k) \ Pending(k)') /\ b = Cardinality(Answered(k))
          OBVIOUS
        <5>2. b \in Nat
          BY <1>5, <5>1, TallyTypes DEF CountTypes
        <5>3. n <= a /\ a <= b /\ a \in Nat /\ n \in Int
          BY <1>11, <5>1
        <5> QED
          BY <5>1, <5>2, <5>3
      <4> QED
        BY <3>1, <3>2, <4>1, <4>2
    <3>4. CASE o # p
      <4>1. f[o] = job[o]
        BY <1>4, <1>7, <2>1, <3>4
      <4>2. job[o].n <= Cardinality(Answered(job[o].q))
        BY <2>2, <4>1 DEF CountersAgree, ChecksAgree
      <4>3. job[o].n = f[o].n /\ job[o].q = q
        BY <3>1, <4>1
      <4> QED
        BY <3>1, <3>2, <4>2, <4>3
    <3> QED
      BY <3>3, <3>4
  <2> QED
    BY <2>1, <2>2 DEF ChecksAgree
<1> QED
  BY <1>3, <1>12, <1>13, <1>14, <1>15, <1>16 DEF MarksAgree, CountersAgree

\* The host removes a player while nobody's answer is being counted.
LEMMA KickKeepsCounts ==
    ASSUME Shapes, Shapes', Orderly, MarksAgree, CountersAgree, NEW p \in Player, Kick(p)
    PROVE  MarksAgree' /\ CountersAgree'
<1>1. /\ p \in Active /\ Active' = Active \ {p} /\ joined' = joined /\ st # None
      /\ marks' = marks \cup {<<"x", p>>}
      /\ \A o \in Proc \ {Host} : job'[o] = job[o]
      /\ \A o \in Player : job'[o] = job[o]
      /\ game' = game /\ st' = st /\ ns' = ns
  BY KickDoes
<1>2. na' = IF st.ph = "question" THEN [na EXCEPT ![st.i] = CountWithout(p, st.i)] ELSE na
  BY DEF Kick
<1>3. \A o \in Player : job[o].at \notin {"answer", "count", "check"}
  BY DEF Kick, Orderly, Without, May
<1>4. Question' = Question
  BY <1>1, SameGame
<1>5. \A q : Pending(q) = {} /\ Pending(q)' = {}
  BY <1>1, <1>3 DEF Pending
<1>6. \A q : Seen(q)' = Seen(q) \ {p} /\ Answered(q)' = Answered(q) \ {p}
  BY <1>1 DEF Seen, Answered
<1>7. ASSUME NEW q \in Question  PROVE CountsWell(q)'
  <2>1. PICK a, b, c, d : /\ a = Cardinality(Answered(q)) /\ b = Cardinality(Answered(q)' \ Pending(q)')
                          /\ c = Cardinality(Seen(q)) /\ d = Cardinality(Seen(q)')
    OBVIOUS
  <2>2. /\ Seen(q) \subseteq Player /\ Answered(q) \subseteq Player
        /\ a \in Nat /\ c \in Nat /\ na[q] \in Int \cup {None} /\ ns[q] \in Nat \cup {None}
    BY <2>1, TallyTypes DEF CountTypes
  <2>3. d \in Nat /\ d <= c
    <3>1. Seen(q)' \subseteq Seen(q)
      BY <1>6
    <3> QED
      BY <2>1, <2>2, <3>1, Sizes
  <2>4. b = IF <<"a", q, p>> \in marks THEN a - 1 ELSE a
    <3>1. Answered(q)' \ Pending(q)' = Answered(q) \ {p}
      BY <1>5, <1>6
    <3>2. CASE <<"a", q, p>> \in marks
      <4>1. p \in Answered(q)
        BY <1>1, <3>2 DEF Answered
      <4>2. Cardinality(Answered(q) \ {p}) = a - 1
        BY <2>1, <2>2, <4>1, Sizes
      <4> QED
        BY <2>1, <3>1, <3>2, <4>2
    <3>3. CASE <<"a", q, p>> \notin marks
      <4>1. Answered(q) \ {p} = Answered(q)
        BY <3>3 DEF Answered
      <4> QED
        BY <2>1, <3>1, <3>3, <4>1
    <3> QED
      BY <3>2, <3>3
  <2>5. /\ q > st.i => na[q] \in {None, 0}
        /\ q <= st.i => ns[q] # None
        /\ ns[q] # None => ns[q] >= c
        /\ na[q] # None /\ st.ph = "question" /\ q = st.i => na[q] <= a
    <3>1. CountsWell(q) /\ Answered(q) \ Pending(q) = Answered(q)
      BY <1>5 DEF CountersAgree
    <3> QED
      BY <2>1, <3>1 DEF CountsWell
  <2>6. na'[q] = IF st.ph = "question" /\ q = st.i THEN CountWithout(p, q) ELSE na[q]
    BY <1>2 DEF Shapes, CountShape
  <2>7. CountWithout(p, q) = IF <<"a", q, p>> \in marks /\ na[q] # None THEN na[q] - 1 ELSE na[q]
    BY DEF CountWithout
  <2>8. st.i \in Nat /\ q \in Nat
    BY <1>1, StateFacts
  <2>9. /\ q > st.i => na'[q] \in {None, 0}
        /\ ns[q] # None => ns[q] >= d
        /\ na'[q] # None /\ st.ph = "question" /\ q = st.i => na'[q] <= b
    <3>1. q > st.i => na'[q] \in {None, 0}
      BY <2>5, <2>6, <2>8
    <3>2. ns[q] # None => ns[q] >= d
      BY <2>2, <2>3, <2>5
    <3>3. ASSUME na'[q] # None, st.ph = "question", q = st.i  PROVE na'[q] <= b
      <4>1. na'[q] = CountWithout(p, q) /\ na[q] # None
        BY <2>6, <2>7, <3>3
      <4>2. na[q] \in Int /\ na[q] <= a
        BY <2>2, <2>5, <3>3, <4>1
      <4> QED
        BY <2>2, <2>4, <2>7, <4>1, <4>2
    <3> QED
      BY <3>1, <3>2, <3>3
  <2>10. ns'[q] = ns[q] /\ st'.i = st.i /\ st'.ph = st.ph /\ Pending(q)' = {}
    BY <1>1, <1>5
  <2> QED
    BY <2>1, <2>5, <2>9, <2>10 DEF CountsWell
<1>8. MarksGoTogether'
  <2>1. st.i \in Nat /\ st'.i = st.i /\ Range(joined)' = Range(joined) /\ MarksGoTogether
    BY <1>1, StateFacts DEF MarksAgree
  <2>2. /\ \A q, o : <<"a", q, o>> \in marks' <=> <<"a", q, o>> \in marks
        /\ \A q, o : <<"seen", q, o>> \in marks' <=> <<"seen", q, o>> \in marks
    BY <1>1
  <2> QED
    BY <1>1, <1>4, <2>1, <2>2, MarksStay
<1>9. AnswerersAreIn' /\ ChecksAgree'
  BY <1>1, <1>3 DEF AnswerersAreIn, ChecksAgree
<1>10. OpensCount'
  <2>1. job'[Host] = job[Host] \/ job'[Host].at \in {"idle", "want"}
    BY WhereTo DEF Proc
  <2> QED
    BY <1>1, <2>1 DEF CountersAgree, OpensCount
<1> QED
  BY <1>1, <1>4, <1>7, <1>8, <1>9, <1>10 DEF MarksAgree, CountersAgree

\* A question that is opened has nobody's marks yet: its counters begin anew.
LEMMA CommitKeepsCounts ==
    ASSUME Shapes, Shapes', Locked, Orderly, MarksAgree, CountersAgree, NEW p \in Proc, Commit(p)
    PROVE  MarksAgree' /\ CountersAgree'
<1>1. PICK j, w :
         /\ j = job[p] /\ IsChange(j) /\ j.at = "hold"
         /\ job' = [job EXCEPT ![p] = w] /\ w.at = "written" /\ w.op = j.op /\ w.st = j.st
         /\ player' = Updated(j.rows)
         /\ na' = IF j.op = "open" THEN [na EXCEPT ![j.st.i + 1] = 0] ELSE na
         /\ ns' = IF j.op = "open" THEN [ns EXCEPT ![j.st.i + 1] = 0] ELSE ns
         /\ UNCHANGED <<game, joined, answers, st, clock, np, marks, me, due, lock, events>>
  BY CommitDoes
<1>2. j.st = st /\ st # None
  BY <1>1 DEF Locked, Holding, Orderly, Without
<1>3. game' = game /\ st' = st /\ marks' = marks /\ joined' = joined /\ Question' = Question
  BY <1>1, SameGame
<1>4. Active' = Active
  <2>1. SomeRows(j.rows, NewResults) \/ SomeRows(j.rows, NewPlaces) \/ j.rows = <<>>
    BY <1>1, ChangeParts
  <2>2. \A o \in Player : player'[o].is_removed = player[o].is_removed
    BY <1>1, <2>1, UpdatedShape DEF Shapes
  <2>3. Range(joined) \subseteq Player /\ Range(joined)' = Range(joined)
    BY <1>3 DEF Shapes, DbShape, Range
  <2> QED
    BY <2>2, <2>3 DEF Active
<1>5. job'[p] = w /\ \A o \in Proc \ {p} : job'[o] = job[o]
  BY <1>1 DEF Shapes, JobShape
<1>6. \A o \in Player : o \in Proc
  BY DEF Proc
<1>7. \A q : Seen(q)' = Seen(q) /\ Answered(q)' = Answered(q)
  BY <1>3, <1>4 DEF Seen, Answered
<1>8. \A o \in Player : job'[o].at \in {"answer", "count", "check"} \/ job[o].at \in {"answer", "count", "check"} =>
          job'[o] = job[o]
  BY <1>1, <1>5, <1>6
<1>9. \A q : Pending(q)' = Pending(q)
  BY <1>8 DEF Pending
<1>10. j.op = "open" => st.i + 1 \in Question
  BY <1>1, <1>2, NewStateShape DEF Shapes
<1>11. ASSUME NEW q \in Question  PROVE CountsWell(q)'
  <2>1. CASE na'[q] = na[q] /\ ns'[q] = ns[q]
    <3>1. CountsWell(q)
      BY DEF CountersAgree
    <3> QED
      BY <1>2, <1>3, <1>7, <1>9, <2>1, <3>1, CountsKept
  <2>2. CASE ~(na'[q] = na[q] /\ ns'[q] = ns[q])
    <3>1. j.op = "open" /\ q = st.i + 1
      BY <1>1, <1>2, <2>2 DEF Shapes, CountShape
    <3>2. na'[q] = 0 /\ ns'[q] = 0
      BY <1>1, <1>2, <3>1 DEF Shapes, CountShape
    <3>3. st.i \in Nat
      BY <1>2, StateFacts
    <3>4. Seen(q) = {}
      <4>1. \A o \in Player : <<"seen", q, o>> \in marks => q <= st.i
        BY DEF MarksAgree, MarksGoTogether, MarkAgrees
      <4>2. Seen(q) \subseteq Player
        BY TallyTypes DEF CountTypes
      <4>3. ~(q <= st.i)
        BY <3>1, <3>3
      <4> QED
        BY <4>1, <4>2, <4>3 DEF Seen
    <3>5. Cardinality(Seen(q)') = 0
      BY <1>7, <3>4, FS_EmptySet
    <3>6. st'.i = st.i /\ ~(q <= st.i)
      BY <1>3, <3>1, <3>3
    <3>7. PICK b : b = Cardinality(Answered(q)' \ Pending(q)')
      OBVIOUS
    <3>8. b \in Nat
      <4>1. CountTypes'
        BY TallyTypes, PTL
      <4> QED
        BY <1>3, <3>7, <4>1 DEF CountTypes
    <3>9. 0 # None
      BY NoneAssumption
    <3> QED
      BY <3>2, <3>5, <3>6, <3>7, <3>8, <3>9 DEF CountsWell
  <2> QED
    BY <2>1, <2>2
<1>12. MarksGoTogether'
  <2>1. st.i \in Nat /\ st'.i = st.i /\ Range(joined)' = Range(joined) /\ MarksGoTogether
    BY <1>2, <1>3, StateFacts DEF MarksAgree
  <2> QED
    BY <1>2, <1>3, <2>1, MarksStay
<1>13. AnswerersAreIn'
  <2>1. PICK f : f = job'
    OBVIOUS
  <2>2. ASSUME NEW o \in Player, f[o].at \in {"answer", "count", "check"}
        PROVE  o \in Active' /\ <<"a", f[o].q, o>> \in marks'
    BY <1>3, <1>4, <1>8, <2>1, <2>2 DEF MarksAgree, AnswerersAreIn, Answered
  <2> QED
    BY <2>1, <2>2 DEF AnswerersAreIn, Answered
<1>14. ChecksAgree'
  <2>1. PICK f : f = job'
    OBVIOUS
  <2>2. ASSUME NEW o \in Player, f[o].at = "check"
        PROVE  f[o].n <= Cardinality(Answered(f[o].q)')
    <3>1. f[o] = job[o]
      BY <1>8, <2>1, <2>2
    <3>2. job[o].n <= Cardinality(Answered(job[o].q))
      BY <2>2, <3>1 DEF CountersAgree, ChecksAgree
    <3>3. PICK q : q = f[o].q
      OBVIOUS
    <3>4. Answered(q)' = Answered(q)
      BY <1>7
    <3> QED
      BY <3>1, <3>2, <3>3, <3>4
  <2> QED
    BY <2>1, <2>2 DEF ChecksAgree
<1>15. OpensCount'
  <2>1. \A q \in Question : ns[q] # None => ns'[q] # None
    BY <1>1, NoneAssumption DEF Shapes, CountShape
  <2>2. ASSUME NEW o \in Proc, job'[o].at = "written", job'[o].op = "open"
        PROVE  ns'[job'[o].st.i + 1] # None
    <3>1. CASE o = p
      <4>1. j.op = "open" /\ job'[o].st = st
        BY <1>1, <1>2, <1>5, <2>2, <3>1
      <4>2. ns'[st.i + 1] = 0
        BY <1>1, <1>2, <1>10, <4>1 DEF Shapes, CountShape
      <4> QED
        BY <4>1, <4>2, NoneAssumption
    <3>2. CASE o # p
      <4>1. job'[o] = job[o]
        BY <1>5, <3>2
      <4>2. IsChange(job[o])
        BY <2>2, <4>1, JobKinds DEF Shapes, JobShape, Changing
      <4>3. job[o].st.i + 1 \in Question
        BY <2>2, <4>1, <4>2, NewStateShape DEF Shapes
      <4> QED
        BY <2>1, <2>2, <4>1, <4>3 DEF CountersAgree, OpensCount
    <3> QED
      BY <3>1, <3>2
  <2> QED
    BY <2>2 DEF OpensCount
<1> QED
  BY <1>2, <1>3, <1>11, <1>12, <1>13, <1>14, <1>15 DEF MarksAgree, CountersAgree

\* Other steps mark and count nothing: the game goes on, answers are stored,
\* requests end, and phones come in that have nothing yet.
LEMMA QuietKeepsCounts ==
    ASSUME Shapes, Shapes', MarksAgree, CountersAgree, [Next]_vars,
           \A p \in Player : ~Count(p) /\ \A t \in Tries : ~Answer(p, t),
           \A p \in Proc : ~Commit(p),
           marks' = marks, na' = na, ns' = ns, st' # None,
           Range(joined) \subseteq Range(joined)',
           \A q : Seen(q)' = Seen(q) /\ Answered(q)' = Answered(q),
           Active \subseteq Active',
           \/ st'.i = st.i /\ (st'.ph = "question" => st.ph = "question")
           \/ st'.i = st.i + 1 /\ st.i + 1 \in Question /\ ns[st.i + 1] # None
    PROVE  MarksAgree' /\ CountersAgree'
<1>1. game' = game /\ Question' = Question /\ st # None
  BY WhoMoves, SameGame DEF Shapes, MarksAgree
<1>2. \A o \in Player : o \in Proc
  BY DEF Proc
<1>3. \A o \in Player :
        /\ job'[o].at \in {"answer", "check"} => job'[o] = job[o]
        /\ job'[o].at = "count" => job'[o] = job[o] \/ (job[o].at = "answer" /\ job'[o].q = job[o].q)
  BY Origins
<1>4. \A o \in Proc : job'[o].at = "written" => job'[o] = job[o]
  BY WrittenComes
<1>5. \A q : Pending(q)' \subseteq Pending(q)
  BY <1>3 DEF Pending
<1>6. st.i \in Nat /\ st'.i \in Nat /\ st.i <= st'.i
  <2>1. st.i \in Nat
    BY <1>1, StateFacts
  <2> QED
    BY <2>1
<1>7. ASSUME NEW q \in Question  PROVE CountsWell(q)'
  <2>1. CountsWell(q)
    BY DEF CountersAgree
  <2>2. PICK a, b, c, d : /\ a = Cardinality(Answered(q) \ Pending(q)) /\ b = Cardinality(Answered(q)' \ Pending(q)')
                          /\ c = Cardinality(Seen(q)) /\ d = Cardinality(Seen(q)')
    OBVIOUS
  <2>3. a \in Nat /\ b \in Nat /\ a <= b /\ c = d /\ c \in Nat
    <3>1. /\ Answered(q) \ Pending(q) \subseteq Answered(q)' \ Pending(q)'
          /\ Answered(q)' \ Pending(q)' \subseteq Player
      BY <1>5, TallyTypes DEF CountTypes
    <3>2. c = d /\ c \in Nat
      BY <2>2, TallyTypes DEF CountTypes
    <3>3. Answered(q) \ Pending(q) \subseteq Player
      BY <3>1
    <3> QED
      BY <2>2, <3>1, <3>2, <3>3, Sizes
  <2>4. /\ q \in Nat /\ na[q] \in Int \cup {None} /\ ns[q] \in Nat \cup {None}
    BY TallyTypes DEF CountTypes
  <2>5. q > st'.i => na[q] \in {None, 0}
    BY <1>6, <2>1, <2>4 DEF CountsWell
  <2>6. q <= st'.i => ns[q] # None
    BY <1>6, <2>1, <2>4 DEF CountsWell
  <2>7. ns[q] # None => ns[q] >= d
    BY <2>1, <2>2, <2>3 DEF CountsWell
  <2>8. ASSUME na[q] # None, Pending(q)' # {} \/ (st'.ph = "question" /\ q = st'.i)
        PROVE  na[q] <= b
    <3>1. CASE Pending(q) # {} \/ (st.ph = "question" /\ q = st.i)
      <4>1. na[q] <= a
        BY <2>1, <2>2, <2>8, <3>1 DEF CountsWell
      <4> QED
        BY <2>3, <2>4, <2>8, <4>1
    <3>2. CASE ~(Pending(q) # {} \/ (st.ph = "question" /\ q = st.i))
      <4>1. q = st.i + 1
        BY <1>5, <2>8, <3>2
      <4>2. na[q] = 0
        BY <1>6, <2>1, <2>8, <4>1 DEF CountsWell
      <4> QED
        BY <2>3, <4>2
    <3> QED
      BY <3>1, <3>2
  <2>9. na'[q] = na[q] /\ ns'[q] = ns[q]
    OBVIOUS
  <2> QED
    BY <2>2, <2>5, <2>6, <2>7, <2>8, <2>9 DEF CountsWell
<1>8. MarksGoTogether'
  BY <1>1, <1>6, MarksStay DEF MarksAgree
<1>9. AnswerersAreIn'
  <2>1. PICK f : f = job'
    OBVIOUS
  <2>2. ASSUME NEW o \in Player, f[o].at \in {"answer", "count", "check"}
        PROVE  o \in Active' /\ <<"a", f[o].q, o>> \in marks'
    <3>1. job[o].at \in {"answer", "count", "check"} /\ f[o].q = job[o].q
      BY <1>3, <2>1, <2>2
    <3>2. o \in Active /\ <<"a", job[o].q, o>> \in marks
      BY <3>1 DEF MarksAgree, AnswerersAreIn, Answered
    <3> QED
      BY <3>1, <3>2
  <2> QED
    BY <2>1, <2>2 DEF AnswerersAreIn, Answered
<1>10. ChecksAgree'
  <2>1. PICK f : f = job'
    OBVIOUS
  <2>2. ASSUME NEW o \in Player, f[o].at = "check"
        PROVE  f[o].n <= Cardinality(Answered(f[o].q)')
    <3>1. f[o] = job[o]
      BY <1>3, <2>1, <2>2
    <3>2. job[o].n <= Cardinality(Answered(job[o].q))
      BY <2>2, <3>1 DEF CountersAgree, ChecksAgree
    <3>3. PICK q : q = f[o].q
      OBVIOUS
    <3>4. Answered(q)' = Answered(q)
      OBVIOUS
    <3> QED
      BY <3>1, <3>2, <3>3, <3>4
  <2> QED
    BY <2>1, <2>2 DEF ChecksAgree
<1>11. OpensCount'
  BY <1>4 DEF CountersAgree, OpensCount
<1> QED
  BY <1>1, <1>7, <1>8, <1>9, <1>10, <1>11 DEF MarksAgree, CountersAgree

\* Who comes in has nothing yet.
LEMMA NewcomersAreEmpty ==
    ASSUME Shapes, MarksGoTogether, NEW p \in Player, Joined(p)
    PROVE  \A q : Seen(q)' = Seen(q) /\ Answered(q)' = Answered(q)
<1>1. Active \subseteq Active' /\ Active' \subseteq Active \cup {p}
  BY JoinedDoes
<1>2. marks' = marks /\ player' = player
  BY JoinedDoes
<1>3. CASE p \in Range(joined) \/ Active' = Active
  <2>1. Active' = Active
    <3>1. p \in Active' => ~player'[p].is_removed
      BY DEF Active
    <3>2. p \in Active' /\ p \in Range(joined) => p \in Active
      BY <1>2, <3>1 DEF Active
    <3> QED
      BY <1>1, <1>3, <3>2
  <2> QED
    BY <1>2, <2>1 DEF Seen, Answered
<1>4. CASE p \notin Range(joined)
  <2>1. ASSUME NEW q  PROVE <<"seen", q, p>> \notin marks /\ <<"a", q, p>> \notin marks
    <3>1. <<"seen", q, p>> \in marks \/ <<"a", q, p>> \in marks => q \in Question
      BY DEF Shapes, CountShape
    <3>2. q \in Question => MarkAgrees(q, p)
      BY DEF MarksGoTogether
    <3> QED
      BY <1>4, <3>1, <3>2 DEF MarkAgrees
  <2> QED
    BY <1>1, <1>2, <2>1 DEF Seen, Answered
<1> QED
  BY <1>3, <1>4

LEMMA TalliesStep ==
    ASSUME Shapes, Shapes', Awake, Locked, Barred, Tallies, [Next]_vars
    PROVE  Tallies'
<1>1. game' = game /\ game \in Games
  BY WhoMoves DEF Shapes
<1>2. SUFFICES ASSUME Orderly  PROVE MarksAgree' /\ CountersAgree'
  <2>1. Orderly' <=> Orderly
    BY <1>1, SameEvents DEF Orderly
  <2> QED
    BY <2>1 DEF Tallies
<1>3. MarksAgree /\ CountersAgree /\ st # None
  BY <1>2 DEF Tallies, MarksAgree
<1>4. Without({"flush"}) /\ Without({"slow", "flush"}) /\ ~May("flush") /\ ~May("reset")
  BY <1>2 DEF Orderly, Without, May
<1>5. ~Lost
  BY <1>4 DEF Lost
<1>6. CASE \E p \in Player : Fetch(p)
  BY <1>3, <1>6, FetchKeepsCounts
<1>7. CASE \E p \in Player : \E t \in Tries : Answer(p, t)
  BY <1>2, <1>3, <1>7, AnswerKeepsCounts
<1>8. CASE \E p \in Player : Count(p)
  BY <1>3, <1>8, CountKeepsCounts
<1>9. CASE \E p \in Player : Kick(p)
  BY <1>2, <1>3, <1>9, KickKeepsCounts
<1>10. CASE \E p \in Proc : Commit(p)
  BY <1>2, <1>3, <1>10, CommitKeepsCounts
<1>11. CASE /\ \A p \in Player : ~Fetch(p) /\ ~Count(p) /\ ~Kick(p) /\ \A t \in Tries : ~Answer(p, t)
            /\ \A p \in Proc : ~Commit(p)
  <2>1. marks' = marks /\ na' = na /\ ns' = ns
    BY <1>5, <1>11, WhoCounts
  <2>2. /\ Range(joined) \subseteq Range(joined)' /\ Active \subseteq Active'
        /\ \A q : Seen(q)' = Seen(q) /\ Answered(q)' = Answered(q)
    <3>1. CASE KeptPlayers
      <4>1. joined' = joined /\ Active' = Active
        BY <3>1 DEF KeptPlayers
      <4>2. Range(joined)' = Range(joined)
        BY <4>1 DEF Range
      <4> QED
        BY <2>1, <4>1, <4>2 DEF Seen, Answered
    <3>2. ASSUME NEW p \in Player, Joined(p)
          PROVE  /\ Range(joined) \subseteq Range(joined)' /\ Active \subseteq Active'
                 /\ \A q : Seen(q)' = Seen(q) /\ Answered(q)' = Answered(q)
      <4>1. \/ joined' = joined /\ Active' = Active
            \/ Range(joined') = Range(joined) \cup {p} /\ Active \subseteq Active'
        BY <3>2, JoinedDoes
      <4>2. Range(joined)' = Range(joined') /\ (joined' = joined => Range(joined)' = Range(joined))
        BY DEF Range
      <4> QED
        BY <1>3, <3>2, <4>1, <4>2, NewcomersAreEmpty DEF MarksAgree
    <3> QED
      BY <1>11, <3>1, <3>2, Crowd
  <2>3. st' # None /\ (\/ st'.i = st.i /\ (st'.ph = "question" => st.ph = "question")
                       \/ st'.i = st.i + 1 /\ st.i + 1 \in Question /\ ns[st.i + 1] # None)
    <3>1. CASE st' = st
      BY <1>3, <3>1
    <3>2. ASSUME NEW p \in Proc, Save(p)
          PROVE  st' # None /\ (\/ st'.i = st.i /\ (st'.ph = "question" => st.ph = "question")
                                \/ st'.i = st.i + 1 /\ st.i + 1 \in Question /\ ns[st.i + 1] # None)
      <4>1. job[p].at = "written" /\ IsChange(job[p]) /\ st' = NewState(job[p])
        BY <3>2, SaveDoes
      <4>2. job[p].st = st
        BY <1>4, <4>1 DEF Locked, Holding
      <4>3. /\ IsState(st') /\ (st'.ph = "question" <=> job[p].op = "open")
            /\ st'.i = IF job[p].op = "open" THEN st.i + 1 ELSE st.i
            /\ job[p].op = "open" => st.i + 1 \in Question
        BY <1>1, <4>1, <4>2, NewStateShape
      <4>4. job[p].op = "open" => ns[st.i + 1] # None
        BY <1>3, <4>1, <4>2 DEF CountersAgree, OpensCount
      <4>5. st' # None
        BY <1>1, <4>1, NewStateShape, StatesAndRows
      <4> QED
        BY <4>3, <4>4, <4>5
    <3>3. ASSUME NEW on \in BOOLEAN, Pause(on)
          PROVE  st' # None /\ st'.i = st.i /\ (st'.ph = "question" => st.ph = "question")
      BY <3>3, PauseDoes, NoneAssumption
    <3>4. ~\E p \in Proc : Rebuilt(p)
      BY <1>3, <1>4, FromWhere DEF Awake, Shapes
    <3> QED
      BY <1>5, <3>1, <3>2, <3>3, <3>4, WhoWrites
  <2> QED
    BY <1>3, <1>11, <2>1, <2>2, <2>3, QuietKeepsCounts
<1> QED
  BY <1>6, <1>7, <1>8, <1>9, <1>10, <1>11

LEMMA TalliesInit ==
    ASSUME Init
    PROVE  Tallies
<1>1. /\ \A p \in Proc : job[p] = Idle
      /\ marks = {} /\ st = [ph |-> "lobby", i |-> 0, v |-> 1, paused |-> FALSE]
      /\ \A q \in Question : na[q] = None /\ ns[q] = None
  BY DEF Init
<1>2. game \in Games /\ Question \subseteq Nat \ {0} /\ \A p \in Player : p \in Proc
  BY GameFacts DEF Init, Proc
<1>3. st # None
  <2>1. st \in States
    BY <1>1 DEF States, Statuses
  <2> QED
    BY <2>1, NoneAssumption
<1>4. MarksGoTogether
  BY <1>1 DEF MarksGoTogether, MarkAgrees
<1>5. AnswerersAreIn /\ OpensCount /\ ChecksAgree
  BY <1>1, <1>2 DEF AnswerersAreIn, OpensCount, ChecksAgree, Idle
<1>6. \A q \in Question : CountsWell(q)
  BY <1>1, <1>2 DEF CountsWell
<1> QED
  BY <1>3, <1>4, <1>5, <1>6 DEF Tallies, MarksAgree, CountersAgree

\* Of two sets, that with no fewer members has no fewer of its own.
LEMMA OwnMembers ==
    ASSUME NEW S, NEW T, S \subseteq Player, T \subseteq Player, Cardinality(S) <= Cardinality(T)
    PROVE  Cardinality(S \ T) <= Cardinality(T \ S)
<1>1. IsFiniteSet(S) /\ IsFiniteSet(T)
  BY Sizes
<1>2. PICK a, b, c : a = Cardinality(S) /\ b = Cardinality(T) /\ c = Cardinality(S \cap T)
  OBVIOUS
<1>3. a \in Nat /\ b \in Nat /\ c \in Nat
  <2>1. S \cap T \subseteq Player
    OBVIOUS
  <2> QED
    BY <1>2, <2>1, Sizes
<1>4. Cardinality(S \ T) = a - c
  BY <1>1, <1>2, FS_Difference
<1>5. Cardinality(T \ S) = b - c
  <2>1. T \cap S = S \cap T
    OBVIOUS
  <2>2. Cardinality(T \ S) = Cardinality(T) - Cardinality(T \cap S)
    BY <1>1, FS_Difference
  <2> QED
    BY <1>2, <2>1, <2>2
<1> QED
  BY <1>2, <1>3, <1>4, <1>5

\* A count of answers that is not too high and counts that are not too low: when
\* they say that everyone has answered, everyone has, or as many as have the question.
LEMMA EveryoneHas ==
    ASSUME Shapes, NEW q \in Question, CountsWell(q), NEW A, A \subseteq Active,
           NEW n \in Int, NEW players \in Int,
           n <= Cardinality({o \in A : <<"a", q, o>> \in marks}), Cardinality(A) <= players,
           everyone_answered(q, n, players)
    PROVE  LET Marked(x) == {o \in A : <<x, q, o>> \in marks} IN
           /\ clock \in {"ready", "early"} => A \subseteq Marked("a")
           /\ Cardinality(Marked("seen") \ Marked("a")) <= Cardinality(Marked("a") \ Marked("seen"))
<1> DEFINE Has == {o \in A : <<"a", q, o>> \in marks}
           Got == {o \in A : <<"seen", q, o>> \in marks}
<1>1. Active \subseteq Player /\ A \subseteq Player /\ Has \subseteq Player /\ Got \subseteq Player
  BY ActiveIsFinite DEF Shapes
<1>2. Has \subseteq A /\ Got \subseteq A
  OBVIOUS
<1>3. PICK a, h, g, s : a = Cardinality(A) /\ h = Cardinality(Has) /\ g = Cardinality(Got) /\ s = Cardinality(Seen(q))
  OBVIOUS
<1>4. a \in Nat /\ h \in Nat /\ g \in Nat /\ s \in Nat /\ h <= a /\ g <= a /\ g <= s
  <2>1. Got \subseteq Seen(q) /\ Seen(q) \subseteq Player
    BY TallyTypes DEF Seen, CountTypes
  <2> HIDE DEF Has, Got
  <2> QED
    BY <1>1, <1>2, <1>3, <2>1, Sizes
<1>5. n <= h /\ a <= players
  BY <1>3
<1>6. ns[q] \in Nat \cup {None} /\ (ns[q] # None => ns[q] >= s)
  BY <1>3, TallyTypes DEF CountTypes, CountsWell
<1>7. WaitingFor(q, players) > 0 /\ n >= WaitingFor(q, players)
  BY DEF everyone_answered
<1>8. WaitingFor(q, players) = players \/ (clock \notin {"ready", "early"} /\ ns[q] # None /\ WaitingFor(q, players) \in {players, ns[q]})
  BY DEF WaitingFor, Least
<1>9. h = a \/ (clock \notin {"ready", "early"} /\ g <= h)
  BY <1>4, <1>5, <1>6, <1>7, <1>8
<1>10. g <= h
  BY <1>4, <1>9
<1>11. clock \in {"ready", "early"} => Has = A
  <2> HIDE DEF Has, Got
  <2> QED
    BY <1>1, <1>2, <1>3, <1>9, Sizes
<1>12. Cardinality(Got \ Has) <= Cardinality(Has \ Got)
  <2> HIDE DEF Has, Got
  <2> QED
    BY <1>1, <1>3, <1>10, OwnMembers
<1> QED
  BY <1>11, <1>12

\* What is promised of a step that wants to close a question.
InGoodTime(p) ==
    job'[p].at = "want" /\ job'[p].what = "everyone" /\ job[p] # job'[p] =>
        LET Marked(x) == {o \in Active' : <<x, job'[p].q, o>> \in marks} IN
        /\ clock \in {"ready", "early"} => Active' \subseteq Marked("a")
        /\ Cardinality(Marked("seen") \ Marked("a")) <= Cardinality(Marked("a") \ Marked("seen"))

LEMMA CheckInTime ==
    ASSUME Shapes, Awake, Seats, Orderly, MarksAgree, CountersAgree, NEW p \in Player, Check(p)
    PROVE  InGoodTime(p)
<1>1. PICK q : q = job[p].q
  OBVIOUS
<1>2. job[p].at = "check" /\ UNCHANGED <<game, db, cache>>
      /\ job' = [job EXCEPT ![p] =
            IF game.mode = "solo" \/ everyone_answered(q, job[p].n, player_count) THEN WantClose(q) ELSE Idle]
  BY <1>1 DEF Check
<1>3. p \in Proc /\ game \in Games
  BY DEF Proc, Shapes
<1>4. q \in Question /\ job[p].n \in Int /\ job[p].n <= Cardinality(Answered(q))
  BY <1>1, <1>2, <1>3, JobKinds DEF Shapes, JobShape, CountersAgree, ChecksAgree
<1>5. p \in Answered(q)
  BY <1>1, <1>2 DEF MarksAgree, AnswerersAreIn
<1>6. Active' = Active
  BY <1>2 DEF Active, db
<1> DEFINE Has == {o \in Active : <<"a", q, o>> \in marks}
           Got == {o \in Active : <<"seen", q, o>> \in marks}
<1>7. SUFFICES ASSUME job'[p].at = "want"
               PROVE  /\ clock \in {"ready", "early"} => Active \subseteq Has
                      /\ Cardinality(Got \ Has) <= Cardinality(Has \ Got)
  <2>1. job'[p].at = "want" => job'[p].q = q
    BY <1>2, <1>3 DEF Shapes, JobShape, WantClose, Idle
  <2> QED
    BY <1>6, <2>1 DEF InGoodTime
<1>8. game.mode = "solo" \/ everyone_answered(q, job[p].n, player_count)
  BY <1>2, <1>3, <1>7 DEF Shapes, JobShape, Idle
<1>9. Watched /\ np # None
  BY DEF Orderly, Without, Watched, Awake, Kept
<1>10. PICK a, c, d : a = Cardinality(Active) /\ c = Cardinality(Coming) /\ d = Cardinality(Admitted)
  OBVIOUS
<1>11. /\ a \in Nat /\ c \in Nat /\ d \in Nat /\ game.limit \in Nat
       /\ np # None /\ np \in Int /\ np >= a /\ a <= game.limit
  <2>1. Active \subseteq Player /\ Coming \subseteq Player /\ Admitted \subseteq Player
    BY ActiveIsFinite DEF Shapes, Coming, Admitted
  <2>2. a \in Nat /\ c \in Nat /\ d \in Nat /\ game.limit \in Nat
    BY <1>3, <1>10, <2>1, Sizes, GameFacts
  <2>3. np # None /\ np \in Int
    BY <1>9 DEF Shapes, CountShape
  <2>4. np >= a + c /\ a + d <= game.limit
    BY <1>9, <1>10, <2>3 DEF Seats
  <2> QED
    BY <2>2, <2>3, <2>4
<1>12. CASE game.mode = "solo"
  <2>1. game.limit = 1
    BY <1>3, <1>12, GameFacts
  <2>2. p \in Active /\ Active \subseteq Player
    BY <1>5, ActiveIsFinite DEF Shapes, Answered
  <2>3. Cardinality(Active \ {p}) = a - 1 /\ Cardinality(Active \ {p}) \in Nat
    <3>1. Active \ {p} \subseteq Player
      BY <2>2
    <3> QED
      BY <1>10, <2>2, <3>1, Sizes
  <2>4. Cardinality(Active \ {p}) = 0
    BY <1>11, <2>1, <2>3
  <2>5. Active \ {p} = {}
    <3>1. IsFiniteSet(Active \ {p})
      BY <2>2, Sizes
    <3> QED
      BY <2>4, <3>1, FS_EmptySet
  <2>6. Active \subseteq Has
    BY <1>5, <2>5 DEF Answered
  <2>7. Got \ Has = {}
    BY <2>6
  <2>8. Cardinality(Got \ Has) = 0
    BY <2>7, FS_EmptySet
  <2>9. Cardinality(Has \ Got) \in Nat
    <3>1. Has \ Got \subseteq Player
      BY <2>2
    <3> QED
      BY <3>1, Sizes
  <2> QED
    BY <2>6, <2>8, <2>9
<1>13. CASE everyone_answered(q, job[p].n, player_count)
  <2>1. player_count = np
    BY <1>11 DEF player_count
  <2>2. CountsWell(q)
    BY <1>4 DEF CountersAgree
  <2>3. Cardinality(Active) <= np /\ everyone_answered(q, job[p].n, np)
    BY <1>10, <1>11, <1>13, <2>1
  <2>4. job[p].n <= Cardinality({x \in Active : <<"a", q, x>> \in marks})
    BY <1>4 DEF Answered
  <2> QED
    BY <1>4, <1>11, <2>2, <2>3, <2>4, EveryoneHas
<1> QED
  BY <1>8, <1>12, <1>13

LEMMA KickInTime ==
    ASSUME Shapes, Awake, Seats, Orderly, MarksAgree, CountersAgree, NEW p \in Player, Kick(p)
    PROVE  InGoodTime(Host)
<1>1. /\ p \in Active /\ Active' = Active \ {p} /\ st # None
      /\ \A o \in Player : job'[o] = job[o]
  BY KickDoes
<1>2. PICK q, left : q = st.i /\ left = (IF CountWithout(p, q) = None THEN 0 ELSE CountWithout(p, q))
  OBVIOUS
<1>3. /\ \A o \in Player : job[o].at \notin {"answer", "count", "check"}
      /\ job[Host] = Idle
      /\ st.ph # "question" => job' = job
      /\ st.ph = "question" =>
           job' = [job EXCEPT ![Host] = IF everyone_answered(q, left, player_count - 1) THEN WantClose(q) ELSE Idle]
  BY <1>2 DEF Kick, Orderly, Without, May, Free
<1>4. Host \in Proc
  BY DEF Proc
<1>5. SUFFICES ASSUME job'[Host].at = "want"
               PROVE  LET Marked(x) == {o \in Active \ {p} : <<x, q, o>> \in marks} IN
                      /\ clock \in {"ready", "early"} => Active \ {p} \subseteq Marked("a")
                      /\ Cardinality(Marked("seen") \ Marked("a")) <= Cardinality(Marked("a") \ Marked("seen"))
  <2>1. job'[Host].at = "want" => job'[Host].q = q
    BY <1>3, <1>4 DEF Shapes, JobShape, WantClose, Idle
  <2> QED
    BY <1>1, <2>1 DEF InGoodTime
<1>6. st.ph = "question" /\ everyone_answered(q, left, player_count - 1)
  BY <1>3, <1>4, <1>5 DEF Shapes, JobShape, Idle
<1>7. q \in Question
  BY <1>1, <1>2, <1>6, StateFacts
<1>8. Watched /\ np # None
  BY DEF Orderly, Without, Watched, Awake, Kept
<1>9. PICK a, c : a = Cardinality(Active) /\ c = Cardinality(Coming)
  OBVIOUS
<1>10. /\ a \in Nat /\ np # None /\ np \in Int /\ np >= a /\ Active \subseteq Player
       /\ Cardinality(Active \ {p}) = a - 1
  <2>1. Active \subseteq Player /\ Coming \subseteq Player
    BY ActiveIsFinite DEF Shapes, Coming
  <2>2. a \in Nat /\ c \in Nat /\ Cardinality(Active \ {p}) = a - 1
    BY <1>1, <1>9, <2>1, Sizes
  <2>3. np # None /\ np \in Int
    BY <1>8 DEF Shapes, CountShape
  <2>4. np >= a + c
    BY <1>8, <1>9, <2>3 DEF Seats
  <2> QED
    BY <2>1, <2>2, <2>3, <2>4
<1>11. player_count - 1 \in Int /\ Cardinality(Active \ {p}) <= player_count - 1
  BY <1>10 DEF player_count
<1>12. left \in Int /\ left <= Cardinality({x \in Active \ {p} : <<"a", q, x>> \in marks})
  <2>1. Pending(q) = {}
    BY <1>3 DEF Pending
  <2>2. Answered(q) \ Pending(q) = Answered(q)
    BY <2>1
  <2>3. PICK b, d : b = Cardinality(Answered(q)) /\ d = Cardinality({x \in Active \ {p} : <<"a", q, x>> \in marks})
    OBVIOUS
  <2>4. na[q] \in Int \cup {None} /\ b \in Nat /\ Answered(q) \subseteq Player
    BY <1>7, <2>3, TallyTypes DEF CountTypes
  <2>5. na[q] # None => na[q] <= b
    BY <1>2, <1>6, <1>7, <2>2, <2>3 DEF CountersAgree, CountsWell
  <2>6. {x \in Active \ {p} : <<"a", q, x>> \in marks} = Answered(q) \ {p}
    BY DEF Answered
  <2>7. d \in Nat
    <3>1. Answered(q) \ {p} \subseteq Player
      BY <2>4
    <3> QED
      BY <2>3, <2>6, <3>1, Sizes
  <2>8. CASE <<"a", q, p>> \in marks
    <3>1. p \in Answered(q)
      BY <1>1, <2>8 DEF Answered
    <3>2. d = b - 1
      BY <2>3, <2>4, <2>6, <3>1, Sizes
    <3>3. CountWithout(p, q) = IF na[q] = None THEN None ELSE na[q] - 1
      BY <2>8 DEF CountWithout
    <3> QED
      BY <1>2, <2>3, <2>4, <2>5, <2>7, <3>2, <3>3
  <2>9. CASE <<"a", q, p>> \notin marks
    <3>1. Answered(q) \ {p} = Answered(q)
      BY <2>9 DEF Answered
    <3>2. d = b
      BY <2>3, <2>6, <3>1
    <3>3. CountWithout(p, q) = na[q]
      BY <2>9 DEF CountWithout
    <3> QED
      BY <1>2, <2>3, <2>4, <2>5, <2>7, <3>2, <3>3
  <2> QED
    BY <2>8, <2>9
<1>13. CountsWell(q)
  BY <1>7 DEF CountersAgree
<1>14. Active \ {p} \subseteq Active
  OBVIOUS
<1> QED
  BY <1>6, <1>7, <1>11, <1>12, <1>13, <1>14, EveryoneHas

LEMMA ClosesInTime ==
    ASSUME Shapes, Awake, Seats, Tallies, [Next]_vars, Orderly
    PROVE  \A p \in Proc : InGoodTime(p)
<1>1. MarksAgree /\ CountersAgree
  BY DEF Tallies
<1>2. SUFFICES ASSUME NEW p \in Proc, job'[p].at = "want", job'[p].what = "everyone", job[p] # job'[p]
               PROVE  InGoodTime(p)
  BY DEF InGoodTime
<1>3. ~Poll(p)
  <2> SUFFICES ASSUME Poll(p)  PROVE FALSE
    OBVIOUS
  <2>1. PICK v : job' = [job EXCEPT ![p] = [at |-> "want", what |-> "due", v |-> v]]
    BY DEF Poll
  <2>2. job'[p].what = "due"
    BY <2>1 DEF Shapes, JobShape
  <2> QED
    BY <1>2, <2>2
<1>4. Began(p) => p = Host /\ \E o \in Player : Kick(o)
  BY <1>2, <1>3, WhereTo DEF Began
<1>5. WentOn(p) => p \in Player /\ Check(p)
  BY <1>2, WhereTo DEF WentOn, Idle
<1> QED
  BY <1>1, <1>2, <1>4, <1>5, CheckInTime, KickInTime, WhoMoves DEF Shapes

\* A question is closed before its time, at its beginning, only when everyone in
\* the game has answered, and later only when as many have answered without having
\* received it as have received it and owe an answer: however players come, go and
\* are removed meanwhile, and whichever worker dies.
THEOREM NothingClosesEarly == Spec => NoEarlyClose
<1>1. Init => Shapes /\ Awake /\ Locked /\ Synced /\ Seats /\ Barred /\ Tallies
  BY ShapesInit, CacheInit, SeatsInit, BarredInit, TalliesInit
<1>2. Shapes /\ Awake /\ Locked /\ Synced /\ Seats /\ Barred /\ Tallies /\ [Next]_vars =>
        (Shapes /\ Awake /\ Locked /\ Synced /\ Seats /\ Barred /\ Tallies)'
  BY ShapesStep, AwakeStep, LockedStep, SyncedStep, SeatsStep, BarredStep, TalliesStep
<1>3. Shapes /\ Awake /\ Seats /\ Tallies /\ [Next]_vars => (Orderly => \A p \in Proc : InGoodTime(p))
  BY ClosesInTime
<1> QED
  BY <1>1, <1>2, <1>3, PTL DEF Spec, NoEarlyClose, Orderly, InGoodTime

-----------------------------------------------------------------------------
(* Right answers in a row *)

\* A run depends on the answers before it.
LEMMA SameRun ==
    ASSUME game' = game, NEW p, NEW q \in Nat,
           \A b \in 1..(q - 1) : answers'[p][b] = answers[p][b]
    PROVE  RunBefore(p, q)' = RunBefore(p, q)
BY DEF RunBefore

\* Who has not answered has none.
LEMMA NoRun ==
    ASSUME Shapes, NEW p \in Player, NoAnswers(p), NEW q \in Nat, q <= N + 1
    PROVE  RunBefore(p, q) = 0
<1> DEFINE before == {b \in 1..(q - 1) : scored(game.keys[b])}
           wrong == {b \in before : answers[p][b] = None \/ ~answers[p][b].is_correct}
<1>1. \A b \in 1..(q - 1) : b \in Question /\ ~(b < b)
  BY GameFacts DEF Shapes
<1>2. \A b \in before : b \in wrong
  BY <1>1 DEF NoAnswers
<1>3. {b \in before : \A w \in wrong : w < b} = {}
  BY <1>1, <1>2
<1>4. RunBefore(p, q) = Cardinality({b \in before : \A w \in wrong : w < b})
  BY DEF RunBefore
<1> HIDE DEF before, wrong
<1> QED
  BY <1>3, <1>4, FS_EmptySet

\* A right answer makes the run longer, anything else ends it; a question
\* without points does neither.
LEMMA RunGoesOn ==
    ASSUME Shapes, NEW p \in Player, NEW q \in Question
    PROVE  LET Right == answers[p][q] # None /\ answers[p][q].is_correct
           IN  RunBefore(p, q + 1) = IF ~scored(game.keys[q]) THEN RunBefore(p, q)
                                     ELSE IF Right THEN RunBefore(p, q) + 1 ELSE 0
<1> DEFINE Right == answers[p][q] # None /\ answers[p][q].is_correct
           Before(k) == {b \in 1..(k - 1) : scored(game.keys[b])}
           Wrong(k) == {b \in Before(k) : answers[p][b] = None \/ ~answers[p][b].is_correct}
           Run(k) == {b \in Before(k) : \A w \in Wrong(k) : w < b}
<1>1. q \in Nat /\ q >= 1
  BY GameFacts DEF Shapes
<1>2. \A k : RunBefore(p, k) = Cardinality(Run(k))
  BY DEF RunBefore
<1>3. /\ 1..(q + 1 - 1) = (1..(q - 1)) \cup {q} /\ q \notin 1..(q - 1)
      /\ \A b \in 1..(q - 1) : b \in Nat /\ b < q
  BY <1>1
<1>4. Before(q + 1) = IF scored(game.keys[q]) THEN Before(q) \cup {q} ELSE Before(q)
  BY <1>3
<1>5. q \notin Before(q) /\ \A b \in Before(q) : b \in Nat /\ b < q
  BY <1>3
<1>6. IsFiniteSet(Run(q)) /\ q \notin Run(q)
  <2>1. IsFiniteSet(1..(q - 1))
    BY <1>1, FS_Interval
  <2>2. Run(q) \subseteq 1..(q - 1)
    OBVIOUS
  <2> HIDE DEF Run
  <2> QED
    BY <1>3, <2>1, <2>2, FS_Subset
<1> HIDE DEF Before
<1>7. CASE ~scored(game.keys[q])
  <2>1. Before(q + 1) = Before(q)
    BY <1>4, <1>7
  <2>2. Wrong(q + 1) = Wrong(q)
    BY <2>1
  <2>3. Run(q + 1) = Run(q)
    BY <2>1, <2>2
  <2> QED
    BY <1>2, <1>7, <2>3
<1>8. CASE scored(game.keys[q]) /\ Right
  <2>1. Before(q + 1) = Before(q) \cup {q}
    BY <1>4, <1>8
  <2>2. Wrong(q + 1) = Wrong(q)
    BY <1>8, <2>1
  <2>3. Run(q + 1) = Run(q) \cup {q}
    BY <1>5, <2>1, <2>2
  <2> HIDE DEF Run
  <2>4. Cardinality(Run(q) \cup {q}) = Cardinality(Run(q)) + 1
    BY <1>6, FS_AddElement
  <2> QED
    BY <1>2, <1>8, <2>3, <2>4
<1>9. CASE scored(game.keys[q]) /\ ~Right
  <2>1. Before(q + 1) = Before(q) \cup {q}
    BY <1>4, <1>9
  <2>2. q \in Wrong(q + 1)
    BY <1>9, <2>1
  <2>3. \A b \in Before(q + 1) : ~(q < b)
    BY <1>1, <1>5, <2>1
  <2>4. Run(q + 1) = {}
    BY <2>2, <2>3
  <2> HIDE DEF Run
  <2> QED
    BY <1>2, <1>9, <2>4, FS_EmptySet
<1> QED
  BY <1>7, <1>8, <1>9

-----------------------------------------------------------------------------
(* Who writes the results *)

LEMMA ChangeComes ==
    ASSUME Shapes, [Next]_vars, NEW p \in Proc, job'[p].at \in {"hold", "written"}
    PROVE  \/ job'[p] = job[p]
           \/ Commit(p) \/ Save(p) \/ Move(p) \/ \E what \in {"next", "skip", "end"} : Press(p, what)
<1>1. Began(p) => job'[p].at \notin {"hold", "written"} \/ \E what \in {"next", "skip", "end"} : Press(p, what)
  BY WhereTo DEF Began
<1>2. WentOn(p) => job'[p].at \notin {"hold", "written"} \/ Commit(p) \/ Save(p) \/ Move(p)
  BY WhereTo DEF WentOn, Idle
<1> QED
  BY <1>1, <1>2, WhoMoves DEF Shapes

\* A commit brings the results of a question that is closed, and no others.
LEMMA CommitResults ==
    ASSUME Shapes, NEW p \in Proc, Commit(p)
    PROVE  \A o \in Player :
             IF job[p].op = "close" /\ o \in DOMAIN job[p].rows
             THEN player'[o].streak = job[p].rows[o].streak /\ player'[o].score = job[p].rows[o].score
             ELSE player'[o].streak = player[o].streak /\ player'[o].score = player[o].score
<1>1. PICK j : j = job[p] /\ IsChange(j) /\ player' = Updated(j.rows)
  BY CommitDoes
<1>2. PICK u : u = j.rows
  OBVIOUS
<1>3. /\ j.op \in {"open", "close", "board", "finish"}
      /\ j.op = "close" => SomeRows(u, NewResults)
      /\ j.op = "finish" => SomeRows(u, NewPlaces)
      /\ j.op \in {"open", "board"} => u = <<>>
  BY <1>1, <1>2, ChangeParts
<1>4. \A o \in Player :
        IF o \in DOMAIN u /\ SomeRows(u, NewResults)
        THEN player'[o].streak = u[o].streak /\ player'[o].score = u[o].score
        ELSE player'[o].streak = player[o].streak /\ player'[o].score = player[o].score
  BY <1>1, <1>2, <1>3, UpdatedShape DEF Shapes
<1>5. CASE j.op = "close"
  BY <1>1, <1>2, <1>3, <1>4, <1>5
<1>6. CASE j.op = "finish"
  <2>1. ASSUME NEW o \in DOMAIN u  PROVE ~SomeRows(u, NewResults)
    <3>1. PICK k : u[o] = [rank |-> k]
      BY <1>3, <1>6 DEF SomeRows, NewPlaces
    <3>2. DOMAIN u[o] = {"rank"}
      BY <3>1
    <3>3. SomeRows(u, NewResults) => DOMAIN u[o] = {"score", "correct", "streak", "rank"}
      BY DEF SomeRows, NewResults
    <3> QED
      BY <3>2, <3>3
  <2> QED
    BY <1>1, <1>4, <1>6, <2>1
<1>7. CASE j.op \in {"open", "board"}
  <2>1. DOMAIN u = {}
    BY <1>3, <1>7
  <2> QED
    BY <1>1, <1>4, <1>7, <2>1
<1> QED
  BY <1>3, <1>5, <1>6, <1>7

LEMMA WhoScores ==
    ASSUME Shapes, [Next]_vars
    PROVE  /\ me' = me \/ Lost \/ \E p \in Proc : Save(p)
           /\ \/ \A o \in Player : player'[o].streak = player[o].streak /\ player'[o].score = player[o].score
              \/ \E p \in Proc : Commit(p)
<1> DEFINE M == me' = me
           S == \A o \in Player : player'[o].streak = player[o].streak /\ player'[o].score = player[o].score
<1>1. ASSUME NEW p \in Proc, Commit(p)  PROVE M
  BY <1>1 DEF Commit
<1>2. ASSUME NEW p \in Proc, Save(p)  PROVE S
  BY <1>2 DEF Save, db
<1>3. ASSUME NEW p \in Proc, \/ GiveUp(p) \/ Move(p) \/ Poll(p) \/ Killed(p) \/ Rebuild(p) \/ Rebuilt(p)
                             \/ Refills(p)
                             \/ \E what \in {"next", "skip", "end"} : Press(p, what)
      PROVE  M /\ S
  <2>1. CASE GiveUp(p) \/ Killed(p) \/ Rebuild(p) \/ Rebuilt(p)
    BY <2>1 DEF GiveUp, Killed, Rebuild, Rebuilt, db, cache
  <2>3. CASE Refills(p)
    BY <2>3, RefillsDo
  <2>2. CASE Move(p) \/ Poll(p) \/ \E what \in {"next", "skip", "end"} : Press(p, what)
    BY <2>2 DEF Move, Poll, Press, db
  <2> QED
    BY <1>3, <2>1, <2>2, <2>3
<1>4. ASSUME (\E on \in BOOLEAN : Pause(on)) \/ Tick \/ ClaimExpires \/ LockExpires
      PROVE  M /\ S
  <2>1. ASSUME NEW on \in BOOLEAN, Pause(on)  PROVE M /\ S
    BY <2>1 DEF Pause, db
  <2>2. CASE Tick \/ ClaimExpires
    BY <2>2 DEF Tick, ClaimExpires, db
  <2>3. CASE LockExpires
    BY <2>3 DEF LockExpires, db
  <2> QED
    BY <1>4, <2>1, <2>2, <2>3
<1>5. ASSUME NEW p \in Player, \/ Fetch(p) \/ Store(p) \/ Count(p) \/ Check(p) \/ Join(p) \/ Joined(p) \/ Kick(p)
                               \/ \E t \in Tries : Answer(p, t)
      PROVE  M /\ S
  <2>1. CASE Fetch(p) \/ Store(p) \/ Count(p) \/ Check(p)
    BY <2>1 DEF Fetch, Store, Count, Check, db, cache
  <2>2. CASE Join(p) \/ Joined(p) \/ \E t \in Tries : Answer(p, t)
    BY <2>2 DEF Join, Joined, Answer, db
  <2>3. CASE Kick(p)
    BY <2>3, KickDoes
  <2> QED
    BY <1>5, <2>1, <2>2, <2>3
<1>6. CASE Lost
  BY <1>6 DEF Lost, db
<1>7. CASE UNCHANGED vars
  BY <1>7 DEF vars, db, cache
<1> HIDE DEF M, S
<1>8. CASE Phases
  BY <1>1, <1>2, <1>3, <1>4, <1>8 DEF Phases, M, S
<1>9. CASE Phones
  BY <1>5, <1>9 DEF Phones, M, S
<1>10. CASE Faults
  BY <1>3, <1>6, <1>10 DEF Faults, Refills, M, S
<1> QED
  BY <1>7, <1>8, <1>9, <1>10 DEF Next, M, S

LEMMA PunctualIsSettled ==
    ASSUME Punctual
    PROVE  Settled /\ ~Lost
BY DEF Punctual, Settled, Without, Lost, May

\* As long as the cache is not lost, the state changes by a pause or by the one
\* who has the lock.
LEMMA StateGoesOn ==
    ASSUME Shapes, Awake, Locked, Settled, ~Lost, st # None, [Next]_vars
    PROVE  /\ st' # None
           /\ \/ st'.ph = st.ph /\ st'.i = st.i
              \/ \E p \in Proc : /\ Save(p) /\ job[p].at = "written" /\ IsChange(job[p]) /\ job[p].st = st
                                 /\ IsState(st') /\ st'.ph = PhaseAfter(job[p].op)
                                 /\ st'.i = IF job[p].op = "open" THEN st.i + 1 ELSE st.i
<1>1. Without({"flush"}) /\ Without({"slow", "flush"}) /\ game \in Games
  BY DEF Settled, Without, Shapes
<1>2. CASE st' = st
  BY <1>2
<1>3. ASSUME NEW p \in Proc, Save(p)
      PROVE  /\ job[p].at = "written" /\ IsChange(job[p]) /\ job[p].st = st
             /\ IsState(st') /\ st'.ph = PhaseAfter(job[p].op)
             /\ st'.i = IF job[p].op = "open" THEN st.i + 1 ELSE st.i
             /\ st' # None
  <2>1. job[p].at = "written" /\ IsChange(job[p]) /\ st' = NewState(job[p])
    BY <1>3, SaveDoes
  <2>2. job[p].st = st
    BY <1>1, <2>1 DEF Locked, Holding
  <2> QED
    BY <1>1, <2>1, <2>2, NewStateShape, StatesAndRows
<1>4. ASSUME NEW on \in BOOLEAN, Pause(on)
      PROVE  st' # None /\ st'.ph = st.ph /\ st'.i = st.i
  BY <1>4, PauseDoes, NoneAssumption
<1>5. ~\E p \in Proc : Rebuilt(p)
  BY <1>1, FromWhere DEF Awake, Shapes
<1> QED
  BY <1>2, <1>3, <1>4, <1>5, WhoWrites

-----------------------------------------------------------------------------
(* Answers are in time *)

\* An answer is stored while its question is open and nobody closes it.
LEMMA OnlyOnTime ==
    ASSUME Shapes, InTime, [Next]_vars, NEW p \in Player, NEW q \in Question, answers'[p][q] # answers[p][q]
    PROVE  /\ Store(p) /\ st' = st /\ q = st.i /\ st.ph = "question" /\ ~Closing /\ p \in Range(joined)
           /\ answers'[p][q] = job[p].row /\ Earned(p, q, job[p].row)
<1>1. Store(p) /\ job[p].q = q
  BY MarksOfAnswers
<1>2. job[p].at = "answer" /\ st' = st
  BY <1>1 DEF Store, cache
<1>3. /\ q = st.i /\ st.ph = "question" /\ ~Closing /\ p \in Range(joined) /\ Earned(p, q, job[p].row)
  BY <1>1, <1>2 DEF InTime, OnTime
<1>4. answers' = [answers EXCEPT ![p][q] = job[p].row] \/ answers' = answers
  BY <1>1 DEF Store
<1>5. answers'[p][q] = job[p].row
  BY <1>4 DEF Shapes, AnswerShape
<1> QED
  BY <1>1, <1>2, <1>3, <1>5

\* So the runs up to the open question stay, and the next one too when the
\* question is not open or somebody closes it.
LEMMA RunsStay ==
    ASSUME Shapes, InTime, [Next]_vars, NEW p \in Player, NEW q \in Nat, q <= N + 1,
           q <= st.i \/ st.ph # "question" \/ Closing \/ ~Store(p)
    PROVE  RunBefore(p, q)' = RunBefore(p, q)
<1>1. game' = game /\ N \in Nat /\ Question = 1..N
  BY WhoMoves, GameFacts DEF Shapes
<1>2. st.i \in Nat
  BY StateFacts DEF InTime
<1>3. \A b \in 1..(q - 1) : b \in Question /\ b < q /\ b \in Nat
  BY <1>1
<1>4. \A b \in 1..(q - 1) : answers'[p][b] = answers[p][b]
  <2> SUFFICES ASSUME NEW b \in 1..(q - 1), answers'[p][b] # answers[p][b]
               PROVE  FALSE
    OBVIOUS
  <2>1. b \in Question /\ b < q /\ b \in Nat
    BY <1>3
  <2>2. Store(p) /\ b = st.i /\ st.ph = "question" /\ ~Closing
    BY <2>1, OnlyOnTime
  <2> QED
    BY <1>2, <2>1, <2>2
<1> QED
  BY <1>1, <1>4, SameRun

\* Nobody leaves the rows of the players.
LEMMA RowsStay ==
    ASSUME Shapes, [Next]_vars
    PROVE  /\ Range(joined) \subseteq Range(joined)'
           /\ \A p \in Active' : p \in Active \/ p \notin Range(joined)
<1>1. CASE KeptPlayers
  BY <1>1 DEF KeptPlayers, Range
<1>2. ASSUME NEW p \in Player, Joined(p)
      PROVE  /\ Range(joined) \subseteq Range(joined)'
             /\ \A o \in Active' : o \in Active \/ o \notin Range(joined)
  <2>1. player' = player
    BY <1>2, JoinedDoes
  <2>2. Range(joined)' = Range(joined') /\ (joined' = joined => Range(joined)' = Range(joined))
    BY DEF Range
  <2>3. Range(joined) \subseteq Range(joined)'
    BY <1>2, <2>2, JoinedDoes
  <2>4. \A o \in Active' : ~player'[o].is_removed
    BY DEF Active
  <2> QED
    BY <2>1, <2>3, <2>4 DEF Active
<1>3. ASSUME NEW p \in Player, Kick(p)
      PROVE  /\ Range(joined) \subseteq Range(joined)'
             /\ \A o \in Active' : o \in Active \/ o \notin Range(joined)
  BY <1>3, KickDoes DEF Range
<1> QED
  BY <1>1, <1>2, <1>3, Crowd

\* Nobody begins to close a question, nor opens another, while an answer to it
\* is under way or just taken.
LEMMA NoCloseMeanwhile ==
    ASSUME Shapes, Awake, Locked, Settled, ~Lost, st # None, [Next]_vars, NEW p \in Player,
           st.ph = "question", ~Closing, job[p].at = "answer" \/ \E t \in Tries : Answer(p, t)
    PROVE  st'.ph = "question" /\ st'.i = st.i /\ ~Closing'
<1>1. ~May("late")
  BY DEF Settled, Without, May
<1>2. ~\E o \in Proc : job[o].at = "written" /\ IsChange(job[o]) /\ job[o].st = st
  <2> SUFFICES ASSUME NEW o \in Proc, job[o].at = "written", IsChange(job[o]), job[o].st = st
               PROVE  FALSE
    OBVIOUS
  <2>1. job[o].op = "close"
    BY ChangeParts
  <2> QED
    BY <2>1 DEF Closing
<1>3. st'.ph = st.ph /\ st'.i = st.i
  BY <1>2, StateGoesOn
<1>4. ASSUME NEW o \in Proc, job'[o].at \in {"hold", "written"}, job'[o].op = "close"
      PROVE  FALSE
  <2>1. job'[o] # job[o]
    BY <1>4 DEF Closing
  <2>2. CASE Commit(o)
    <3>1. PICK j, w : j = job[o] /\ j.at = "hold" /\ job' = [job EXCEPT ![o] = w] /\ w.op = j.op
      BY <2>2, CommitDoes
    <3>2. job'[o] = w
      BY <3>1 DEF Shapes, JobShape
    <3> QED
      BY <1>4, <3>1, <3>2 DEF Closing
  <2>3. CASE Save(o)
    <3>1. job[o].at = "written" /\ IsChange(job[o])
      BY <2>3, SaveDoes
    <3>2. job[o].st = st
      BY <3>1 DEF Settled, Without, Locked, Holding
    <3> QED
      BY <1>2, <3>1, <3>2
  <2>4. CASE Move(o) \/ \E what \in {"next", "skip", "end"} : Press(o, what)
    <3>1. PICK want : Enter(o, want)
      BY <2>4 DEF Move, Press
    <3>2. \/ job' = [job EXCEPT ![o] = Idle]
          \/ \E op, then : job' = [job EXCEPT ![o] = Plan(op, st, then)] /\ MayRead(op)
      BY <3>1, EnterDoes
    <3>3. job'[o] # Idle
      BY <1>4 DEF Idle
    <3>4. PICK op, then : job' = [job EXCEPT ![o] = Plan(op, st, then)] /\ MayRead(op)
      BY <3>2, <3>3 DEF Shapes, JobShape
    <3>5. job'[o] = Plan(op, st, then) /\ op = "close"
      BY <1>4, <3>4 DEF Shapes, JobShape, Plan
    <3>6. job[p].at # "answer"
      BY <1>1, <3>4, <3>5 DEF MayRead
    <3>7. PICK t \in Tries : Answer(p, t)
      BY <3>6
    <3>8. PICK row : job' = [job EXCEPT ![p] = [at |-> "answer", q |-> st.i, row |-> row]]
      BY <3>7 DEF Answer
    <3>9. p \in Proc /\ job'[p].at = "answer" /\ \A x \in Proc \ {p} : job'[x] = job[x]
      BY <3>8 DEF Shapes, JobShape, Proc
    <3> QED
      BY <1>4, <2>1, <3>9
  <2> QED
    BY <1>4, <2>1, <2>2, <2>3, <2>4, ChangeComes
<1> QED
  BY <1>3, <1>4 DEF Closing

\* An answer that is taken earns what its player's streak is worth.
LEMMA AnswerEarns ==
    ASSUME Shapes, Barred, Punctual, InTime, StreaksAgree, NEW p \in Player, NEW t \in Tries, Answer(p, t)
    PROVE  /\ job'[p].at = "answer" /\ job'[p].q = st.i /\ st' = st /\ st.ph = "question" /\ ~Closing
           /\ p \in Range(joined) /\ joined' = joined
           /\ Earned(p, st.i, job'[p].row)
<1>1. /\ p \in Range(joined) /\ joined' = joined /\ st # None /\ st' = st /\ st.ph = "question"
      /\ <<"x", p>> \notin marks
      /\ ~Closing
  BY DEF Answer, db, Punctual, Without, May
<1>2. p \in Active
  BY <1>1 DEF Active, Barred, Punctual, Without
<1>3. Streak(p) = RunBefore(p, st.i)
  BY <1>1, <1>2 DEF StreaksAgree, StreakKnown, NextQuestion
<1>4. PICK key, k, row : /\ key = game.keys[st.i] /\ k = Streak(p) /\ row = Row(key, t, k)
                         /\ job' = [job EXCEPT ![p] = [at |-> "answer", q |-> st.i, row |-> row]]
  BY DEF Answer, Streak
<1>5. p \in Proc
  BY DEF Proc
<1>6. job'[p] = [at |-> "answer", q |-> st.i, row |-> row]
  BY <1>4, <1>5 DEF Shapes, JobShape
<1>7. row.points = points(key, Fraction(key, row.value), row.is_correct, row.time, k)
  BY <1>4 DEF Row
<1> QED
  BY <1>1, <1>3, <1>4, <1>6, <1>7 DEF Earned

\* Who has not come in has nothing.
LEMMA NewcomersStayNew ==
    ASSUME Shapes, Punctual, InTime, StreaksAgree, [Next]_vars, NEW p \in Player, p \notin Range(joined)
    PROVE  IsNew(p)' /\ IsNew(p)
<1>1. IsNew(p)
  BY DEF InTime
<1>2. Question' = Question
  BY WhoMoves, SameGame DEF Shapes
<1>3. \A q \in Question : answers'[p][q] = None
  BY <1>1, OnlyOnTime DEF IsNew, NoAnswers
<1>4. me'[p] = None
  <2>1. ~Lost
    BY DEF Lost, Punctual, Without, May
  <2>2. ASSUME NEW o \in Proc, Save(o)  PROVE me'[p] = me[p]
    <3>1. PICK j : j = job[o] /\ j.at = "written" /\ me' = Results(j)
      BY <2>2, SaveDoes
    <3>2. j.op = "close" => p \notin DOMAIN j.rows
      BY <3>1 DEF StreaksAgree, Closes, Holding
    <3> QED
      BY <3>1, <3>2 DEF Results
  <2> QED
    BY <1>1, <2>1, <2>2, WhoScores DEF IsNew
<1>5. player'[p].streak = 0
  <2>1. ASSUME NEW o \in Proc, Commit(o)  PROVE player'[p].streak = player[p].streak
    <3>1. job[o].at = "hold"
      BY <2>1, FromWhere DEF Shapes
    <3>2. job[o].op = "close" => p \notin DOMAIN job[o].rows
      BY <3>1 DEF StreaksAgree, Closes, Holding
    <3> QED
      BY <2>1, <3>2, CommitResults
  <2> QED
    BY <1>1, <2>1, WhoScores DEF IsNew
<1> QED
  BY <1>1, <1>2, <1>3, <1>4, <1>5 DEF IsNew, NoAnswers

LEMMA InTimeStep ==
    ASSUME Shapes, Shapes', Awake, Locked, Barred, Punctual, InTime, StreaksAgree, [Next]_vars
    PROVE  InTime'
<1>1. game' = game /\ N \in Nat /\ Question = 1..N /\ Question' = Question
  BY WhoMoves, GameFacts, SameGame DEF Shapes
<1>2. st # None /\ st.i \in Nat /\ st.i <= N
  BY StateFacts DEF InTime
<1>3. st' # None
  BY <1>2, PunctualIsSettled, StateGoesOn
<1>4. st'.i \in Nat /\ st.i <= st'.i
  BY <1>2, PunctualIsSettled, StateGoesOn
<1>5. Range(joined) \subseteq Range(joined)'
  BY RowsStay
<1>6. ASSUME NEW p \in Player, job'[p].at = "answer"
      PROVE  /\ job'[p].q = st'.i /\ st'.ph = "question" /\ ~Closing' /\ p \in Range(joined)'
             /\ Earned(p, st.i, job'[p].row) /\ st'.i = st.i
  <2>1. CASE job'[p] = job[p]
    <3>1. /\ job[p].q = st.i /\ st.ph = "question" /\ ~Closing
          /\ p \in Range(joined) /\ Earned(p, st.i, job[p].row)
      BY <1>6, <2>1 DEF InTime, OnTime
    <3> QED
      BY <1>2, <1>5, <1>6, <2>1, <3>1, PunctualIsSettled, NoCloseMeanwhile
  <2>2. ASSUME NEW t \in Tries, Answer(p, t)
        PROVE  /\ job'[p].q = st'.i /\ st'.ph = "question" /\ ~Closing' /\ p \in Range(joined)'
               /\ Earned(p, st.i, job'[p].row) /\ st'.i = st.i
    BY <1>2, <1>5, <2>2, AnswerEarns, PunctualIsSettled, NoCloseMeanwhile
  <2> QED
    BY <1>6, <2>1, <2>2, Origins
<1>7. \A p \in Player : OnTime(p)'
  <2> SUFFICES ASSUME NEW p \in Player, job'[p].at = "answer"
               PROVE  /\ job'[p].q = st'.i /\ st'.ph = "question" /\ ~Closing' /\ p \in Range(joined)'
                      /\ Earned(p, st.i, job[p].row)'
    BY <1>6 DEF OnTime
  <2>1. /\ job'[p].q = st'.i /\ st'.ph = "question" /\ ~Closing' /\ p \in Range(joined)'
        /\ Earned(p, st.i, job'[p].row) /\ st'.i = st.i
    BY <1>6
  <2>2. PICK k, a : k = st.i /\ a = job'[p].row
    OBVIOUS
  <2>3. RunBefore(p, k)' = RunBefore(p, k)
    BY <1>1, <1>2, <2>2, RunsStay
  <2>4. a.points = points(game.keys[k], Fraction(game.keys[k], a.value), a.is_correct, a.time, RunBefore(p, k)')
    BY <2>1, <2>2, <2>3 DEF Earned
  <2> QED
    BY <1>1, <2>1, <2>2, <2>4 DEF Earned
<1>8. \A q \in Question : \A p \in Player : AnswerEarned(q, p)'
  <2> SUFFICES ASSUME NEW q \in Question, NEW p \in Player, answers'[p][q] # None
               PROVE  q <= st'.i /\ Earned(p, q, answers[p][q])'
    BY DEF AnswerEarned
  <2>1. q \in Nat /\ q <= N
    BY <1>1
  <2>2. q <= st.i /\ Earned(p, q, answers'[p][q])
    <3>1. CASE answers'[p][q] = answers[p][q]
      BY <3>1 DEF InTime, AnswerEarned
    <3>2. CASE answers'[p][q] # answers[p][q]
      BY <1>2, <3>2, OnlyOnTime
    <3> QED
      BY <3>1, <3>2
  <2>3. RunBefore(p, q)' = RunBefore(p, q)
    BY <1>1, <2>1, <2>2, RunsStay
  <2>4. PICK a : a = answers'[p][q]
    OBVIOUS
  <2>5. a.points = points(game.keys[q], Fraction(game.keys[q], a.value), a.is_correct, a.time, RunBefore(p, q)')
    BY <2>2, <2>3, <2>4 DEF Earned
  <2>6. q <= st'.i
    BY <1>2, <1>4, <2>1, <2>2
  <2> QED
    BY <1>1, <2>4, <2>5, <2>6 DEF Earned
<1>9. \A p \in Player : p \notin Range(joined)' => IsNew(p)'
  BY <1>5, NewcomersStayNew
<1> QED
  BY <1>1, <1>3, <1>7, <1>8, <1>9 DEF InTime

-----------------------------------------------------------------------------
(* Streaks are those of the answers *)

\* Only one request changes the phase.
LEMMA OneChange ==
    ASSUME Locked, Punctual, NEW p \in Proc, Holding(p)
    PROVE  lock = p /\ st # None /\ job[p].st = st /\ \A o \in Proc \ {p} : ~Holding(o)
BY DEF Locked, Punctual, Without

\* The new state of the one who has the lock is written.
LEMMA SaveKeepsStreaks ==
    ASSUME Shapes, Awake, Locked, Punctual, InTime, StreaksAgree, [Next]_vars, NEW p \in Proc, Save(p)
    PROVE  StreaksAgree'
<1>1. st # None /\ st.i \in Nat /\ st.i <= N /\ N \in Nat
  BY StateFacts DEF InTime
<1>2. PICK j, k : /\ j = job[p] /\ IsChange(j) /\ j.at = "written" /\ st' = NewState(j) /\ me' = Results(j)
                  /\ job' = [job EXCEPT ![p] = k]
                  /\ k = Idle \/ (k.at = "hold" /\ k.op = "finish")
                  /\ UNCHANGED <<game, db, counters, due, events>>
  BY SaveDoes
<1>3. Holding(p)
  BY <1>2 DEF Holding
<1>4. j.st = st /\ \A o \in Proc \ {p} : ~Holding(o)
  BY <1>2, <1>3, OneChange
<1>5. /\ job'[p] = k /\ \A o \in Proc \ {p} : job'[o] = job[o]
  BY <1>2 DEF Shapes, JobShape
<1>6. \A o \in Proc : job'[o].op = "close" => job'[o].at \notin {"hold", "written"}
  BY <1>2, <1>4, <1>5 DEF Holding, Idle
<1>7. \A o \in Proc : ~Closes(o)'
  BY <1>6 DEF Closes, Holding
<1>8. Active' = Active /\ player' = player /\ answers' = answers /\ game' = game
  BY <1>2 DEF db, Active, Range
<1>9. /\ j.op = "close" <=> st.ph = "question"
      /\ st'.ph = "question" <=> j.op = "open"
      /\ st'.i = IF j.op = "open" THEN st.i + 1 ELSE st.i
  BY <1>2, <1>4, NewStateShape, ChangeParts DEF Shapes
<1>10. PICK n : n = st.i + 1
  OBVIOUS
<1>11. NextQuestion' = n /\ (j.op # "close" => NextQuestion = n)
  BY <1>1, <1>9, <1>10 DEF NextQuestion
<1>12. ASSUME NEW o \in Active
       PROVE  /\ (IF me'[o] = None THEN 0 ELSE me'[o]) = RunBefore(o, n)
              /\ player[o].streak = RunBefore(o, n)
  <2>1. o \in Player
    BY ActiveIsFinite DEF Shapes
  <2>2. StreakKnown(o) /\ (j.op = "close" => ResultKnown(p, o))
    BY <1>2, <1>3 DEF StreaksAgree, Closes
  <2>3. CASE j.op # "close"
    <3>1. \A x \in Proc : ~Wrote(x)
      BY <1>2, <1>4, <2>3 DEF Wrote, Holding
    <3>2. me'[o] = me[o]
      BY <1>2, <2>1, <2>3 DEF Results
    <3> QED
      BY <1>11, <2>2, <2>3, <3>1, <3>2 DEF StreakKnown, Streak
  <2>4. CASE j.op = "close" /\ o \in DOMAIN j.rows
    <3>1. me'[o] = j.rows[o].streak
      BY <1>2, <2>1, <2>4 DEF Results
    <3>2. j.rows[o].streak \in Nat
      BY <1>2, <2>4, ChangeParts DEF SomeRows, NewResults
    <3> QED
      BY <1>2, <1>10, <2>2, <2>4, <3>1, <3>2, NoneAssumption DEF ResultKnown
  <2>5. CASE j.op = "close" /\ o \notin DOMAIN j.rows
    <3>1. me'[o] = me[o]
      BY <1>2, <2>1, <2>5 DEF Results
    <3>2. NoAnswers(o) /\ player[o].streak = RunBefore(o, n)
      BY <1>2, <1>10, <2>2, <2>5 DEF ResultKnown
    <3>3. RunBefore(o, n) = 0
      BY <1>1, <1>10, <2>1, <3>2, NoRun
    <3>4. Streak(o) = 0
      <4>1. PICK m : m = NextQuestion
        OBVIOUS
      <4>2. m \in Nat /\ m <= N + 1
        BY <1>1, <4>1 DEF NextQuestion
      <4> QED
        BY <2>1, <2>2, <3>2, <4>1, <4>2, NoRun DEF StreakKnown
    <3> QED
      BY <3>1, <3>2, <3>3, <3>4 DEF Streak
  <2> QED
    BY <2>3, <2>4, <2>5
<1>13. \A o \in Active : RunBefore(o, n)' = RunBefore(o, n)
  BY <1>1, <1>8, <1>10, SameRun
<1>14. ASSUME NEW o \in Active  PROVE StreakKnown(o)'
  BY <1>8, <1>11, <1>12, <1>13 DEF StreakKnown, Streak
<1> QED
  BY <1>7, <1>8, <1>14 DEF StreaksAgree

\* The database is written.
LEMMA CommitKeepsStreaks ==
    ASSUME Shapes, Awake, Locked, Punctual, InTime, StreaksAgree, [Next]_vars, NEW p \in Proc, Commit(p)
    PROVE  StreaksAgree'
<1>1. st # None /\ st.i \in Nat /\ st.i <= N /\ N \in Nat
  BY StateFacts DEF InTime
<1>2. PICK j, w : /\ j = job[p] /\ IsChange(j) /\ j.at = "hold"
                  /\ job' = [job EXCEPT ![p] = w] /\ w.at = "written"
                  /\ w.op = j.op /\ w.st = j.st /\ w.rows = j.rows
                  /\ player' = Updated(j.rows)
                  /\ UNCHANGED <<game, joined, answers, st, clock, np, marks, me, due, lock, events>>
  BY CommitDoes
<1>3. Holding(p) /\ (Closes(p) <=> j.op = "close")
  BY <1>2 DEF Holding, Closes
<1>4. j.st = st /\ \A o \in Proc \ {p} : ~Holding(o)
  BY <1>2, <1>3, OneChange
<1>5. job'[p] = w /\ \A o \in Proc \ {p} : job'[o] = job[o]
  BY <1>2 DEF Shapes, JobShape
<1>6. \A o \in Proc : ~Wrote(o)
  BY <1>2, <1>4 DEF Wrote, Holding
<1>7. \A o \in Proc : Closes(o)' => o = p /\ j.op = "close"
  BY <1>2, <1>4, <1>5 DEF Closes, Holding
<1>8. Active' = Active /\ Active \subseteq Player
  <2>1. SomeRows(j.rows, NewResults) \/ SomeRows(j.rows, NewPlaces) \/ j.rows = <<>>
    BY <1>2, ChangeParts
  <2>2. \A o \in Player : player'[o].is_removed = player[o].is_removed
    BY <1>2, <2>1, UpdatedShape DEF Shapes
  <2>3. Active \subseteq Player /\ Range(joined) \subseteq Player /\ Range(joined)' = Range(joined)
    BY <1>2, ActiveIsFinite DEF Shapes, DbShape, Range
  <2> QED
    BY <2>2, <2>3 DEF Active
<1>9. PICK m, n : m = NextQuestion /\ n = st.i + 1
  OBVIOUS
<1>10. m \in Nat /\ n \in Nat /\ m <= N + 1 /\ n <= N + 1 /\ NextQuestion' = m
  BY <1>1, <1>2, <1>9 DEF NextQuestion
<1>11. \A o \in Active : RunBefore(o, m)' = RunBefore(o, m) /\ RunBefore(o, n)' = RunBefore(o, n)
  BY <1>2, <1>10, SameRun
<1>12. \A o \in Active : StreakKnown(o) /\ player[o].streak = RunBefore(o, m)
  BY <1>6, <1>9 DEF StreaksAgree, StreakKnown
<1>13. CASE j.op # "close"
  <2>1. \A o \in Active : player'[o].streak = player[o].streak
    BY <1>2, <1>8, <1>13, CommitResults
  <2>2. ASSUME NEW o \in Active  PROVE StreakKnown(o)'
    BY <1>2, <1>9, <1>10, <1>11, <1>12, <2>1 DEF StreakKnown, Streak
  <2> QED
    BY <1>7, <1>8, <1>13, <2>2 DEF StreaksAgree
<1>14. CASE j.op = "close"
  <2>1. /\ DOMAIN j.rows \subseteq Range(joined)
        /\ \A o \in Active : ResultKnown(p, o)
    BY <1>2, <1>3, <1>14 DEF StreaksAgree
  <2>2. Wrote(p)'
    BY <1>2, <1>5, <1>14 DEF Wrote
  <2>3. ASSUME NEW o \in Active  PROVE StreakKnown(o)'
    BY <1>2, <1>9, <1>10, <1>11, <1>12, <2>2 DEF StreakKnown, Streak
  <2>4. ASSUME NEW o \in Active
        PROVE  /\ o \in DOMAIN j.rows => j.rows[o].streak = RunBefore(o, n)
               /\ o \notin DOMAIN j.rows => NoAnswers(o)
               /\ player'[o].streak = RunBefore(o, n)
    <3>1. /\ o \in DOMAIN j.rows => j.rows[o].streak = RunBefore(o, n)
          /\ o \notin DOMAIN j.rows => NoAnswers(o)
      BY <1>2, <1>9, <2>1 DEF ResultKnown
    <3>2. player'[o].streak = IF o \in DOMAIN j.rows THEN j.rows[o].streak ELSE player[o].streak
      BY <1>2, <1>8, <1>14, CommitResults
    <3>3. o \notin DOMAIN j.rows => player[o].streak = RunBefore(o, n)
      BY <1>8, <1>10, <1>12, <3>1, NoRun
    <3> QED
      BY <3>1, <3>2, <3>3
  <2>5. ASSUME NEW o \in Active  PROVE ResultKnown(p, o)'
    <3>1. NoAnswers(o) => NoAnswers(o)'
      BY <1>2, SameGame DEF NoAnswers
    <3> QED
      BY <1>2, <1>5, <1>9, <1>11, <2>4, <3>1 DEF ResultKnown
  <2>6. (DOMAIN job[p].rows \subseteq Range(joined))'
    BY <1>2, <1>5, <2>1 DEF Range
  <2> QED
    BY <1>7, <1>8, <2>3, <2>5, <2>6 DEF StreaksAgree
<1> QED
  BY <1>13, <1>14

\* The results are computed from the streaks and the answers in the database.
LEMMA CountedStreaks ==
    ASSUME Shapes, NEW q \in Question
    PROVE  /\ DOMAIN Counted(q) = Active
           /\ \A p \in Active : player[p].streak = RunBefore(p, q) => Counted(q)[p].streak = RunBefore(p, q + 1)
<1>1. DOMAIN Counted(q) = Active
  BY DEF Counted
<1>2. ASSUME NEW p \in Active
      PROVE  Counted(q)[p].streak =
                IF ~scored(game.keys[q]) THEN player[p].streak
                ELSE IF answers[p][q] # None /\ answers[p][q].is_correct THEN player[p].streak + 1 ELSE 0
  BY DEF Counted
<1>3. Active \subseteq Player
  BY ActiveIsFinite DEF Shapes
<1> QED
  BY <1>1, <1>2, <1>3, RunGoesOn

\* A request has the lock and reads.
LEMMA EnterKeepsStreaks ==
    ASSUME Shapes, Awake, Locked, Punctual, InTime, StreaksAgree, [Next]_vars,
           NEW p \in Proc, NEW want, Enter(p, want), UNCHANGED <<game, db, st, me>>
    PROVE  StreaksAgree'
<1>1. st # None /\ st.i \in Nat /\ st.i <= N /\ N \in Nat
  BY StateFacts DEF InTime
<1>2. lock = None /\ Active' = Active /\ Active \subseteq Player /\ Range(joined)' = Range(joined)
  BY EnterDoes, ActiveIsFinite DEF db, Active, Range, Shapes
<1>3. \A o \in Proc : ~Holding(o)
  BY <1>2, OneChange, NoneAssumption
<1>4. \A o \in Proc : ~Wrote(o)
  BY <1>3 DEF Wrote, Holding
<1>5. PICK m, n : m = NextQuestion /\ n = st.i + 1
  OBVIOUS
<1>6. m \in Nat /\ n \in Nat /\ NextQuestion' = m
  BY <1>1, <1>5 DEF NextQuestion
<1>7. \A o \in Active : RunBefore(o, m)' = RunBefore(o, m) /\ RunBefore(o, n)' = RunBefore(o, n)
  BY <1>6, SameRun DEF db
<1>8. \A o \in Active : Streak(o) = RunBefore(o, m) /\ player[o].streak = RunBefore(o, m)
  BY <1>4, <1>5 DEF StreaksAgree, StreakKnown
<1>9. ASSUME NEW o \in Active  PROVE StreakKnown(o)'
  BY <1>6, <1>7, <1>8 DEF StreakKnown, Streak, db
<1>10. CASE job' = [job EXCEPT ![p] = Idle]
  <2>1. \A o \in Proc : ~Closes(o)'
    BY <1>3, <1>10 DEF Closes, Holding, Idle, Shapes, JobShape
  <2> QED
    BY <1>2, <1>9, <2>1 DEF StreaksAgree
<1>11. ASSUME NEW op, NEW then, job' = [job EXCEPT ![p] = Plan(op, st, then)], op = "close" <=> st.ph = "question"
       PROVE  StreaksAgree'
  <2>1. job'[p] = Plan(op, st, then) /\ \A o \in Proc \ {p} : job'[o] = job[o]
    BY <1>11 DEF Shapes, JobShape
  <2>2. job'[p].op = op /\ job'[p].at = "hold" /\ (op = "close" => job'[p].rows = Counted(st.i))
    BY <2>1 DEF Plan
  <2>3. \A o \in Proc : Closes(o)' => o = p /\ op = "close"
    BY <1>3, <2>1, <2>2 DEF Closes, Holding
  <2>4. CASE op # "close"
    BY <1>2, <1>9, <2>3, <2>4 DEF StreaksAgree
  <2>5. CASE op = "close"
    <3>1. st.i \in Question /\ m = st.i
      BY <1>1, <1>5, <1>11, <2>5, StateFacts DEF NextQuestion
    <3>2. DOMAIN job'[p].rows = Active /\ \A o \in Active : job'[p].rows[o].streak = RunBefore(o, n)
      BY <1>5, <1>8, <2>2, <2>5, <3>1, CountedStreaks
    <3>3. ASSUME NEW o \in Active  PROVE ResultKnown(p, o)'
      BY <1>5, <1>7, <2>2, <3>2 DEF ResultKnown
    <3>4. (DOMAIN job[p].rows \subseteq Range(joined))'
      BY <1>2, <3>2 DEF Active
    <3> QED
      BY <1>2, <1>9, <2>3, <3>3, <3>4 DEF StreaksAgree
  <2> QED
    BY <2>4, <2>5
<1> QED
  BY <1>10, <1>11, EnterDoes

\* Nothing else touches a streak.
LEMMA QuietKeepsStreaks ==
    ASSUME Shapes, Awake, Locked, Punctual, InTime, StreaksAgree, [Next]_vars,
           \A p \in Proc : ~Save(p) /\ ~Commit(p) /\ ~Move(p) /\ \A what \in {"next", "skip", "end"} : ~Press(p, what)
    PROVE  StreaksAgree'
<1>1. st # None /\ st.i \in Nat /\ st.i <= N /\ N \in Nat
  BY StateFacts DEF InTime
<1>2. st'.ph = st.ph /\ st'.i = st.i /\ ~Lost
  BY <1>1, PunctualIsSettled, StateGoesOn
<1>3. me' = me /\ \A o \in Player : player'[o].streak = player[o].streak
  BY <1>2, WhoScores
<1>4. \A o \in Proc : job'[o].at \in {"hold", "written"} => job'[o] = job[o]
  BY ChangeComes
<1>5. \A o \in Proc : Holding(o) => job'[o] = job[o]
  <2> SUFFICES ASSUME NEW o \in Proc, Holding(o)  PROVE job'[o] = job[o]
    OBVIOUS
  <2>1. ~Killed(o)
    BY DEF Killed, May, Punctual, Without
  <2>2. ~Began(o) /\ ~GiveUp(o) /\ ~Rebuilt(o) /\ ~Refills(o)
        /\ (o \in Player => ~Store(o) /\ ~Count(o) /\ ~Check(o) /\ ~Joined(o))
    BY FromWhere DEF Holding, Idle, Shapes
  <2> QED
    BY <2>1, <2>2, WhoMoves DEF WentOn, Shapes
<1>6. \A o \in Proc : (Closes(o)' => Closes(o)) /\ (Wrote(o) => Wrote(o)')
  BY <1>4, <1>5 DEF Closes, Wrote, Holding
<1>7. PICK m, n : m = NextQuestion /\ n = st.i + 1
  OBVIOUS
<1>8. m \in Nat /\ n \in Nat /\ m <= N + 1 /\ n <= N + 1 /\ NextQuestion' = m /\ st'.i + 1 = n
      /\ (m <= st.i \/ st.ph # "question")
  BY <1>1, <1>2, <1>7 DEF NextQuestion
<1>9. Range(joined) \subseteq Range(joined)' /\ Active' \subseteq Player
      /\ \A p \in Active' : p \in Active \/ p \notin Range(joined)
  <2>1. Active' \subseteq Player
    <3>1. Shapes'
      BY ShapesStep
    <3> QED
      BY <3>1 DEF Shapes, DbShape, Active, Range
  <2> QED
    BY <2>1, RowsStay
<1>10. \A p \in Player : RunBefore(p, m)' = RunBefore(p, m)
  BY <1>8, RunsStay
<1>11. \A o \in Proc : Closes(o) => Closing
  BY DEF Closes, Closing, Holding
<1>12. \A o \in Proc : Closes(o) => \A p \in Player : RunBefore(p, n)' = RunBefore(p, n)
  BY <1>8, <1>11, RunsStay
<1>13. ASSUME NEW p \in Player, p \notin Range(joined)
       PROVE  /\ NoAnswers(p)' /\ Streak(p)' = 0 /\ player'[p].streak = 0
              /\ RunBefore(p, m)' = 0
              /\ \A o \in Proc : Closes(o) => RunBefore(p, n)' = 0
  <2>1. IsNew(p) /\ IsNew(p)'
    BY <1>13, NewcomersStayNew
  <2>2. RunBefore(p, m) = 0 /\ RunBefore(p, n) = 0
    BY <1>8, <2>1, NoRun DEF IsNew
  <2> QED
    BY <1>10, <1>12, <2>1, <2>2 DEF IsNew, Streak
<1>14. ASSUME NEW p \in Active'  PROVE StreakKnown(p)'
  <2>1. CASE p \in Active
    <3>1. Streak(p) = RunBefore(p, m) /\ ((\A o \in Proc : ~Wrote(o)) => player[p].streak = RunBefore(p, m))
      BY <1>7, <2>1 DEF StreaksAgree, StreakKnown
    <3> QED
      BY <1>3, <1>6, <1>8, <1>9, <1>10, <3>1 DEF StreakKnown, Streak
  <2>2. CASE p \notin Range(joined)
    BY <1>8, <1>9, <1>13, <2>2 DEF StreakKnown
  <2> QED
    BY <1>9, <2>1, <2>2
<1>15. ASSUME NEW o \in Proc, Closes(o)'
       PROVE  DOMAIN job'[o].rows \subseteq Range(joined)' /\ \A p \in Active' : ResultKnown(o, p)'
  <2>1. Closes(o) /\ job'[o] = job[o]
    BY <1>5, <1>6, <1>15 DEF Closes
  <2>2. DOMAIN job[o].rows \subseteq Range(joined) /\ \A p \in Active : ResultKnown(o, p)
    BY <2>1 DEF StreaksAgree
  <2>3. ASSUME NEW p \in Active'  PROVE ResultKnown(o, p)'
    <3>1. CASE p \in Active
      <4>1. /\ p \in DOMAIN job[o].rows => job[o].rows[p].streak = RunBefore(p, n)
            /\ p \notin DOMAIN job[o].rows => NoAnswers(p)
            /\ job[o].at = "written" => player[p].streak = RunBefore(p, n)
        BY <1>7, <2>2, <3>1 DEF ResultKnown
      <4>2. NoAnswers(p) => NoAnswers(p)'
        <5>1. Question' = Question
          BY WhoMoves, SameGame DEF Shapes
        <5>2. \A q \in Question : answers'[p][q] = answers[p][q]
          BY <1>9, <1>11, <2>1, OnlyOnTime
        <5> QED
          BY <5>1, <5>2 DEF NoAnswers
      <4> QED
        BY <1>3, <1>8, <1>9, <1>12, <2>1, <4>1, <4>2 DEF ResultKnown
    <3>2. CASE p \notin Range(joined)
      BY <1>8, <1>9, <1>13, <2>1, <2>2, <3>2 DEF ResultKnown
    <3> QED
      BY <1>9, <3>1, <3>2
  <2> QED
    BY <1>9, <2>1, <2>2, <2>3
<1> QED
  BY <1>14, <1>15 DEF StreaksAgree

LEMMA RunsStep ==
    ASSUME Shapes, Shapes', Awake, Locked, Barred, Runs, [Next]_vars
    PROVE  Runs'
<1>1. game' = game
  BY WhoMoves DEF Shapes
<1>2. SUFFICES ASSUME Punctual  PROVE InTime' /\ StreaksAgree'
  <2>1. Punctual' <=> Punctual
    BY <1>1, SameEvents DEF Punctual
  <2> QED
    BY <2>1 DEF Runs
<1>3. InTime /\ StreaksAgree
  BY <1>2 DEF Runs
<1>4. InTime'
  BY <1>2, <1>3, InTimeStep
<1>5. ASSUME NEW p \in Proc, Move(p) \/ \E what \in {"next", "skip", "end"} : Press(p, what)
      PROVE  StreaksAgree'
  <2>1. PICK want : Enter(p, want) /\ UNCHANGED <<game, db, st, me>>
    BY <1>5 DEF Move, Press
  <2> QED
    BY <1>2, <1>3, <2>1, EnterKeepsStreaks
<1> QED
  BY <1>2, <1>3, <1>4, <1>5, SaveKeepsStreaks, CommitKeepsStreaks, QuietKeepsStreaks

LEMMA RunsInit ==
    ASSUME Init
    PROVE  Runs
<1>1. /\ \A p \in Proc : job[p] = Idle
      /\ st = [ph |-> "lobby", i |-> 0, v |-> 1, paused |-> FALSE]
      /\ \A p \in Player : me[p] = None /\ player[p].streak = 0 /\ \A q \in Question : answers[p][q] = None
  BY DEF Init, NewPlayer
<1>2. game \in Games /\ \A p \in Player : p \in Proc
  BY DEF Init, Proc
<1>3. st # None
  <2>1. st \in States
    BY <1>1 DEF States, Statuses
  <2> QED
    BY <2>1, NoneAssumption
<1>4. \A p \in Player : IsNew(p)
  BY <1>1 DEF IsNew, NoAnswers
<1>5. InTime
  BY <1>1, <1>2, <1>3, <1>4 DEF InTime, OnTime, AnswerEarned, Idle
<1>6. Shapes
  BY ShapesInit
<1>7. PICK m : m = NextQuestion
  OBVIOUS
<1>8. m = 1 /\ N \in Nat \ {0}
  BY <1>1, <1>2, <1>7, GameFacts DEF NextQuestion
<1>9. \A p \in Player : RunBefore(p, m) = 0
  BY <1>4, <1>6, <1>8, NoRun DEF IsNew
<1>10. \A p \in Active : StreakKnown(p)
  BY <1>1, <1>6, <1>7, <1>9, ActiveIsFinite DEF StreakKnown, Streak, Shapes
<1>11. \A o \in Proc : ~Closes(o)
  BY <1>1 DEF Closes, Holding, Idle
<1> QED
  BY <1>5, <1>10, <1>11 DEF Runs, StreaksAgree

-----------------------------------------------------------------------------
(* Scores are those of the answers *)

LEMMA PointsAreNumbers ==
    ASSUME Shapes, NEW p \in Player
    PROVE  /\ IsFiniteSet(Question) /\ Question = 1..N /\ N \in Nat
           /\ \A q \in Question : Points(p)[q] \in Int
           /\ \A q \in Question : Points(p)[q] = IF answers[p][q] = None THEN 0 ELSE answers[p][q].points
<1>1. Question = 1..N /\ N \in Nat /\ game \in Games
  BY GameFacts DEF Shapes
<1>2. IsFiniteSet(Question)
  BY <1>1, FS_Interval
<1>3. \A q \in Question : Points(p)[q] = IF answers[p][q] = None THEN 0 ELSE answers[p][q].points
  BY DEF Points
<1>4. \A q \in Question : answers[p][q] # None => answers[p][q].points \in Nat
  BY <1>1, AnswerPoints DEF Shapes, AnswerShape
<1> QED
  BY <1>1, <1>2, <1>3, <1>4

\* The answers to what was closed are what a total is made of.
LEMMA TotalStays ==
    ASSUME Shapes, game' = game, UNCHANGED <<status, current>>, NEW p \in Player,
           \A q \in Question : Closed(q) => answers'[p][q] = answers[p][q]
    PROVE  Total(p)' = Total(p)
<1>1. Question' = Question /\ IsFiniteSet(Question)
  BY SameGame, PointsAreNumbers
<1>2. PICK f, g, D : f = Points(p) /\ g = Points(p)' /\ D = {q \in Question : Closed(q)}
  OBVIOUS
<1>3. {q \in Question : Closed(q)}' = D
  BY <1>1, <1>2 DEF Closed
<1>4. IsFiniteSet(D) /\ \A q \in D : q \in Question /\ Closed(q)
  BY <1>1, <1>2, FS_Subset
<1>5. \A q \in D : f[q] = g[q]
  BY <1>1, <1>2, <1>4 DEF Points
<1>6. SumFunctionOnSet(f, D) = SumFunctionOnSet(g, D)
  BY <1>4, <1>5, SumsAgree
<1>7. Total(p) = SumFunctionOnSet(f, D)
  BY <1>2 DEF Total
<1>8. Total(p)' = SumFunctionOnSet(g, D)
  BY <1>2, <1>3 DEF Total
<1> QED
  BY <1>6, <1>7, <1>8

\* Closing a question adds what its answer has brought.
LEMMA TotalGrows ==
    ASSUME Shapes, game' = game, answers' = answers, NEW p \in Player,
           status = "question", current \in Question, status' # "question", current' = current
    PROVE  Total(p)' = Total(p) + Points(p)[current]
<1>1. Question' = Question /\ IsFiniteSet(Question) /\ Question = 1..N /\ N \in Nat
      /\ \A q \in Question : Points(p)[q] \in Int
  BY SameGame, PointsAreNumbers
<1>2. PICK f, D, E : f = Points(p) /\ D = {q \in Question : Closed(q)} /\ E = {q \in Question : Closed(q)'}
  OBVIOUS
<1>3. f = Points(p)' /\ E = {q \in Question : Closed(q)}'
  BY <1>1, <1>2 DEF Points
<1>4. current \in E /\ E \ {current} = D
  BY <1>1, <1>2 DEF Closed
<1>5. IsFiniteSet(E) /\ IsFiniteSet(D) /\ (\A q \in E : f[q] \in Int) /\ (\A q \in D : f[q] \in Int)
  BY <1>1, <1>2, FS_Subset
<1>6. SumFunctionOnSet(f, E) = f[current] + SumFunctionOnSet(f, D)
  BY <1>4, <1>5, SumWithout
<1>7. SumFunctionOnSet(f, D) \in Int /\ f[current] \in Int
  BY <1>4, <1>5, SumType
<1>8. Total(p) = SumFunctionOnSet(f, D)
  BY <1>2 DEF Total
<1>9. Total(p)' = SumFunctionOnSet(f, E)
  BY <1>3 DEF Total
<1>10. \A a, b \in Int : a + b = b + a
  OBVIOUS
<1>11. f[current] + SumFunctionOnSet(f, D) = SumFunctionOnSet(f, D) + f[current]
  BY <1>7, <1>10
<1> QED
  BY Zenon, <1>2, <1>6, <1>8, <1>9, <1>11

\* The other changes of the phase close nothing.
LEMMA TotalWaits ==
    ASSUME Shapes, game' = game, answers' = answers, NEW p \in Player, status # "question",
           \/ current' = current /\ status' # "question"
           \/ current' = current + 1 /\ status' = "question"
    PROVE  Total(p)' = Total(p)
<1>1. Question' = Question /\ Question = 1..N /\ N \in Nat /\ current \in Int
  BY SameGame, PointsAreNumbers DEF Shapes, DbShape, Place
<1>2. {q \in Question : Closed(q)}' = {q \in Question : Closed(q)}
  BY <1>1 DEF Closed
<1>3. Points(p)' = Points(p)
  BY <1>1 DEF Points
<1> QED
  BY <1>2, <1>3 DEF Total

\* Who has answered nothing has nothing.
LEMMA NoTotal ==
    ASSUME Shapes, NEW p \in Player, NoAnswers(p)
    PROVE  Total(p) = 0 /\ \A q \in Question : Points(p)[q] = 0
<1>1. IsFiniteSet(Question) /\ \A q \in Question : Points(p)[q] = 0
  BY PointsAreNumbers DEF NoAnswers
<1>2. PICK f, D : f = Points(p) /\ D = {q \in Question : Closed(q)}
  OBVIOUS
<1>3. IsFiniteSet(D) /\ \A q \in D : f[q] = 0
  BY <1>1, <1>2, FS_Subset
<1>4. (\A q \in D : f[q] \in Int) /\ (\A q \in D \ {} : f[q] = 0) /\ {} \in SUBSET D
  BY <1>3
<1>5. SumFunctionOnSet(f, D) = SumFunctionOnSet(f, {})
  BY <1>3, <1>4, SumOfTheRest
<1>6. Total(p) = 0
  BY <1>2, <1>5, SumOfNothing DEF Total
<1> QED
  BY <1>1, <1>6

\* Only one request changes the phase, and while nobody closes the open question
\* the database and the cache agree on it.
LEMMA OnlyOneChanges ==
    ASSUME Locked, Settled, NEW p \in Proc, Holding(p)
    PROVE  lock = p /\ st # None /\ job[p].st = st /\ \A o \in Proc \ {p} : ~Holding(o)
BY DEF Locked, Settled, Without

LEMMA OpenQuestion ==
    ASSUME Shapes, Locked, Synced, Settled, st # None, st.ph = "question", ~Closing
    PROVE  status = "question" /\ current = st.i /\ st.i \in Question
<1>1. ASSUME NEW o \in Proc, job[o].at = "written"  PROVE FALSE
  <2>1. IsChange(job[o]) /\ job[o].st = st
    BY <1>1, JobKinds, OnlyOneChanges DEF Shapes, JobShape, Holding, Changing
  <2>2. job[o].op = "close"
    BY <2>1, ChangeParts
  <2> QED
    BY <1>1, <2>2 DEF Closing
<1>2. status = "question" /\ current = st.i
  BY <1>1 DEF Synced, Settled, Without
<1> QED
  BY <1>2, StateFacts

\* An answer is stored while its question is open and nobody closes it.
LEMMA StoredInTime ==
    ASSUME Shapes, AnswersInTime, [Next]_vars, NEW p \in Player, NEW q \in Question, answers'[p][q] # answers[p][q]
    PROVE  st # None /\ st.ph = "question" /\ q = st.i /\ ~Closing /\ p \in Range(joined)
<1>1. Store(p) /\ job[p].q = q
  BY MarksOfAnswers
<1>2. job[p].at = "answer"
  BY <1>1 DEF Store
<1> QED
  BY <1>1, <1>2 DEF AnswersInTime

LEMMA AnswersInTimeStep ==
    ASSUME Shapes, Awake, Locked, Settled, AnswersInTime, [Next]_vars
    PROVE  AnswersInTime'
<1> SUFFICES ASSUME NEW p \in Player, job'[p].at = "answer"
             PROVE  /\ st' # None /\ st'.ph = "question" /\ job'[p].q = st'.i /\ ~Closing'
                    /\ p \in Range(joined)'
  BY DEF AnswersInTime
<1>1. Range(joined) \subseteq Range(joined)'
  BY RowsStay
<1>2. p \in Proc
  BY DEF Proc
<1>3. CASE job'[p] = job[p]
  <2>1. st # None /\ st.ph = "question" /\ job[p].q = st.i /\ ~Closing /\ p \in Range(joined)
    BY <1>3 DEF AnswersInTime
  <2>2. ~Lost
    BY <1>2, <1>3 DEF Lost, Settled, Without, May, Free, Idle
  <2>3. st' # None
    BY <2>1, <2>2, StateGoesOn
  <2>4. st'.ph = "question" /\ st'.i = st.i /\ ~Closing'
    BY <1>3, <2>1, <2>2, NoCloseMeanwhile
  <2> QED
    BY <1>1, <1>3, <2>1, <2>3, <2>4
<1>4. ASSUME NEW t \in Tries, Answer(p, t)
      PROVE  /\ st' # None /\ st'.ph = "question" /\ job'[p].q = st'.i /\ ~Closing'
             /\ p \in Range(joined)'
  <2>1. st # None /\ st' = st /\ st.ph = "question" /\ ~Closing /\ p \in Range(joined)
    BY <1>4 DEF Answer, Settled, Without, May
  <2>2. PICK row : job' = [job EXCEPT ![p] = [at |-> "answer", q |-> st.i, row |-> row]]
    BY <1>4 DEF Answer
  <2>3. job'[p].q = st.i
    BY <1>2, <2>2 DEF Shapes, JobShape
  <2>4. ~Lost
    BY <2>1 DEF Lost
  <2>5. st'.ph = "question" /\ st'.i = st.i /\ ~Closing'
    BY <1>4, <2>1, <2>4, NoCloseMeanwhile
  <2> QED
    BY <1>1, <2>1, <2>3, <2>5
<1> QED
  BY <1>3, <1>4, Origins

\* Who has not come in has no answers and no points.
LEMMA NewcomersStep ==
    ASSUME Shapes, AnswersInTime, NewcomersHaveNothing, Scores, [Next]_vars, NEW p \in Player, p \notin Range(joined)
    PROVE  NoAnswers(p) /\ NoAnswers(p)' /\ player'[p].score = 0
<1>1. NoAnswers(p) /\ player[p].score = 0
  BY DEF NewcomersHaveNothing
<1>2. Question' = Question
  BY WhoMoves, SameGame DEF Shapes
<1>3. \A q \in Question : answers'[p][q] = None
  BY <1>1, StoredInTime DEF NoAnswers
<1>4. ASSUME NEW o \in Proc, Commit(o)  PROVE player'[p].score = player[p].score
  <2>1. job[o].at = "hold"
    BY <1>4, FromWhere DEF Shapes
  <2>2. job[o].op = "close" => p \notin DOMAIN job[o].rows
    BY <2>1 DEF Scores, Counting
  <2> QED
    BY <1>4, <2>2, CommitResults
<1>5. player'[p].score = 0
  BY <1>1, <1>4, WhoScores
<1> QED
  BY <1>1, <1>2, <1>3, <1>5 DEF NoAnswers

\* The scores are written with the phase, so that each question is in them once.
LEMMA CommitKeepsScores ==
    ASSUME Shapes, Awake, Locked, Synced, Settled, Scores, [Next]_vars, NEW p \in Proc, Commit(p)
    PROVE  Scores'
<1>1. PICK j, w : /\ j = job[p] /\ IsChange(j) /\ j.at = "hold"
                  /\ job' = [job EXCEPT ![p] = w] /\ w.at = "written"
                  /\ player' = Updated(j.rows)
                  /\ UNCHANGED <<game, joined, answers, st, clock, np, marks, me, due, lock, events>>
  BY CommitDoes
<1>2. /\ st # None /\ j.st = st /\ st.ph = status /\ st.i = current
      /\ status' = PhaseAfter(j.op) /\ current' = NewState(j).i
  BY <1>1, CommitIsNext DEF Settled, Without
<1>3. /\ PhaseAfter(j.op) = "question" <=> j.op = "open"
      /\ NewState(j).i = IF j.op = "open" THEN j.st.i + 1 ELSE j.st.i
      /\ j.op = "close" => j.st.i \in Question
      /\ j.op = "close" <=> j.st.ph = "question"
  BY <1>1, NewStateShape, ChangeParts DEF Shapes
<1>4. Active' = Active /\ Active \subseteq Player
  <2>1. SomeRows(j.rows, NewResults) \/ SomeRows(j.rows, NewPlaces) \/ j.rows = <<>>
    BY <1>1, ChangeParts
  <2>2. \A o \in Player : player'[o].is_removed = player[o].is_removed
    BY <1>1, <2>1, UpdatedShape DEF Shapes
  <2>3. Active \subseteq Player /\ Range(joined) \subseteq Player /\ Range(joined)' = Range(joined)
    BY <1>1, ActiveIsFinite DEF Shapes, DbShape, Range
  <2> QED
    BY <2>2, <2>3 DEF Active
<1>5. \A o \in Proc : ~Counting(o)'
  <2>1. \A o \in Proc \ {p} : ~Holding(o)
    BY <1>1, OnlyOneChanges DEF Holding
  <2>2. job'[p].at = "written" /\ \A o \in Proc \ {p} : job'[o] = job[o]
    BY <1>1 DEF Shapes, JobShape
  <2> QED
    BY <2>1, <2>2 DEF Counting, Holding
<1>6. \A o \in Active : player[o].score = Total(o)
  BY DEF Scores
<1>7. ASSUME NEW o \in Active, j.op = "close"  PROVE player'[o].score = Total(o)'
  <2>1. Total(o)' = Total(o) + Points(o)[current]
    BY <1>1, <1>2, <1>3, <1>4, <1>7, TotalGrows
  <2>2. ScoreKnown(p, o)
    BY <1>1, <1>7 DEF Scores, Counting
  <2>3. CASE o \in DOMAIN j.rows
    <3>1. j.rows[o].score = Total(o) + Points(o)[current]
      BY <1>1, <1>2, <2>2, <2>3 DEF ScoreKnown
    <3>2. player'[o].score = j.rows[o].score
      BY <1>1, <1>4, <1>7, <2>3, CommitResults
    <3> QED
      BY <2>1, <3>1, <3>2
  <2>4. CASE o \notin DOMAIN j.rows
    <3>1. NoAnswers(o)
      BY <1>1, <2>2, <2>4 DEF ScoreKnown
    <3>2. Total(o) = 0 /\ Points(o)[current] = 0
      BY <1>2, <1>3, <1>4, <1>7, <3>1, NoTotal
    <3>3. player'[o].score = player[o].score
      BY <1>1, <1>4, <1>7, <2>4, CommitResults
    <3> QED
      BY <1>6, <2>1, <3>2, <3>3
  <2> QED
    BY <2>3, <2>4
<1>8. ASSUME NEW o \in Active, j.op # "close"  PROVE player'[o].score = Total(o)'
  <2>1. player'[o].score = player[o].score
    BY <1>1, <1>4, <1>8, CommitResults
  <2>2. Total(o)' = Total(o)
    BY <1>1, <1>2, <1>3, <1>4, <1>8, TotalWaits
  <2> QED
    BY <1>6, <2>1, <2>2
<1>9. (\A o \in Active : player[o].score = Total(o))'
  BY <1>4, <1>7, <1>8
<1> QED
  BY <1>5, <1>9 DEF Scores

\* The results are computed from the scores and the answers in the database.
LEMMA CountedScores ==
    ASSUME Shapes, NEW q \in Question
    PROVE  /\ DOMAIN Counted(q) = Active
           /\ \A p \in Active : Counted(q)[p].score = player[p].score + Points(p)[q]
BY DEF Counted, Points

\* Without a commit no score changes, and no answer that is in one.
LEMMA QuietKeepsScores ==
    ASSUME Shapes, Awake, Locked, Synced, Settled, AnswersInTime, NewcomersHaveNothing, Scores, [Next]_vars,
           \A p \in Proc : ~Commit(p)
    PROVE  Scores'
<1>1. /\ game' = game /\ Question' = Question /\ UNCHANGED <<status, current>>
      /\ \A o \in Player : player'[o].score = player[o].score
  BY WhoMoves, SameGame, WhoWrites, WhoScores DEF Shapes
<1>2. Shapes'
  BY ShapesStep
<1>3. Range(joined) \subseteq Range(joined)' /\ Active' \subseteq Player
      /\ \A p \in Active' : p \in Active \/ p \notin Range(joined)
  <2>1. Active' \subseteq Player
    BY <1>2 DEF Shapes, DbShape, Active, Range
  <2> QED
    BY <2>1, RowsStay
<1>4. ASSUME NEW p \in Player  PROVE Total(p)' = Total(p)
  <2>1. ASSUME NEW q \in Question, Closed(q), answers'[p][q] # answers[p][q]  PROVE FALSE
    <3>1. st # None /\ st.ph = "question" /\ q = st.i /\ ~Closing
      BY <2>1, StoredInTime
    <3>2. status = "question" /\ current = q /\ q \in Int
      BY <3>1, OpenQuestion, StateFacts
    <3> QED
      BY <2>1, <3>2 DEF Closed
  <2> QED
    BY <1>1, <2>1, TotalStays
<1>5. ASSUME NEW p \in Player, p \notin Range(joined)
      PROVE  NoAnswers(p)' /\ player'[p].score = 0 /\ Total(p)' = 0
  <2>1. NoAnswers(p) /\ NoAnswers(p)' /\ player'[p].score = 0
    BY <1>5, NewcomersStep
  <2> QED
    BY <1>4, <2>1, NoTotal
<1>6. ASSUME NEW p \in Active'  PROVE player'[p].score = Total(p)'
  <2>1. p \in Player
    BY <1>3
  <2>2. CASE p \in Active
    BY <1>1, <1>4, <2>1, <2>2 DEF Scores
  <2>3. CASE p \notin Range(joined)
    BY <1>5, <2>1, <2>3
  <2> QED
    BY <1>3, <2>2, <2>3
<1>7. ASSUME NEW o \in Proc, Counting(o)', job'[o] = job[o]
      PROVE  DOMAIN job'[o].rows \subseteq Range(joined)' /\ \A p \in Active' : ScoreKnown(o, p)'
  <2>1. DOMAIN job[o].rows \subseteq Range(joined) /\ \A p \in Active : ScoreKnown(o, p)
    BY <1>7 DEF Counting, Scores
  <2>2. Closing
    BY <1>7 DEF Counting, Closing
  <2>3. \A p \in Player, q \in Question : answers'[p][q] = answers[p][q]
    BY <2>2, StoredInTime
  <2>4. job[o].st.i \in Question
    <3>1. job[o].at = "hold" /\ job[o].op = "close"
      BY <1>7 DEF Counting
    <3>2. IsChange(job[o])
      BY <3>1, JobKinds DEF Shapes, JobShape, Changing
    <3> QED
      BY <3>1, <3>2, NewStateShape DEF Shapes
  <2>5. ASSUME NEW p \in Active'  PROVE ScoreKnown(o, p)'
    <3>1. p \in Player
      BY <1>3
    <3>2. CASE p \in Active /\ p \in DOMAIN job[o].rows
      <4>1. job[o].rows[p].score = Total(p) + Points(p)[job[o].st.i]
        BY <2>1, <3>2 DEF ScoreKnown
      <4>2. Points(p)' = Points(p)
        BY <1>1, <2>3, <3>1 DEF Points
      <4> QED
        BY <1>4, <1>7, <3>1, <3>2, <4>1, <4>2 DEF ScoreKnown
    <3>3. CASE p \in Active /\ p \notin DOMAIN job[o].rows
      <4>1. NoAnswers(p)
        BY <2>1, <3>3 DEF ScoreKnown
      <4>2. NoAnswers(p)'
        BY <1>1, <2>3, <3>1, <4>1 DEF NoAnswers
      <4> QED
        BY <1>7, <3>3, <4>2 DEF ScoreKnown
    <3>4. CASE p \notin Range(joined)
      BY <1>5, <1>7, <2>1, <3>1, <3>4 DEF ScoreKnown
    <3> QED
      BY <1>3, <3>2, <3>3, <3>4
  <2> QED
    BY <1>3, <1>7, <2>1, <2>5
<1>8. ASSUME NEW o \in Proc, Counting(o)', job'[o] # job[o]
      PROVE  DOMAIN job'[o].rows \subseteq Range(joined)' /\ \A p \in Active' : ScoreKnown(o, p)'
  <2>1. job'[o].at = "hold" /\ job'[o].op = "close"
    BY <1>8 DEF Counting
  <2>2. ~Save(o)
    <3> SUFFICES ASSUME Save(o)  PROVE FALSE
      OBVIOUS
    <3>1. PICK k : job' = [job EXCEPT ![o] = k] /\ (k = Idle \/ k.op = "finish")
      BY SaveDoes
    <3>2. job'[o] = k
      BY <3>1 DEF Shapes, JobShape
    <3> QED
      BY <2>1, <3>1, <3>2 DEF Idle
  <2>3. PICK want : Enter(o, want) /\ UNCHANGED db
    BY <1>8, <2>1, <2>2, ChangeComes DEF Move, Press
  <2>4. PICK op, then : /\ job' = [job EXCEPT ![o] = Plan(op, st, then)] /\ IsChange(Plan(op, st, then))
                        /\ op = "close" <=> st.ph = "question"
                        /\ st # None
    <3>1. job' # [job EXCEPT ![o] = Idle]
      BY <2>1 DEF Shapes, JobShape, Idle
    <3> QED
      BY <2>3, <3>1, EnterDoes
  <2>5. job'[o] = Plan(op, st, then)
    BY <2>4 DEF Shapes, JobShape
  <2>6. op = "close" /\ job'[o].rows = Counted(st.i) /\ job'[o].st = st
    BY <2>1, <2>5 DEF Plan
  <2>7. st.i \in Question
    BY <2>4, <2>6, StateFacts
  <2>8. Active' = Active /\ Range(joined)' = Range(joined) /\ Active \subseteq Player /\ Active \subseteq Range(joined)
    BY <2>3, ActiveIsFinite DEF db, Active, Range, Shapes
  <2>9. ASSUME NEW p \in Active  PROVE ScoreKnown(o, p)'
    <3>1. p \in DOMAIN Counted(st.i) /\ Counted(st.i)[p].score = Total(p) + Points(p)[st.i]
      BY <2>7, CountedScores DEF Scores
    <3>2. Points(p)' = Points(p) /\ Total(p)' = Total(p)
      BY <1>1, <1>4, <2>3, <2>8 DEF db, Points
    <3> QED
      BY <2>6, <3>1, <3>2 DEF ScoreKnown
  <2>10. DOMAIN job'[o].rows \subseteq Range(joined)'
    BY <2>6, <2>7, <2>8, CountedScores
  <2> QED
    BY <2>8, <2>9, <2>10
<1> QED
  BY <1>6, <1>7, <1>8 DEF Scores

LEMMA TotalsStep ==
    ASSUME Shapes, Awake, Locked, Synced, Totals, [Next]_vars
    PROVE  Totals'
<1>1. game' = game
  BY WhoMoves DEF Shapes
<1>2. SUFFICES ASSUME Settled  PROVE AnswersInTime' /\ NewcomersHaveNothing' /\ Scores'
  <2>1. Settled' <=> Settled
    BY <1>1, SameEvents DEF Settled
  <2> QED
    BY <2>1 DEF Totals
<1>3. AnswersInTime /\ NewcomersHaveNothing /\ Scores
  BY <1>2 DEF Totals
<1>4. AnswersInTime'
  BY <1>2, <1>3, AnswersInTimeStep
<1>5. NewcomersHaveNothing'
  BY <1>3, NewcomersStep, RowsStay DEF NewcomersHaveNothing
<1>6. Scores'
  BY <1>2, <1>3, CommitKeepsScores, QuietKeepsScores
<1> QED
  BY <1>4, <1>5, <1>6

LEMMA TotalsInit ==
    ASSUME Init
    PROVE  Totals
<1>1. /\ \A p \in Proc : job[p] = Idle
      /\ \A p \in Player : player[p].score = 0 /\ \A q \in Question : answers[p][q] = None
  BY DEF Init, NewPlayer
<1>2. Shapes /\ \A p \in Player : p \in Proc
  BY ShapesInit DEF Proc
<1>3. \A p \in Player : NoAnswers(p)
  BY <1>1 DEF NoAnswers
<1>4. \A p \in Active : player[p].score = Total(p)
  BY <1>1, <1>2, <1>3, NoTotal, ActiveIsFinite DEF Shapes
<1>5. \A o \in Proc : ~Counting(o)
  BY <1>1 DEF Counting, Idle
<1>6. AnswersInTime /\ NewcomersHaveNothing
  BY <1>1, <1>2, <1>3 DEF AnswersInTime, NewcomersHaveNothing, Idle
<1> QED
  BY <1>4, <1>5, <1>6 DEF Totals, Scores

\* Everything above holds together in every state of a game.
THEOREM InvariantHolds == Spec => []IInv
<1>1. Init => IInv
  <2>1. Init => Shapes /\ Awake /\ Locked /\ Synced /\ Seats /\ Barred /\ NobodyIsLockedOut /\ Tallies /\ Runs /\ Totals
    BY ShapesInit, CacheInit, SeatsInit, BarredInit, TalliesInit, RunsInit, TotalsInit DEF Init, NobodyIsLockedOut
  <2> QED
    BY <2>1 DEF IInv
<1>2. IInv /\ [Next]_vars => IInv'
  <2>1. Shapes /\ [Next]_vars => Shapes'
    BY ShapesStep
  <2> QED
    BY <2>1, AwakeStep, LockedStep, SyncedStep, SeatsStep, BarredStep, LockedOutStep, TalliesStep, RunsStep, TotalsStep DEF IInv
<1> QED
  BY <1>1, <1>2, PTL DEF Spec

\* The points of every stored answer are those of the streak its player really
\* had: of the right answers the player had given in a row, however the requests
\* that count them and the one that takes the answer from the cache interleave.
THEOREM BonusesAreEarned == Spec => []BonusIsEarned
<1>1. IInv => BonusIsEarned
  BY DEF IInv, Runs, Punctual, InTime, AnswerEarned, Earned, BonusIsEarned
<1> QED
  BY <1>1, InvariantHolds, PTL

\* The score of everyone in the game is the sum of what the answers to the closed
\* questions have brought, each once: however many requests find a question to be
\* over at the same time, whoever comes in or is removed meanwhile, and also when
\* the cache is lost between two requests.
THEOREM ScoresAddUp == Spec => []ScoreIsItsAnswers
<1>1. IInv => ScoreIsItsAnswers
  BY DEF IInv, Totals, Settled, Scores, Total, ScoreIsItsAnswers
<1> QED
  BY <1>1, InvariantHolds, PTL
=============================================================================
