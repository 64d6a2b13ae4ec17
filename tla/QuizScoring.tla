----------------------------- MODULE QuizScoring -----------------------------
(***************************************************************************)
(* Checking an answer and counting its points: judge/utils/quiz_scoring.py *)
(*                                                                         *)
(* A key is the record build_key() makes of a question.  Options, texts    *)
(* and words are values that can only be compared (texts after             *)
(* normalize_text); numbers of a slider or a pin are integers, the unit of *)
(* the scale being as fine as one likes.  A fraction is a pair <<n, d>>.   *)
(***************************************************************************)
EXTENDS Integers, Sequences, FiniteSets

BASE_POINTS == 1000
STREAK_STEP == 100
STREAK_MAX == 500
Unscored == {"poll", "cloud", "open"}

Full == <<1, 1>>
Nothing == <<0, 1>>

Least(a, b) == IF a <= b THEN a ELSE b
Most(a, b) == IF a >= b THEN a ELSE b
Distance(a, b) == Most(a - b, b - a)
Clamp(x, lo, hi) == Least(Most(x, lo), hi)

\* Python's round() of n / d: half to even.
Round(n, d) ==
    LET q == n \div d
        twice == 2 * (n % d)
    IN  IF twice > d \/ (twice = d /\ q % 2 = 1) THEN q + 1 ELSE q

\* What build_key() makes of a question, as far as counting the points needs it.
IsKey(key) ==
    /\ key.time \in Nat /\ key.weight \in Nat
    /\ key.type = "multi" => IsFiniteSet(key.options) /\ key.correct \subseteq key.options
    /\ key.type = "slider" => {key.min, key.max, key.answer, key.tolerance} \subseteq Int

OneOf(key) == key.type \in {"single", "truefalse", "poll"} \/ (key.type = "code" /\ ~key.input)

\* The stored forms of an answer: what clean_value() lets through.  An answer
\* of text is cut and stripped; an empty one is refused.
Fits(key, value) ==
    CASE OneOf(key)             -> value \in key.options
      [] key.type = "multi"     -> value \subseteq key.options
      [] key.type = "order"     -> /\ Len(value) = Cardinality(key.options)
                                   /\ {value[i] : i \in DOMAIN value} = key.options
      [] key.type = "slider"    -> value \in Int
      [] key.type = "pin"       -> value.x \in Int /\ value.y \in Int
      [] OTHER                  -> value # ""

\* A slider and a pin are brought into their range, the rest is kept.
clean_value(key, value) ==
    CASE key.type = "slider" -> Clamp(value, key.min, key.max)
      [] key.type = "pin"    -> [x |-> Clamp(value.x, 0, 100), y |-> Clamp(value.y, 0, 100)]
      [] OTHER               -> value

MultiFraction(key, value) ==
    <<Most(0, Cardinality(value \cap key.correct) - Cardinality(value \ key.correct)),
      Cardinality(key.correct)>>

\* Points fade out over a fifth of the scale beyond the tolerance, at once when
\* the scale is empty.
SliderFraction(key, value) ==
    LET over == Distance(value, key.answer) - key.tolerance
        scale == key.max - key.min
    IN  IF over <= 0 THEN Full ELSE <<Most(0, scale - 5 * over), Most(scale, 1)>>

Exact(ok) == IF ok THEN Full ELSE Nothing

\* The first half of check(): the share of the full answer.
Fraction(key, value) ==
    IF key.type \in Unscored THEN Nothing
    ELSE CASE OneOf(key)             -> Exact(value \in key.correct)
           [] key.type = "multi"     -> IF key.correct = {} THEN Nothing ELSE MultiFraction(key, value)
           [] key.type = "order"     -> Exact(value = key.order)
           [] key.type = "slider"    -> SliderFraction(key, value)
           [] key.type = "pin"       -> Exact((value.x - key.x) * (value.x - key.x)
                                            + (value.y - key.y) * (value.y - key.y) <= key.r * key.r)
           [] OTHER                  -> Exact(value \in key.accepted)

\* The second half: fully correct.
Correct(key, value) ==
    CASE key.type \in Unscored -> FALSE
      [] key.type = "multi"    -> key.correct # {} /\ value = key.correct
      [] OTHER                 -> Fraction(key, value) = Full

scored(key) == key.type \notin Unscored /\ key.weight > 0

\* Mutant: the bonus of a streak is given to a partial answer too.
points_BonusForAll(key, fraction, correct, elapsed, streak) ==
    LET limit == Most(key.time, 1)
        e == Clamp(elapsed, 0, limit)
        n == BASE_POINTS * (2 * limit - e) * key.weight * fraction[1]
    IN  IF ~scored(key) \/ fraction[1] <= 0 THEN 0
        ELSE Round(n, 2 * limit * fraction[2]) + Least(STREAK_STEP * streak, STREAK_MAX)

\* Points for an answer given elapsed seconds after the question opened, after
\* streak right answers in a row.
points(key, fraction, correct, elapsed, streak) ==
    LET limit == Most(key.time, 1)
        e == Clamp(elapsed, 0, limit)
        n == BASE_POINTS * (2 * limit - e) * key.weight * fraction[1]
        bonus == IF correct THEN Least(STREAK_STEP * streak, STREAK_MAX) ELSE 0
    IN  IF ~scored(key) \/ fraction[1] <= 0 THEN 0
        ELSE Round(n, 2 * limit * fraction[2]) + bonus
=============================================================================
