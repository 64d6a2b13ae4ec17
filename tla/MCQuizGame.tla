----------------------------- MODULE MCQuizGame -----------------------------
(***************************************************************************)
(* QuizGame for TLC: two phones, and one game per question to be asked of  *)
(* it -- its mode, its questions and what may happen to it.                *)
(***************************************************************************)
EXTENDS QuizGame

CONSTANTS A, B

Single == [type |-> "single", time |-> 20, weight |-> 1, options |-> {1, 2}, correct |-> {1}]
Multi == [type |-> "multi", time |-> 20, weight |-> 1, options |-> {1, 2, 3, 4}, correct |-> {1, 2, 3}]
Double == [type |-> "slider", time |-> 20, weight |-> 2, min |-> 0, max |-> 10, answer |-> 4, tolerance |-> 1]
Poll3 == [type |-> "poll", time |-> 20, weight |-> 1, options |-> {1, 2}, correct |-> {}]

Try(value, time) == [value |-> value, time |-> time]

Setting(mode, limit, here, come, keys, tries, env) ==
    [mode |-> mode, limit |-> limit, here |-> here, come |-> come, keys |-> keys, tries |-> tries, env |-> env]

Both == <<A, B>>
One == <<Single>>
OneTry == <<{Try(1, 0)}>>
Two == <<Single, Single>>

\* Two phones or two questions, and every order of answers, timers, buttons and
\* pauses.
Quiz == Setting("screen", 2, Both, {}, Two, <<{Try(1, 0)}, {}>>, {})
Paused2 == Setting("screen", 2, <<A>>, {}, Two, <<{Try(1, 0)}, {Try(1, 0)}>>, {"pause"})
\* Three kinds of questions: partial answers, points for speed, a streak that
\* goes on over a poll.
Alone == Setting("solo", 1, <<A>>, {}, <<Double, Poll3, Multi>>,
            <<{Try(4, 0), Try(6, 7)}, {Try(1, 0)}, {Try({1, 2}, 0), Try({1, 2, 3}, 20), Try({1, 4}, 0)}>>, {})
\* One player is removed while the question is open.
Kicked == Setting("screen", 2, Both, {}, One, OneTry, {"kick"})
\* Two phones want the only place.
Crowded == Setting("screen", 1, <<>>, {A, B}, One, OneTry, {"kick", "late"})
\* They want it after the count of players was lost, or while it is made anew.
Refilled == Setting("screen", 1, <<>>, {A, B}, One, OneTry, {"reset"})
Refilled2 == Setting("screen", 1, <<>>, {A, B}, One, <<{}>>, {"reset", "refill_race"})
\* Faults: workers that die, a cache that is lost, a lock that expires.
Dying == Setting("auto", 2, <<A>>, {}, One, OneTry, {"pause", "killed"})
Wiped == Setting("screen", 2, Both, {}, One, OneTry, {"reset"})
Forgetful == Setting("solo", 1, <<A>>, {}, One, OneTry, {"flush"})
Slow == Setting("auto", 2, <<A>>, {}, One, OneTry, {"slow"})

MCGames == {Quiz, Paused2, Alone, Kicked, Crowded, Refilled, Refilled2, Dying, Wiped, Forgetful, Slow}
=============================================================================
