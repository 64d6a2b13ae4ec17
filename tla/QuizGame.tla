------------------------------ MODULE QuizGame ------------------------------
(***************************************************************************)
(* A live quiz game: judge/utils/quiz_game.py and the requests of          *)
(* judge/views/quiz.py that call it.                                       *)
(*                                                                         *)
(* No process runs a game.  The phones of the players and the screen of    *)
(* the host send requests; each is served by some worker of the site, and  *)
(* the first request that finds a timer run out moves the game on.  A      *)
(* process of Proc is a phone, or the host, with the request it has under  *)
(* way (job).  What the requests share is the database (status, current,   *)
(* joined, player, answers) and the cache (st, counters, marks, lock).     *)
(*                                                                         *)
(* A phase change is three steps under the lock of the game: read, write   *)
(* the database, write the cache and let go.  An answer is four: mark in   *)
(* the cache, row in the database, count in the cache, look whether        *)
(* everyone has answered.  The lock is a key that expires.                 *)
(***************************************************************************)
EXTENDS QuizScoring, FiniteSetsExt

CONSTANTS
    Player,     \* the phones, as rows of Player once they have joined
    Host,       \* the host's screen
    Games,      \* the games to look at, see GameType
    MaxEvents,  \* bound: pauses, crashes, slow changes and losses of the cache in one game
    None        \* Python's None

Proc == Player \cup {Host}

\* What env may hold.  "kick": the host removes players; "pause": the host
\* pauses; "killed": a worker dies in a request; "slow": a phase change takes
\* longer than the lock lives; "flush": the cache is lost at any time, "reset":
\* only while no request is under way; "late": a question is closed while an
\* answer is on its way to the database, or an answer taken while it is closed; "kick_race": a player is removed while
\* an answer is being counted; "refill_race": players come and go while a lost count of them is made anew.
Events == {"kick", "pause", "killed", "slow", "flush", "reset", "late", "kick_race", "refill_race"}

\* A game: its mode, its limit of players, those who have joined when we begin
\* to look and those who may come, the keys of its questions, for each question the answers that may
\* be given (value and seconds elapsed), and env.
ASSUME GamesAssumption ==
    \A g \in Games :
        /\ g.mode \in {"screen", "auto", "solo"}
        /\ g.limit \in Nat
        /\ g.mode = "solo" => g.limit = 1
        /\ g.here \in Seq(Player) /\ Len(g.here) <= g.limit /\ IsInjective(g.here)
        /\ g.come \subseteq Player
        /\ g.keys \in Seq(Range(g.keys)) /\ Len(g.keys) > 0
        /\ g.env \subseteq Events
        /\ DOMAIN g.tries = DOMAIN g.keys
        /\ \A q \in DOMAIN g.keys : IsKey(g.keys[q])
        /\ \A q \in DOMAIN g.keys : \A t \in g.tries[q] : Fits(g.keys[q], t.value) /\ t.time \in Int

\* The states and the rows None stands beside.
Statuses == {"lobby", "question", "reveal", "leaderboard", "finished"}
States == [ph : Statuses, i : Nat, v : Nat, paused : BOOLEAN]
Rows(key, t) ==
    [value : {clean_value(key, t.value)}, is_correct : BOOLEAN, time : {t.time}, points : Nat]

ASSUME NoneAssumption ==
    /\ None \notin Proc /\ None \notin Int /\ None \notin States
    /\ \A g \in Games : \A q \in DOMAIN g.keys : \A t \in g.tries[q] : None \notin Rows(g.keys[q], t)

ASSUME PlayersAssumption == IsFiniteSet(Player) /\ Host \notin Player /\ MaxEvents \in Nat

VARIABLES
    game,     \* the game looked at: chosen at the start, never changed
    status,   \* GameSession.status
    current,  \* GameSession.current, counted from 1 (0 before the first question)
    joined,   \* the rows of Player in the order they were made
    player,   \* player[p]: score, streak, correct, rank, is_removed
    answers,  \* answers[p][q]: the row of Answer, or None
    st,       \* qz:s, the state everybody polls, or None when it is lost
    clock,    \* where the time is within the phase of st
    np,       \* qz:np, or None
    na, ns,   \* qz:na and qz:ns of every question, or None
    marks,    \* qz:a and qz:seen as triples <<"a", q, p>>, and qz:x as <<"x", p>>
    me,       \* me[p]: the streak in qz:me, or None
    due,      \* the version claimed by qz:due, 0 when the key has expired
    lock,     \* who has made qz:lock, or None
    job,      \* job[p]: what p's request has still to do
    events    \* how many of them there have been

db == <<status, current, joined, player, answers>>
counters == <<np, na, ns, marks>>
cache == <<st, clock, counters, me, due, lock>>
vars == <<game, db, cache, job, events>>

N == Len(game.keys)
Question == DOMAIN game.keys
May(e) == e \in game.env
Without(E) == E \cap game.env = {}

Idle == [at |-> "idle"]
Active == {p \in Range(joined) : ~player[p].is_removed}
Free(p) == job[p] = Idle

\* Who looks at the game: its phones and the screen, which in a solo game is a
\* page of somebody else's that does not poll.
Looks(p) == p \in Range(game.here) \cup game.come \cup {Host}
Polls(p) == Looks(p) /\ (game.mode = "solo" => p # Host)

\* Where a request is that makes the lost state anew.
Renewing == {"rebuild", "lookup", "recount", "refill"}

NewPlayer == [score |-> 0, streak |-> 0, correct |-> 0, rank |-> None, is_removed |-> FALSE]

\* create_game(), and some have joined.
Init ==
    /\ game \in Games
    /\ status = "lobby" /\ current = 0
    /\ joined = game.here
    /\ player = [p \in Player |-> NewPlayer]
    /\ answers = [p \in Player |-> [q \in Question |-> None]]
    /\ st = [ph |-> "lobby", i |-> 0, v |-> 1, paused |-> FALSE]
    /\ clock = "open"
    /\ np = Len(joined)
    /\ na = [q \in Question |-> None]
    /\ ns = [q \in Question |-> None]
    /\ marks = {}
    /\ me = [p \in Player |-> None]
    /\ due = 0
    /\ lock = None
    /\ job = [p \in Proc |-> Idle]
    /\ events = 0

-----------------------------------------------------------------------------
(* Reading the game *)

\* The time within a question: before the answers open, within SEEN_WINDOW of
\* that, after it, and past the end and the grace.  Other phases are "open"
\* until the automatic mode may move on.
Later == [ready |-> "early", early |-> "open", open |-> "up"]

OutOfTime == clock = "up"

\* The players an early close waits for: all of them or, once SEEN_WINDOW has
\* passed, those who have received the question.
WaitingFor(q, players) ==
    LET seen == IF ns[q] = None \/ clock \in {"ready", "early"} THEN 0 ELSE ns[q]
    IN  IF seen > 0 THEN Least(players, seen) ELSE players

everyone_answered(q, answered, players) ==
    WaitingFor(q, players) > 0 /\ answered >= WaitingFor(q, players)

player_count == IF np = None THEN 0 ELSE np

\* The place of every player of P by score, then by the time of joining.
Places(P, score) ==
    LET At(p) == CHOOSE k \in DOMAIN joined : joined[k] = p
        Ahead(p) == {o \in P : score[o] > score[p] \/ (score[o] = score[p] /\ At(o) < At(p))}
    IN  [p \in P |-> Cardinality(Ahead(p)) + 1]

\* Mutant: a question without points ends the streak.
Counted_PollEndsStreak(q) ==
    LET Right(p) == answers[p][q] # None /\ answers[p][q].is_correct
        score == [p \in Active |->
                    player[p].score + IF answers[p][q] = None THEN 0 ELSE answers[p][q].points]
    IN  [p \in Active |->
            [score   |-> score[p],
             correct |-> player[p].correct + IF Right(p) THEN 1 ELSE 0,
             streak  |-> IF Right(p) THEN player[p].streak + 1 ELSE 0,
             rank    |-> Places(Active, score)[p]]]

\* close_question(), what it computes of the rows it has read: the new score,
\* streak, number of right answers and place of everyone who is not removed.
Counted(q) ==
    LET Right(p) == answers[p][q] # None /\ answers[p][q].is_correct
        score == [p \in Active |->
                    player[p].score + IF answers[p][q] = None THEN 0 ELSE answers[p][q].points]
    IN  [p \in Active |->
            [score   |-> score[p],
             correct |-> player[p].correct + IF Right(p) THEN 1 ELSE 0,
             streak  |-> IF ~scored(game.keys[q]) THEN player[p].streak
                         ELSE IF Right(p) THEN player[p].streak + 1 ELSE 0,
             rank    |-> Places(Active, score)[p]]]

\* finish() writes the places only.
Ranked == [p \in Active |-> [rank |-> Places(Active, [o \in Active |-> player[o].score])[p]]]

\* bulk_update() of the fields of u.
Updated(u) ==
    [p \in Player |->
        IF p \notin DOMAIN u THEN player[p]
        ELSE [f \in DOMAIN player[p] |-> IF f \in DOMAIN u[p] THEN u[p][f] ELSE player[p][f]]]

\* Mutant: a question that somebody else has closed is closed again.
Stale_Twice(want, s) ==
    \/ want.what = "everyone" /\ s.i # want.q
    \/ want.what = "due" /\ s.v # want.v

\* A request that wanted the lock finds, when it has it, that the game has moved.
Stale(want, s) ==
    \/ want.what = "everyone" /\ (s.ph # "question" \/ s.i # want.q)
    \/ want.what = "due" /\ s.v # want.v

\* Mutant: one question too many.
Forward_OffByOne(s) == IF s.i <= N THEN "open" ELSE "finish"

\* After the last question the game is finished.
Forward(s) == IF s.i < N THEN "open" ELSE "finish"

\* What a request that has the lock does to the state s, "none" when nothing.
Change(want, s) ==
    IF Stale(want, s) \/ s.ph = "finished" THEN "none"
    ELSE CASE want.what = "everyone" -> "close"
           [] want.what = "end" -> IF s.ph = "question" THEN "close" ELSE "finish"
           [] want.what = "skip" -> IF s.ph = "question" THEN "close" ELSE "none"
           [] OTHER ->
                 CASE s.ph = "lobby" ->
                         IF game.mode = "solo" \/ player_count > 0 THEN "open" ELSE "none"
                   [] s.ph = "question" -> "close"
                   [] s.ph = "reveal" /\ game.mode # "solo" -> "board"
                   [] OTHER -> Forward(s)

-----------------------------------------------------------------------------
(* A phase change under the lock *)

\* What is read at the start: the state and, to close or to finish, the rows.
Plan(op, s, then) ==
    [at |-> "hold", op |-> op, st |-> s, then |-> then,
     rows |-> CASE op = "close" -> Counted(s.i) [] op = "finish" -> Ranked [] OTHER -> <<>>]

\* Without "late" an answer that has been accepted reaches the database before
\* a close that begins afterwards reads the answers, and none is accepted
\* between that reading and the new state.
MayRead(op) == op = "close" /\ ~May("late") => \A o \in Player : job[o].at # "answer"

Closing == \E p \in Proc : job[p].at \in {"hold", "written"} /\ job[p].op = "close"

\* phase_lock and fresh_state(): p makes the key, reads the state and decides.
Enter(p, want) ==
    LET op == Change(want, st) IN
    /\ lock = None
    /\ st # None
    /\ MayRead(op)
    /\ IF op = "none"
       THEN job' = [job EXCEPT ![p] = Idle] /\ UNCHANGED lock
       ELSE /\ lock' = p
            /\ job' = [job EXCEPT ![p] =
                  Plan(op, st, IF want.what = "end" /\ op = "close" THEN "finish" ELSE "none")]

PhaseAfter(op) ==
    CASE op = "open" -> "question" [] op = "close" -> "reveal"
      [] op = "board" -> "leaderboard" [] op = "finish" -> "finished"

\* The database is written: rows and status in one transaction.  To open a
\* question its counters are set to nothing first.
Commit(p) ==
    LET j == job[p]
        q == j.st.i + 1 IN
    /\ j.at = "hold"
    /\ job' = [job EXCEPT ![p].at = "written"]
    /\ player' = Updated(j.rows)
    /\ status' = PhaseAfter(j.op)
    /\ IF j.op = "open"
       THEN /\ current' = q
            /\ na' = [na EXCEPT ![q] = 0]
            /\ ns' = [ns EXCEPT ![q] = 0]
       ELSE UNCHANGED <<current, na, ns>>
    /\ UNCHANGED <<game, joined, answers, st, clock, np, marks, me, due, lock, events>>

\* Mutant: the version stays, so that nobody notices.
NewState_KeepsVersion(j) ==
    [ph |-> PhaseAfter(j.op),
     i |-> IF j.op = "open" THEN j.st.i + 1 ELSE j.st.i,
     v |-> j.st.v,
     paused |-> FALSE]

\* The state p writes to the cache.
NewState(j) ==
    [ph |-> PhaseAfter(j.op),
     i |-> IF j.op = "open" THEN j.st.i + 1 ELSE j.st.i,
     v |-> j.st.v + 1,
     paused |-> FALSE]

\* The results of everyone, of which an answer reads the streak.
Results(j) ==
    [p \in Player |-> IF j.op = "close" /\ p \in DOMAIN j.rows THEN j.rows[p].streak ELSE me[p]]

\* save_state(), then the key is deleted, whoever has made it.  end_game() goes
\* on to finish before that, on the state it has.
Save(p) ==
    LET j == job[p] IN
    /\ j.at = "written"
    /\ st' = NewState(j)
    /\ clock' = IF j.op = "open" THEN "ready" ELSE "open"
    /\ me' = Results(j)
    /\ IF j.then = "finish"
       THEN /\ job' = [job EXCEPT ![p] = Plan("finish", NewState(j), "none")]
            /\ UNCHANGED lock
       ELSE /\ job' = [job EXCEPT ![p] = Idle]
            /\ lock' = None
    /\ UNCHANGED <<game, db, counters, due, events>>

\* GameError: the key was there for two seconds; the request is answered.
GiveUp(p) ==
    /\ job[p].at = "want"
    /\ lock # None
    /\ job' = [job EXCEPT ![p] = Idle]
    /\ UNCHANGED <<game, db, cache, events>>

\* A request that waits for the lock gets it.
Move(p) ==
    /\ job[p].at = "want"
    /\ Enter(p, job[p])
    /\ UNCHANGED <<game, db, st, clock, counters, me, due, events>>

\* The host's buttons; in a solo game the player's.
Press(p, what) ==
    /\ Free(p)
    /\ IF game.mode = "solo" THEN p \in Active /\ what = "next" ELSE p = Host
    /\ Enter(p, [what |-> what])
    /\ UNCHANGED <<game, db, st, clock, counters, me, due, events>>

\* pause(): the times of the state are shifted when the game goes on, so that
\* the clock stands still.
Pause(on) ==
    /\ May("pause")
    /\ Free(Host)
    /\ game.mode # "solo"
    /\ lock = None
    /\ st # None
    /\ st.paused # on
    /\ IF on THEN events < MaxEvents /\ events' = events + 1 ELSE UNCHANGED events
    /\ st' = [st EXCEPT !.paused = on, !.v = @ + 1]
    /\ UNCHANGED <<game, db, clock, counters, me, due, lock, job>>

-----------------------------------------------------------------------------
(* Polling *)

\* Time passes unless the game is paused or its state is lost.
Tick ==
    /\ st # None
    /\ ~st.paused
    /\ \/ st.ph = "question" /\ ~OutOfTime
       \/ game.mode = "auto" /\ st.ph \in {"reveal", "leaderboard"} /\ ~OutOfTime
    /\ clock' = Later[clock]
    /\ UNCHANGED <<game, db, st, counters, me, due, lock, job, events>>

\* advance_if_due() on a poll that finds the timer run out: the version is
\* claimed, then the request wants the lock.
Poll(p) ==
    /\ Free(p) /\ Polls(p)
    /\ st # None
    /\ ~st.paused
    /\ OutOfTime
    /\ due # st.v
    /\ due' = st.v
    /\ job' = [job EXCEPT ![p] = [at |-> "want", what |-> "due", v |-> st.v]]
    /\ UNCHANGED <<game, db, st, clock, counters, me, lock, events>>

\* The claim lives for 60 seconds, longer than any request.
ClaimExpires ==
    /\ due # 0
    /\ \A p \in Proc : Free(p) \/ job[p].at \in Renewing
    /\ due' = 0
    /\ UNCHANGED <<game, db, st, clock, counters, me, lock, job, events>>

\* Mutant: the key of the lock lives for ever.
LockExpires_Never == FALSE /\ UNCHANGED vars

\* The key of the lock lives for 30 seconds: its owner has died, or is slow.
LockExpires ==
    /\ lock # None
    /\ IF job[lock].at \in {"hold", "written"}
       THEN May("slow") /\ events < MaxEvents /\ events' = events + 1
       ELSE UNCHANGED events
    /\ lock' = None
    /\ UNCHANGED <<game, db, st, clock, counters, me, due, job>>

\* A poll that brings the question: mark_seen().  The counter may be lost.
Fetch(p) ==
    /\ Free(p)
    /\ p \in Range(joined)
    /\ st # None
    /\ st.ph = "question"
    /\ <<"x", p>> \notin marks
    /\ <<"seen", st.i, p>> \notin marks
    /\ marks' = marks \cup {<<"seen", st.i, p>>}
    /\ ns' = [ns EXCEPT ![st.i] = IF @ = None THEN 1 ELSE @ + 1]
    /\ UNCHANGED <<game, db, st, clock, np, na, me, due, lock, job, events>>

-----------------------------------------------------------------------------
(* Answers *)

\* What may be answered to the question that is open.
Tries == IF st = None \/ st.i = 0 THEN {} ELSE game.tries[st.i]

\* The row of an answer after streak right ones.
Row(key, t, streak) ==
    LET value == clean_value(key, t.value)
        right == Correct(key, value)
    IN  [value |-> value, is_correct |-> right, time |-> t.time,
         points |-> points(key, Fraction(key, value), right, t.time, streak)]

\* submit_answer() up to the mark.  Nothing asks whether a poll has brought the
\* question: the time then counts from its start.  The points use the streak of
\* the last result in the cache.
Answer(p, t) ==
    LET q == st.i
        streak == IF me[p] = None THEN 0 ELSE me[p] IN
    /\ Free(p)
    /\ p \in Range(joined)
    /\ st # None
    /\ st.ph = "question"
    /\ clock \in {"early", "open"}
    /\ ~st.paused
    /\ {<<"x", p>>, <<"a", q, p>>} \cap marks = {}
    /\ May("late") \/ ~Closing
    /\ marks' = marks \cup {<<"a", q, p>>}
    /\ job' = [job EXCEPT ![p] = [at |-> "answer", q |-> q, row |-> Row(game.keys[q], t, streak)]]
    /\ UNCHANGED <<game, db, st, clock, np, na, ns, me, due, lock, events>>

\* Mutant: an answer that comes after the close is dropped.
Refused_Late(p, q) == answers[p][q] # None \/ status # "question"

\* The pair of player and question is unique.
Refused(p, q) == answers[p][q] # None

\* Answer.objects.create(): refused when there is a row (the mark was lost).
Store(p) ==
    LET q == job[p].q IN
    /\ job[p].at = "answer"
    /\ IF Refused(p, q)
       THEN job' = [job EXCEPT ![p] = Idle] /\ UNCHANGED answers
       ELSE /\ answers' = [answers EXCEPT ![p][q] = job[p].row]
            /\ job' = [job EXCEPT ![p] = [at |-> "count", q |-> q]]
    /\ UNCHANGED <<game, status, current, joined, player, cache, events>>

\* The counter of answers, made anew when it is lost.
Count(p) ==
    LET q == job[p].q
        n == IF na[q] = None THEN 1 ELSE na[q] + 1 IN
    /\ job[p].at = "count"
    /\ na' = [na EXCEPT ![q] = n]
    /\ job' = [job EXCEPT ![p] = [at |-> "check", q |-> q, n |-> n]]
    /\ UNCHANGED <<game, db, st, clock, np, ns, marks, me, due, lock, events>>

\* The last answer closes the question before its time.
WantClose(q) == [at |-> "want", what |-> "everyone", q |-> q]
Check(p) ==
    LET q == job[p].q IN
    /\ job[p].at = "check"
    /\ job' = [job EXCEPT ![p] =
          IF game.mode = "solo" \/ everyone_answered(q, job[p].n, player_count) THEN WantClose(q) ELSE Idle]
    /\ UNCHANGED <<game, db, cache, events>>

-----------------------------------------------------------------------------
(* Joining and removing *)

\* The count of players may be lost, or is being made anew (see Rebuilt).
Refilling == \E o \in Proc : job[o].at \in {"lookup", "recount", "refill"}

\* join() up to the increment of the count.
Join(p) ==
    LET n == (IF np = None THEN Cardinality(Active) ELSE np) + 1 IN
    /\ Free(p)
    /\ p \in game.come \ Range(joined)
    /\ st # None
    /\ st.ph # "finished"
    /\ May("refill_race") \/ ~Refilling
    /\ np' = n
    /\ job' = [job EXCEPT ![p] = [at |-> "join", n |-> n]]
    /\ UNCHANGED <<game, db, st, clock, na, ns, marks, me, due, lock, events>>

\* The rest of join(): too many, or a nickname that is taken, give the place
\* back (when the count is lost this raises, and changes nothing).
GiveBack == np' = IF np = None THEN None ELSE np - 1

\* Mutant: the count is not compared with the limit.
Joined_NoLimit(p) ==
    /\ job[p].at = "join"
    /\ \/ GiveBack /\ UNCHANGED joined
       \/ joined' = Append(joined, p) /\ UNCHANGED np
    /\ job' = [job EXCEPT ![p] = Idle]
    /\ UNCHANGED <<game, status, current, player, answers, st, clock, na, ns, marks,
                   me, due, lock, events>>

Joined(p) ==
    /\ job[p].at = "join"
    /\ \/ GiveBack /\ UNCHANGED joined
       \/ job[p].n <= game.limit /\ joined' = Append(joined, p) /\ UNCHANGED np
    /\ job' = [job EXCEPT ![p] = Idle]
    /\ UNCHANGED <<game, status, current, player, answers, st, clock, na, ns, marks,
                   me, due, lock, events>>

\* Mutant: the answer of a removed player stays in the count.
CountWithout_Kept(p, q) == na[q]

\* The number of answers without that of p.
CountWithout(p, q) ==
    IF <<"a", q, p>> \in marks /\ na[q] # None THEN na[q] - 1 ELSE na[q]

\* remove_player(): the row, the mark, the counts, and whether the others have
\* all answered.
Kick(p) ==
    LET q == st.i
        left == IF CountWithout(p, q) = None THEN 0 ELSE CountWithout(p, q) IN
    /\ May("kick")
    /\ Free(Host)
    /\ game.mode # "solo"
    /\ p \in Active
    /\ st # None
    /\ May("refill_race") \/ ~Refilling
    /\ May("kick_race") \/ \A o \in Player : job[o].at \notin {"answer", "count", "check"}
    /\ player' = [player EXCEPT ![p].is_removed = TRUE]
    /\ marks' = marks \cup {<<"x", p>>}
    /\ GiveBack
    /\ IF st.ph = "question"
       THEN /\ na' = [na EXCEPT ![q] = CountWithout(p, q)]
            /\ job' = [job EXCEPT ![Host] =
                  IF everyone_answered(q, left, player_count - 1) THEN WantClose(q) ELSE Idle]
       ELSE UNCHANGED <<na, job>>
    /\ UNCHANGED <<game, status, current, joined, answers, st, clock, ns, me, due, lock, events>>

-----------------------------------------------------------------------------
(* Faults *)

\* A worker dies, or the database fails it: the request is not finished.  What
\* it holds in the cache stays there until it expires.
Killed(p) ==
    /\ May("killed")
    /\ ~Free(p)
    /\ events < MaxEvents
    /\ events' = events + 1
    /\ job' = [job EXCEPT ![p] = Idle]
    /\ UNCHANGED <<game, db, cache>>

\* The cache loses every key.
Lost ==
    /\ \/ May("flush")
       \/ May("reset") /\ lock = None /\ \A p \in Proc : Free(p)
    /\ st # None
    /\ events < MaxEvents
    /\ events' = events + 1
    /\ st' = None
    /\ np' = None
    /\ na' = [q \in Question |-> None]
    /\ ns' = [q \in Question |-> None]
    /\ marks' = {}
    /\ me' = [p \in Player |-> None]
    /\ due' = 0
    /\ lock' = None
    /\ UNCHANGED <<game, db, clock, job>>

\* Mutant: the state is rebuilt as that of a game that has not begun.
Stored_Lobby == [ph |-> "lobby", i |-> 0]

\* What get_state() reads of the database when the state is lost.
Stored == [ph |-> status, i |-> current]

\* get_state(): without "flush" one request rebuilds the state.
Rebuild(p) ==
    /\ Free(p) /\ Looks(p)
    /\ st = None
    /\ May("flush") \/ \A o \in Proc : job[o].at # "rebuild"
    /\ job' = [job EXCEPT ![p] = [at |-> "rebuild", s |-> Stored]]
    /\ UNCHANGED <<game, db, cache, events>>

\* The version is taken from the clock, to be newer than any before.  The timer
\* of a question is lost with the state: its end is now.  From here on the others
\* find a state again.
Rebuilt(p) ==
    LET s == job[p].s IN
    /\ job[p].at = "rebuild"
    /\ st' = [ph |-> s.ph, i |-> s.i, v |-> 1000 * events, paused |-> FALSE]
    /\ clock' = IF s.ph = "question" THEN "early" ELSE "open"
    /\ job' = [job EXCEPT ![p] = [at |-> "lookup"]]
    /\ UNCHANGED <<game, db, counters, me, due, lock, events>>

\* Then the count of players: is it lost, how many rows are there, and the count
\* is that, whatever has become of it since.
Lookup(p) ==
    /\ job[p].at = "lookup"
    /\ job' = [job EXCEPT ![p] = IF np = None THEN [at |-> "recount"] ELSE Idle]
    /\ UNCHANGED <<game, db, cache, events>>

Recount(p) ==
    /\ job[p].at = "recount"
    /\ job' = [job EXCEPT ![p] = [at |-> "refill", n |-> Cardinality(Active)]]
    /\ UNCHANGED <<game, db, cache, events>>

Refill(p) ==
    /\ job[p].at = "refill"
    /\ np' = job[p].n
    /\ job' = [job EXCEPT ![p] = Idle]
    /\ UNCHANGED <<game, db, st, clock, na, ns, marks, me, due, lock, events>>

-----------------------------------------------------------------------------
Phases ==
    \/ \E p \in Proc : Commit(p) \/ Save(p) \/ GiveUp(p) \/ Move(p)
    \/ \E p \in Proc, what \in {"next", "skip", "end"} : Press(p, what)
    \/ \E on \in BOOLEAN : Pause(on)
    \/ Tick
    \/ \E p \in Proc : Poll(p)
    \/ ClaimExpires
    \/ LockExpires

Phones ==
    \E p \in Player :
        \/ Fetch(p) \/ Store(p) \/ Count(p) \/ Check(p)
        \/ \E t \in Tries : Answer(p, t)
        \/ Join(p) \/ Joined(p) \/ Kick(p)

Faults ==
    \/ Lost
    \/ \E p \in Proc : Killed(p) \/ Rebuild(p) \/ Rebuilt(p) \/ Lookup(p) \/ Recount(p) \/ Refill(p)

Next == Phases \/ Phones \/ Faults

Spec == Init /\ [][Next]_vars

\* A worker goes on with the request it has begun.
Work(p) ==
    Commit(p) \/ Save(p) \/ Rebuilt(p) \/ Lookup(p) \/ Recount(p) \/ Refill(p)
    \/ (p \in Player /\ (Store(p) \/ Count(p) \/ Check(p) \/ Joined(p)))

\* The workers finish what they have begun, time passes, keys expire, and
\* somebody goes on polling.  A worker that tries to make the lock for two
\* seconds gets it when it is free again and again.  Nobody has to press a
\* button, to answer, or to go on after a pause.
Fairness ==
    /\ \A p \in Proc : WF_vars(Work(p)) /\ SF_vars(Move(p))
    /\ WF_vars(\E p \in Proc : Poll(p))
    /\ WF_vars(\E p \in Proc : Rebuild(p))
    /\ WF_vars(Tick)
    /\ WF_vars(ClaimExpires)
    /\ WF_vars(LockExpires)

FairSpec == Spec /\ Fairness

-----------------------------------------------------------------------------
(* Properties *)

TypeOK ==
    /\ status \in Statuses
    /\ current \in 0..N
    /\ Range(joined) \subseteq Player
    /\ \A p \in Player :
        /\ player[p].score \in Nat /\ player[p].streak \in Nat /\ player[p].correct \in Nat
        /\ player[p].rank \in Nat \cup {None} /\ player[p].is_removed \in BOOLEAN
        /\ me[p] \in Nat \cup {None}
    /\ st = None \/ (st.ph \in Statuses /\ st.i \in 0..N /\ st.v \in Nat /\ st.paused \in BOOLEAN)
    /\ clock \in {"ready", "early", "open", "up"}
    /\ np \in Int \cup {None}
    /\ \A q \in Question : na[q] \in Int \cup {None} /\ ns[q] \in Nat \cup {None}
    /\ lock \in Proc \cup {None}
    /\ \A p \in Proc : job[p].at \in {"idle", "want", "hold", "written", "answer",
                                      "count", "check", "join"} \cup Renewing

\* The questions that have been counted.
Closed(q) == q < current \/ (q = current /\ status # "question")
Points(p) == [q \in Question |-> IF answers[p][q] = None THEN 0 ELSE answers[p][q].points]

\* The score of a player is the sum of the points of the answers in the
\* database to the questions that were closed: none is added twice by two
\* requests that close the same question, none is left out.
ScoreIsItsAnswers ==
    Without({"late", "slow", "killed", "flush"}) =>
        \A p \in Active :
            player[p].score = SumFunctionOnSet(Points(p), {q \in Question : Closed(q)})

\* The right answers in a row before question q, questions without points apart.
RunBefore(p, q) ==
    LET before == {b \in 1..(q - 1) : scored(game.keys[b])}
        wrong == {b \in before : answers[p][b] = None \/ ~answers[p][b].is_correct}
    IN  Cardinality({b \in before : \A w \in wrong : w < b})

\* The points of every stored answer are those of its value, its time and of
\* the streak the player really had, which the answer takes from the cache.
BonusIsEarned ==
    Without({"late", "slow", "killed", "flush", "reset"}) =>
        \A p \in Player, q \in Question :
            answers[p][q] # None =>
                LET a == answers[p][q] IN
                a.points = points(game.keys[q], Fraction(game.keys[q], a.value),
                                  a.is_correct, a.time, RunBefore(p, q))

\* An answer that is not fully right never earns more than its share, rounded to
\* a point, not even with a streak; a right one earns at least half of a full
\* one, however slow, and a streak adds no more than STREAK_MAX.
FairPoints(key, a) ==
    LET f == Fraction(key, a.value)
        full == IF scored(key) THEN BASE_POINTS * key.weight ELSE 0 IN
    IF a.is_correct THEN 2 * a.points >= full /\ a.points <= full + STREAK_MAX
    ELSE 2 * f[2] * a.points <= 2 * full * f[1] + f[2]
PointsAreFair ==
    \A p \in Player, q \in Question :
        answers[p][q] # None => FairPoints(game.keys[q], answers[p][q])

\* When the lock is free the state everybody polls is that of the database.
CacheIsCurrent ==
    Without({"slow", "killed", "flush"}) /\ lock = None /\ st # None =>
        st.ph = status /\ st.i = current

\* Where a game is, as a number that only grows.
Progress(ph, i) ==
    10 * i + CASE ph = "lobby" -> 0 [] ph = "question" -> 0 [] ph = "reveal" -> 1
               [] ph = "leaderboard" -> 2 [] ph = "finished" -> 3

\* Nobody sees the game go back, and what changes has a new, larger version:
\* phones compare nothing else.  The database, from which a lost state is
\* rebuilt, does not go back either.
NeverBack ==
    [][/\ Without({"slow", "flush"}) /\ st # None /\ st' # None /\ st' # st =>
             /\ Progress(st'.ph, st'.i) >= Progress(st.ph, st.i)
             /\ st'.v > st.v
       /\ Without({"slow", "flush", "killed"}) =>
             Progress(status', current') >= Progress(status, current)]_vars

\* A question is closed before its time, within SEEN_WINDOW, only when everyone
\* in the game has answered.  After that, only when those who have received it
\* have: for every one of them who still owes an answer somebody else has
\* answered without having received it.
NoEarlyClose ==
    [][Without({"kick_race", "flush", "reset", "slow"}) =>
          \A p \in Proc :
             job'[p].at = "want" /\ job'[p].what = "everyone" /\ job[p] # job'[p] =>
                LET Marked(x) == {o \in Active' : <<x, job'[p].q, o>> \in marks} IN
                /\ clock \in {"ready", "early"} => Active' \subseteq Marked("a")
                /\ Cardinality(Marked("seen") \ Marked("a")) <= Cardinality(Marked("a") \ Marked("seen"))]_vars

\* There are never more players in a game than its limit, also after the count of
\* them was lost, unless somebody joins while it is made anew.
NeverOverfull ==
    Without({"flush", "refill_race"}) => Cardinality(Active) <= game.limit

\* An answer is refused as already given only when it is stored, or on its way.
NobodyIsLockedOut ==
    Without({"killed"}) =>
        \A p \in Player, q \in Question :
            <<"a", q, p>> \in marks =>
                answers[p][q] # None \/ (job[p].at = "answer" /\ job[p].q = q)

\* The timer of a question ends it, and an automatic game goes on to its end,
\* as long as somebody polls and nobody pauses: also when the worker that has
\* claimed the step dies, finds the lock taken, or the cache is lost.
Paused == st # None /\ st.paused
Timed == st # None /\ IF game.mode = "auto" THEN st.ph # "lobby" ELSE st.ph = "question"
Moved == st # None /\ IF game.mode = "auto" THEN st.ph = "finished" ELSE st.ph # "question"
TimersMoveTheGame == Timed ~> (Paused \/ Moved)
=============================================================================
