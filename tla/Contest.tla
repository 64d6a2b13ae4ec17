------------------------------- MODULE Contest -------------------------------
(***************************************************************************)
(* Taking part in a contest: judge/models/contest.py, the views that join, *)
(* leave, submit to and disqualify from it, and what a verdict does to a   *)
(* score.                                                                  *)
(*                                                                         *)
(* Participations are rows of the database.  Whoever recomputes one (the   *)
(* bridge after a verdict, an editor, the page that counts warnings, an    *)
(* administrator) reads the row, reads its submissions and writes the      *)
(* whole row back: three steps of a job.  A join reads the row of the      *)
(* contest at its beginning and writes all of it back at its end.          *)
(*                                                                         *)
(* Contests are visible to everyone and publish their problems, and nobody *)
(* here is an editor who joins; a time is a whole minute.                  *)
(***************************************************************************)
EXTENDS ContestFormats

CONSTANTS
    User,
    Problem,
    Contests,   \* numbers, in the order of their rows; Main is the one that is joined
    Scenes   \* the contests to look at, see SceneAssumption

\* Virtual numbers: LIVE and SPECTATE, then the virtual participations.
LIVE == 0
SPECTATE == -1

\* What env may hold.  "ce", "ab": a judge answers a compile error, or aborts;
\* "spoilt": also when it judges again; "overlap": two recompute the same
\* participation at once; "late_join": somebody is disqualified while he joins;
\* "stale": a contest is changed while somebody joins; "several": a virtual
\* participation may be disqualified; "late_add": a row of ContestProblem is saved
\* while its contest is published; "late_extend": a contest is extended after the
\* command has read whether it needs a problem; "stats": a problem is published or
\* hidden while a verdict on it is being written.
Hazards == {"ce", "ab", "spoilt", "overlap", "late_join", "stale", "several", "late_add",
            "late_extend", "stats"}

\* start, end, problems: of every contest; limit: time_limit, None without;
\* here: who has joined when we begin to look; verdicts:
\* what judges may answer, the points of both batches of a problem out of two.
\* max_*: the bounds of the scene.
Main == 1

ASSUME ContestsAssumption == Main \in Contests /\ Contests \subseteq Nat

ASSUME SceneAssumption ==
    \A s \in Scenes :
        /\ s.conf.format \in Formats /\ s.conf.worth \in [Problem -> Nat \ {0}]
        /\ {s.conf.penalty, s.conf.first_ac_bonus, s.conf.time_bonus} \subseteq Nat
        /\ {s.conf.cumtime, s.conf.partial} \subseteq BOOLEAN
        /\ {DOMAIN s.start, DOMAIN s.end, DOMAIN s.problems} = {Contests}
        /\ \A c \in Contests :
               s.start[c] \in Nat /\ s.end[c] \in Nat /\ s.end[c] > s.start[c] /\ s.problems[c] \subseteq Problem
        /\ s.limit \in Nat \cup {None} /\ s.here \subseteq s.users /\ s.users \subseteq User
        /\ IsFiniteSet(s.users)
        /\ \A v \in s.verdicts : v \in [1..2 -> 0..1]
        /\ {s.max_warnings, s.max_submissions, s.max_time, s.max_subs, s.max_virtual, s.max_events} \subseteq Nat
        /\ s.acts \subseteq {"join", "leave", "report", "toggle", "rejudge", "recalculate", "extend", "add", "edit", "hide"}
        /\ s.env \subseteq Hazards

VARIABLES
    scene,     \* the contest looked at: chosen at the start, never changed
    now,
    row,       \* row[c]: end_time, problems_published_at (whether), user_count
    open,      \* the problems in the archive: public, listed, of no organization
    part,      \* part[<<u, v>>]: the row of ContestParticipation, or None
    current,   \* current[u]: the virtual number of Profile.current_contest, or None
    banned,    \* banned_users
    warned,    \* warned[k]: the counted warnings of a participation
    subs,      \* the submissions to the contest, in order
    job,       \* job[a]: the recomputation a is at
    join,      \* join[u]: how far u's request to join is
    tangled,   \* history: the participations whose last recomputation began during another
    events     \* how many acts of scene.acts there have been

people == <<current, banned, warned>>
jobs == <<job, join, tangled>>
rows == <<row, open>>
contestVars == <<scene, now, rows, part, people, subs, jobs, events>>

May(e) == e \in scene.env
Without(E) == E \cap scene.env = {}
Act(a) == a \in scene.acts /\ events < scene.max_events /\ events' = events + 1
Users == scene.users

Virtual == {SPECTATE, LIVE} \cup 1..scene.max_virtual
Key == Users \X Virtual
Existing == {k \in Key : part[k] # None}
LiveKey(u) == <<u, LIVE>>

\* Judges, one for each submission, an editor, a page and an administrator.
Judge(i) == <<"judge", i>>
Editor == <<"editor", 0>>
Page == <<"page", 0>>
Admin == <<"admin", 0>>
Actor == {Judge(i) : i \in 1..scene.max_subs} \cup {Editor, Page, Admin}
Idle == [at |-> "idle"]

NewPart == [real_start |-> now, is_disqualified |-> FALSE, res |-> Row(0, 0, 0)]

Init ==
    /\ scene \in Scenes
    /\ now = scene.start[Main]
    /\ row = [c \in Contests |-> [end |-> scene.end[c], published |-> FALSE,
                                 users |-> IF c = Main THEN Cardinality(scene.here) ELSE 0]]
    /\ open = {}
    /\ part = [k \in Key |-> IF k[1] \in scene.here /\ k[2] = LIVE THEN NewPart ELSE None]
    /\ current = [u \in Users |-> IF u \in scene.here THEN LIVE ELSE None] /\ banned = {}
    /\ warned = [k \in Key |-> 0]
    /\ subs = <<>>
    /\ job = [a \in Actor |-> Idle] /\ join = [u \in Users |-> Idle]
    /\ tangled = {}
    /\ events = 0

-----------------------------------------------------------------------------
(* The window of a participation *)

start(k) == IF scene.limit = None /\ k[2] <= LIVE THEN scene.start[Main] ELSE part[k].real_start

end_time(k) ==
    LET real == part[k].real_start
        length == IF scene.limit # None THEN scene.limit ELSE row[Main].end - scene.start[Main]
    IN  CASE k[2] = SPECTATE                     -> row[Main].end
          [] k[2] > LIVE                         -> real + length
          [] k[2] = LIVE /\ scene.limit = None   -> row[Main].end
          [] k[2] = LIVE /\ scene.limit # None   -> Min({real + scene.limit, row[Main].end})

ended(k) == end_time(k) < now
has_completed_contest(u) == part[LiveKey(u)] # None /\ ended(LiveKey(u))

Tick ==
    /\ now < scene.max_time
    /\ now' = now + 1
    /\ UNCHANGED <<scene, rows, part, people, subs, jobs, events>>

-----------------------------------------------------------------------------
(* Joining and leaving *)

UnderSentence(u) ==
    \E a \in Actor : job[a] # Idle /\ job[a].of[1] = u /\ (job[a].at \in {"expel", "ban"} \/ job[a].sentence)

\* Mutant: the numbers begin at 2.
NextVirtual_FromTwo(u) == Largest({1} \cup {k[2] : k \in {x \in Existing : x[1] = u}}) + 1

\* The number of the next virtual participation; max_virtual is the bound.
NextVirtual(u) == Largest({LIVE} \cup {k[2] : k \in {x \in Existing : x[1] = u}}) + 1

\* The request arrives: the row of the contest is read, once and for all.
JoinContest(u) ==
    /\ join[u] = Idle /\ Act("join")
    /\ scene.start[Main] <= now
    /\ u \notin banned /\ NextVirtual(u) <= scene.max_virtual
    /\ May("late_join") \/ ~UnderSentence(u)
    /\ join' = [join EXCEPT ![u] = [at |-> "enter", copy |-> row[Main], over |-> row[Main].end < now]]
    /\ UNCHANGED <<scene, now, rows, part, people, subs, job, tangled>>

\* Which participation it is: a new virtual one after the contest; before, the
\* live one, or, when that has ended, a spectator's.
Entered(u) ==
    IF join[u].over THEN <<u, NextVirtual(u)>>
    ELSE IF has_completed_contest(u) THEN <<u, SPECTATE>> ELSE LiveKey(u)

\* The participation is got or made, and the profile saved: one step here, of
\* one request per user.  Two requests of one user that compute the same virtual
\* number, of which the unique key refuses one that then tries again, do not occur.
Enter(u) ==
    /\ join[u].at = "enter"
    /\ LET k == Entered(u) IN
        /\ part' = IF part[k] = None THEN [part EXCEPT ![k] = NewPart] ELSE part
        /\ current' = [current EXCEPT ![u] = k[2]]
    /\ join' = [join EXCEPT ![u].at = "count"]
    /\ UNCHANGED <<scene, now, rows, banned, warned, subs, job, tangled, events>>

\* update_user_count() saves the whole row that was read at first.
UpdateUserCount(u) ==
    /\ join[u].at = "count"
    /\ row' = [row EXCEPT ![Main] = [join[u].copy EXCEPT !.users = Cardinality({k \in Existing : k[2] = LIVE})]]
    /\ join' = [join EXCEPT ![u] = Idle]
    /\ UNCHANGED <<scene, now, open, part, people, subs, job, tangled, events>>

\* ContestMiddleware on any page, and ContestLeave.
Leave(u) ==
    /\ current[u] # None /\ Act("leave")
    /\ current' = [current EXCEPT ![u] = None]
    /\ UNCHANGED <<scene, now, rows, part, banned, warned, subs, jobs>>

-----------------------------------------------------------------------------
(* Submitting and judging *)

\* The middleware has taken out of the contest whoever's time is over.
InContest(u) == current[u] # None /\ ~ended(<<u, current[u]>>)

Counting(k, p) == {i \in DOMAIN subs : subs[i].of = k /\ subs[i].sub.prob = p /\ subs[i].sub.result # "IE"}

Submit(u, p) ==
    LET k == <<u, current[u]>> IN
    /\ InContest(u)
    /\ p \in scene.problems[Main]
    /\ Len(subs) < scene.max_subs
    /\ Cardinality(Counting(k, p)) < scene.max_submissions
    /\ subs' = Append(subs,
           [of |-> k, at |-> "judging", again |-> FALSE, public |-> FALSE,
            sub |-> [id |-> Len(subs) + 1, prob |-> p, date |-> now, result |-> None, points |-> 0, batch |-> <<>>]])
    /\ UNCHANGED <<scene, now, rows, part, people, jobs, events>>

Busy(k) == \E a \in Actor : job[a] # Idle /\ job[a].of = k
Alone(k) == May("overlap") \/ ~Busy(k)

Begins(a, k, recomputation) ==
    /\ job' = [job EXCEPT ![a] = recomputation]
    /\ tangled' = IF Busy(k) THEN tangled \cup {k} ELSE tangled \ {k}

CasePoints(v) == v[1] + v[2]

\* on_grading_end(): the row of the problem is read, the submission saved.
GradingEnd(i, v) ==
    /\ subs[i].at = "judging"
    /\ subs' = [subs EXCEPT ![i].at = "graded", ![i].sub.batch = v,
                            ![i].public = subs[i].sub.prob \in open,
                            ![i].sub.result = IF CasePoints(v) = 2 THEN "AC" ELSE "WA"]
    /\ UNCHANGED <<scene, now, rows, part, people, jobs, events>>

\* Problem.update_stats() saves the whole row that was read, with its flags.
UpdateStats(s) == open' = IF s.public THEN open \cup {s.sub.prob} ELSE open \ {s.sub.prob}

\* After it Submission.update_contest(): the points in the contest, then the participation
\* as it is now is recomputed.
ContestPoints(p, v) ==
    LET full == scene.conf.worth[p]
        got == (CasePoints(v) * full) \div 2
    IN  IF ~scene.conf.partial /\ got # full THEN 0 ELSE got

UpdateContest(i) ==
    LET s == subs[i] IN
    /\ s.at = "graded" /\ Alone(s.of)
    /\ UpdateStats(s)
    /\ subs' = [subs EXCEPT ![i].at = "done", ![i].public = FALSE,
                            ![i].sub.points = ContestPoints(s.sub.prob, s.sub.batch)]
    /\ Begins(Judge(i), s.of, [at |-> "load", of |-> s.of, sentence |-> FALSE])
    /\ UNCHANGED <<scene, now, row, part, people, join, events>>

\* A compile error, an internal error or an abort: the row gets its result and
\* nothing else happens.
GradingFails(i, result) ==
    /\ subs[i].at = "judging"
    /\ result \in (IF May("ce") THEN Uncounted ELSE {}) \cup (IF May("ab") THEN {"AB"} ELSE {})
    /\ ~subs[i].again \/ May("spoilt")
    /\ subs' = [subs EXCEPT ![i].at = "done", ![i].sub.result = result]
    /\ UNCHANGED <<scene, now, rows, part, people, jobs, events>>

\* judge_submission(rejudge=True): all of the result goes but the contest's points.
Rejudge(i) ==
    /\ subs[i].at = "done" /\ job[Judge(i)] = Idle
    /\ Act("rejudge")
    /\ subs' = [subs EXCEPT ![i].at = "judging", ![i].again = TRUE,
                            ![i].sub.result = None, ![i].sub.batch = <<>>]
    /\ UNCHANGED <<scene, now, rows, part, people, jobs>>

-----------------------------------------------------------------------------
(* Recomputing a participation *)

\* An administrator recalculates, or rescores, the contest.
Recalculate(k) ==
    /\ job[Admin] = Idle /\ part[k] # None /\ Alone(k)
    /\ Act("recalculate")
    /\ Begins(Admin, k, [at |-> "load", of |-> k, sentence |-> FALSE])
    /\ UNCHANGED <<scene, now, rows, part, people, subs, join>>

\* The row is read.
Load(a) ==
    /\ job[a].at = "load"
    /\ job' = [job EXCEPT ![a] = [at |-> "read", of |-> job[a].of, sentence |-> FALSE,
                                  disq |-> part[job[a].of].is_disqualified]]
    /\ UNCHANGED <<scene, now, rows, part, people, subs, join, tangled, events>>

Table(k) == {subs[i].sub : i \in {n \in DOMAIN subs : subs[n].of = k}}

\* The format reads the submissions.
Read(a) ==
    LET k == job[a].of IN
    /\ job[a].at = "read"
    /\ job' = [job EXCEPT ![a] = [at |-> "save", of |-> k, sentence |-> job[a].sentence, disq |-> job[a].disq,
                                  res |-> update_participation(scene.conf, Table(k), start(k), end_time(k))]]
    /\ UNCHANGED <<scene, now, rows, part, people, subs, join, tangled, events>>

\* The whole row is written, with the flag that was read; the result of one who
\* is disqualified is worse than any.  cumtime cannot be negative: then nothing
\* is written.
Result(disq, res) == IF disq THEN Row(-9999, 0, 0) ELSE res

Save(a) ==
    LET k == job[a].of IN
    /\ job[a].at = "save"
    /\ IF job[a].res.cumtime >= 0
       THEN /\ part' = [part EXCEPT ![k].is_disqualified = job[a].disq,
                                    ![k].res = Result(job[a].disq, job[a].res)]
            /\ job' = [job EXCEPT ![a] = IF ~job[a].sentence THEN Idle
                                         ELSE [at |-> IF job[a].disq THEN "expel" ELSE "ban", of |-> k,
                                               disq |-> job[a].disq]]
       ELSE /\ job' = [job EXCEPT ![a] = Idle]
            /\ UNCHANGED part
    /\ UNCHANGED <<scene, now, rows, people, subs, join, tangled, events>>

-----------------------------------------------------------------------------
(* Disqualifying *)

\* Mutant: whoever is disqualified stays in the contest he is in.
Expel_Stays(a) ==
    /\ job[a].at = "expel"
    /\ job' = [job EXCEPT ![a].at = "ban"]
    /\ UNCHANGED <<scene, now, rows, part, people, subs, join, tangled, events>>

\* set_disqualified() goes on: out of the contest, and then never again in.
Expel(a) ==
    LET u == job[a].of[1] IN
    /\ job[a].at = "expel"
    /\ current' = [current EXCEPT ![u] = IF <<u, @>> = job[a].of THEN None ELSE @]
    /\ job' = [job EXCEPT ![a].at = "ban"]
    /\ UNCHANGED <<scene, now, rows, part, banned, warned, subs, join, tangled, events>>

Ban(a) ==
    LET u == job[a].of[1] IN
    /\ job[a].at = "ban"
    /\ banned' = IF job[a].disq THEN banned \cup {u} ELSE banned \ {u}
    /\ job' = [job EXCEPT ![a] = Idle]
    /\ UNCHANGED <<scene, now, rows, part, current, warned, subs, join, tangled, events>>

\* Nothing goes on of which a scene without the hazard knows nothing.
Undisturbed(k) == Alone(k) /\ (May("late_join") \/ join[k[1]] = Idle)

Sentenced(a, k, disq) ==
    Begins(a, k, [at |-> "read", of |-> k, sentence |-> TRUE, disq |-> disq])

\* An editor turns the flag over; a pardon forgives the warnings too.
Toggle(k) ==
    LET disq == part[k].is_disqualified IN
    /\ job[Editor] = Idle /\ part[k] # None /\ Undisturbed(k)
    /\ k[2] = LIVE \/ May("several")
    /\ Act("toggle")
    /\ warned' = IF disq THEN [warned EXCEPT ![k] = 0] ELSE warned
    /\ Sentenced(Editor, k, ~disq)
    /\ UNCHANGED <<scene, now, rows, part, current, banned, subs, join>>

\* The page has seen its user look elsewhere.  Two events within four seconds
\* are one warning; the row is locked while they are counted.
Report(u, counted) ==
    LET k == LiveKey(u)
        warnings == IF counted THEN warned[k] + 1 ELSE warned[k]
    IN  /\ current[u] = LIVE /\ InContest(u)
        /\ job[Page] = Idle /\ Undisturbed(k)
        /\ ~part[k].is_disqualified
        /\ counted \/ warned[k] > 0
        /\ Act("report")
        /\ warned' = [warned EXCEPT ![k] = warnings]
        /\ IF counted /\ warnings > scene.max_warnings
           THEN Sentenced(Page, k, TRUE)
           ELSE UNCHANGED <<job, tangled>>
        /\ UNCHANGED <<scene, now, rows, part, current, banned, subs, join>>

-----------------------------------------------------------------------------
Participants ==
    \E u \in Users :
        \/ JoinContest(u) \/ Enter(u) \/ UpdateUserCount(u) \/ Leave(u)
        \/ \E p \in Problem : Submit(u, p)
        \/ \E counted \in BOOLEAN : Report(u, counted)

Judging ==
    \E i \in DOMAIN subs :
        \/ \E v \in scene.verdicts : GradingEnd(i, v)
        \/ UpdateContest(i) \/ Rejudge(i)
        \/ \E result \in {"CE", "IE", "AB"} : GradingFails(i, result)

Recomputing ==
    \/ \E a \in Actor : Load(a) \/ Read(a) \/ Save(a) \/ Expel(a) \/ Ban(a)
    \/ \E k \in Existing : Recalculate(k) \/ Toggle(k)

ContestNext == Tick \/ Participants \/ Judging \/ Recomputing

-----------------------------------------------------------------------------
(* Properties *)

AtRest(k) == ~Busy(k) /\ \A i \in DOMAIN subs : subs[i].of = k => subs[i].at = "done"

\* The rules as the contest's page tells them: for every problem the first of
\* the best submissions counts; a try is one that was judged before it.
Top(S, p) ==
    CHOOSE s \in OfProblem(S, p) :
        \A t \in OfProblem(S, p) :
            \/ s.points > t.points
            \/ s.points = t.points /\ (s.date < t.date \/ (s.date = t.date /\ s.id <= t.id))

Tries(S, p) == {s \in OfProblem(S, p) \ {Top(S, p)} : s.result \in {"AC", "WA", "AB"} /\ s.date <= Top(S, p).date}

Standing(c, S, from, to) ==
    LET P == {p \in ProblemsOf(S) : Top(S, p).points > 0}
        got(p) == Top(S, p).points
        at(p) == Top(S, p).date - from
        penalty == c.penalty * SumFunction([p \in P |-> Cardinality(Tries(S, p))])
        latest(T) == CHOOSE s \in T : \A t \in T : t.date < s.date \/ (t.date = s.date /\ t.points <= s.points)
        counted == {s \in S : s.result \notin Uncounted}
        last(p) == latest(OfProblem(counted, p))
        only(p) == OfProblem(counted, p) = {last(p)} /\ last(p).points = c.worth[p]
        ecoo(p) == IF last(p).points = 0 THEN 0
                   ELSE last(p).points + (IF only(p) THEN c.first_ac_bonus ELSE 0)
                        + (IF c.time_bonus = 0 THEN 0 ELSE (to - last(p).date) \div c.time_bonus)
        judged == {s \in S : s.batch # <<>>}
        reach(s, b) == \A t \in judged : t.prob = s.prob => t.batch[b] <= s.batch[b]
        batch(p, b) == CHOOSE n \in {s.batch[b] : s \in {t \in judged : t.prob = p /\ reach(t, b)}} : TRUE
        when(p, b) == Min({s.date : s \in {t \in judged : t.prob = p /\ reach(t, b)}}) - from
        both(p) == batch(p, 1) + batch(p, 2)
        score == SumFunction([p \in P |-> got(p)])
        all == SumFunction([p \in P |-> at(p)])
    IN  CASE c.format = "default" ->
               Row(score, SumFunction([p \in P |-> latest(OfProblem(S, p)).date - from]), 0)
          [] c.format = "icpc" -> Row(score, all + penalty, Largest({at(p) : p \in P}))
          [] c.format = "atcoder" -> Row(score, Largest({at(p) : p \in P}) + penalty, 0)
          [] c.format = "ecoo" ->
               Row(SumFunction([p \in ProblemsOf(counted) |-> ecoo(p)]),
                   IF c.cumtime THEN SumFunction([p \in ProblemsOf(counted) |-> last(p).date - from]) ELSE 0, 0)
          [] c.format = "ioi" -> Row(score, IF c.cumtime THEN all ELSE 0, 0)
          [] c.format = "ioi16" ->
               Row(SumFunction([p \in ProblemsOf(judged) |-> both(p)]),
                   IF c.cumtime
                   THEN SumFunction([p \in {n \in ProblemsOf(judged) : both(n) > 0} |->
                                        Largest({when(p, 1), when(p, 2)})])
                   ELSE 0, 0)

\* Results that change the standing of their format though nobody recomputes.
Unseen(format) ==
    CASE format \in {"default", "ecoo"} -> {"ce", "ab"}
      [] format \in {"icpc", "atcoder"} -> {"ab"}
      [] OTHER                          -> {}

\* Only a submission that was judged to the end has points.
Fair(S) == {[s EXCEPT !.points = IF s.result \in {"AC", "WA"} THEN @ ELSE 0] : s \in S}

ScoresAreOfTheRules ==
    Without({"spoilt"} \cup Unseen(scene.conf.format)) =>
        \A k \in Existing \ tangled :
            AtRest(k) => part[k].res =
                Result(part[k].is_disqualified, Standing(scene.conf, Fair(Table(k)), start(k), end_time(k)))

\* ECOO pays for the time that is left to the end; when the end is moved nobody is
\* recomputed (contest_extend), and the scores are those of the old end.
BonusMoves ==
    scene.conf.format = "ecoo" /\ scene.conf.time_bonus # 0 /\ "extend" \in scene.acts

\* When everything is judged and nobody is at work, the score of a participation
\* is the one the rules give its submissions, and of one who is disqualified the
\* worst; where two recomputed it at once, as soon as somebody does it alone.
ScoreIsCurrent == ~BonusMoves => ScoresAreOfTheRules

\* A sentence is whole: with nothing under way, a user is banned exactly when he
\* is disqualified, and nobody is in the contest with a disqualified participation.
SentenceIsWhole ==
    Without({"overlap", "several"}) =>
        \A u \in Users :
            join[u] = Idle /\ (\A k \in Existing : k[1] = u => ~Busy(k)) =>
                /\ u \in banned <=> \E k \in Existing : k[1] = u /\ part[k].is_disqualified
                /\ Without({"late_join"}) /\ current[u] # None =>
                       ~part[<<u, current[u]>>].is_disqualified
=============================================================================
