------------------------------ MODULE MCContest ------------------------------
(***************************************************************************)
(* ContestPublication for TLC: a contest per question.                     *)
(***************************************************************************)
EXTENDS ContestPublication

CONSTANTS u1, u2, p, q

Conf(format, penalty, cumtime) ==
    [format |-> format, penalty |-> penalty, cumtime |-> cumtime, first_ac_bonus |-> 1, time_bonus |-> 1,
     partial |-> format # "icpc", worth |-> [x \in Problem |-> IF x = p THEN 2 ELSE 4]]

\* One contest from 0 to 3 looked at until 2, with one user and two submissions.
Contest1 ==
    [conf |-> Conf("default", 0, TRUE), start |-> <<0, 0>>, end |-> <<3, 9>>, problems |-> <<{p, q}, {}>>,
     limit |-> None, users |-> {u1}, here |-> {u1}, verdicts |-> {<<0, 0>>, <<1, 0>>, <<1, 1>>},
     max_warnings |-> 0, max_submissions |-> 2, max_time |-> 2, max_subs |-> 2, max_virtual |-> 1,
     max_events |-> 1, acts |-> {"rejudge"}, env |-> {}]

Of(format, penalty, cumtime, env) == [Contest1 EXCEPT !.conf = Conf(format, penalty, cumtime), !.env = env]

Default_ == Of("default", 0, TRUE, {})
ICPC_ == Of("icpc", 2, TRUE, {"ce"})
AtCoder_ == [Of("atcoder", 1, TRUE, {"ce"}) EXCEPT !.acts = {}]
ECOO_ == Of("ecoo", 0, TRUE, {})
IOI_ == [Of("ioi", 0, TRUE, {"ce", "ab"}) EXCEPT !.acts = {}]

\* Three submissions to one problem.
Tried(s) == [s EXCEPT !.problems = <<{p}, {}>>, !.max_subs = 3, !.max_submissions = 3, !.max_time = 1]
ICPC3 == Tried([Of("icpc", 2, TRUE, {}) EXCEPT !.verdicts = {<<0, 0>>, <<1, 1>>}])
ECOO3 == Tried([Of("ecoo", 0, TRUE, {}) EXCEPT !.acts = {}])
IOI3 == Tried([Of("ioi16", 0, TRUE, {"ab"}) EXCEPT !.verdicts = {<<0, 1>>, <<1, 0>>, <<1, 1>>}, !.acts = {}])

\* Disqualifications: by an editor and by the page, while judges are at work.
Judged == [Contest1 EXCEPT !.acts = {"join", "report", "toggle", "recalculate"}, !.max_events = 3, !.max_subs = 1,
                           !.verdicts = {<<1, 1>>}, !.problems = <<{p}, {}>>]
Two == [Judged EXCEPT !.users = {u1, u2}, !.max_events = 2, !.max_time = 1]
Overlapping == [Judged EXCEPT !.env = {"overlap"}, !.max_subs = 2, !.acts = {"rejudge", "recalculate"}]
Late == [Judged EXCEPT !.env = {"late_join"}, !.acts = {"join", "leave", "report", "toggle"}, !.max_warnings = 1]

Spoilt == [Of("icpc", 2, TRUE, {"ce", "spoilt"}) EXCEPT !.problems = <<{p}, {}>>, !.max_time = 1,
              !.verdicts = {<<0, 0>>, <<1, 1>>}, !.acts = {"rejudge", "recalculate"}, !.max_events = 2]

\* A personal time limit, and virtual participations after the end.
Limited == [Contest1 EXCEPT !.limit = 1, !.end = <<2, 9>>, !.max_time = 4, !.max_subs = 1, !.max_virtual = 2,
                            !.verdicts = {<<1, 1>>}, !.problems = <<{p}, {}>>, !.acts = {"join", "leave"}, !.here = {}, !.max_events = 3]

Several == [Limited EXCEPT !.limit = None, !.env = {"several"}, !.acts = {"join", "toggle"}, !.max_subs = 0,
                           !.max_virtual = 1]

\* Two contests that share a problem.
Shared == [Contest1 EXCEPT !.start = <<0, 1>>, !.end = <<1, 2>>, !.problems = <<{p}, {p}>>,
                           !.users = {}, !.here = {}, !.max_time = 5, !.max_events = 3,
                           !.acts = {"extend", "add"}]
Hidden == [Shared EXCEPT !.problems = <<{p, q}, {q}>>, !.acts = {"extend", "hide"}]
LateAdd == [Shared EXCEPT !.acts = {"add"}, !.env = {"late_add"}]
Joined == [Hidden EXCEPT !.users = {u1}, !.max_subs = 0, !.max_time = 3, !.max_events = 3,
                           !.acts = {"join", "extend", "hide"}]
Stale == [Joined EXCEPT !.env = {"stale"}]
Overtaken == [Shared EXCEPT !.env = {"late_extend"}, !.acts = {"extend"}]

\* Rows of ContestProblem are saved: of problems that are withdrawn, of new ones
\* while somebody joins; and a join writes the row back though nothing is hidden.
Edited == [Hidden EXCEPT !.acts = {"edit", "add", "hide"}, !.max_time = 3]
Resaved == [Edited EXCEPT !.env = {"late_add"}]
StaleAdd == [Joined EXCEPT !.env = {"stale"}, !.problems = <<{p}, {}>>, !.max_events = 2, !.acts = {"join", "add", "edit"}]
StaleEnd == [Joined EXCEPT !.env = {"stale"}, !.acts = {"join", "extend"}]

\* Verdicts on a problem while it is published and hidden.
Judging1 == [Contest1 EXCEPT !.end = <<1, 9>>, !.max_time = 3, !.verdicts = {<<1, 1>>}, !.problems = <<{p}, {}>>]
Graded == [Judging1 EXCEPT !.acts = {"rejudge", "hide"}, !.max_events = 2]
Settling == [Judging1 EXCEPT !.max_subs = 1]
Overwritten == [Judging1 EXCEPT !.max_subs = 1, !.env = {"stats"}, !.acts = {"rejudge", "hide"}, !.max_events = 2]

MCScenes == {Graded, Settling, Overwritten, Default_, ICPC_, AtCoder_, ECOO_, IOI_, ICPC3, ECOO3, IOI3, Judged, Two, Overlapping, Late, Spoilt, Limited, Several, Shared, Hidden, LateAdd, Joined, Stale,
             Overtaken, Edited, Resaved, StaleAdd, StaleEnd}
=============================================================================
