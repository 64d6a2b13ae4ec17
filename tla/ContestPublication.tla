------------------------- MODULE ContestPublication -------------------------
(***************************************************************************)
(* Problems come into the archive when their contests are over:            *)
(* judge/utils/contest_publication.py, a command that a timer starts every *)
(* minute, with what changes under it: an organizer extends a contest,     *)
(* adds a problem or saves its row again, an administrator hides one, and  *)
(* a join writes an old row of a contest back (module Contest).            *)
(***************************************************************************)
EXTENDS Contest

VARIABLES
    problems,   \* problems[c]: the rows of ContestProblem
    withdrawn,  \* history: those hidden when all their finished contests were marked published
    announced,  \* history: the last end of each contest an organizer was shown
    command,    \* the command: its now, the contests it has still to look at, and
                \* which problems of the first another contest needs, once it has read that
    saving      \* a row of ContestProblem being saved: its contest, its problem, whether a mark goes

pubVars == <<problems, withdrawn, announced, command, saving>>
vars == <<contestVars, pubVars>>

\* The join of nobody is under way, unless the scene is about that.
Calm == May("stale") \/ \A u \in Users : join[u] = Idle

\* No verdict on a problem of P is being written, unless the scene is about that.
Settled(P) == May("stats") \/ \A i \in DOMAIN subs : subs[i].at = "graded" => subs[i].sub.prob \notin P

PubInit ==
    /\ Init
    /\ problems = scene.problems
    /\ withdrawn = {}
    /\ announced = scene.end
    /\ command = Idle /\ saving = Idle

-----------------------------------------------------------------------------
(* The command *)

Finished(c, at) == row[c].end <= at

\* Mutant: every finished contest is due, again and again.
Due_Always(c, at) == Finished(c, at)

Due(c, at) == Finished(c, at) /\ ~row[c].published

PublishStart ==
    /\ command = Idle
    /\ May("late_add") \/ saving = Idle
    /\ \E c \in Contests : Due(c, now)
    /\ command' = [at |-> "next", now |-> now, left |-> {c \in Contests : Due(c, now)}, blocked |-> {}]
    /\ UNCHANGED <<contestVars, problems, withdrawn, announced, saving>>

\* Mutant: a problem that a later contest needs is published with the first.
Blocked_Never(p, at) == FALSE

Holding(p) == {c \in Contests : p \in problems[c]}

Blocked(p, at) == \E c \in Holding(p) : ~Finished(c, at)

This == Min(command.left)

AfterThis ==
    IF command.left = {This} THEN Idle
    ELSE [command EXCEPT !.at = "next", !.left = @ \ {This}, !.blocked = {}]

\* One contest, in a transaction that locks its row and those of its problems.
\* What another contest still needs is read from rows that are not locked.
ReadBlocked ==
    /\ command.at = "next" /\ Calm /\ Settled(problems[This])
    /\ command' = IF Due(This, command.now)
                  THEN [command EXCEPT !.at = "commit",
                                       !.blocked = {p \in problems[This] \ open : Blocked(p, command.now)}]
                  ELSE AfterThis
    /\ UNCHANGED <<contestVars, problems, withdrawn, announced, saving>>

\* The transaction ends.  A blocked problem is left for later, and so is the mark.
Publish ==
    /\ command.at = "commit"
    /\ open' = open \cup (problems[This] \ command.blocked)
    /\ row' = [row EXCEPT ![This].published = command.blocked = {}]
    /\ command' = AfterThis
    /\ UNCHANGED <<scene, now, part, people, subs, jobs, events, problems, withdrawn, announced, saving>>

\* Inside the transaction whoever writes the contest, one of its problems, or a
\* row of ContestProblem that refers to either waits for a lock; the rest neither
\* reads nor writes what it does and is taken before or after, except that
\* another contest is extended.
Locked == command.at = "commit"

-----------------------------------------------------------------------------
(* What is changed under it *)

\* contest_extend(); the bound is that of the clock.
Extend(c, minutes) ==
    LET end == row[c].end + minutes IN
    /\ Locked => May("late_extend") /\ c # This
    /\ Calm /\ Act("extend")
    /\ end > scene.start[c] /\ end < scene.max_time
    /\ row' = [row EXCEPT ![c].end = end]
    /\ announced' = [announced EXCEPT ![c] = end]
    /\ UNCHANGED <<scene, now, part, people, subs, jobs, problems, open, withdrawn, command, saving>>

\* The transaction begins in which a row of ContestProblem is added, or one that
\* is there is saved again.  When it is new, or its problem is not in the archive,
\* the signal takes a mark of the contest away.
SaveProblem(c, p) ==
    LET created == p \notin problems[c] IN
    /\ saving = Idle /\ ~Locked
    /\ May("late_add") \/ command = Idle
    /\ Act(IF created THEN "add" ELSE "edit")
    /\ saving' = [c |-> c, p |-> p, marked |-> row[c].published /\ (created \/ p \notin open)]
    /\ UNCHANGED <<scene, now, rows, part, people, subs, jobs, problems, withdrawn, announced, command>>

\* The problems whose publication is open again: all of the contest when a mark goes.
Reopened == IF saving.marked THEN problems[saving.c] \cup {saving.p} ELSE {saving.p} \ problems[saving.c]

\* Mutant: the mark stays.
SaveCommit_KeepsMark ==
    /\ saving # Idle /\ ~Locked /\ Calm
    /\ problems' = [problems EXCEPT ![saving.c] = @ \cup {saving.p}]
    /\ saving' = Idle /\ withdrawn' = withdrawn \ Reopened
    /\ UNCHANGED <<contestVars, announced, command>>

\* It is committed, after a publication of the contest that holds the row's lock.
SaveCommit ==
    LET c == saving.c IN
    /\ saving # Idle /\ ~Locked /\ Calm
    /\ problems' = [problems EXCEPT ![c] = @ \cup {saving.p}]
    /\ row' = [row EXCEPT ![c].published = @ /\ ~saving.marked]
    /\ saving' = Idle /\ withdrawn' = withdrawn \ Reopened
    /\ UNCHANGED <<scene, now, part, people, subs, jobs, events, open, announced, command>>

\* An administrator takes a problem out of the archive.
Hide(p) ==
    /\ ~Locked /\ p \in open /\ Settled({p})
    /\ Act("hide")
    /\ open' = open \ {p}
    /\ withdrawn' = IF \A c \in Holding(p) : row[c].published THEN withdrawn \cup {p} ELSE withdrawn
    /\ UNCHANGED <<scene, now, row, part, people, subs, jobs, problems, announced, command, saving>>

-----------------------------------------------------------------------------
Organizing ==
    \/ PublishStart \/ ReadBlocked \/ Publish \/ SaveCommit
    \/ \E c \in Contests : \E minutes \in {-1, 1} : Extend(c, minutes)
    \/ \E c \in Contests, p \in Problem : SaveProblem(c, p)
    \/ \E p \in Problem : Hide(p)

Next == ((Tick \/ (~Locked /\ ContestNext)) /\ UNCHANGED pubVars) \/ Organizing

Spec == PubInit /\ [][Next]_vars

\* Time goes on, the timer starts the command, the command works, and requests
\* to join, transactions and verdicts that are being written end.
FairSpec ==
    /\ Spec
    /\ WF_vars(Tick /\ UNCHANGED pubVars)
    /\ WF_vars(PublishStart) /\ WF_vars(ReadBlocked) /\ WF_vars(Publish) /\ WF_vars(SaveCommit)
    /\ WF_vars(~Locked /\ (\E i \in DOMAIN subs : UpdateContest(i)) /\ UNCHANGED pubVars)
    /\ \A u \in User : WF_vars(~Locked /\ u \in Users /\ (Enter(u) \/ UpdateUserCount(u)) /\ UNCHANGED pubVars)

-----------------------------------------------------------------------------
(* Properties *)

TypeOK ==
    /\ now \in Nat
    /\ \A c \in Contests : row[c].end \in Nat /\ row[c].published \in BOOLEAN /\ row[c].users \in Nat
    /\ \A k \in Existing : part[k].is_disqualified \in BOOLEAN /\ part[k].real_start \in 0..now
                           /\ part[k].res.score \in Int /\ part[k].res.cumtime \in Nat
    /\ \A u \in Users : current[u] = None \/ <<u, current[u]>> \in Existing
    /\ banned \subseteq Users
    /\ \A i \in DOMAIN subs : subs[i].of \in Existing /\ subs[i].at \in {"judging", "graded", "done"}
    /\ \A k \in Existing : k[2] > 1 => <<k[1], k[2] - 1>> \in Existing
    /\ open \subseteq Problem

\* A verdict that is written late puts a problem back into the archive that was
\* taken out of it, whatever has become of its contests in between.
Republishing == May("stats") /\ scene.acts \cap {"extend", "add"} # {}

\* No problem comes into the archive before the announced end of every contest
\* it belongs to.
NoEarlyPublication ==
    [][Without({"stale", "late_extend"}) /\ ~Republishing =>
          \A p \in open' \ open : \A c \in Holding(p) : announced[c] <= now]_vars

\* What an administrator takes out of the archive after its contests have been
\* published is not put back by the next runs of the command, until an organizer
\* saves a row of ContestProblem and a mark of one of its contests goes with it.
WithdrawnStaysOut == [][Without({"stale", "stats"}) => open' \cap withdrawn \subseteq open]_vars

\* Every problem of a contest comes into the archive in the end, unless it has
\* been taken out: also one shared with a later contest, and one that was added
\* after the contest had been published, unless a join under way writes the mark
\* back that the added row has taken away (contest.py:355-357).
EverythingIsPublished ==
    \A c \in Contests, p \in Problem :
        (/\ Without({"late_add", "stats"}) /\ "hide" \notin scene.acts
         /\ May("stale") => p \in scene.problems[c]
         /\ p \in problems[c] /\ announced[c] < scene.max_time) ~> (p \in open)
=============================================================================
