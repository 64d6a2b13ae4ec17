# Verification of the judging core of olymp.oshsu.kg

The repository is a Django site for programming contests (a DMOJ descendant)
with its own additions: a live quiz game, a sandboxed code runner, contest
publication and anticheat.  Its core is the path of a submission: a web worker
stores it and asks the *judge bridge* for a verdict, the bridge queues it and
hands it to one of the judges connected to it, the judge's packets come back
through the bridge into the database.  This directory holds TLA+ models of that
path and of the four other parts in which several actors share state -- the quiz
game, the code runner, contests and their publication --, the TLC runs that
check them on small instances, and theorems that TLAPS proves for any number of
judges, submissions, workers, phones, users and contests: every safety property
that a run finds to hold.

| file | what it is |
|---|---|
| `JudgeList.tla` | the dispatcher: `src/judge/bridge/judge_list.py` and what its callers do around it |
| `Bridge.tla` | JudgeList with the database rows, the web workers, the packets and the daemon |
| `Dispatch.tla` | what the dispatcher promises: the abstract specification |
| `JudgeListImplementsDispatch.tla` | the refinement mapping from JudgeList to Dispatch |
| `QuizScoring.tla` | checking an answer and counting its points: `judge/utils/quiz_scoring.py` |
| `QuizGame.tla` | a live quiz game: `judge/utils/quiz_game.py` and the requests that call it |
| `Runner.tla` | the code runner: `runner/server.py`, the child of `runner/runner_session.py` |
| `ContestFormats.tla` | `update_participation` of the six formats: `judge/contest_format/*.py` |
| `Contest.tla` | participations: joining, judging, recomputing, disqualifying |
| `ContestPublication.tla` | Contest with the command that publishes problems, and what changes under it |
| `MCJudgeList.tla`, `MCBridge.tla`, `MCQuizGame.tla`, `MCRunner.tla`, `MCContest.tla` | the small instances for TLC |
| `JudgeList_*.cfg`, `Bridge_*.cfg`, `QuizGame.cfg`, `Runner.cfg`, `Contest.cfg` | one run each |
| `JudgeListProofs.tla` | theorems about the dispatcher: no submission lost or doubled, its books, its reserve, idle judges, the order of the queue |
| `JudgeListRefinement.tla` | the proof that JudgeList implements Dispatch |
| `BridgeProofs.tla` | theorems about the bridge: it contains the dispatcher, and forgets no row |
| `Sums.tla` | lemmas on the sum, the greatest and the least of finite sets, by an induction over sets |
| `QuizProofs.tla` | theorems about a live quiz game |
| `RunnerProofs.tla` | theorems about the code runner |
| `ContestProofs.tla` | theorems about contests and their publication |
| `ContestScores.tla` | theorems about scores: each format computes what its rules say, and what is stored is current |
| `PROJECT.json` | components, runs, mutants, the map from definitions to source lines, findings, hazards, theorems |

## 1. Inventory

For each part: the state it keeps (S), its operations (O), whom it talks to (I),
what is hard about it (H) and what makes it correct (C).

**Dispatcher** (`judge/bridge/judge_list.py`, `judge/judge_priority.py`).
S: a linked list with one marker per priority 0..3, `node_map`, the set
`judges`, `submission_map`, the cached `min_tier`; `_working`, `is_disabled`,
`problems` of each handler.  O: `register`, `remove`, `disconnect`,
`update_problems`, `update_disable_judge`, `on_judge_free`, `abort`, `judge`,
and the helpers `_handle_free_judge`, `_update_min_tier`.  I: called by a thread
per connection, all under one reentrant lock; calls `JudgeHandler.submit`, which
reads the database and may raise.  H: priorities, the reserve for new
submissions and tiers interact; a dispatch that fails halfway; two places that
read shared state outside the lock.  C: no submission lost, duplicated, at two
judges or overtaken; no judge idle over work it may take; maps in agreement.

**Judge connections** (`judge/bridge/judge_handler.py`, `base_handler.py`,
`server.py`).  S: the handler's fields, batch bookkeeping, the socket.  O: the
handshake, `submit`, `abort`, one `on_*` method per packet, `on_disconnect`, the
ping thread.  I: dispatcher, rows of `Submission`, `SubmissionTestCase`,
`Judge`, `RuntimeVersion`, the event poster.  H: `_free_self` runs before the
result is stored; the internal error of a lost judge is written after the lock
is released; an exception inside a handler drops the rest of it.  C: a final
status is the one of the last grading; its score counts all cases.

**Requests of the site** (`judge/bridge/django_handler.py`, `judge/judgeapi.py`).
S: none of its own.  O: submission-request, terminate-submission,
disconnect-judge, disable-judge.  I: one connection per request, answered.
H: the web worker updates rows before and after the request in separate
statements.  C: no row is left unfinished with nobody to finish it.

**Daemon** (`judge/bridge/daemon.py`).  S: the rows.  O: at the start it resets
unfinished submissions and queues them, then listens.  H: a crash at any point.
C: after the boot every unfinished submission is queued.

**Submissions on the site** (`judge/models/submission.py`,
`judge/views/submission.py`, `judge/views/problem.py`, `judge/tasks/submission.py`).
O: submit, rejudge, batch rejudge, abort, rescore, lock.  H: limits counted
before the row is made; rescoring beside a grading.  C: limits hold; points
agree with cases.

**Judge rows** (`judge/models/runtime.py`, `judge/admin/runtime.py`): online,
blocked, disabled, tier.  H: the row and the bridge's cached copy drift.

**Live quiz game** (`judge/utils/quiz_game.py`, `judge/views/quiz.py`,
`judge/models/quiz.py`).  S: rows of games, players and answers, and in the
cache a versioned state, counters, per-player marks, a lock that expires.
O: create, join, rejoin, start, open, answer, close, reveal, next, finish, kick;
any poll may advance a step that is due.  H: the lock may expire while held and
is deleted without a look at its owner, claims that time out, counters beside
lost cache keys.  C: phases only go forward, a question closes once, a player
scores once, totals are the sums of answers.

**Quiz scoring** (`judge/utils/quiz_scoring.py`): pure functions.  C: bounds,
monotonicity in time left, streak rules.

**Quiz editor and import** (`judge/views/quiz_editor.py`, `judge/utils/quiz_*.py`):
forms, spreadsheets and images; no protocol.

**Code runner** (`runner/*.py`).  S: semaphores for compile and run, a session
table, per-user counts, a rate limiter.  O: run, session start, poll, input,
stop, reap.  H: several limits taken in turn and given back on each early
return; a reaper racing a poll.  C: counts return to zero; limits are never
exceeded; a session ends once.

**Contests and participation** (`judge/models/contest.py`,
`judge/views/contests.py`, `judge/views/contest_tools.py`).  O: join live or
virtually, leave, spectate, extend, disqualify.  H: two joins at once; an
extension beside another.  C: one live participation per user, windows end when
they should.

**Contest formats** (`judge/contest_format/*.py`): pure scoring of a
participation, one class per format.  C: each against its reference definition.

**Anticheat** (`judge/views/anticheat.py`): counts warnings, disqualifies past
the limit.  **Contest publication** (`judge/utils/contest_publication.py`):
publishes problems once every contest that uses them has ended.  **Ratings**
(`judge/ratings.py`, `judge/performance_points.py`): floating point.
**Ranker** (`judge/utils/ranker.py`): ties in a ranking.

**Others**, with little logic of their own: problems and problem data, event
daemon and posters, caching and database locks, comments and votes, tickets,
profiles and organizations, typing trainer and workspace, API and feeds,
middleware and signals, content and translations.

How they interact: web workers -> bridge by one request per connection; bridge
<-> judges by a packet stream per judge; bridge, web workers and Celery tasks
share the rows; the quiz game shares the cache; the event posters are told of
every change and change nothing.

## 2. Plan

In the order of importance.

1. `JudgeList`: the dispatcher, every operation, with proofs. **done**
2. `Bridge` (EXTENDS JudgeList): rows, workers, packets, crash. **done**
3. `Dispatch`: the dispatcher in the abstract, and `JudgeList` shown to implement
   it, by TLC and by a proof. **done**
4. `QuizGame` and `QuizScoring`: phases, the expiring lock, claims, answers and
   counters, a lost cache. **done**
5. `Runner`: gates, pools, limits per user, sessions, the reaper. **done**
6. `Contest` and `ContestPublication`: joins, verdicts, disqualification,
   anticheat, extension, publication. **done**
7. `ContestFormats` against the rules as a reference. **done**

8. The theorems of section 6. **done**: every safety property of the passing runs.

## 3. The models

### JudgeList

*State.*  `queue[p]` is the part of the linked list in front of the marker of
priority p; `Queued` is membership of `node_map` (each node is in both, always
changed together).  `submission_map`, `judges`, `min_tier` are the fields of
that name; `working`, `is_disabled`, `problems`, one field of each handler.
`stage` says where a handler's thread is, `closed` which sockets the bridge has
shut, `held` what a judge has really been sent and not yet answered -- not a
variable of the program but the fact its bookkeeping is about.

*Atomicity.*  The lock is reentrant and each public method holds it
throughout, so a method is one action.  The exceptions are the three that call
`_update_min_tier`: its loop may do one dispatch per judge of the new tier, and
then `register` or `remove` may do another.  These hold the lock over several
actions: `holder` records the operation, `Sweep` is a turn of the loop, `Finish`
what follows.  No other locked action runs in between (`LockFree`), but the
unlocked ones may.

*Dispatch.*  `HandleFree(c, m, w, h)` is `_handle_free_judge`; the arguments are
the maps as its caller has left them.  It takes the first `Eligible` node of the
walk, hands it over by `Submit`, and removes the node only if `submit()` has not
raised.  The outcomes are `"ok"`, `"fetch"` (it raised before `_working` was set,
reading the submission) and `"send"` (after, writing to the socket); the last
occurs by itself when the connection is already shut.

*Hazards as a parameter.*  `Env` lists which events of the environment may
occur.  Each property names, through `Without`, the events that break it; all
others are checked.  So `OneAtATime`, which a raising dispatch does break (see
section 5), says exactly under what it holds.

Actions and code: `Register` (handshake, `register`), `Remove` (`on_disconnect`,
`remove`), `RemoveStranger` (the same for a connection that never
authenticated), `Disconnect`, `UpdateDisable`, `OnJudgeFree`, `Abort`, `Judge`,
`Connected` (`_connected`, after `register` has returned), `SupportedProblems`
and `UpdateProblems` (the two halves of `on_supported_problems`), `Close`,
`Restart`.

Abstracted: `(problem, language)` is a kind; the load that breaks ties between
free judges is a free choice; the names of executors and the text of packets do
not occur.

### Bridge

`Bridge` EXTENDS `JudgeList` and adds the status of each row, the number of its
test cases and the score stored with it; what each web worker is doing
(`site`); how far the judge that has a submission is (`phase`, `graded`,
`told`: external, modelled from the packets the handler expects); what a
handler's thread still has to do for a packet after the dispatcher has been
called (`todo`), and for a lost judge (`gone`); the state of the process and the
daemon's list (`bridge`, `pending`).

`judge_submission` is `StartJudge`, `SiteUpdate`, `SiteDelete`, `SiteRequest`:
the exclude-and-update, the delete of the old cases and the request are three
steps as they are three statements.  `abort_submission` is `StartAbort`,
`SiteTerminate`, `SiteMark`.  Packets: `Ack`, `Begin`, `TestCase`,
`GradingEnd`, `CompileError`, `InternalError`, `Terminated`; the last four call
`OnJudgeFree` first (`Ends`), and the rows follow in `ReadCases` and `Store`.
When `on_judge_free` raises, `on_packet` drops the rest, and so does `Ends`.
`Leave` and `LeaveMark` are the two halves of `on_disconnect`.  `Crash`, `Boot`,
`BootJudge`, `Listen` are the process.

`SiteEnv` plays the part of `Env`: `"eager"` rejudges a submission somebody is
busy with, `"abort"` aborts, `"killed"` kills workers.  The code that rejudges looks
at the status of the row and not at who is busy (tasks/submission.py:13-24,
judgeapi.py:79): a rejudge of a row that is QU, or has its final status while a
handler still has to do with it, is in the model with `"eager"` only (`Unattended`).

### Dispatch

A submission is out, waiting, or with one judge; the steps are asking, handing,
answering (a judge that answers may be given the next in the same step),
withdrawing, and forgetting everything.  `WhereIs` reads the place of a
submission off `submission_map` and the queue.  Queues, priorities, tiers,
reserves and sweeps disappear, so the refinement says that none of them ever
gives a busy judge a second submission, takes one from a judge that has not
answered, or leaves one in two places.

### QuizGame and QuizScoring

No process runs a game: each request is served by some worker, and the first one
that finds a timer run out moves the game on.  *State*: the database (`status`,
`current`, `joined`, `player`, `answers`) and the cache (`st` is `qz:s`; `np`,
`na`, `ns` the counters; `marks` the sets `qz:a`, `qz:seen`, `qz:x`; `me`, `due`,
`lock`), each key with its own fate; `job[p]` is what the request of the phone or
screen p has still to do.

*Phase change*: `Enter` (inside `Move` or `Press`) is the making of the lock, the
reading of the state afresh and the decision (`Stale`, `Change`), with the rows it
computes from; `Commit` the transaction; `Save` the new state in the cache and
the deletion of the lock.  `GiveUp` is a worker that does not get the lock.
*Answer*: `Answer` makes the mark, `Store` the row with its points, `Count` the
counter, `Check` asks whether everyone has answered.  As in `submit_answer`, nothing
asks whether the phone has received the question.  *Polls*: `Poll` claims a
step that is due, `Fetch` is a phone that receives the question.  *Others*:
`Join`/`Joined` (count, then row or give back), `Kick`, `Pause`, `Tick` (time),
`ClaimExpires`, `LockExpires`, `Killed`, `Lost`, and the statements of `get_state`
for a lost state: `Rebuild` reads the database, `Rebuilt` sets the state, `Lookup`
finds the count of players lost, `Recount` counts the rows, `Refill` sets the count.
From `Rebuilt` on the others find a state and go on, beside the last three.

`game.env` names what may happen in a game, as `Env` does for the dispatcher.

Time is a phase of the question (`Later`): before the answers open, within
`SEEN_WINDOW`, after it, past the end.  Texts are values `normalize_text` has
made comparable; a fraction is a pair of integers and `Round` Python's rounding
to even, so points are computed exactly as in the code.

### Runner

Each request is a thread; `pc[r]` is its next step, those of its `finally`
clauses included (`Exit`, `Release`, `End`), so that every early return has to
find its way through them.  A run: `Begin`, `Limit`, `Enter`, `Choose`, `Submit`,
then `Finish`, `Break`, `TimeOut`, `Replace`, `Leave`.  A terminal: `Gate`,
`Dequeue`, `GateTimeOut`, `Fork`, `Ungate`, `Join`.  Its child compiles and runs
(`Started`, `Ended`, or it dies).  A terminal over HTTP is a `PollSession`, with a
pump thread, the socket pair (`inner`, `wire`), a browser (`web`) and the reaper,
which takes `poll_lock`.  A pool is a number, with its jobs and whether it is
broken.  Times are events that may happen: a scene's `env` says which.

### Contest, ContestFormats and ContestPublication

`Contest` holds the rows of contests, participations, users and submissions, and
what is under way: a join (`JoinContest` reads the contest, `Enter` saves it and
sets the current participation, `UpdateUserCount`), a grading (`GradingEnd`
stores the verdict with the row of the problem in hand, `UpdateContest` saves that
row and the points, then an actor recomputes: `Load`, `Read`, `Save`), a rejudge,
a failed grading, a disqualification
(`Toggle` by an editor, `Report` by the page after too many warnings; `Expel`,
`Ban`).  A participation is loaded, read and saved in steps since nothing locks
it.  `ContestFormats` translates each `update_participation` and the SQL in it;
`Result` gives the worst score to one who is disqualified.

A user has one join at a time, and its number, its row and the profile are one step
(`Enter`, contests.py:410-453): the loop that tries another number when the unique
key refuses one does not occur.

`ContestPublication` adds the command (`PublishStart` reads the clock and the
contests that are due; then, for each, `ReadBlocked` takes the locks and reads which
problems another contest needs, and `Publish` writes and commits) and what changes
under it: `Extend`, `SaveProblem`/`SaveCommit` (the signal and the commit of a
transaction that adds a row of ContestProblem, or saves one that is there), `Hide`.
It EXTENDS `Contest` because a join writes the whole row of the contest back.  The
transaction locks the row of its contest and those of its problems, so between
`ReadBlocked` and `Publish` (`Locked`) nobody else can write those.  Steps that touch
none of what it reads or writes commute with it and are taken before or after.  The
rows of the other contests it reads without a lock, and there the order matters:
`Extend` of another contest may fall between, in the scenes of `"late_extend"`.

## 4. The runs

| run | instance | properties | result |
|---|---|---|---|
| `dispatch` | 3 judges (two of tier 1, one of tier 2), 3 submissions, 2 kinds, priorities 0-3, a request for a named judge; judges leave | `OneAtATime` `WorkConserving` `NoOvertaking` `KeepsAReserve` `ImplementsDispatch` | hold, 250 000 states |
| `hazards` | 2 judges, 2 submissions; every way a dispatch raises, stale checks, late flags, close, leave, restart | `TypeOK` `QueuedOnce` `NoLoss` | hold, 542 000 states up to symmetry |
| `served` | 2 judges of different tiers, 3 submissions; leave, disable; fair | `NoDoubleGrading` `MinTierCurrent` `ContestServed` | hold, 17 000 states |
| `life` | 1 submission, 2 judges, 2 workers; leave, restart, abort | `BTypeOK` `NobodyIsForgotten` | hold, 212 000 states |
| `final` | 2 submissions, 2 judges, 2 workers that may die; leave | `ResultComplete` `FinalUntilRejudge` | hold, 55 000 states |
| `ends` | 2 submissions, 1 judge, 1 worker; leave, close, abort; fair | `EverySubmissionEnds` | holds, 39 000 states |
| `quiz` | 11 games of 1 or 2 phones and 1 to 3 questions, in the three modes; each fault in a game of its own; fair | `TypeOK` `ScoreIsItsAnswers` `BonusIsEarned` `PointsAreFair` `CacheIsCurrent` `NeverOverfull` `NobodyIsLockedOut` `NeverBack` `NoEarlyClose` `TimersMoveTheGame` | hold, 253 000 states |
| `runner` | 10 servers of 1 or 2 workers with 2 or 3 requests; each fault in a server of its own; fair | `TypeOK` `NothingLeaks` `NoOrphanPool` `OneRunPerUser` `GateHolds` `ToldHasAll` `EveryRequestEnds` `SessionsAreReaped` | hold, 108 000 states |
| `contest` | 28 contests or pairs of contests: the six formats with up to 3 submissions, up to 2 users, personal limits, virtual participations, shared problems; fair | `TypeOK` `ScoreIsCurrent` `SentenceIsWhole` `NoEarlyPublication` `WithdrawnStaysOut` `EverythingIsPublished` | hold, 379 000 states |
| `same_name` | 2 connections of one name | `SameNameDisconnected` | violated |
| `rejudge` | 1 of each, eager rejudges | `RejudgeIsHarmless` | violated |
| `silent` | 1 of each, judges that may not acknowledge; fair | `Acknowledged` | violated |

In `hazards` the two judges are interchangeable (`Alike`): they are of one tier,
and nothing but requests for a named judge and the flags, which do not occur
there, tells their names apart.  `quiz`, `runner` and `contest` check several
instances in one run: the variable `game` or `scene` is chosen in the initial
state and never changed, so the behaviours of the instances are disjoint, and a
property that excludes an event (`Without`) is checked in full in all instances
that do not have it.

*Why the bounds are enough.*  Three judges in two tiers are the least in which
there is a reserve (two judges of the current tier) and a tier change that wakes
somebody; three submissions are the least in which one waits behind another
while a third is being graded.  Two kinds make a judge skip a node.  The
requests give one submission two priorities and a named judge, so a rejudge may
arrive while its submission is queued or at a judge.  In `Bridge` one
submission with two judges and two workers is enough for every pair of steps
about the same row; `final` adds a second submission, since a stale `todo` or
`_working` must belong to another one.  One test case tells a complete result
from an incomplete one.  There are no counters in either, and the queue is as
long as the submissions allow.

In `QuizGame` two phones and the host's screen are the least in which a poll, a
button and a last answer want the same close, and the least in which one answers
what it has not received while another has and owes; a game of one place shows two
phones that join at once, also after a lost count (`Refilled`) and while it is made
anew (`Refilled2`), and one of three questions a streak that goes on over a poll.  `MaxEvents` is the number of pauses, deaths, losses and slow changes in a
game: one is enough for each to fall between any two steps.  In `Runner` three
requests give a server of one worker one that is served, one that waits and one
too many; two workers show the choice between pools; `max_events` bounds the
faults of a scene, `connections`, `queue` and the other fields are the limits of
the code made small.  In `Contest` the clock stops at `max_time`, a tick after
the last end a scene is about; `max_subs`, `max_virtual` and `max_events` bound
submissions, virtual participations and the acts of people.  Three submissions to
one problem are the least that have a best one with tries before and after it;
two contests the least that share a problem.  In `Overtaken` one of them is extended
inside the transaction of the other; in `Edited` and `Resaved` rows of hidden problems
are saved again, before and while the command runs; `StaleAdd` and `StaleEnd` have a
join that writes an old row back over an added problem or an extension.

*What the properties say.*  `QueuedOnce`, `NoDoubleGrading`, `OneAtATime`: one
submission, one place.  `NoLoss`: a node leaves the queue only into a judge's
hands, by its own abort, or with the process.  `MinTierCurrent`: the cache of
the smallest tier.  `WorkConserving`: no judge of the tier idles beside work it
could take.  `NoOvertaking`: contest and ordinary submissions are handed out in
order, also when `judge()` bypasses the queue.  `KeepsAReserve`: neither a rejudge
that has waited nor one that comes and that each judge of the tier could take is
handed to the last free judge of a tier of several.  `ContestServed`: a waiting
contest submission is handed out when one judge of the tier that can take it
stays.  `NobodyIsForgotten`: an unfinished row is always in somebody's hands.
`ResultComplete`: a stored result counts every case.  `FinalUntilRejudge`: a
late packet does not overwrite a final status.  `EverySubmissionEnds`: progress,
under the events it survives.
`ImplementsDispatch`: every step is one of `Dispatch` or none.

*Quiz.*  `ScoreIsItsAnswers`: a score is the sum of the stored answers to the
questions that were closed, each counted once, whoever closed them.
`BonusIsEarned`: the streak an answer takes from the cache is the one the
database tells.  `PointsAreFair`: an answer earns no more than its share, to
half a point of rounding, and a right one at least half of a full one.  `CacheIsCurrent`: with the lock free, what everybody polls
is what is stored.  `NeverBack`: phases and versions only grow.  `NoEarlyClose`:
within `SEEN_WINDOW` the last answer closes a question only when everyone in the game
has answered, and after it only when each answer that is owed by somebody who has the
question is matched by one of somebody who has not -- the two counters the code
compares cannot tell more.  `NeverOverfull`: the limit of players, also after their
count was lost, unless players come or go while it is made anew.  `NobodyIsLockedOut`: an answer is refused
as given only if it is.  `TimersMoveTheGame`: a step that is due is taken in the
end, whoever dies after claiming it.

*Runner.*  `NothingLeaks`: each counter is the number of its holders, at every
step of every early return.  `NoOrphanPool`: of all pools only those in use are
not broken, so two that see a pool break do not make two.  `OneRunPerUser` and
`GateHolds`: what really runs at once, not what is counted.  `ToldHasAll`: a
browser that is told the session is over has its last message.
`EveryRequestEnds`, `SessionsAreReaped`: progress.

*Contest.*  `ScoreIsCurrent`: at rest a score is the one the rules (`Standing`,
written from the formats' descriptions and not from their code) give, in an ECOO
contest with a time bonus as long as nobody moves its end.
`SentenceIsWhole`: banned exactly if disqualified, and out of the contest.
`NoEarlyPublication`: no problem comes into the archive before the last announced end
of its contests, unless another contest is extended inside the transaction.  `WithdrawnStaysOut`: what an administrator hides after its contests were
marked stays hidden, until a saved row of ContestProblem takes a mark away, by the
signal's own rule; a row that is saved and takes none changes nothing.
`EverythingIsPublished`: each problem reaches the archive, also one that was added
late, except when a join under way may write the mark back that the added row has
taken away.

*Fairness.*  Weak for the threads that hold the lock or run without it: they
are ordinary threads and only wait for the lock.  Weak for the daemon, which
the process manager restarts, and for each packet of a judge that is connected,
since an external judge that has accepted a request goes on grading it.  Strong
for the answer that frees a judge, for the removal of a connection that has
been shut and for a web worker's request: each is repeatedly disabled while
another operation holds the lock or the bridge restarts, but it waits in a
socket, and the lock is handed out in some order.  `BSilentSpec` drops the
fairness of the acknowledgement only, to ask what the bridge does about a judge
that does not send it.  No fairness is assumed of connecting, submitting,
aborting, disabling or closing.

In the quiz, weak for the steps of a worker that has begun a request, for polls of
somebody, for time and for keys that expire; strong for a worker that tries to
make the lock (`Move`), which it does again and again for two seconds.  In the
runner, weak for going on as a whole (`Going`): when some thread, child or
browser can take a step that is no event of `env`, one of them does; each has
finitely many, so this is enough.  For contests, weak for the clock, for the steps of a join that has
begun, for a transaction that has to be committed, for a verdict that is being
written, and for the command: a timer
starts it every minute (`scripts/systemd/olymp-publish-problems.timer`) and also
after the machine has been off.  Nobody has to press a button, answer, join or
submit.

*Deadlock* is checked in the runs of `JudgeList` and `Bridge`: a judge may always
connect or change its problems, or the daemon goes on.  It is not in `quiz`,
`runner` and `contest`, which may really stop: a game is over, all requests have
come and gone, the clock has reached its bound.  What must not stop there is the
subject of the liveness properties.

## 5. Known disagreements

Three are runs that find the property violated:

- `same_name`: `register()` passes the handler object to `disconnect()`, which
  compares it with names (judge_list.py:96, 104); nobody is disconnected,
  although the comment above says so.
- `rejudge`: the delete of old cases is not ordered with the grading that may
  have begun meanwhile (judgeapi.py:79), although the comment at judgeapi.py:74
  says that no data is corrupted.
- `silent`: the timer of `_kill_if_no_response` is created and never started
  (judge_handler.py:237).

Others were met while modelling; the properties exclude the event that leads to
them, and no run is spent on them:

- *Re-enabling*: `_update_min_tier` compares with the old minimum only if there
  was one (judge_list.py:70-71), so enabling the only judge wakes nobody:
  disable, submit, enable leaves a submission waiting beside an idle judge
  (`WorkConserving` excludes `"enable"`).
- *No enabled judge*: with `min_tier` None the comparison in
  `_handle_free_judge` raises (judge_list.py:32), inside `on_judge_free` and so
  before the result is stored: a submission whose only judge is disabled while
  it grades stays in progress (`NobodyIsForgotten` excludes `"disable"`).
- *The retry*: after a failed dispatch `judge()` calls itself, finds the entry it
  has just made in `submission_map` and ignores the submission (judge_list.py:193).
- *The entry of another*: a dispatch to a judge whose connection was just shut leaves
  its `_working` set and the submission in the queue.  Another judge gets it; then
  the first disconnects, and `remove()` deletes the entry, which is the other's by
  then (judge_list.py:123), and the submission is failed (judge_handler.py:96).  When
  the other answers, `on_judge_free` raises at the missing entry (judge_list.py:143):
  the result is dropped, the submission stays in progress and that judge busy until
  it disconnects.  TLC finds this in 23 states when the run `ends` is given a second
  judge; `EverySubmissionEnds` therefore allows closings with one judge only.
- *Two reserves*: `judge()` counts the judges that can take the submission
  (judge_list.py:180), `should_reserve_judge()` all of the tier
  (judge_list.py:85-91).  A rejudge for which only some judges of the tier count may
  take the last free one; `KeepsAReserve` is about requests that each of them could
  take, and about every rejudge that has waited.
- *The abort*: `abort_submission` refuses a graded submission by the object the
  view has loaded, and marks the row it finds later (judgeapi.py:113, 121); an
  answer without `judge-aborted` counts as an abort by the judge
  (judgeapi.py:118-120).  `FinalUntilRejudge` is therefore checked without `"abort"`.
- *A killed worker* between the update and the request leaves a row in the
  queue of nobody until the bridge restarts (`NobodyIsForgotten` excludes `"killed"`).

*Quiz* (the event that each property excludes is in brackets):

- A worker that dies between the commit of `close_question` and the save of the
  state: the next poll closes the question again and adds points and streaks a
  second time (`"killed"`); one that dies after opening leaves the database one
  question ahead of the cache.
- A lock that expires under a slow close is deleted by whoever held it, so two
  are inside (`"slow"`, quiz_game.py:219); a late opening sets the counters of a
  question back while answers come in, and the question closes early.
- A cache that is lost loses the lock as well, and a state rebuilt from an old
  reading may overwrite a newer one (`"flush"`, quiz_game.py:159); removed
  players are let in again and streaks earn no bonus (`"reset"`).
- An answer that is stored after the close has read the answers, or taken before
  the new state is saved, is never counted (`"late"`, quiz_game.py:733).
- A player may answer a question no poll has brought to his phone: `submit_answer`
  does not ask for the mark `qz:seen` and counts the time from the start
  (quiz_game.py:753; test_quiz.py:308-325 does so and gets 200).  Such an answer
  stands for one of those who have the question: with two phones it closes the
  question while the only one who has received it has not answered.
  `NoEarlyClose` says how far this goes: never within `SEEN_WINDOW`, and never more
  answers owed than given unseen.
- `get_state` looks whether the count of players is lost, counts the rows and sets the
  count in three statements (quiz_game.py:165-166).  A player who joins between
  the last two is lost from the count, and the game takes one more than its limit;
  TLC finds this in 11 states (`"refill_race"`).
- Removing a player while an answer is being counted may take an answer out of
  the count that was not in it yet, and the question closes early (`"kick_race"`).
- The mark `qz:a` is made before the row: a worker that dies between them locks
  the player out (`"killed"`, quiz_game.py:751).

*Runner*:

- A run that takes more than 90 seconds frees its user and goes on, so a user may
  have two programs running (`"slow"`, server.py:114); a compiler of more than 60
  leaves the gate while it works (`"slow_compile"`, server.py:249-253).
- `poll/start` writes the whole start message into a socket pair before anybody
  reads from it and while it holds `poll_lock` (server.py:284, 556-560); a
  message the server accepts may be larger than the buffer, and then all polling
  and the reaper wait.  Sizes are not modelled; this was read off the code.
- The reaper sends its message under `poll_lock` and waits for a child that does
  not read, until the child is killed (server.py:342, 354); `SessionsAreReaped`
  holds because of that last resort.  Children hold copies of the inner sockets
  of other sessions (server.py:246, 293).
- A thread that cannot be started keeps its slot (server.py:375), and
  `Limiter.history` never gets shorter than its users: neither is modelled.

*Contests*:

- A rejudge that ends in CE, IE or AB neither clears the points of the contest
  submission nor recomputes (judge_handler.py:442, 474, 488): the standing stays
  as it was (`Unseen` says in which formats that shows), and in ICPC the next
  recomputation may count a negative number of tries and fail (`"spoilt"`).
- Two recomputations of one participation save each other's fields: an old score,
  or a disqualification undone or redone (`"overlap"`, contest.py:550).
- A join that is under way across a disqualification ends in the contest though
  its user is banned (`"late_join"`, contests.py:401, 452); pardoning one of two
  disqualified participations unbans (`"several"`, contest.py:570).
- A join saves the whole row of the contest as it has read it
  (contest.py:355-357): it undoes an extension, so that problems are published
  before the announced end, and takes the mark away, so that a problem that was
  withdrawn comes back, which test_contest_publication.py:66-71 rules out
  (`"stale"`).  It may also write back a mark that an added problem has just taken
  away, and that problem is then never published (`EverythingIsPublished` leaves
  added problems out where `"stale"` may happen).
- The signal of ContestProblem takes the mark away when a row is added and also when
  an existing one is saved whose problem is not in the archive (signals.py:94-98).
  So an editor who changes the points of a withdrawn problem brings it back with the
  next run of the command, and with it every other withdrawn problem of that contest.
  A contest that waits for another stays unmarked with the same effect.
  `WithdrawnStaysOut` is about problems hidden after all contests were marked, and
  until a mark goes (`Reopened`).
- The command reads the ends of other contests without a lock
  (contest_publication.py:25-27): one that is extended, or moved into the future,
  between this reading and the commit has its shared problem published before the end
  it has just announced (`"late_extend"`).
- A verdict reads the row of the problem and saves all of it after the counts
  (judge_handler.py:393-420, problem.py:408-417): a publication that falls between,
  when the last submissions of a contest are being judged, is undone and never
  repeated, since the contest has its mark; a problem hidden in between comes back
  (`"stats"`), before the end of its contest when that was moved or the problem is
  also in a later one (`Republishing`).
- A problem added in a transaction that is open while the command publishes is
  never published (`"late_add"`, signals.py:90-98).
- Moving the end of a contest recomputes nobody (contest_tools.py:123; the form of an
  administrator does so for a change of the format or of what is edited beside the
  contest, admin/contest.py:205, 215).  The bonus of ECOO counts "before the end of
  your window" (contest_format/ecoo.py:142): stored scores stay those of the old end,
  and those of users who are judged later are of the new (`BonusMoves`).
- Two extensions at once lose one (contest_tools.py:119), and the limit of
  submissions is counted before the row is made (views/problem.py:734, 750): both
  are one action here.

## 6. What is proved

*For which instances.*  The proofs hold for all values of the constants that
satisfy the named assumptions of the modules; TLC evaluates each of them in some run.

- `ConstantsAssumption`, `TierAssumption` (`JudgeList`): the constants have their
  types, None is no member of them, a connection is no name; tiers are natural
  numbers and a nonempty set of judges has one of the least tier (a fact of the
  numbers when judges are finitely many, which `min()` relies on).  Sub, Conn,
  Kind, Requests and Env are otherwise arbitrary and need not be finite.
- `PlacesAssumption` (`JudgeListImplementsDispatch`): the two places that are no
  judges are no connections.
- `SiteAssumption` (`Bridge`): what the daemon may ask for at a boot
  (`Recovered`) is one of the requests there are; the number of cases is natural.
- `SceneAssumption`, `RunnerAssumption` (`Runner`): limits are natural numbers, the
  requests a finite set.
- `GamesAssumption`, `NoneAssumption`, `PlayersAssumption` (`QuizGame`): what a game
  is -- its mode, limit, questions (`IsKey`) and the answers that fit them --, that
  None is none of the values it stands beside, and that the phones are finitely many.
- `ContestsAssumption`, `SceneAssumption` (`Contest`): the same for contests; the
  users of a scene are finitely many.  The theorems of `ContestProofs` and
  `ContestScores` also suppose `NoneIsNothing`: None is no number, no verdict and no
  row.  That is true of Python, and of TLC's model values, which cannot be compared
  with a row that is no record, so it is a premise there and not an ASSUME.

| module | theorems, each with the property it states for all instances |
|---|---|
| `JudgeListProofs` | `TypeCorrect` (`TypeOK`), `OneNode` (`QueuedOnce`), `OneJudge` (`NoDoubleGrading`), `NoneLost` (`NoLoss`), `TierIsCurrent` (`MinTierCurrent`), `BooksAgree` (`OneAtATime`), `ReserveIsKept` (`KeepsAReserve`), `JudgesAreBusy` (`WorkConserving`), `NobodyIsOvertaken` (`NoOvertaking`) |
| `JudgeListRefinement` | `Refinement` (`ImplementsDispatch`) |
| `BridgeProofs` | `BTypeCorrect` (`BTypeOK`), `DispatcherInBridge` (`BSpec => Spec`), `PromisesInBridge` (the eight properties of the dispatcher under `BSpec`), `NoneForgotten` (`NobodyIsForgotten`), `ScoreCountsAll` (`ResultComplete`), `VerdictStays` (`FinalUntilRejudge`) |
| `RunnerProofs` | `TypeCorrect` (`TypeOK`), `NothingIsLeaked` (`NothingLeaks`), `NoPoolIsOrphaned` (`NoOrphanPool`), `OneRun` (`OneRunPerUser`), `GateIsKept` (`GateHolds`), `ToldAll` (`ToldHasAll`) |
| `QuizProofs` | `TypeCorrect` (`TypeOK`), `PointsAreAlwaysFair` (`PointsAreFair`), `CacheAgrees` (`CacheIsCurrent`), `NothingGoesBack` (`NeverBack`), `NobodyLockedOut` (`NobodyIsLockedOut`), `NeverTooMany` (`NeverOverfull`), `NothingClosesEarly` (`NoEarlyClose`), `BonusesAreEarned` (`BonusIsEarned`), `ScoresAddUp` (`ScoreIsItsAnswers`) |
| `ContestProofs` | `SentencesHold` (`SentenceIsWhole`), `NothingIsEarly` (`NoEarlyPublication`), `NothingComesBack` (`WithdrawnStaysOut`) |
| `ContestScores` | `TypeCorrect` (`TypeOK` of contests and publication), `ScoresAreCurrent` (`ScoreIsCurrent`) |

Each rests on an inductive invariant that TLC had checked on an instance of a run
before it was proved.  Every invariant is a conjunction of parts, each under the
events it survives, and there is a lemma per action and part.

**Dispatcher.**  *`IInv`.*  `NoDoubleGrading` is not inductive: it says nothing of a
judge about to be handed a submission another one has.  `Owned` does: what a judge
works on it holds, and what it holds has its entry and no node.  Then the two tests
at the top of `judge()` are enough for a request, and the absence of an entry for a
queued submission is enough for a dispatch from the queue.  `Owned` survives a
dispatch that fails before the request is sent; it does not survive one that fails
after, hence `Without(LateRaising)`.

*`BookInv`.*  When no dispatch raises, `judges` changes only in `register` and
`remove`, so the cached minimum follows it (`TierInv`).  `OneAtATime` needs more
than itself (`Exact`): that a judge that is served is free.  For the turns of the
sweep and for the last judge left the code tests it; for the new judge of
`register` it follows from `RegisterSweepsNobody` -- a judge more cannot raise the
minimum, so nothing has been handed out since it was added -- and for
`update_problems` from the check of `on_supported_problems`, as long as nothing
falls between (`Threads`).

*`WorkInv`.*  `WorkConserving` speaks of the moments at which the lock is free; in
between, a judge may be idle beside its work because somebody is about to serve it.
`Owed` says who: its own thread, the sweep, or the end of its `register()`; `Busy` is
`WorkConserving` for everybody who is owed nothing.  A judge that enters the tier
because others left or were disabled is in the sweep (`TierShrinks`); a tier of one
judge arises by `remove()`, which serves it at its end, or by disabling, hence
`Without({"disable"})`.  Walks of the queue end in `ServedJudge`: either the judge
works, or nothing in the queue was for it.  `NoOvertaking` follows in the same
states: the walk hands out the first node the judge may be given (`Handing`,
`WalkHands`), and when `judge()` hands out a request directly, `Busy` says that
nothing was waiting for that judge.  `KeepsAReserve` needs no more than `QueuedOnce`
and that the judges are finitely many, so it holds whatever happens.

*Refinement.*  Under `BookInv` the place of a submission is what `_working` says
(`PlacesByTheBooks`), so that each action is one step of `Dispatch` or none
(`StepsAreSteps`).

**Bridge.**  `BTypeInv` adds that a judge in the middle of a grading has reported all
the rows there are: otherwise the rows of a case could exceed the cases.
`DispatcherInBridge` needs nothing else.  `AttInv` (for `NobodyIsForgotten`): an
unfinished row is pending at the boot, queued, held by a judge or its handler, or
in the hands of a worker that will settle it (`WillSettle` -- one that only
terminates may go away and does not count), and an empty list of the daemon once it
listens.  `FinalInv` (for the other two): without restarts and eager rejudges a
submission has one owner at a time among the dispatcher, the handlers and the
workers (`OneOwner`); the rows are those the owner has reported (`Rows`) and the sum
being written counts them all (`Sums`).

**Runner.**  `Counted` says of each counter of whom it is the number (`HasBusy`,
`HasSession`, `HasGate`, `HasUser`, `HasWorker`, `HasSlot`), at every step of every
early return; `CountStep` is the lemma on cardinalities that each step cites.
`OneRunPerUser` needs that a job in a pool belongs to a thread that waits for it
(`Jobs`), and `ToldHasAll` that the pump, which ends behind the last message, has
all of it (`LastMessage`) and that a session leaves the table only after that
(`Table`).

**Quiz.**  `Shapes` is what each value looks like, with what the requests under way
have read; the fairness of points is in it, because it is a fact of the arithmetic
of `points` (`RoundIsNear`, `ShareIsAFraction`,
`PointsOfAnAnswer`).  `Locked` and `Synced`: who changes the phase has the lock and
what it has read is still so; the cache differs from the database only by what that
request has committed.  `Seats`: the count in the cache stands for those who are in
and those who have been counted and may come in; while a lost count is made anew nobody
is about to come in, and the number in the hands of the request that makes it is at
least that of the rows.  `Tallies`: a counter of answers
counts nobody whose answer is not stored, and one of phones that have a question
nobody less, so that their comparison at the one moment it is made implies what
`NoEarlyClose` says, by counting: as many answered as received, and those who did
both cancel out.  `Runs`:
the streak in the cache, in the database and in the hands of the one who closes is
the length of the run of right answers that the stored answers tell.
`Totals`: besides the scores themselves, that those in the hands of the one who
closes have the points of its question in them and no other (`ScoreKnown`), that an
answer is stored while its question is open (`AnswersInTime`), and that who is not
in has neither answers nor points (`NewcomersHaveNothing`).

**Contests.**  `Sentences`: no two recompute one participation (`OneJob`, true
without `"overlap"`), what one has read of the flag is still so (`FlagIsKnown`),
a user is banned exactly if disqualified but for the step that is under way, and
nobody joins across a sentence (`JoinsInPeace`).  `Archive`: rows end when
announced, a join holds a current copy (without `"stale"`), the flag of a verdict
that is being written is current (without `"stats"`), and where no end and no
problem changes, what was ever published is over.  Of the command's transaction it
says that what was read is still so when it commits (`InTransaction`: its contest has
no mark, and, without a late extension, the contests of what is not blocked are
over), and of what is withdrawn that all contests that hold it are marked, so that
the command has no business with them (`WithdrawnIsMarked`).

**Scores.**  `ScoreIsCurrent` compares two computations that have little in common:
`update_participation` goes through the queries of a format, `Standing` says what its
rules do.  The pure half of `ContestScores` shows of any set of submissions that they
agree (`RulesAreKept`, with `Best`, `FirstBest` and their like characterised first),
that a submission without points changes nothing where the format does not look at it
(`VoidIsNothing`), and that the end of the window counts for the bonus of ECOO only
(`EndMatters`).  The other half is the invariant `Scores`.  `ScoreIsCurrent` is about
a participation at rest, which says nothing of the one that is being recomputed, so
`Current` says for each moment who will put the score right: a job that has still to
read will find the submissions as they are, one that has read holds the result of
exactly these (`Worth`), and with nobody at work it is stored.  It is said of the
participations whose submissions can change their points only by a verdict that is
followed by a recomputation (`Steady`: one that waits for its first verdict does not
count, except where a format looks at unfinished submissions too), and not of one
that two recomputed at once (`tangled`), until somebody does it alone (`OneAtWork`).
`Verdicts` says what the rows of a submission hold at each stage, `EndStays` that the
end of the window is that of the begin unless somebody may move it.

**Sums.**  A sum over a set is a recursive function on its subsets, by a CHOOSE, so it
must first be shown to exist and to be the only one (`AddsExists`, `AddsAgree`).  The
induction theorems of the library take an operator, which the provers cannot
instantiate; `Smaller` is the same induction over a *set* of sets, from the theorem
that the strict subset ordering of the finite subsets of a set is well-founded.  From
it come the few facts the rest uses: an element may be taken out (`SumWithout`), two
functions that agree have one sum (`SumsAgree`).

*What the proofs found.*  Seven attempts failed for a reason, and each changed a
property or a model:

- `NoEarlyClose` did not exclude `"slow"`: a worker whose lock has expired may open
  the question late and set its counters back to zero while answers come in (a
  trace of 35 steps, beyond what the instance of the run reaches).
- `PointsAreFair` allowed no rounding: two thirds of 1000 points are 667.
- `NoEarlyPublication` did not exclude `Republishing`: a verdict that saves the public
  flag it has read puts back a problem an administrator has hidden, and when
  meanwhile the end of its contest was moved or the problem added to a later one,
  that is before an announced end.
- `KeepsAReserve` looked at the kinds of the judges and not at the judge a request
  names: a rejudge that names one has only that one for a candidate and may take the
  last.  The site sends none (problem.py:781 names a judge for a new submission),
  but `judge()` would accept it; the property now asks `can_judge` of each judge.
- Arms of CASEs in the model of the quiz overlapped (`Fraction`, `Change`): TLC takes
  the first, a proof may take none.  An IF in front keeps the order of the code.
- `ScoreIsCurrent` did not exclude an ECOO contest with a time bonus whose end is
  moved: nobody is recomputed then (section 5).
- The places `"out"` and `"waiting"` of the refinement were compared with
  connections that might have been called so: `PlacesAssumption`.

*Only model-checked.*  All liveness (`ContestServed`, `EverySubmissionEnds`,
`TimersMoveTheGame`, `EveryRequestEnds`, `SessionsAreReaped`,
`EverythingIsPublished`), which with fairness and ENABLED is out of the prover's
reach.  The three properties of the violated runs are not theorems, of course.

## 7. What is not modelled

In the judging core: the rows of `Judge` and `RuntimeVersion`, events posted,
batches and feedback inside a grading, framing and compression below a packet,
malformed packets and requests (they change nothing), signals, submissions
without source at the boot, and the exception that keeps `_connected` from
running when `register` fails twice to serve the judge it adds.

In the quiz: PINs, nicknames, avatars, the limit on addresses, hidden answers,
reports and certificates, and two joins of one account at once (there is no
unique key on game and profile).  In the runner: the bytes and sizes of messages,
what programs print, formatting, tokens, the cache of executables.  In contests:
two joins of one user at once, a row whose problem is replaced or that is deleted, who may
see one, access codes and organizations, pretests, rating, cloning,
the points and solved problems of a profile (calculate_points and the caches of
judge/caching.py, which are read, summed up and saved without a lock like a
participation), rescoring a problem beside a grading (tasks/submission.py:55), deletion of
submissions, and all pages.

The other components are listed in `PROJECT.json` with their reason.  Most of the
repository is of three kinds that a model would say nothing about: views, forms,
templates and the API, which read rows and lay them out; migrations, importers
and content, which run once; and rows that one user edits at a time, protected by
one transaction (comments, tickets, profiles, organizations).  Ratings and
performance points are floating point iterations, out of TLC's reach.
