--------------------------- MODULE ContestProofs ---------------------------
(***************************************************************************)
(* That the archive gets no problem before the end of its contests, gets   *)
(* none back that was taken out, and that a sentence is whole: theorems    *)
(* about ContestPublication for all scenes, users, problems and contests,  *)
(* with a proof the TLA+ proof system checks.                              *)
(*                                                                         *)
(* Three invariants follow each other.  Shapes is that of the rows and of  *)
(* the steps of a recomputation; on it rest Sentences, what a step of a    *)
(* recomputation may rely on while it carries a sentence, and Archive,     *)
(* what a row read earlier still says of the contests and the archive.     *)
(***************************************************************************)
EXTENDS ContestPublication, NaturalsInduction, WellFoundedInduction, TLAPS

\* Python's None is no number, no result of a submission and no row of the database.
NoneIsNothing ==
    /\ None \notin Int /\ None \notin {"AC", "WA", "CE", "IE", "AB"}
    /\ \A when, disq, score :
           None # [real_start |-> when, is_disqualified |-> disq, res |-> score]

Stay(e) == e \notin scene.env

-----------------------------------------------------------------------------
(* The inductive invariant *)

IsRow(r) ==
    /\ r = [end |-> r.end, published |-> r.published, users |-> r.users]
    /\ r.end \in Int /\ r.published \in BOOLEAN

IsPart(x) ==
    /\ x = [real_start |-> x.real_start, is_disqualified |-> x.is_disqualified, res |-> x.res]
    /\ x.is_disqualified \in BOOLEAN

IsJoin(j) ==
    \/ j = Idle
    \/ /\ j = [at |-> j.at, copy |-> j.copy, over |-> j.over]
       /\ j.at \in {"enter", "count"} /\ IsRow(j.copy)

\* The submissions, as far as the proofs look at them.
Answer == {None, "AC", "WA", "CE", "IE", "AB"}
Batches == {<<>>} \cup [1..2 -> 0..1]
Judged == [id : Nat, prob : Problem, date : Nat, result : Answer, points : Nat, batch : Batches]
Submission ==
    [of : Key, at : {"judging", "graded", "done"}, again : BOOLEAN, public : BOOLEAN, sub : Judged]

\* A job at one of its five steps.
IsJob(j) ==
    \/ j = Idle
    \/ /\ j.of \in Key /\ j.at \in {"load", "read", "save", "expel", "ban"}
       /\ j.at = "load" => ~j.sentence
       /\ j.at \in {"read", "save"} => j.sentence \in BOOLEAN /\ j.disq \in BOOLEAN
       /\ j.at \in {"expel", "ban"} => j \in [at : {"expel", "ban"}, of : Key, disq : BOOLEAN]

Scened == scene \in Scenes /\ now \in Nat

Rows ==
    /\ DOMAIN row = Contests /\ \A c \in Contests : IsRow(row[c])
    /\ open \subseteq Problem

People ==
    /\ DOMAIN part = Key /\ \A k \in Existing : IsPart(part[k])
    /\ DOMAIN current = Users
    /\ \A u \in Users : current[u] # None => <<u, current[u]>> \in Existing

Joins ==
    /\ DOMAIN join = Users
    /\ \A u \in Users : IsJoin(join[u]) /\ (join[u].at = "enter" => NextVirtual(u) <= scene.max_virtual)

Submissions ==
    /\ subs \in Seq(Submission) /\ Len(subs) <= scene.max_subs
    /\ \A i \in DOMAIN subs :
           subs[i].of \in Existing /\ (subs[i].at = "graded" => subs[i].sub.batch \in [1..2 -> 0..1])

Jobs ==
    /\ DOMAIN job = Actor
    /\ \A a \in Actor : IsJob(job[a]) /\ (job[a] # Idle => job[a].of \in Existing)

Commands ==
    /\ DOMAIN problems = Contests /\ \A c \in Contests : problems[c] \subseteq Problem
    /\ DOMAIN announced = Contests
    /\ \/ command = Idle
       \/ /\ command = [at |-> command.at, now |-> command.now, left |-> command.left, blocked |-> command.blocked]
          /\ command.at \in {"next", "commit"}
          /\ command.now \in Nat /\ command.now <= now
          /\ command.left # {} /\ command.left \subseteq Contests
    /\ \/ saving = Idle
       \/ /\ saving = [c |-> saving.c, p |-> saving.p, marked |-> saving.marked]
          /\ saving.c \in Contests /\ saving.p \in Problem /\ saving.marked \in BOOLEAN

Shapes == Scened /\ Rows /\ People /\ Joins /\ Submissions /\ Jobs /\ Commands

\* A sentence that has been written and not been carried out.
Pending(a) == job[a].at \in {"expel", "ban"}

\* A judge recomputes for a submission that is judged.
JudgesAreFree ==
    \A i \in 1..scene.max_subs :
        (i \in DOMAIN subs => subs[i].at # "done") => job[Judge(i)] = Idle

\* Two recompute the same participation only in a scene about that, and an
\* actor has one job at a time.
OneJob ==
    /\ \A a, b \in Actor :
           job[a] # Idle /\ job[b] # Idle /\ job[a].of = job[b].of => a = b
    /\ JudgesAreFree

\* What was read or written of the flag of a participation is still so.
FlagIsKnown ==
    \A a \in Actor :
        /\ job[a].at \in {"read", "save"} /\ ~job[a].sentence => job[a].disq = part[job[a].of].is_disqualified
        /\ job[a].at \in {"read", "save"} /\ job[a].sentence => job[a].of[2] = LIVE
        /\ Pending(a) => job[a].of[2] = LIVE /\ job[a].disq = part[job[a].of].is_disqualified
        /\ job[a].at = "expel" => job[a].disq

\* Only a live participation is disqualified, and its user banned unless a
\* sentence is being carried out.
BannedIsDisqualified ==
    /\ \A k \in Existing : part[k].is_disqualified => k[2] = LIVE
    /\ \A u \in Users :
           (\A a \in Actor : Pending(a) => job[a].of # LiveKey(u))
               => (u \in banned <=> LiveKey(u) \in Existing /\ part[LiveKey(u)].is_disqualified)

\* Nobody is sentenced while he joins, nor joins while he is sentenced.
JoinsInPeace ==
    Stay("late_join") =>
        /\ \A u \in Users : join[u] # Idle => ~UnderSentence(u) /\ u \notin banned
        /\ \A u \in Users :
               current[u] = LIVE /\ part[LiveKey(u)].is_disqualified
                   => \E a \in Actor : job[a].at = "expel" /\ job[a].of = LiveKey(u)

Sentences ==
    Without({"overlap", "several"}) => OneJob /\ FlagIsKnown /\ BannedIsDisqualified /\ JoinsInPeace

\* A contest ends when it was announced to, and a join holds the row as it is.
EndIsAnnounced ==
    Stay("stale") =>
        /\ \A c \in Contests : row[c].end = announced[c]
        /\ \A u \in Users : join[u] # Idle =>
               join[u].copy.end = row[Main].end /\ join[u].copy.published = row[Main].published

\* A verdict that is being written holds the flag of its problem as it is.
PublicIsCurrent ==
    Stay("stats") =>
        \A i \in DOMAIN subs : subs[i].at = "graded" => (subs[i].public <=> subs[i].sub.prob \in open)

Over(p) == \A c \in Holding(p) : row[c].end <= now

\* Where no end and no problem changes, what was ever published is over.
PublishedIsOver ==
    Stay("stale") /\ scene.acts \cap {"extend", "add"} = {} =>
        /\ \A p \in open : Over(p)
        /\ \A i \in DOMAIN subs : subs[i].at = "graded" /\ subs[i].public => Over(subs[i].sub.prob)

\* Where no problem is added, a row that is saved is one of its contest.
NothingIsAdded == "add" \notin scene.acts => saving = Idle \/ saving.p \in problems[saving.c]

WithdrawnIsMarked ==
    Without({"stale", "stats"}) => \A p \in withdrawn : \A c \in Holding(p) : row[c].published

\* What the command has read of other contests is still so.
Unhurried == Stay("late_extend") \/ "extend" \notin scene.acts

\* Inside its transaction the contest is due, nobody who would write it or the flag
\* of its problems has read them, and what is not blocked is over.
InTransaction ==
    Locked => /\ Calm /\ Settled(problems[This]) /\ ~row[This].published
              /\ Unhurried => \A p \in problems[This] \ open : p \notin command.blocked => Over(p)

Archive ==
    /\ EndIsAnnounced /\ PublicIsCurrent /\ PublishedIsOver
    /\ NothingIsAdded /\ WithdrawnIsMarked /\ InTransaction

-----------------------------------------------------------------------------
(* What a step may change *)

\* The scene is never changed, and time goes on by one minute or stands.
LEMMA SceneStays ==
    ASSUME [Next]_vars
    PROVE  scene' = scene /\ (now' = now \/ now' = now + 1)
<1>1. CASE UNCHANGED vars
  BY <1>1 DEF vars, contestVars
<1>2. CASE Tick /\ UNCHANGED pubVars
  BY <1>2 DEF Tick, contestVars
<1>3. CASE Participants /\ UNCHANGED pubVars
  BY <1>3, ZenonT(60) DEF Participants, JoinContest, Enter, UpdateUserCount, Leave, Submit, Report, contestVars
<1>4. CASE Judging /\ UNCHANGED pubVars
  BY <1>4, ZenonT(60) DEF Judging, GradingEnd, UpdateContest, Rejudge, GradingFails, contestVars
<1>5. CASE Recomputing /\ UNCHANGED pubVars
  BY <1>5 DEF Recomputing, Load, Read, Save, Expel, Ban, Recalculate, Toggle, contestVars
<1>6. CASE Organizing
  BY <1>6 DEF Organizing, PublishStart, ReadBlocked, Publish, Extend, SaveProblem, SaveCommit, Hide,
              contestVars
<1> QED
  BY <1>1, <1>2, <1>3, <1>4, <1>5, <1>6 DEF Next, ContestNext

\* Who writes the row of a contest or the archive.
LEMMA RowsMove ==
    ASSUME [Next]_vars
    PROVE  \/ UNCHANGED <<row, open>>
           \/ \E u \in Users : UpdateUserCount(u)
           \/ \E i \in DOMAIN subs : UpdateContest(i)
           \/ Publish
           \/ \E c \in Contests : \E minutes \in {-1, 1} : Extend(c, minutes)
           \/ SaveCommit
           \/ \E p \in Problem : Hide(p)
<1>1. CASE UNCHANGED vars
  BY <1>1 DEF vars, contestVars, rows
<1>2. CASE Tick /\ UNCHANGED pubVars
  BY <1>2 DEF Tick, contestVars, rows
<1>3. CASE Participants /\ UNCHANGED pubVars
  BY <1>3, ZenonT(60) DEF Participants, JoinContest, Enter, Leave, Submit, Report, contestVars, rows
<1>4. CASE Judging /\ UNCHANGED pubVars
  BY <1>4, ZenonT(60) DEF Judging, GradingEnd, Rejudge, GradingFails, contestVars, rows
<1>5. CASE Recomputing /\ UNCHANGED pubVars
  BY <1>5 DEF Recomputing, Load, Read, Save, Expel, Ban, Recalculate, Toggle, contestVars, rows
<1>6. CASE Organizing
  BY <1>6 DEF Organizing, PublishStart, ReadBlocked, SaveProblem, contestVars, rows
<1> QED
  BY <1>1, <1>2, <1>3, <1>4, <1>5, <1>6 DEF Next, ContestNext

\* Who writes a participation or a profile.
LEMMA PeopleMove ==
    ASSUME [Next]_vars
    PROVE  \/ UNCHANGED <<part, current>>
           \/ \E u \in Users : Enter(u) \/ Leave(u)
           \/ \E a \in Actor : Save(a) \/ Expel(a)
<1>1. CASE UNCHANGED vars
  BY <1>1 DEF vars, contestVars, people
<1>2. CASE Tick /\ UNCHANGED pubVars
  BY <1>2 DEF Tick, contestVars, people
<1>3. CASE Participants /\ UNCHANGED pubVars
  BY <1>3, ZenonT(60) DEF Participants, JoinContest, UpdateUserCount, Submit, Report, contestVars, people
<1>4. CASE Judging /\ UNCHANGED pubVars
  BY <1>4, ZenonT(60) DEF Judging, GradingEnd, UpdateContest, Rejudge, GradingFails, contestVars, people
<1>5. CASE Recomputing /\ UNCHANGED pubVars
  BY <1>5 DEF Recomputing, Load, Read, Ban, Recalculate, Toggle, contestVars, people
<1>6. CASE Organizing
  BY <1>6 DEF Organizing, PublishStart, ReadBlocked, Publish, Extend, SaveProblem, SaveCommit, Hide,
              contestVars, people
<1> QED
  BY <1>1, <1>2, <1>3, <1>4, <1>5, <1>6 DEF Next, ContestNext

LEMMA BannedMove ==
    ASSUME [Next]_vars
    PROVE  UNCHANGED banned \/ \E a \in Actor : Ban(a)
<1>1. CASE UNCHANGED vars
  BY <1>1 DEF vars, contestVars, people
<1>2. CASE Tick /\ UNCHANGED pubVars
  BY <1>2 DEF Tick, contestVars, people
<1>3. CASE Participants /\ UNCHANGED pubVars
  BY <1>3 DEF Participants, JoinContest, Enter, UpdateUserCount, Leave, Submit, Report, contestVars,
              people
<1>4. CASE Judging /\ UNCHANGED pubVars
  BY <1>4, ZenonT(60) DEF Judging, GradingEnd, UpdateContest, Rejudge, GradingFails, contestVars, people
<1>5. CASE Recomputing /\ UNCHANGED pubVars
  BY <1>5 DEF Recomputing, Load, Read, Save, Expel, Recalculate, Toggle, contestVars, people
<1>6. CASE Organizing
  BY <1>6 DEF Organizing, PublishStart, ReadBlocked, Publish, Extend, SaveProblem, SaveCommit, Hide,
              contestVars, people
<1> QED
  BY <1>1, <1>2, <1>3, <1>4, <1>5, <1>6 DEF Next, ContestNext

LEMMA JoinMove ==
    ASSUME [Next]_vars
    PROVE  UNCHANGED join \/ \E u \in Users : JoinContest(u) \/ Enter(u) \/ UpdateUserCount(u)
<1>1. CASE UNCHANGED vars
  BY <1>1 DEF vars, contestVars, jobs
<1>2. CASE Tick /\ UNCHANGED pubVars
  BY <1>2 DEF Tick, contestVars, jobs
<1>3. CASE Participants /\ UNCHANGED pubVars
  BY <1>3, ZenonT(60) DEF Participants, Leave, Submit, Report, contestVars, jobs
<1>4. CASE Judging /\ UNCHANGED pubVars
  BY <1>4, ZenonT(60) DEF Judging, GradingEnd, UpdateContest, Rejudge, GradingFails, contestVars, jobs
<1>5. CASE Recomputing /\ UNCHANGED pubVars
  BY <1>5 DEF Recomputing, Load, Read, Save, Expel, Ban, Recalculate, Toggle, contestVars, jobs
<1>6. CASE Organizing
  BY <1>6 DEF Organizing, PublishStart, ReadBlocked, Publish, Extend, SaveProblem, SaveCommit, Hide,
              contestVars, jobs
<1> QED
  BY <1>1, <1>2, <1>3, <1>4, <1>5, <1>6 DEF Next, ContestNext

LEMMA SubsMove ==
    ASSUME [Next]_vars
    PROVE  \/ UNCHANGED subs
           \/ \E u \in Users, p \in Problem : Submit(u, p)
           \/ \E i \in DOMAIN subs :
                  \/ \E v \in scene.verdicts : GradingEnd(i, v)
                  \/ UpdateContest(i) \/ Rejudge(i)
                  \/ \E result \in {"CE", "IE", "AB"} : GradingFails(i, result)
<1>1. CASE UNCHANGED vars
  BY <1>1 DEF vars, contestVars
<1>2. CASE Tick /\ UNCHANGED pubVars
  BY <1>2 DEF Tick, contestVars
<1>3. CASE Participants /\ UNCHANGED pubVars
  BY <1>3 DEF Participants, JoinContest, Enter, UpdateUserCount, Leave, Report, contestVars
<1>4. CASE Judging /\ UNCHANGED pubVars
  BY <1>4 DEF Judging, contestVars
<1>5. CASE Recomputing /\ UNCHANGED pubVars
  BY <1>5 DEF Recomputing, Load, Read, Save, Expel, Ban, Recalculate, Toggle, contestVars
<1>6. CASE Organizing
  BY <1>6 DEF Organizing, PublishStart, ReadBlocked, Publish, Extend, SaveProblem, SaveCommit, Hide,
              contestVars
<1> QED
  BY <1>1, <1>2, <1>3, <1>4, <1>5, <1>6 DEF Next, ContestNext

\* Who begins, goes on with or ends a recomputation.
LEMMA JobMove ==
    ASSUME [Next]_vars
    PROVE  \/ UNCHANGED job
           \/ \E i \in DOMAIN subs : UpdateContest(i)
           \/ \E u \in Users, counted \in BOOLEAN : Report(u, counted)
           \/ \E k \in Existing : Recalculate(k) \/ Toggle(k)
           \/ \E a \in Actor : Load(a) \/ Read(a) \/ Save(a) \/ Expel(a) \/ Ban(a)
<1>1. CASE UNCHANGED vars
  BY <1>1 DEF vars, contestVars, jobs
<1>2. CASE Tick /\ UNCHANGED pubVars
  BY <1>2 DEF Tick, contestVars, jobs
<1>3. CASE Participants /\ UNCHANGED pubVars
  BY <1>3, ZenonT(60) DEF Participants, JoinContest, Enter, UpdateUserCount, Leave, Submit, contestVars, jobs
<1>4. CASE Judging /\ UNCHANGED pubVars
  BY <1>4, ZenonT(60) DEF Judging, GradingEnd, Rejudge, GradingFails, contestVars, jobs
<1>5. CASE Recomputing /\ UNCHANGED pubVars
  BY <1>5 DEF Recomputing, contestVars, jobs
<1>6. CASE Organizing
  BY <1>6 DEF Organizing, PublishStart, ReadBlocked, Publish, Extend, SaveProblem, SaveCommit, Hide,
              contestVars, jobs
<1> QED
  BY <1>1, <1>2, <1>3, <1>4, <1>5, <1>6 DEF Next, ContestNext

LEMMA PubMove ==
    ASSUME [Next]_vars
    PROVE  UNCHANGED pubVars \/ Organizing
BY DEF Next, vars

-----------------------------------------------------------------------------
(* Numbers *)

\* A set of numbers has a least one.
LEMMA Smallest ==
    ASSUME NEW T \in SUBSET Nat, T # {}
    PROVE  \E x \in T : \A y \in T : x <= y
<1>1. PICK x \in T : \A y \in T : <<y, x>> \notin OpToRel(<, Nat)
  BY WFMin, NatLessThanWellFounded
<1>2. ASSUME NEW y \in T PROVE x <= y
  <2>1. <<y, x>> \in Nat \X Nat
    OBVIOUS
  <2> QED
    BY <1>1, <2>1 DEF OpToRel
<1> QED
  BY <1>2

\* And a greatest one, if there is a bound.
LEMMA Greatest ==
    ASSUME NEW T \in SUBSET Int, T # {}, NEW n \in Int, \A x \in T : x <= n
    PROVE  \E x \in T : \A y \in T : x >= y
<1> DEFINE D == {n - x : x \in T}
<1>1. D \in SUBSET Nat /\ D # {}
  <2>1. \A x \in T : n - x \in Nat
    OBVIOUS
  <2> QED
    BY <2>1
<1>2. PICK d \in D : \A e \in D : d <= e
  BY <1>1, Smallest
<1>3. PICK x \in T : d = n - x
  OBVIOUS
<1>4. ASSUME NEW y \in T PROVE x >= y
  <2>1. n - x <= n - y
    BY <1>2, <1>3
  <2> QED
    BY <2>1
<1> QED
  BY <1>4

\* Min() of contests is one of them, and the first.
LEMMA FirstIs ==
    ASSUME NEW T \in SUBSET Contests, T # {}
    PROVE  Min(T) \in T
<1>1. \E x \in T : \A y \in T : x <= y
  BY Smallest, ContestsAssumption
<1> QED
  BY <1>1 DEF Min

\* The contest the command is at.
LEMMA ThisIs ==
    ASSUME Shapes, Locked \/ command.at = "next"
    PROVE  This \in Contests
<1>1. command # Idle
  BY DEF Locked, Idle
<1> QED
  BY <1>1, FirstIs DEF This, Shapes, Commands

\* What is left of the command when it has done with one.
LEMMA AfterThisIs ==
    ASSUME Commands, Locked \/ command.at = "next"
    PROVE  \/ AfterThis = Idle
           \/ \E T \in SUBSET Contests :
                  /\ T # {}
                  /\ AfterThis = [at |-> "next", now |-> command.now, left |-> T, blocked |-> {}]
<1>1. command # Idle
  BY DEF Locked, Idle
<1>2. PICK T : T = command.left \ {This}
  OBVIOUS
<1>3. command.left # {This} => T # {} /\ T \subseteq Contests
  BY <1>1, <1>2 DEF Commands
<1>4. command.left # {This} => AfterThis = [at |-> "next", now |-> command.now, left |-> T, blocked |-> {}]
  BY <1>1, <1>2 DEF Commands, AfterThis
<1> QED
  BY <1>3, <1>4 DEF AfterThis

-----------------------------------------------------------------------------
(* Shapes *)

\* The number of a virtual participation is one after the live one.
LEMMA NextVirtualIs ==
    ASSUME Scened, NEW u \in Users
    PROVE  NextVirtual(u) \in Nat \ {0}
<1> DEFINE T == {LIVE} \cup {k[2] : k \in {x \in Existing : x[1] = u}}
<1>1. scene.max_virtual \in Nat
  BY SceneAssumption DEF Scened
<1>2. \A k \in Existing : k[2] \in Virtual
  BY DEF Existing, Key
<1>3. T \in SUBSET Int /\ \A x \in T : x <= scene.max_virtual
  BY <1>1, <1>2 DEF Virtual, LIVE, SPECTATE
<1>4. \E x \in T : \A y \in T : x >= y
  <2>1. T # {} /\ scene.max_virtual \in Int
    BY <1>1
  <2> HIDE DEF T
  <2> QED
    BY <1>3, <2>1, Greatest
<1>5. Max(T) \in T /\ \A y \in T : Max(T) >= y
  BY <1>4 DEF Max
<1>6. Max(T) \in Nat
  BY <1>3, <1>5 DEF LIVE
<1> QED
  BY <1>6 DEF NextVirtual, Largest

LEMMA EnteredIs ==
    ASSUME Scened, Joins, NEW u \in Users, join[u].at = "enter"
    PROVE  Entered(u) = <<u, Entered(u)[2]>> /\ Entered(u) \in Key
<1>1. NextVirtual(u) \in 1..scene.max_virtual /\ scene.max_virtual \in Nat
  BY NextVirtualIs, SceneAssumption DEF Joins, Scened
<1> QED
  BY <1>1 DEF Entered, LiveKey, Key, Virtual

LEMMA SubmissionIs ==
    ASSUME Submissions, NEW i \in DOMAIN subs
    PROVE  /\ subs[i] \in Submission /\ subs[i].of \in Key
           /\ subs[i].sub.prob \in Problem
<1>1. subs[i] \in Submission
  BY DEF Submissions
<1> QED
  BY <1>1 DEF Submission, Judged

LEMMA ShapesInit ==
    ASSUME NoneIsNothing, PubInit
    PROVE  Shapes
<1>1. /\ scene \in Scenes /\ scene.start[Main] \in Nat /\ scene.here \subseteq scene.users
      /\ DOMAIN scene.end = Contests /\ DOMAIN scene.problems = Contests
      /\ \A c \in Contests : scene.end[c] \in Int /\ scene.problems[c] \subseteq Problem
  <2>1. scene \in Scenes
    BY DEF PubInit, Init
  <2>2. {DOMAIN scene.start, DOMAIN scene.end, DOMAIN scene.problems} = {Contests}
    BY <2>1, SceneAssumption
  <2>3. DOMAIN scene.end = Contests /\ DOMAIN scene.problems = Contests
    BY <2>2
  <2>4. \A c \in Contests :
            scene.start[c] \in Nat /\ scene.end[c] \in Nat /\ scene.problems[c] \subseteq Problem
    BY <2>1, SceneAssumption
  <2>5. scene.here \subseteq scene.users
    BY <2>1, SceneAssumption
  <2>6. \A c \in Contests : scene.end[c] \in Int
    BY <2>4
  <2> QED
    BY <2>1, <2>3, <2>4, <2>5, <2>6, ContestsAssumption
<1>2. Scened
  BY <1>1 DEF Scened, PubInit, Init
<1>3. Rows
  BY <1>1 DEF Rows, IsRow, PubInit, Init
<1>4. People
  BY <1>1 DEF People, IsPart, PubInit, Init, NewPart, Existing, Key, Virtual, Users, NoneIsNothing, LIVE
<1>5. Joins
  BY DEF Joins, IsJoin, PubInit, Init, Idle
<1>6. Submissions
  BY <1>1, SceneAssumption DEF Submissions, PubInit, Init
<1>7. Jobs
  BY DEF Jobs, IsJob, PubInit, Init
<1>8. Commands
  BY <1>1 DEF Commands, PubInit
<1> QED
  BY <1>2, <1>3, <1>4, <1>5, <1>6, <1>7, <1>8 DEF Shapes

\* Save writes its participation and ends its job, unless that carries a sentence.
LEMMA SaveDoes ==
    ASSUME NoneIsNothing, Shapes, NEW a \in Actor, Save(a), scene' = scene
    PROVE  /\ Existing' = Existing /\ DOMAIN part' = Key /\ \A x \in Existing : IsPart(part[x])'
           /\ job[a].at = "save" /\ job[a].of \in Existing
           /\ \A x \in Existing \ {job[a].of} : part'[x] = part[x]
           /\ \/ part' = part /\ job' = [job EXCEPT ![a] = Idle]
              \/ /\ part'[job[a].of].is_disqualified = job[a].disq
                 /\ job' = [job EXCEPT ![a] =
                               IF ~job[a].sentence THEN Idle
                               ELSE [at |-> IF job[a].disq THEN "expel" ELSE "ban", of |-> job[a].of,
                                     disq |-> job[a].disq]]
<1>0. /\ DOMAIN part = Key /\ \A k \in Existing : IsPart(part[k])
      /\ Key' = Key /\ Existing \subseteq Key
  BY DEF Shapes, People, Key, Users, Virtual, Existing
<1>1. PICK k \in Existing : k = job[a].of /\ job[a].disq \in BOOLEAN /\ job[a].at = "save"
  <2>1. IsJob(job[a]) /\ job[a] # Idle /\ job[a].at = "save"
    BY DEF Save, Shapes, Jobs, Idle
  <2> QED
    BY <2>1 DEF IsJob, Shapes, Jobs
<1>2. CASE job[a].res.cumtime >= 0
  <2>1. PICK r : r = Result(job[a].disq, job[a].res)
    OBVIOUS
  <2>2. /\ part'[k] = [real_start |-> part[k].real_start, is_disqualified |-> job[a].disq, res |-> r]
        /\ \A x \in Key \ {k} : part'[x] = part[x]
        /\ DOMAIN part' = Key
    <3>1. PICK x, y, z : part[k] = [real_start |-> x, is_disqualified |-> y, res |-> z]
      BY <1>0 DEF IsPart
    <3>2. part' = [part EXCEPT ![k] = [[part[k] EXCEPT !.is_disqualified = job[a].disq] EXCEPT !.res = r]]
      BY <1>0, <1>1, <1>2, <2>1 DEF Save
    <3>3. [part[k] EXCEPT !.is_disqualified = job[a].disq] = [real_start |-> x, is_disqualified |-> job[a].disq,
                                                              res |-> z]
      BY <3>1
    <3>4. [[real_start |-> x, is_disqualified |-> job[a].disq, res |-> z] EXCEPT !.res = r]
             = [real_start |-> x, is_disqualified |-> job[a].disq, res |-> r]
      OBVIOUS
    <3>5. part[k].real_start = x
      BY <3>1
    <3> QED
      BY <1>0, <3>2, <3>3, <3>4, <3>5
  <2>3. IsPart(part[k])' /\ part'[k] # None
    BY <1>1, <2>2 DEF IsPart, NoneIsNothing
  <2>4. Existing' = Existing
    BY <1>0, <1>1, <2>2, <2>3 DEF Existing
  <2>5. \A x \in Existing : IsPart(part[x])'
    BY <1>0, <2>2, <2>3 DEF IsPart
  <2>6. part'[k].is_disqualified = job[a].disq
    BY <2>2
  <2>7. job' = [job EXCEPT ![a] = IF ~job[a].sentence THEN Idle
                                  ELSE [at |-> IF job[a].disq THEN "expel" ELSE "ban", of |-> k,
                                        disq |-> job[a].disq]]
    BY <1>1, <1>2 DEF Save
  <2> QED
    BY <1>0, <1>1, <2>2, <2>4, <2>5, <2>6, <2>7
<1>3. CASE ~(job[a].res.cumtime >= 0)
  <2>1. part' = part /\ job' = [job EXCEPT ![a] = Idle]
    BY <1>3 DEF Save
  <2>2. Existing' = Existing
    BY <1>0, <2>1 DEF Existing
  <2> QED
    BY <1>0, <1>1, <2>1, <2>2 DEF IsPart
<1> QED
  BY <1>2, <1>3

\* A participation is never deleted, and every one stays a row.
LEMMA PeopleStep ==
    ASSUME NoneIsNothing, Shapes, [Next]_vars
    PROVE  People' /\ Existing \subseteq Existing' /\ \A x \in Existing' \ Existing : Enter(x[1])
<1>0. scene' = scene /\ Key' = Key /\ Users' = Users /\ Actor' = Actor
  BY SceneStays DEF Key, Users, Virtual, Actor, Judge, Editor, Page, Admin
<1>1. /\ DOMAIN part = Key /\ \A k \in Existing : IsPart(part[k])
      /\ DOMAIN current = Users
      /\ \A u \in Users : current[u] # None => <<u, current[u]>> \in Existing
  BY DEF Shapes, People
<1>2. CASE UNCHANGED <<part, current>>
  BY <1>0, <1>1, <1>2 DEF People, Existing, IsPart
<1>3. ASSUME NEW u \in Users, Enter(u)
      PROVE  People' /\ Existing \subseteq Existing' /\ \A x \in Existing' \ Existing : Enter(x[1])
  <2>1. PICK k \in Key : k = Entered(u) /\ k = <<u, k[2]>>
    BY <1>3, EnteredIs DEF Shapes, Enter
  <2>2. /\ part' = IF part[k] = None THEN [part EXCEPT ![k] = NewPart] ELSE part
        /\ current' = [current EXCEPT ![u] = k[2]]
    BY <1>3, <2>1 DEF Enter
  <2>3. IsPart(NewPart) /\ NewPart # None
    BY DEF IsPart, NewPart, NoneIsNothing
  <2>4. \A x \in Key : part'[x] = IF x = k /\ part[k] = None THEN NewPart ELSE part[x]
    BY <1>1, <2>2
  <2>5. Existing' = Existing \cup {k} /\ DOMAIN part' = Key
    BY <1>0, <1>1, <2>2, <2>3, <2>4 DEF Existing
  <2>6. \A x \in Existing' : IsPart(part[x])'
    BY <1>1, <2>3, <2>4, <2>5 DEF Existing, IsPart
  <2>7. \A w \in Users : current'[w] = IF w = u THEN k[2] ELSE current[w]
    BY <1>1, <2>2
  <2>8. \A w \in Users : current'[w] # None => <<w, current'[w]>> \in Existing'
    BY <1>1, <2>1, <2>5, <2>7
  <2>9. DOMAIN current' = Users
    BY <1>1, <2>2
  <2> QED
    BY <1>0, <1>3, <2>1, <2>5, <2>6, <2>8, <2>9 DEF People
<1>4. ASSUME NEW u \in Users, Leave(u)
      PROVE  People' /\ Existing \subseteq Existing' /\ \A x \in Existing' \ Existing : Enter(x[1])
  <2>1. part' = part /\ current' = [current EXCEPT ![u] = None]
    BY <1>4 DEF Leave
  <2>2. Existing' = Existing
    BY <1>0, <2>1 DEF Existing
  <2> QED
    BY <1>0, <1>1, <2>1, <2>2 DEF People, IsPart
<1>5. ASSUME NEW a \in Actor, Save(a)
      PROVE  People' /\ Existing \subseteq Existing' /\ \A x \in Existing' \ Existing : Enter(x[1])
  <2>1. current' = current
    BY <1>5 DEF Save, people
  <2>2. Existing' = Existing /\ DOMAIN part' = Key /\ \A x \in Existing : IsPart(part[x])'
    BY <1>0, <1>5, SaveDoes
  <2> QED
    BY <1>0, <1>1, <2>1, <2>2 DEF People
<1>6. ASSUME NEW a \in Actor, Expel(a)
      PROVE  People' /\ Existing \subseteq Existing' /\ \A x \in Existing' \ Existing : Enter(x[1])
  <2>1. PICK u : current' = [current EXCEPT ![u] = IF <<u, @>> = job[a].of THEN None ELSE @]
    BY <1>6 DEF Expel
  <2>2. part' = part /\ Existing' = Existing
    BY <1>0, <1>6 DEF Expel, Existing
  <2> QED
    BY <1>0, <1>1, <2>1, <2>2 DEF People, IsPart
<1> QED
  BY <1>2, <1>3, <1>4, <1>5, <1>6, PeopleMove

LEMMA RowsStep ==
    ASSUME Shapes, [Next]_vars
    PROVE  Rows'
<1>1. /\ DOMAIN row = Contests /\ (\A c \in Contests : IsRow(row[c])) /\ open \subseteq Problem
      /\ Main \in Contests
  BY ContestsAssumption DEF Shapes, Rows
<1>2. CASE UNCHANGED <<row, open>>
  BY <1>1, <1>2 DEF Rows, IsRow
<1>3. ASSUME NEW u \in Users, UpdateUserCount(u)
      PROVE  Rows'
  <2>1. IsRow(join[u].copy)
    BY <1>3 DEF UpdateUserCount, Shapes, Joins, IsJoin, Idle
  <2>2. PICK n : row' = [row EXCEPT ![Main] = [join[u].copy EXCEPT !.users = n]]
    BY <1>3 DEF UpdateUserCount
  <2>3. open' = open
    BY <1>3 DEF UpdateUserCount
  <2> QED
    BY <1>1, <2>1, <2>2, <2>3 DEF Rows, IsRow
<1>4. ASSUME NEW i \in DOMAIN subs, UpdateContest(i)
      PROVE  Rows'
  <2>1. subs[i].sub.prob \in Problem
    BY SubmissionIs DEF Shapes
  <2>2. row' = row /\ open' \subseteq open \cup {subs[i].sub.prob}
    BY <1>4 DEF UpdateContest, UpdateStats
  <2> QED
    BY <1>1, <2>1, <2>2 DEF Rows, IsRow
<1>5. CASE Publish
  <2>1. PICK c \in Contests : c = This
    BY <1>5, ThisIs DEF Publish, Locked
  <2>2. /\ open' \subseteq open \cup problems[c]
        /\ \E b \in BOOLEAN : row' = [row EXCEPT ![c].published = b]
    BY <1>5, <2>1 DEF Publish
  <2>3. problems[c] \subseteq Problem
    BY DEF Shapes, Commands
  <2> QED
    BY <1>1, <2>2, <2>3 DEF Rows, IsRow
<1>6. ASSUME NEW c \in Contests, NEW minutes \in {-1, 1}, Extend(c, minutes)
      PROVE  Rows'
  <2>1. PICK end \in Int : row' = [row EXCEPT ![c].end = end]
    <3>1. row[c].end + minutes \in Int
      BY <1>1 DEF IsRow
    <3> QED
      BY <1>6, <3>1 DEF Extend
  <2>2. open' = open
    BY <1>6 DEF Extend
  <2> QED
    BY <1>1, <2>1, <2>2 DEF Rows, IsRow
<1>7. CASE SaveCommit
  <2>1. PICK c \in Contests : row' = [row EXCEPT ![c].published = @ /\ ~saving.marked]
    BY <1>7 DEF SaveCommit, Shapes, Commands
  <2>2. open' = open
    BY <1>7 DEF SaveCommit
  <2>3. row[c].published \in BOOLEAN
    BY <1>1 DEF IsRow
  <2>4. PICK b \in BOOLEAN : row' = [row EXCEPT ![c].published = b]
    BY <2>1, <2>3
  <2> QED
    BY <1>1, <2>2, <2>4 DEF Rows, IsRow
<1>8. ASSUME NEW p \in Problem, Hide(p)
      PROVE  Rows'
  BY <1>1, <1>8 DEF Hide, Rows, IsRow
<1> QED
  BY <1>2, <1>3, <1>4, <1>5, <1>6, <1>7, <1>8, RowsMove

LEMMA EnterJoin ==
    ASSUME Joins, NEW u \in Users, Enter(u)
    PROVE  \E x, y : /\ IsRow(x) /\ join[u] = [at |-> "enter", copy |-> x, over |-> y]
                     /\ join' = [join EXCEPT ![u] = [at |-> "count", copy |-> x, over |-> y]]
<1>1. join' = [join EXCEPT ![u].at = "count"] /\ join[u].at = "enter" /\ DOMAIN join = Users
  BY DEF Enter, Joins
<1>2. PICK x, y : join[u] = [at |-> "enter", copy |-> x, over |-> y] /\ IsRow(x)
  BY <1>1 DEF Joins, IsJoin, Idle
<1>3. [join[u] EXCEPT !.at = "count"] = [at |-> "count", copy |-> x, over |-> y]
  BY <1>2
<1>4. join' = [join EXCEPT ![u] = [join[u] EXCEPT !.at = "count"]]
  BY <1>1
<1> QED
  BY <1>2, <1>3, <1>4

LEMMA JoinsStep ==
    ASSUME NoneIsNothing, Shapes, [Next]_vars
    PROVE  Joins'
<1>0. scene' = scene /\ Users' = Users /\ Key' = Key
  BY SceneStays DEF Users, Key, Virtual
<1>1. /\ DOMAIN join = Users
      /\ \A u \in Users : IsJoin(join[u]) /\ (join[u].at = "enter" => NextVirtual(u) <= scene.max_virtual)
  BY DEF Shapes, Joins
<1>2. \A c \in Contests : IsRow(row[c])
  BY DEF Shapes, Rows
\* Only u's own request makes a participation of u.
<1>3. ASSUME NEW u \in Users, ~Enter(u)
      PROVE  NextVirtual(u)' = NextVirtual(u)
  <2>1. {k \in Existing : k[1] = u}' = {k \in Existing : k[1] = u}
    BY <1>0, <1>3, PeopleStep
  <2> QED
    BY <2>1 DEF NextVirtual
<1>4. CASE UNCHANGED join
  <2>1. ASSUME NEW u \in Users, join[u].at = "enter"
        PROVE  NextVirtual(u)' = NextVirtual(u)
    <3>1. ~Enter(u)
      BY <1>1, <1>4, <2>1, EnterJoin DEF Shapes
    <3> QED
      BY <1>3, <3>1
  <2> QED
    BY <1>0, <1>1, <1>4, <2>1 DEF Joins, IsJoin, IsRow
<1>5. ASSUME NEW u \in Users, JoinContest(u) \/ Enter(u) \/ UpdateUserCount(u)
      PROVE  Joins'
  <2>1. /\ DOMAIN join' = Users
        /\ \A w \in Users \ {u} : join'[w] = join[w]
        /\ IsJoin(join[u])' /\ (join'[u].at = "enter" => JoinContest(u))
    <3>1. CASE JoinContest(u)
      <4>1. PICK x : join' = [join EXCEPT ![u] = [at |-> "enter", copy |-> row[Main], over |-> x]]
        BY <3>1 DEF JoinContest
      <4> QED
        BY <1>1, <1>2, <3>1, <4>1, ContestsAssumption DEF IsJoin, IsRow
    <3>2. CASE Enter(u)
      <4>1. PICK x, y : /\ IsRow(x)
                        /\ join' = [join EXCEPT ![u] = [at |-> "count", copy |-> x, over |-> y]]
        BY <3>2, EnterJoin DEF Shapes
      <4> QED
        BY <1>1, <4>1 DEF IsJoin, IsRow
    <3>3. CASE UpdateUserCount(u)
      BY <1>1, <3>3 DEF UpdateUserCount, IsJoin, Idle
    <3> QED
      BY <1>5, <3>1, <3>2, <3>3
  <2>2. ASSUME NEW w \in Users \ {u}
        PROVE  IsJoin(join[w])' /\ (join'[w].at = "enter" => NextVirtual(w)' <= scene.max_virtual)
    <3>1. ~Enter(w) \/ join'[w].at = "count"
      BY <1>1 DEF Enter, IsJoin, Idle
    <3>2. join'[w].at = "enter" => NextVirtual(w)' = NextVirtual(w)
      BY <1>3, <3>1
    <3> QED
      BY <1>1, <2>1, <3>2 DEF IsJoin, IsRow
  <2>3. JoinContest(u) => NextVirtual(u)' <= scene.max_virtual
    <3>1. JoinContest(u) => NextVirtual(u)' = NextVirtual(u)
      BY <1>0 DEF JoinContest, NextVirtual, Existing
    <3> QED
      BY <3>1 DEF JoinContest
  <2> QED
    BY <1>0, <2>1, <2>2, <2>3 DEF Joins
<1> QED
  BY <1>4, <1>5, JoinMove

-----------------------------------------------------------------------------
(* What a step does to a submission *)

\* The rest of a submission stays when a field of it is set.
LEMMA SetAt ==
    ASSUME NEW s \in Submission, NEW x \in {"judging", "graded", "done"}
    PROVE  LET r == [s EXCEPT !.at = x]
           IN  /\ r \in Submission /\ r.of = s.of /\ r.at = x /\ r.public = s.public
               /\ r.sub.prob = s.sub.prob /\ r.sub.batch = s.sub.batch
BY DEF Submission, Judged

LEMMA SetAgain ==
    ASSUME NEW s \in Submission, NEW x \in BOOLEAN
    PROVE  LET r == [s EXCEPT !.again = x]
           IN  /\ r \in Submission /\ r.of = s.of /\ r.at = s.at /\ r.public = s.public
               /\ r.sub.prob = s.sub.prob /\ r.sub.batch = s.sub.batch
BY DEF Submission, Judged

LEMMA SetPublic ==
    ASSUME NEW s \in Submission, NEW x \in BOOLEAN
    PROVE  LET r == [s EXCEPT !.public = x]
           IN  /\ r \in Submission /\ r.of = s.of /\ r.at = s.at /\ r.public = x
               /\ r.sub.prob = s.sub.prob /\ r.sub.batch = s.sub.batch
BY DEF Submission, Judged

LEMMA SetResult ==
    ASSUME NEW s \in Submission, NEW x \in Answer
    PROVE  LET r == [s EXCEPT !.sub.result = x]
           IN  /\ r \in Submission /\ r.of = s.of /\ r.at = s.at /\ r.public = s.public
               /\ r.sub.prob = s.sub.prob /\ r.sub.batch = s.sub.batch
BY DEF Submission, Judged

LEMMA SetPoints ==
    ASSUME NEW s \in Submission, NEW x \in Nat
    PROVE  LET r == [s EXCEPT !.sub.points = x]
           IN  /\ r \in Submission /\ r.of = s.of /\ r.at = s.at /\ r.public = s.public
               /\ r.sub.prob = s.sub.prob /\ r.sub.batch = s.sub.batch
BY DEF Submission, Judged

LEMMA SetBatch ==
    ASSUME NEW s \in Submission, NEW x \in Batches
    PROVE  LET r == [s EXCEPT !.sub.batch = x]
           IN  /\ r \in Submission /\ r.of = s.of /\ r.at = s.at /\ r.public = s.public
               /\ r.sub.prob = s.sub.prob /\ r.sub.batch = x
BY DEF Submission, Judged

\* Row i becomes s: of the same participation and problem, and with its points if graded.
Becomes(i, s) ==
    /\ s \in Submission
    /\ s.of = subs[i].of /\ s.sub.prob = subs[i].sub.prob
    /\ s.at = "graded" => s.sub.batch \in [1..2 -> 0..1]
    /\ subs' = [subs EXCEPT ![i] = s]

LEMMA GradingEndDoes ==
    ASSUME Shapes, NEW i \in DOMAIN subs, NEW v \in scene.verdicts, GradingEnd(i, v)
    PROVE  \E s : Becomes(i, s) /\ s.at = "graded" /\ s.public = (subs[i].sub.prob \in open)
<1>1. v \in [1..2 -> 0..1] /\ v \in Batches
  BY SceneAssumption DEF Shapes, Scened, Batches
<1>2. PICK ans \in Answer : ans = IF CasePoints(v) = 2 THEN "AC" ELSE "WA"
  BY DEF Answer
<1>3. PICK public \in BOOLEAN : public = (subs[i].sub.prob \in open)
  <2>1. (subs[i].sub.prob \in open) \in BOOLEAN
    OBVIOUS
  <2> QED
    BY <2>1, Zenon
<1>4. PICK a : a = [subs[i] EXCEPT !.at = "graded"]
  OBVIOUS
<1>5. PICK b : b = [a EXCEPT !.sub.batch = v]
  OBVIOUS
<1>6. PICK c : c = [b EXCEPT !.public = public]
  OBVIOUS
<1>7. PICK s : s = [c EXCEPT !.sub.result = ans]
  OBVIOUS
<1>8. subs[i] \in Submission
  BY SubmissionIs DEF Shapes
<1>9. a \in Submission /\ a.of = subs[i].of /\ a.at = "graded" /\ a.sub.prob = subs[i].sub.prob
  BY <1>4, <1>8, SetAt
<1>10. b \in Submission /\ b.of = subs[i].of /\ b.at = "graded" /\ b.sub.prob = subs[i].sub.prob /\ b.sub.batch = v
  BY <1>1, <1>5, <1>9, SetBatch
<1>11. /\ c \in Submission /\ c.of = subs[i].of /\ c.at = "graded" /\ c.sub.prob = subs[i].sub.prob
       /\ c.sub.batch = v /\ c.public = public
  BY <1>3, <1>6, <1>10, SetPublic
<1>12. /\ s \in Submission /\ s.of = subs[i].of /\ s.at = "graded" /\ s.sub.prob = subs[i].sub.prob
       /\ s.sub.batch = v /\ s.public = public
  BY <1>2, <1>7, <1>11, SetResult
<1>13. subs' = [subs EXCEPT ![i] = s]
  BY <1>2, <1>3, <1>4, <1>5, <1>6, <1>7 DEF GradingEnd
<1> QED
  BY <1>1, <1>3, <1>12, <1>13 DEF Becomes

\* The points in the contest of what a judge has answered.
LEMMA PointsAreNumbers ==
    ASSUME Shapes, NEW i \in DOMAIN subs, subs[i].at = "graded"
    PROVE  ContestPoints(subs[i].sub.prob, subs[i].sub.batch) \in Nat
<1>1. CasePoints(subs[i].sub.batch) \in Nat
  <2>1. subs[i].sub.batch \in [1..2 -> 0..1]
    BY DEF Shapes, Submissions
  <2>2. subs[i].sub.batch[1] \in 0..1 /\ subs[i].sub.batch[2] \in 0..1
    BY <2>1
  <2> QED
    BY <2>2 DEF CasePoints
<1>2. scene.conf.worth[subs[i].sub.prob] \in Nat
  <2>1. scene.conf.worth \in [Problem -> Nat \ {0}]
    BY SceneAssumption DEF Shapes, Scened
  <2> QED
    BY <2>1, SubmissionIs DEF Shapes
<1>3. ASSUME NEW x \in Nat, NEW y \in Nat
      PROVE  (x * y) \div 2 \in Nat
  <2>1. x * y \in Nat
    OBVIOUS
  <2> QED
    BY <2>1
<1> QED
  BY <1>1, <1>2, <1>3 DEF ContestPoints

LEMMA UpdateContestDoes ==
    ASSUME Shapes, NEW i \in DOMAIN subs, UpdateContest(i)
    PROVE  \E s : Becomes(i, s) /\ s.at = "done"
<1>1. subs[i] \in Submission
  BY SubmissionIs DEF Shapes
<1>2. PICK n \in Nat : n = ContestPoints(subs[i].sub.prob, subs[i].sub.batch)
  BY PointsAreNumbers DEF UpdateContest
<1>3. PICK a : a = [subs[i] EXCEPT !.at = "done"]
  OBVIOUS
<1>4. PICK b : b = [a EXCEPT !.public = FALSE]
  OBVIOUS
<1>5. PICK s : s = [b EXCEPT !.sub.points = n]
  OBVIOUS
<1>6. a \in Submission /\ a.of = subs[i].of /\ a.at = "done" /\ a.sub.prob = subs[i].sub.prob
  BY <1>1, <1>3, SetAt
<1>7. b \in Submission /\ b.of = subs[i].of /\ b.at = "done" /\ b.sub.prob = subs[i].sub.prob
  BY <1>4, <1>6, SetPublic
<1>8. s \in Submission /\ s.of = subs[i].of /\ s.at = "done" /\ s.sub.prob = subs[i].sub.prob
  BY <1>2, <1>5, <1>7, SetPoints
<1>9. subs' = [subs EXCEPT ![i] = s]
  BY <1>2, <1>3, <1>4, <1>5 DEF UpdateContest
<1> QED
  BY <1>8, <1>9 DEF Becomes

LEMMA RejudgeDoes ==
    ASSUME Shapes, NEW i \in DOMAIN subs, Rejudge(i)
    PROVE  \E s : Becomes(i, s) /\ s.at = "judging"
<1>1. subs[i] \in Submission
  BY SubmissionIs DEF Shapes
<1>2. PICK a : a = [subs[i] EXCEPT !.at = "judging"]
  OBVIOUS
<1>3. PICK b : b = [a EXCEPT !.again = TRUE]
  OBVIOUS
<1>4. PICK c : c = [b EXCEPT !.sub.result = None]
  OBVIOUS
<1>5. PICK s : s = [c EXCEPT !.sub.batch = <<>>]
  OBVIOUS
<1>6. a \in Submission /\ a.of = subs[i].of /\ a.at = "judging" /\ a.sub.prob = subs[i].sub.prob
  BY <1>1, <1>2, SetAt
<1>7. b \in Submission /\ b.of = subs[i].of /\ b.at = "judging" /\ b.sub.prob = subs[i].sub.prob
  BY <1>3, <1>6, SetAgain
<1>8. c \in Submission /\ c.of = subs[i].of /\ c.at = "judging" /\ c.sub.prob = subs[i].sub.prob
  BY <1>4, <1>7, SetResult DEF Answer
<1>9. s \in Submission /\ s.of = subs[i].of /\ s.at = "judging" /\ s.sub.prob = subs[i].sub.prob
  BY <1>5, <1>8, SetBatch DEF Batches
<1>10. subs' = [subs EXCEPT ![i] = s]
  BY <1>2, <1>3, <1>4, <1>5 DEF Rejudge
<1> QED
  BY <1>9, <1>10 DEF Becomes

LEMMA GradingFailsDoes ==
    ASSUME Shapes, NEW i \in DOMAIN subs, NEW result \in {"CE", "IE", "AB"}, GradingFails(i, result)
    PROVE  \E s : Becomes(i, s) /\ s.at = "done"
<1>1. subs[i] \in Submission
  BY SubmissionIs DEF Shapes
<1>2. PICK a : a = [subs[i] EXCEPT !.at = "done"]
  OBVIOUS
<1>3. PICK s : s = [a EXCEPT !.sub.result = result]
  OBVIOUS
<1>4. a \in Submission /\ a.of = subs[i].of /\ a.at = "done" /\ a.sub.prob = subs[i].sub.prob
  BY <1>1, <1>2, SetAt
<1>5. s \in Submission /\ s.of = subs[i].of /\ s.at = "done" /\ s.sub.prob = subs[i].sub.prob
  <2>1. result \in Answer
    BY DEF Answer
  <2> QED
    BY <1>3, <1>4, <2>1, SetResult
<1>6. subs' = [subs EXCEPT ![i] = s]
  BY <1>2, <1>3 DEF GradingFails
<1> QED
  BY <1>5, <1>6 DEF Becomes

\* Of the submissions one is new and being judged, or one has become another.
LEMMA SubsChange ==
    ASSUME Shapes, [Next]_vars
    PROVE  \/ UNCHANGED subs
           \/ \E s \in Submission : /\ s.of \in Existing /\ s.at = "judging" /\ Len(subs) < scene.max_subs
                                    /\ subs' = Append(subs, s)
           \/ \E i \in DOMAIN subs, s \in Submission :
                  /\ Becomes(i, s)
                  /\ \/ /\ subs[i].at = "judging" /\ s.at = "graded" /\ s.public = (s.sub.prob \in open)
                        /\ UNCHANGED <<rows, job>>
                     \/ s.at = "done" /\ (UpdateContest(i) \/ UNCHANGED job)
                     \/ s.at = "judging" /\ job[Judge(i)] = Idle /\ UNCHANGED job
<1>1. ASSUME NEW u \in Users, NEW p \in Problem, Submit(u, p)
      PROVE  \E s \in Submission : /\ s.of \in Existing /\ s.at = "judging" /\ Len(subs) < scene.max_subs
                                   /\ subs' = Append(subs, s)
  <2>1. <<u, current[u]>> \in Existing
    BY <1>1 DEF Submit, InContest, Shapes, People
  <2>2. Len(subs) + 1 \in Nat /\ now \in Nat
    BY DEF Shapes, Submissions, Scened
  <2> DEFINE s == [of |-> <<u, current[u]>>, at |-> "judging", again |-> FALSE, public |-> FALSE,
                   sub |-> [id |-> Len(subs) + 1, prob |-> p, date |-> now, result |-> None, points |-> 0,
                            batch |-> <<>>]]
  <2>3. s \in Submission
    BY <2>1, <2>2 DEF Submission, Judged, Answer, Batches, Existing
  <2> QED
    BY <1>1, <2>1, <2>3 DEF Submit
<1>2. ASSUME NEW i \in DOMAIN subs, NEW v \in scene.verdicts, GradingEnd(i, v)
      PROVE  \E s \in Submission : /\ Becomes(i, s) /\ s.at = "graded" /\ s.public = (s.sub.prob \in open)
                                   /\ subs[i].at = "judging" /\ UNCHANGED <<rows, job>>
  <2>1. PICK s : Becomes(i, s) /\ s.at = "graded" /\ s.public = (subs[i].sub.prob \in open)
    BY <1>2, GradingEndDoes
  <2>2. s \in Submission /\ s.sub.prob = subs[i].sub.prob
    BY <2>1 DEF Becomes
  <2>3. subs[i].at = "judging" /\ UNCHANGED <<rows, job>>
    BY <1>2 DEF GradingEnd, jobs
  <2> QED
    BY <2>1, <2>2, <2>3
<1>3. ASSUME NEW i \in DOMAIN subs, UpdateContest(i)
      PROVE  \E s \in Submission : Becomes(i, s) /\ s.at = "done"
  BY <1>3, UpdateContestDoes DEF Becomes
<1>4. ASSUME NEW i \in DOMAIN subs, Rejudge(i)
      PROVE  \E s \in Submission : Becomes(i, s) /\ s.at = "judging" /\ job[Judge(i)] = Idle /\ UNCHANGED job
  BY <1>4, RejudgeDoes DEF Rejudge, jobs, Becomes
<1>5. ASSUME NEW i \in DOMAIN subs, NEW result \in {"CE", "IE", "AB"}, GradingFails(i, result)
      PROVE  \E s \in Submission : Becomes(i, s) /\ s.at = "done" /\ UNCHANGED job
  BY <1>5, GradingFailsDoes DEF GradingFails, jobs, Becomes
<1> QED
  BY <1>1, <1>2, <1>3, <1>4, <1>5, SubsMove

LEMMA SubmissionsStep ==
    ASSUME NoneIsNothing, Shapes, [Next]_vars
    PROVE  Submissions'
<1>0. Submission' = Submission /\ Existing \subseteq Existing' /\ scene' = scene /\ scene.max_subs \in Nat
  BY SceneStays, PeopleStep, SceneAssumption DEF Submission, Key, Users, Virtual, Shapes, Scened
<1>1. /\ subs \in Seq(Submission) /\ Len(subs) <= scene.max_subs
      /\ \A i \in DOMAIN subs :
             subs[i].of \in Existing /\ (subs[i].at = "graded" => subs[i].sub.batch \in [1..2 -> 0..1])
  BY DEF Shapes, Submissions
<1>2. CASE UNCHANGED subs
  BY <1>0, <1>1, <1>2 DEF Submissions
<1>3. ASSUME NEW s \in Submission, s.of \in Existing, s.at = "judging", Len(subs) < scene.max_subs,
             subs' = Append(subs, s)
      PROVE  Submissions'
  <2>1. /\ subs' \in Seq(Submission) /\ DOMAIN subs' = DOMAIN subs \cup {Len(subs) + 1}
        /\ Len(subs') <= scene.max_subs
    BY <1>0, <1>1, <1>3
  <2>2. \A i \in DOMAIN subs' : subs'[i] = s \/ (i \in DOMAIN subs /\ subs'[i] = subs[i])
    BY <1>1, <1>3
  <2> QED
    BY <1>0, <1>1, <1>3, <2>1, <2>2 DEF Submissions
<1>4. ASSUME NEW i \in DOMAIN subs, NEW s \in Submission, Becomes(i, s)
      PROVE  Submissions'
  <2>1. subs' = [subs EXCEPT ![i] = s]
    BY <1>4 DEF Becomes
  <2>2. subs' \in Seq(Submission) /\ DOMAIN subs' = DOMAIN subs /\ Len(subs') = Len(subs)
    BY <1>1, <2>1
  <2>3. \A n \in DOMAIN subs : subs'[n] = IF n = i THEN s ELSE subs[n]
    BY <2>1
  <2> QED
    BY <1>0, <1>1, <1>4, <2>2, <2>3 DEF Submissions, Becomes
<1> QED
  BY <1>2, <1>3, <1>4, SubsChange

-----------------------------------------------------------------------------
(* What a step does to a job *)

\* A recomputation that begins: by a judge, an administrator, an editor or the page.
Begun(a, j) ==
    /\ a \in Actor
    /\ \E k \in Existing :
           /\ Alone(k)
           /\ \/ j = [at |-> "load", of |-> k, sentence |-> FALSE]
              \/ \E disq \in BOOLEAN :
                     /\ j = [at |-> "read", of |-> k, sentence |-> TRUE, disq |-> disq]
                     /\ Undisturbed(k) /\ (k[2] = LIVE \/ May("several"))
    /\ job' = [job EXCEPT ![a] = j]

\* The next step of job a: where it is, what it read and what it goes on with.
GoesOn(a, j) ==
    /\ a \in Actor /\ job[a] # Idle
    /\ job' = [job EXCEPT ![a] = j]
    /\ \/ j = Idle /\ job[a].at \in {"save", "ban"}
       \/ /\ job[a].at = "load"
          /\ j = [at |-> "read", of |-> job[a].of, sentence |-> FALSE, disq |-> part[job[a].of].is_disqualified]
       \/ /\ job[a].at = "read"
          /\ \E x : j = [at |-> "save", of |-> job[a].of, sentence |-> job[a].sentence, disq |-> job[a].disq,
                        res |-> x]
       \/ /\ job[a].at = "save" /\ job[a].sentence
          /\ j = [at |-> IF job[a].disq THEN "expel" ELSE "ban", of |-> job[a].of, disq |-> job[a].disq]
       \/ job[a].at = "expel" /\ j = [at |-> "ban", of |-> job[a].of, disq |-> job[a].disq]

LEMMA JobBegins ==
    ASSUME Shapes, [Next]_vars
    PROVE  /\ \A i \in DOMAIN subs : UpdateContest(i) => \E j : Begun(Judge(i), j) /\ j.at = "load"
           /\ \A k \in Existing : Recalculate(k) => \E j : Begun(Admin, j) /\ job[Admin] = Idle /\ j.at = "load"
           /\ \A k \in Existing : Toggle(k) => \E j : Begun(Editor, j) /\ job[Editor] = Idle
           /\ \A u \in Users, counted \in BOOLEAN : Report(u, counted) =>
                  UNCHANGED job \/ \E j : Begun(Page, j) /\ job[Page] = Idle
<1>1. ASSUME NEW i \in DOMAIN subs, UpdateContest(i)
      PROVE  \E j : Begun(Judge(i), j) /\ j.at = "load"
  <2> DEFINE j == [at |-> "load", of |-> subs[i].of, sentence |-> FALSE]
  <2>1. i \in 1..scene.max_subs
    <3>1. scene.max_subs \in Nat
      BY SceneAssumption DEF Shapes, Scened
    <3> QED
      BY <3>1 DEF Shapes, Submissions
  <2>2. subs[i].of \in Existing /\ Judge(i) \in Actor
    BY <2>1 DEF Shapes, Submissions, Actor
  <2>3. Begun(Judge(i), j)
    BY <1>1, <2>2 DEF UpdateContest, Begins, Begun
  <2> QED
    BY <2>3
<1>2. ASSUME NEW k \in Existing, Recalculate(k)
      PROVE  \E j : Begun(Admin, j) /\ job[Admin] = Idle /\ j.at = "load"
  <2> DEFINE j == [at |-> "load", of |-> k, sentence |-> FALSE]
  <2>1. Begun(Admin, j)
    BY <1>2 DEF Recalculate, Begins, Begun, Actor
  <2> QED
    BY <1>2, <2>1 DEF Recalculate
<1>3. ASSUME NEW k \in Existing, Toggle(k)
      PROVE  \E j : Begun(Editor, j) /\ job[Editor] = Idle
  <2>1. PICK disq \in BOOLEAN : disq = ~part[k].is_disqualified
    BY Zenon
  <2> DEFINE j == [at |-> "read", of |-> k, sentence |-> TRUE, disq |-> disq]
  <2>2. Begun(Editor, j)
    BY <1>3, <2>1 DEF Toggle, Sentenced, Begins, Begun, Actor, Undisturbed
  <2> QED
    BY <1>3, <2>2 DEF Toggle
<1>4. ASSUME NEW u \in Users, NEW counted \in BOOLEAN, Report(u, counted)
      PROVE  UNCHANGED job \/ \E j : Begun(Page, j) /\ job[Page] = Idle
  <2> DEFINE j == [at |-> "read", of |-> LiveKey(u), sentence |-> TRUE, disq |-> TRUE]
  <2>1. LiveKey(u) \in Existing /\ LiveKey(u)[2] = LIVE
    BY <1>4 DEF Report, InContest, Shapes, People, LiveKey, LIVE
  <2>2. UNCHANGED job \/ Begun(Page, j)
    BY <1>4, <2>1 DEF Report, Sentenced, Begins, Begun, Actor, Undisturbed
  <2> QED
    BY <1>4, <2>2 DEF Report
<1> QED
  BY <1>1, <1>2, <1>3, <1>4

LEMMA JobGoesOn ==
    ASSUME Shapes, NEW a \in Actor, Load(a) \/ Read(a) \/ Save(a) \/ Expel(a) \/ Ban(a)
    PROVE  \E j : GoesOn(a, j)
<1>1. DOMAIN job = Actor /\ IsJob(job[a])
  BY DEF Shapes, Jobs
<1>2. CASE Load(a)
  <2> DEFINE j == [at |-> "read", of |-> job[a].of, sentence |-> FALSE, disq |-> part[job[a].of].is_disqualified]
  <2>1. GoesOn(a, j)
    BY <1>2 DEF Load, GoesOn, Idle
  <2> QED
    BY <2>1
<1>3. CASE Read(a)
  <2>1. PICK x : job' = [job EXCEPT ![a] = [at |-> "save", of |-> job[a].of, sentence |-> job[a].sentence,
                                            disq |-> job[a].disq, res |-> x]]
    BY <1>3 DEF Read
  <2> DEFINE j == [at |-> "save", of |-> job[a].of, sentence |-> job[a].sentence, disq |-> job[a].disq, res |-> x]
  <2>2. GoesOn(a, j)
    <3>1. \E y : j = [at |-> "save", of |-> job[a].of, sentence |-> job[a].sentence, disq |-> job[a].disq, res |-> y]
      OBVIOUS
    <3>2. job[a].at = "read" /\ job[a] # Idle /\ job' = [job EXCEPT ![a] = j]
      <4>1. job[a].at = "read" /\ job[a] # Idle
        BY <1>3 DEF Read, Idle
      <4>2. job' = [job EXCEPT ![a] = j]
        BY <2>1
      <4> QED
        BY <4>1, <4>2
    <3> HIDE DEF j
    <3> QED
      BY <3>1, <3>2 DEF GoesOn
  <2> QED
    BY <2>2
<1>4. CASE Save(a)
  <2> DEFINE j == [at |-> IF job[a].disq THEN "expel" ELSE "ban", of |-> job[a].of, disq |-> job[a].disq]
  <2>1. \/ job' = [job EXCEPT ![a] = Idle]
        \/ job[a].sentence /\ job' = [job EXCEPT ![a] = j]
    BY <1>4 DEF Save
  <2>2. job[a].at = "save" /\ job[a] # Idle
    BY <1>4 DEF Save, Idle
  <2>3. GoesOn(a, Idle) \/ GoesOn(a, j)
    BY <2>1, <2>2 DEF GoesOn
  <2> QED
    BY <2>3
<1>5. CASE Expel(a)
  <2>1. job[a].at = "expel" /\ job' = [job EXCEPT ![a].at = "ban"]
    BY <1>5 DEF Expel
  <2>2. PICK o, d : job[a] = [at |-> "expel", of |-> o, disq |-> d]
    BY <1>1, <2>1 DEF IsJob, Idle
  <2> DEFINE j == [at |-> "ban", of |-> job[a].of, disq |-> job[a].disq]
  <2>3. [job[a] EXCEPT !.at = "ban"] = j
    BY <2>2
  <2>4. job' = [job EXCEPT ![a] = [job[a] EXCEPT !.at = "ban"]]
    BY <1>1, <2>1
  <2>5. GoesOn(a, j)
    BY <2>1, <2>3, <2>4 DEF GoesOn, Idle
  <2> QED
    BY <2>5
<1>6. CASE Ban(a)
  <2>1. GoesOn(a, Idle)
    BY <1>6 DEF Ban, GoesOn, Idle
  <2> QED
    BY <2>1
<1> QED
  BY <1>2, <1>3, <1>4, <1>5, <1>6

\* One job at most begins or goes on.
LEMMA JobChange ==
    ASSUME Shapes, [Next]_vars
    PROVE  UNCHANGED job \/ \E a \in Actor : \E j : Begun(a, j) \/ GoesOn(a, j)
<1>1. ASSUME NEW a, NEW j, Begun(a, j)
      PROVE  a \in Actor
  BY <1>1 DEF Begun
<1> QED
  BY <1>1, JobBegins, JobGoesOn, JobMove

LEMMA JobsStep ==
    ASSUME NoneIsNothing, Shapes, [Next]_vars
    PROVE  Jobs'
<1>0. Key' = Key /\ Actor' = Actor /\ Existing \subseteq Existing' /\ Existing \subseteq Key
  BY SceneStays, PeopleStep DEF Key, Users, Virtual, Actor, Judge, Editor, Page, Admin, Existing
<1>1. DOMAIN job = Actor /\ \A a \in Actor : IsJob(job[a]) /\ (job[a] # Idle => job[a].of \in Existing)
  BY DEF Shapes, Jobs
<1>2. CASE UNCHANGED job
  <2>1. \A a \in Actor : IsJob(job[a])'
    BY <1>0, <1>1, <1>2 DEF IsJob, Idle
  <2> QED
    BY <1>0, <1>1, <1>2, <2>1 DEF Jobs, Idle
<1>3. ASSUME NEW a \in Actor, NEW j, Begun(a, j) \/ GoesOn(a, j)
      PROVE  Jobs'
  <2>1. job' = [job EXCEPT ![a] = j]
    BY <1>3 DEF Begun, GoesOn
  <2>2. IsJob(j) /\ (j # Idle => j.of \in Existing)
    <3>1. CASE Begun(a, j)
      <4>1. PICK k \in Existing :
                 \/ j = [at |-> "load", of |-> k, sentence |-> FALSE]
                 \/ \E disq \in BOOLEAN : j = [at |-> "read", of |-> k, sentence |-> TRUE, disq |-> disq]
        BY <3>1 DEF Begun
      <4>2. CASE j = [at |-> "load", of |-> k, sentence |-> FALSE]
        BY <1>0, <4>2 DEF IsJob
      <4>3. ASSUME NEW disq \in BOOLEAN, j = [at |-> "read", of |-> k, sentence |-> TRUE, disq |-> disq]
            PROVE  IsJob(j) /\ j.of \in Existing
        BY <1>0, <4>3 DEF IsJob
      <4> QED
        BY <4>1, <4>2, <4>3
    <3>2. CASE GoesOn(a, j)
      <4>1. job[a].of \in Existing /\ IsPart(part[job[a].of])
        BY <1>1, <3>2 DEF GoesOn, Shapes, People
      <4>2. part[job[a].of].is_disqualified \in BOOLEAN
        BY <4>1 DEF IsPart
      <4>3. IsJob(job[a])
        BY <1>1
      <4>4. j # Idle => j.of \in Existing
        BY <3>2, <4>1 DEF GoesOn
      <4>5. IsJob(j)
        <5>1. PICK o \in Key : o = job[a].of
          BY <1>0, <4>1
        <5>2. PICK d : d = job[a].disq
          OBVIOUS
        <5>3. job[a].at \in {"read", "save", "expel", "ban"} => d \in BOOLEAN
          BY <4>3, <5>2 DEF IsJob, Idle
        <5>4. job[a].at \in {"read", "save"} => job[a].sentence \in BOOLEAN
          BY <4>3 DEF IsJob, Idle
        <5>5. CASE j = Idle
          BY <5>5 DEF IsJob
        <5>6. CASE /\ job[a].at = "load"
                   /\ j = [at |-> "read", of |-> o, sentence |-> FALSE, disq |-> part[o].is_disqualified]
          BY <4>2, <5>1, <5>2, <5>6 DEF IsJob
        <5>7. ASSUME NEW x, job[a].at = "read",
                     j = [at |-> "save", of |-> o, sentence |-> job[a].sentence, disq |-> d, res |-> x]
              PROVE  IsJob(j)
          BY <5>3, <5>4, <5>7 DEF IsJob
        <5>8. CASE /\ job[a].at = "save"
                   /\ j = [at |-> IF d THEN "expel" ELSE "ban", of |-> o, disq |-> d]
          BY <5>3, <5>8 DEF IsJob
        <5>9. CASE job[a].at = "expel" /\ j = [at |-> "ban", of |-> o, disq |-> d]
          BY <5>3, <5>9 DEF IsJob
        <5> QED
          BY <3>2, <5>1, <5>2, <5>5, <5>6, <5>7, <5>8, <5>9 DEF GoesOn
      <4> QED
        BY <4>4, <4>5
    <3> QED
      BY <1>3, <3>1, <3>2
  <2>3. \A b \in Actor : job'[b] = IF b = a THEN j ELSE job[b]
    BY <1>1, <2>1
  <2>4. \A b \in Actor : job'[b] # Idle => job'[b].of \in Existing'
    BY <1>0, <1>1, <2>2, <2>3
  <2>5. \A b \in Actor : IsJob(job[b])'
    <3>1. ASSUME NEW b \in Actor PROVE IsJob(job[b])'
      <4>1. PICK x : x = job'[b] /\ IsJob(x)
        BY <1>1, <2>2, <2>3
      <4> QED
        BY <1>0, <4>1 DEF IsJob, Idle
    <3> QED
      BY <3>1
  <2>6. DOMAIN job' = Actor
    BY <1>1, <2>1
  <2> QED
    BY <1>0, <2>4, <2>5, <2>6 DEF Jobs, Idle
<1> QED
  BY <1>2, <1>3, JobChange

LEMMA CommandsStep ==
    ASSUME Shapes, [Next]_vars
    PROVE  Commands'
<1>0. scene' = scene /\ now \in Nat /\ now' \in Nat /\ now <= now'
  BY SceneStays DEF Shapes, Scened
<1>1. /\ DOMAIN problems = Contests /\ \A c \in Contests : problems[c] \subseteq Problem
      /\ DOMAIN announced = Contests
      /\ \/ command = Idle
         \/ /\ command = [at |-> command.at, now |-> command.now, left |-> command.left,
                           blocked |-> command.blocked]
            /\ command.at \in {"next", "commit"}
            /\ command.now \in Nat /\ command.now <= now
            /\ command.left # {} /\ command.left \subseteq Contests
      /\ \/ saving = Idle
         \/ /\ saving = [c |-> saving.c, p |-> saving.p, marked |-> saving.marked]
            /\ saving.c \in Contests /\ saving.p \in Problem /\ saving.marked \in BOOLEAN
      /\ \A c \in Contests : row[c].published \in BOOLEAN
  BY DEF Shapes, Commands, Rows, IsRow
<1>2. CASE UNCHANGED pubVars
  BY <1>0, <1>1, <1>2 DEF Commands, pubVars
<1>3. CASE PublishStart
  <2>1. command' = [at |-> "next", now |-> now, left |-> {c \in Contests : Due(c, now)}, blocked |-> {}]
    BY <1>3 DEF PublishStart
  <2>2. \E c \in Contests : Due(c, now)
    BY <1>3 DEF PublishStart
  <2>3. PICK T : T = {c \in Contests : Due(c, now)}
    OBVIOUS
  <2>4. T # {} /\ T \subseteq Contests
    BY <2>2, <2>3
  <2>5. command' = [at |-> "next", now |-> now, left |-> T, blocked |-> {}]
    BY <2>1, <2>3
  <2> QED
    BY <1>0, <1>1, <1>3, <2>4, <2>5 DEF PublishStart, Commands
<1>4. CASE ReadBlocked \/ Publish
  <2>1. command # Idle /\ UNCHANGED <<problems, announced, saving>>
    BY <1>4 DEF ReadBlocked, Publish, Idle
  <2>2. PICK n, T : n = command.now /\ T = command.left
    OBVIOUS
  <2>3. n \in Nat /\ n <= now' /\ T # {} /\ T \subseteq Contests
    BY <1>0, <1>1, <2>1, <2>2
  <2>4. \/ command' = AfterThis
        \/ \E B : command' = [at |-> "commit", now |-> n, left |-> T, blocked |-> B]
    <3>1. PICK B : B = {p \in problems[This] \ open : Blocked(p, command.now)}
      OBVIOUS
    <3>2. CASE ReadBlocked
      BY <1>1, <2>1, <2>2, <3>1, <3>2 DEF ReadBlocked
    <3>3. CASE Publish
      BY <3>3 DEF Publish
    <3> QED
      BY <1>4, <3>2, <3>3
  <2>5. ASSUME NEW w \in {"next", "commit"}, NEW U \in SUBSET Contests, U # {}, NEW B,
               command' = [at |-> w, now |-> n, left |-> U, blocked |-> B]
        PROVE  Commands'
    BY <1>0, <1>1, <2>1, <2>3, <2>5 DEF Commands
  <2>6. CASE command' = Idle
    BY <1>0, <1>1, <2>1, <2>6 DEF Commands
  <2>7. Locked \/ command.at = "next"
    BY <1>4 DEF ReadBlocked, Publish, Locked
  <2> QED
    BY <2>2, <2>3, <2>4, <2>5, <2>6, <2>7, AfterThisIs DEF Shapes
<1>5. ASSUME NEW c \in Contests, NEW minutes \in {-1, 1}, Extend(c, minutes)
      PROVE  Commands'
  BY <1>0, <1>1, <1>5 DEF Extend, Commands
<1>6. ASSUME NEW c \in Contests, NEW p \in Problem, SaveProblem(c, p)
      PROVE  Commands'
  BY <1>0, <1>1, <1>6 DEF SaveProblem, Commands
<1>7. CASE SaveCommit
  <2>1. saving # Idle
    BY <1>7 DEF SaveCommit
  <2>2. PICK c \in Contests, p \in Problem : saving.c = c /\ saving.p = p
    BY <1>1, <2>1
  <2>3. problems' = [problems EXCEPT ![c] = @ \cup {p}] /\ saving' = Idle /\ UNCHANGED <<announced, command>>
    BY <1>7, <2>2 DEF SaveCommit
  <2>4. DOMAIN problems' = Contests /\ \A x \in Contests : problems'[x] \subseteq Problem
    BY <1>1, <2>3
  <2> QED
    BY <1>0, <1>1, <2>3, <2>4 DEF Commands, Idle
<1>8. ASSUME NEW p \in Problem, Hide(p)
      PROVE  Commands'
  BY <1>0, <1>1, <1>8 DEF Hide, Commands
<1> QED
  BY <1>2, <1>3, <1>4, <1>5, <1>6, <1>7, <1>8, PubMove DEF Organizing

LEMMA ShapesStep ==
    ASSUME NoneIsNothing, Shapes, [Next]_vars
    PROVE  Shapes'
<1>1. Scened'
  BY SceneStays DEF Shapes, Scened
<1> QED
  BY <1>1, RowsStep, PeopleStep, JoinsStep, SubmissionsStep, JobsStep, CommandsStep DEF Shapes

-----------------------------------------------------------------------------
(* Sentences *)

Separate == Without({"overlap", "several"})

LEMMA SeparateMeans ==
    ASSUME Separate
    PROVE  ~May("overlap") /\ ~May("several")
BY DEF Separate, Without, May

\* The actor of a job that begins had none: a judge's own is over before its
\* submission is judged again.
LEMMA SentenceMove ==
    ASSUME Shapes, OneJob, Separate, [Next]_vars
    PROVE  \/ UNCHANGED <<part, current, banned, job, join>>
           \/ \E u \in Users : JoinContest(u) \/ Enter(u) \/ UpdateUserCount(u) \/ Leave(u)
           \/ \E a \in Actor : \E j :
                  Begun(a, j) /\ job[a] = Idle /\ UNCHANGED <<part, current, banned, join>>
           \/ \E a \in Actor : Load(a) \/ Read(a) \/ Save(a) \/ Expel(a) \/ Ban(a)
<1>1. CASE UNCHANGED job
  BY <1>1, PeopleMove, BannedMove, JoinMove
<1>2. ASSUME NEW i \in DOMAIN subs, UpdateContest(i)
      PROVE  \E a \in Actor : \E j :
                 Begun(a, j) /\ job[a] = Idle /\ UNCHANGED <<part, current, banned, join>>
  <2>1. PICK j : Begun(Judge(i), j)
    BY <1>2, JobBegins
  <2>2. i \in 1..scene.max_subs
    <3>1. scene.max_subs \in Nat
      BY SceneAssumption DEF Shapes, Scened
    <3> QED
      BY <3>1 DEF Shapes, Submissions
  <2>3. job[Judge(i)] = Idle
    BY <1>2, <2>2 DEF OneJob, JudgesAreFree, UpdateContest
  <2>4. UNCHANGED <<part, current, banned, join>>
    BY <1>2 DEF UpdateContest, people
  <2>5. Judge(i) \in Actor
    BY <2>1 DEF Begun
  <2> QED
    BY <2>1, <2>3, <2>4, <2>5
<1>3. ASSUME NEW u \in Users, NEW counted \in BOOLEAN, Report(u, counted), ~UNCHANGED job
      PROVE  \E a \in Actor : \E j :
                 Begun(a, j) /\ job[a] = Idle /\ UNCHANGED <<part, current, banned, join>>
  <2>1. PICK j : Begun(Page, j) /\ job[Page] = Idle
    BY <1>3, JobBegins
  <2>2. UNCHANGED <<part, current, banned, join>>
    BY <1>3 DEF Report, Sentenced
  <2> QED
    BY <2>1, <2>2 DEF Begun
<1>4. ASSUME NEW k \in Existing, Recalculate(k)
      PROVE  \E a \in Actor : \E j :
                 Begun(a, j) /\ job[a] = Idle /\ UNCHANGED <<part, current, banned, join>>
  <2>1. PICK j : Begun(Admin, j) /\ job[Admin] = Idle
    BY <1>4, JobBegins
  <2>2. UNCHANGED <<part, current, banned, join>>
    BY <1>4 DEF Recalculate, people
  <2> QED
    BY <2>1, <2>2 DEF Begun
<1>5. ASSUME NEW k \in Existing, Toggle(k)
      PROVE  \E a \in Actor : \E j :
                 Begun(a, j) /\ job[a] = Idle /\ UNCHANGED <<part, current, banned, join>>
  <2>1. PICK j : Begun(Editor, j) /\ job[Editor] = Idle
    BY <1>5, JobBegins
  <2>2. UNCHANGED <<part, current, banned, join>>
    BY <1>5 DEF Toggle
  <2> QED
    BY <2>1, <2>2 DEF Begun
<1> QED
  BY <1>1, <1>2, <1>3, <1>4, <1>5, JobMove

\* The judge of a submission has ended his job before it is judged again.
LEMMA JudgesAreFreeStep ==
    ASSUME Shapes, JudgesAreFree, [Next]_vars
    PROVE  JudgesAreFree'
<1>0. scene' = scene /\ Actor' = Actor /\ scene.max_subs \in Nat
  BY SceneStays, SceneAssumption DEF Actor, Judge, Editor, Page, Admin, Shapes, Scened
<1>1. DOMAIN job = Actor /\ DOMAIN subs \subseteq 1..scene.max_subs
  BY <1>0 DEF Shapes, Jobs, Submissions
<1>2. ASSUME NEW i \in 1..scene.max_subs, i \in DOMAIN subs' => subs'[i].at # "done"
      PROVE  job'[Judge(i)] = Idle
  <2>0. Judge(i) \in Actor /\ Judge(i) \notin {Editor, Page, Admin}
    BY DEF Actor, Judge, Editor, Page, Admin
  <2>1. CASE UNCHANGED job
    <3>1. CASE UNCHANGED subs
      BY <1>2, <2>1, <3>1 DEF JudgesAreFree
    <3>2. ASSUME NEW s \in Submission, s.at = "judging", subs' = Append(subs, s)
          PROVE  job[Judge(i)] = Idle
      <4>1. i \in DOMAIN subs => i \in DOMAIN subs' /\ subs'[i] = subs[i]
        BY <3>2 DEF Shapes, Submissions
      <4> QED
        BY <1>2, <4>1 DEF JudgesAreFree
    <3>3. ASSUME NEW n \in DOMAIN subs, NEW s \in Submission, Becomes(n, s),
                 s.at = "done" \/ subs[n].at = "judging" \/ job[Judge(n)] = Idle
          PROVE  job[Judge(i)] = Idle
      <4>1. DOMAIN subs' = DOMAIN subs /\ \A x \in DOMAIN subs : subs'[x] = IF x = n THEN s ELSE subs[x]
        BY <3>3 DEF Becomes
      <4>2. CASE i = n
        BY <1>2, <3>3, <4>1, <4>2 DEF JudgesAreFree
      <4>3. CASE i # n
        BY <1>2, <4>1, <4>3 DEF JudgesAreFree
      <4> QED
        BY <4>2, <4>3
    <3> QED
      BY <2>1, <3>1, <3>2, <3>3, SubsChange
  <2>2. ASSUME NEW n \in DOMAIN subs, UpdateContest(n)
        PROVE  job'[Judge(i)] = Idle
    <3>1. PICK s : Becomes(n, s) /\ s.at = "done"
      BY <2>2, UpdateContestDoes
    <3>2. DOMAIN subs' = DOMAIN subs /\ \A x \in DOMAIN subs : subs'[x] = IF x = n THEN s ELSE subs[x]
      BY <3>1 DEF Becomes
    <3>3. i # n /\ (i \in DOMAIN subs => subs[i].at # "done")
      BY <1>2, <3>1, <3>2
    <3>4. Judge(i) # Judge(n)
      BY <3>3 DEF Judge
    <3>5. \A b \in Actor \ {Judge(n)} : job'[b] = job[b]
      BY <1>1, <2>2, JobBegins DEF Begun
    <3> QED
      BY <2>0, <3>3, <3>4, <3>5 DEF JudgesAreFree
  <2>3. ASSUME UNCHANGED subs, \A b \in Actor \ {Editor, Page, Admin} : job[b] = Idle => job'[b] = job[b]
        PROVE  job'[Judge(i)] = Idle
    <3>1. job[Judge(i)] = Idle
      BY <1>2, <2>3 DEF JudgesAreFree
    <3> QED
      BY <2>0, <2>3, <3>1
  <2>4. ASSUME NEW k \in Existing, Recalculate(k) \/ Toggle(k)
        PROVE  job'[Judge(i)] = Idle
    <3>1. \A b \in Actor \ {Editor, Page, Admin} : job[b] = Idle => job'[b] = job[b]
      BY <1>1, <2>4, JobBegins DEF Begun
    <3> QED
      BY <2>3, <2>4, <3>1 DEF Recalculate, Toggle
  <2>5. ASSUME NEW u \in Users, NEW counted \in BOOLEAN, Report(u, counted)
        PROVE  job'[Judge(i)] = Idle
    <3>1. \A b \in Actor \ {Editor, Page, Admin} : job[b] = Idle => job'[b] = job[b]
      BY <1>1, <2>5, JobBegins DEF Begun
    <3> QED
      BY <2>3, <2>5, <3>1 DEF Report
  <2>6. ASSUME NEW a \in Actor, Load(a) \/ Read(a) \/ Save(a) \/ Expel(a) \/ Ban(a)
        PROVE  job'[Judge(i)] = Idle
    <3>1. \A b \in Actor \ {Editor, Page, Admin} : job[b] = Idle => job'[b] = job[b]
      BY <1>1, <2>6, JobGoesOn DEF GoesOn
    <3>2. UNCHANGED subs
      BY <2>6 DEF Load, Read, Save, Expel, Ban
    <3> QED
      BY <2>3, <3>1, <3>2
  <2> QED
    BY <2>1, <2>2, <2>4, <2>5, <2>6, JobMove
<1> QED
  BY <1>0, <1>2 DEF JudgesAreFree, Judge

LEMMA OneJobStep ==
    ASSUME Shapes, OneJob, Separate, [Next]_vars
    PROVE  OneJob'
<1>0. scene' = scene /\ Actor' = Actor /\ scene.max_subs \in Nat
  BY SceneStays, SceneAssumption DEF Actor, Judge, Editor, Page, Admin, Shapes, Scened
<1>1. DOMAIN job = Actor /\ DOMAIN subs \subseteq 1..scene.max_subs
  BY <1>0 DEF Shapes, Jobs, Submissions
<1>2. \A a, b \in Actor : job'[a] # Idle /\ job'[b] # Idle /\ job'[a].of = job'[b].of => a = b
  <2>1. CASE UNCHANGED job
    BY <2>1 DEF OneJob
  <2>2. ASSUME NEW a \in Actor, NEW j, Begun(a, j)
        PROVE  \A b, c \in Actor : job'[b] # Idle /\ job'[c] # Idle /\ job'[b].of = job'[c].of => b = c
    <3>1. PICK k \in Existing : Alone(k) /\ j.of = k
      BY <2>2 DEF Begun
    <3>2. \A b \in Actor : job[b] # Idle => job[b].of # k
      BY <3>1, SeparateMeans DEF Alone, Busy
    <3>3. \A b \in Actor : job'[b] = IF b = a THEN j ELSE job[b]
      BY <1>1, <2>2 DEF Begun
    <3> QED
      BY <3>1, <3>2, <3>3 DEF OneJob
  <2>3. ASSUME NEW a \in Actor, NEW j, GoesOn(a, j)
        PROVE  \A b, c \in Actor : job'[b] # Idle /\ job'[c] # Idle /\ job'[b].of = job'[c].of => b = c
    <3>1. job[a] # Idle /\ (j = Idle \/ j.of = job[a].of)
      BY <2>3 DEF GoesOn
    <3>2. \A b \in Actor : job'[b] = IF b = a THEN j ELSE job[b]
      BY <1>1, <2>3 DEF GoesOn
    <3> QED
      BY <3>1, <3>2 DEF OneJob
  <2> QED
    BY <2>1, <2>2, <2>3, JobChange
<1> QED
  BY <1>0, <1>2, JudgesAreFreeStep DEF OneJob

\* The steps of a recomputation but for Save leave every participation as it is.
LEMMA FlagIsKnownStep ==
    ASSUME NoneIsNothing, Shapes, OneJob, FlagIsKnown, Separate, [Next]_vars
    PROVE  FlagIsKnown'
<1>0. scene' = scene /\ Actor' = Actor
  BY SceneStays DEF Actor, Judge, Editor, Page, Admin
<1>1. DOMAIN job = Actor /\ \A a \in Actor : IsJob(job[a]) /\ (job[a] # Idle => job[a].of \in Existing)
  BY DEF Shapes, Jobs
<1> DEFINE Known(a) ==
      /\ job[a].at \in {"read", "save"} /\ ~job[a].sentence => job[a].disq = part[job[a].of].is_disqualified
      /\ job[a].at \in {"read", "save"} /\ job[a].sentence => job[a].of[2] = LIVE
      /\ Pending(a) => job[a].of[2] = LIVE /\ job[a].disq = part[job[a].of].is_disqualified
      /\ job[a].at = "expel" => job[a].disq
<1>2. \A a \in Actor : Known(a)
  BY DEF FlagIsKnown
<1>3. ASSUME NEW a \in Actor, job'[a] = job[a], job[a] = Idle \/ part'[job[a].of] = part[job[a].of]
      PROVE  Known(a)'
  BY <1>2, <1>3 DEF Pending, Idle
<1>4. ASSUME UNCHANGED <<part, job>>
      PROVE  \A a \in Actor : Known(a)'
  BY <1>3, <1>4
<1>5. ASSUME NEW u \in Users, JoinContest(u) \/ Enter(u) \/ UpdateUserCount(u) \/ Leave(u)
      PROVE  \A a \in Actor : Known(a)'
  <2>1. CASE JoinContest(u) \/ UpdateUserCount(u) \/ Leave(u)
    BY <1>4, <2>1 DEF JoinContest, UpdateUserCount, Leave, jobs, people
  <2>2. CASE Enter(u)
    <3>1. \A k \in Existing : part'[k] = part[k]
      BY <2>2, EnteredIs DEF Enter, Shapes, People, Existing
    <3>2. job' = job
      BY <2>2 DEF Enter
    <3> QED
      BY <1>1, <1>3, <3>1, <3>2
  <2> QED
    BY <1>5, <2>1, <2>2
<1>6. ASSUME NEW a \in Actor, NEW j, Begun(a, j), UNCHANGED part
      PROVE  \A b \in Actor : Known(b)'
  <2>1. \A b \in Actor : job'[b] = IF b = a THEN j ELSE job[b]
    BY <1>1, <1>6 DEF Begun
  <2>2. Known(a)'
    <3>1. PICK k \in Existing :
               \/ j = [at |-> "load", of |-> k, sentence |-> FALSE]
               \/ \E disq \in BOOLEAN :
                      j = [at |-> "read", of |-> k, sentence |-> TRUE, disq |-> disq] /\ k[2] = LIVE
      BY <1>6, SeparateMeans DEF Begun
    <3>2. job'[a] = j
      BY <2>1
    <3>3. CASE j = [at |-> "load", of |-> k, sentence |-> FALSE]
      BY <3>2, <3>3 DEF Pending
    <3>4. ASSUME NEW disq \in BOOLEAN, j = [at |-> "read", of |-> k, sentence |-> TRUE, disq |-> disq], k[2] = LIVE
          PROVE  Known(a)'
      BY <3>2, <3>4 DEF Pending
    <3> QED
      BY <3>1, <3>3, <3>4
  <2> QED
    BY <1>3, <1>6, <2>1, <2>2
<1>7. ASSUME NEW a \in Actor, Load(a) \/ Read(a) \/ Expel(a) \/ Ban(a)
      PROVE  \A b \in Actor : Known(b)'
  <2>1. part' = part
    BY <1>7 DEF Load, Read, Expel, Ban
  <2>2. PICK j : GoesOn(a, j)
    BY <1>7, JobGoesOn
  <2>3. \A b \in Actor : job'[b] = IF b = a THEN j ELSE job[b]
    BY <1>1, <2>2 DEF GoesOn
  <2>4. job[a].at \in {"load", "read", "expel", "ban"}
    BY <1>7 DEF Load, Read, Expel, Ban
  <2>5. Known(a)'
    <3>1. CASE j = Idle
      BY <2>3, <3>1 DEF Pending, Idle
    <3>2. CASE /\ job[a].at = "load"
               /\ j = [at |-> "read", of |-> job[a].of, sentence |-> FALSE,
                       disq |-> part[job[a].of].is_disqualified]
      BY <2>1, <2>3, <3>2 DEF Pending
    <3>3. ASSUME NEW x, job[a].at = "read",
                 j = [at |-> "save", of |-> job[a].of, sentence |-> job[a].sentence, disq |-> job[a].disq, res |-> x]
          PROVE  Known(a)'
      BY <1>2, <2>1, <2>3, <3>3 DEF Pending
    <3>4. CASE job[a].at = "expel" /\ j = [at |-> "ban", of |-> job[a].of, disq |-> job[a].disq]
      BY <1>2, <2>1, <2>3, <3>4 DEF Pending
    <3> QED
      BY <2>2, <2>4, <3>1, <3>2, <3>3, <3>4 DEF GoesOn
  <2> QED
    BY <1>3, <2>1, <2>3, <2>5
<1>8. ASSUME NEW a \in Actor, Save(a)
      PROVE  \A b \in Actor : Known(b)'
  <2>1. /\ job[a].at = "save" /\ job[a].of \in Existing
        /\ \A x \in Existing \ {job[a].of} : part'[x] = part[x]
        /\ \/ part' = part /\ job' = [job EXCEPT ![a] = Idle]
           \/ /\ part'[job[a].of].is_disqualified = job[a].disq
              /\ job' = [job EXCEPT ![a] =
                            IF ~job[a].sentence THEN Idle
                            ELSE [at |-> IF job[a].disq THEN "expel" ELSE "ban", of |-> job[a].of,
                                  disq |-> job[a].disq]]
    BY <1>0, <1>8, SaveDoes
  <2>2. \A b \in Actor \ {a} : job'[b] = job[b]
    BY <1>1, <2>1
  <2>3. \A b \in Actor \ {a} : job[b] = Idle \/ part'[job[b].of] = part[job[b].of]
    <3>1. job[a] # Idle
      BY <2>1 DEF Idle
    <3>2. \A b \in Actor \ {a} : job[b] # Idle => job[b].of # job[a].of
      BY <3>1 DEF OneJob
    <3> QED
      BY <1>1, <2>1, <3>2
  <2>4. Known(a)'
    <3>1. CASE job'[a] = Idle
      BY <3>1 DEF Pending, Idle
    <3>2. CASE /\ part'[job[a].of].is_disqualified = job[a].disq /\ job[a].sentence
               /\ job'[a] = [at |-> IF job[a].disq THEN "expel" ELSE "ban", of |-> job[a].of, disq |-> job[a].disq]
      <4>1. job[a].of[2] = LIVE
        BY <1>2, <2>1, <3>2
      <4> QED
        BY <3>2, <4>1 DEF Pending
    <3> QED
      BY <1>1, <2>1, <3>1, <3>2
  <2> QED
    BY <1>3, <2>2, <2>3, <2>4
<1>9. \A a \in Actor : Known(a)'
  BY <1>4, <1>5, <1>6, <1>7, <1>8, SentenceMove
<1> QED
  BY <1>0, <1>9 DEF FlagIsKnown

LEMMA BannedStep ==
    ASSUME NoneIsNothing, Shapes, OneJob, FlagIsKnown, BannedIsDisqualified, Separate, [Next]_vars
    PROVE  BannedIsDisqualified'
<1>0. scene' = scene /\ Actor' = Actor /\ Users' = Users /\ Existing \subseteq Existing' /\ Key' = Key
      /\ Existing \subseteq Key
  BY SceneStays, PeopleStep DEF Actor, Judge, Editor, Page, Admin, Users, Key, Virtual, Existing
<1>1. DOMAIN job = Actor /\ \A a \in Actor : IsJob(job[a]) /\ (job[a] # Idle => job[a].of \in Existing)
  BY DEF Shapes, Jobs
<1> DEFINE Live(k) == part[k].is_disqualified => k[2] = LIVE
           Serving(u) == \E a \in Actor : Pending(a) /\ job[a].of = LiveKey(u)
           Right(u) == Serving(u) \/ (u \in banned <=> LiveKey(u) \in Existing /\ part[LiveKey(u)].is_disqualified)
<1>2. (\A k \in Existing : Live(k)) /\ (\A u \in Users : Right(u))
  BY DEF BannedIsDisqualified
<1>3. ASSUME (\A k \in Existing : Live(k))', (\A u \in Users : Right(u))'
      PROVE  BannedIsDisqualified'
  BY <1>0, <1>3 DEF BannedIsDisqualified
<1> HIDE DEF BannedIsDisqualified
\* A step that writes no participation and carries out no sentence.
<1>4. ASSUME UNCHANGED <<part, banned>>, \A a \in Actor : Pending(a) => Pending(a)' /\ job'[a].of = job[a].of
      PROVE  BannedIsDisqualified'
  <2>1. Existing' = Existing
    BY <1>0, <1>4 DEF Existing
  <2>2. \A u \in Users : Serving(u) => Serving(u)'
    BY <1>0, <1>4 DEF LiveKey
  <2>3. (\A k \in Existing : Live(k))'
    BY <1>2, <1>4, <2>1
  <2>4. \A u \in Users : Right(u)'
    BY <1>2, <1>4, <2>1, <2>2 DEF LiveKey
  <2> QED
    BY <1>0, <1>3, <2>3, <2>4
<1>5. ASSUME NEW u \in Users, JoinContest(u) \/ UpdateUserCount(u) \/ Leave(u)
      PROVE  BannedIsDisqualified'
  <2>1. UNCHANGED <<part, banned, job>>
    BY <1>5 DEF JoinContest, UpdateUserCount, Leave, jobs, people
  <2> QED
    BY <1>4, <2>1 DEF Pending
<1>6. ASSUME NEW u \in Users, Enter(u)
      PROVE  BannedIsDisqualified'
  <2>1. PICK k \in Key : k = Entered(u)
    BY <1>6, EnteredIs DEF Shapes, Enter
  <2>2. part' = (IF part[k] = None THEN [part EXCEPT ![k] = NewPart] ELSE part) /\ UNCHANGED <<job, banned>>
    BY <1>6, <2>1 DEF Enter
  <2>3. \A x \in Existing' : (x \in Existing /\ part'[x] = part[x]) \/ (x \notin Existing /\ ~part'[x].is_disqualified)
    BY <1>0, <2>2 DEF Existing, NewPart, Shapes, People
  <2>4. \A x \in Existing : part'[x] = part[x]
    BY <1>0, <2>3
  <2>5. \A w \in Users : Serving(w) <=> Serving(w)'
    BY <1>0, <2>2 DEF LiveKey, Pending
  <2>6. (\A x \in Existing : Live(x))'
    BY <1>2, <2>3
  <2>7. ASSUME NEW w \in Users PROVE Right(w)'
    <3>1. LiveKey(w)' = LiveKey(w) /\ banned' = banned
      BY <2>2 DEF LiveKey
    <3>2. (LiveKey(w) \in Existing' /\ part'[LiveKey(w)].is_disqualified)
             <=> (LiveKey(w) \in Existing /\ part[LiveKey(w)].is_disqualified)
      BY <1>0, <2>3
    <3> QED
      BY <1>2, <2>5, <3>1, <3>2
  <2> QED
    BY <1>0, <1>3, <2>6, <2>7
<1>7. ASSUME NEW a \in Actor, NEW j, Begun(a, j), job[a] = Idle, UNCHANGED <<part, current, banned, join>>
      PROVE  BannedIsDisqualified'
  <2>1. \A b \in Actor : Pending(b) => job'[b] = job[b]
    BY <1>1, <1>7 DEF Begun, Pending, Idle
  <2> QED
    BY <1>4, <1>7, <2>1 DEF Pending
<1>8. ASSUME NEW a \in Actor, Load(a) \/ Read(a) \/ Expel(a)
      PROVE  BannedIsDisqualified'
  <2>1. UNCHANGED <<part, banned>>
    BY <1>8 DEF Load, Read, Expel, people
  <2>2. PICK j : GoesOn(a, j)
    BY <1>8, JobGoesOn
  <2>3. \A b \in Actor : job'[b] = IF b = a THEN j ELSE job[b]
    BY <1>1, <2>2 DEF GoesOn
  <2>4. job[a].at \in {"load", "read", "expel"}
    BY <1>8 DEF Load, Read, Expel
  <2>5. Pending(a) => j.at = "ban" /\ j.of = job[a].of
    BY <2>2, <2>4 DEF GoesOn, Pending, Idle
  <2> QED
    BY <1>4, <2>1, <2>3, <2>5 DEF Pending
<1>9. ASSUME NEW a \in Actor, Ban(a)
      PROVE  BannedIsDisqualified'
  <2>1. PICK k \in Existing : k = job[a].of /\ k[2] = LIVE /\ job[a].disq = part[k].is_disqualified
    BY <1>1, <1>9 DEF Ban, FlagIsKnown, Pending, Idle
  <2>2. k = <<k[1], LIVE>> /\ k[1] \in Users
    BY <1>0, <2>1 DEF Key
  <2>3. PICK u \in Users : k = LiveKey(u) /\ u = k[1]
    BY <2>2 DEF LiveKey
  <2>4. part' = part /\ banned' = (IF part[k].is_disqualified THEN banned \cup {u} ELSE banned \ {u})
    BY <1>9, <2>1, <2>3 DEF Ban
  <2>5. Existing' = Existing
    BY <1>0, <2>4 DEF Existing
  <2>6. (\A x \in Existing : Live(x))'
    BY <1>2, <2>4, <2>5
  <2>7. ASSUME NEW w \in Users PROVE Right(w)'
    <3>1. CASE w = u
      <4>1. u \in banned' <=> LiveKey(u) \in Existing' /\ part'[LiveKey(u)].is_disqualified
        BY <2>1, <2>3, <2>4, <2>5
      <4> QED
        BY <3>1, <4>1 DEF LiveKey
    <3>2. CASE w # u
      <4>1. LiveKey(w) # k
        BY <2>3, <3>2 DEF LiveKey
      <4>2. \A b \in Actor : b # a => job'[b] = job[b]
        BY <1>1, <1>9 DEF Ban
      <4>3. Serving(w) => Serving(w)'
        BY <1>0, <2>1, <4>1, <4>2 DEF LiveKey, Pending
      <4> QED
        BY <1>2, <2>4, <2>5, <3>2, <4>3 DEF LiveKey
    <3> QED
      BY <3>1, <3>2
  <2> QED
    BY <1>0, <1>3, <2>6, <2>7
<1>10. ASSUME NEW a \in Actor, Save(a)
       PROVE  BannedIsDisqualified'
  <2>1. PICK k \in Existing : k = job[a].of
    BY <1>0, <1>10, SaveDoes
  <2>2. /\ Existing' = Existing /\ job[a].at = "save"
        /\ \A x \in Existing \ {k} : part'[x] = part[x]
        /\ \/ part' = part /\ job' = [job EXCEPT ![a] = Idle]
           \/ /\ part'[k].is_disqualified = job[a].disq
              /\ job' = [job EXCEPT ![a] =
                            IF ~job[a].sentence THEN Idle
                            ELSE [at |-> IF job[a].disq THEN "expel" ELSE "ban", of |-> k, disq |-> job[a].disq]]
    BY <1>0, <1>10, <2>1, SaveDoes
  <2>3. banned' = banned
    BY <1>10 DEF Save, people
  <2>4. \A b \in Actor : b # a => job'[b] = job[b]
    BY <1>1, <2>2
  <2>5. \A b \in Actor : Pending(b) => b # a /\ job[b].of # k
    BY <2>1, <2>2 DEF Pending, OneJob, Idle
  <2>6. \A w \in Users : Serving(w) => Serving(w)' /\ LiveKey(w) # k
    BY <1>0, <2>4, <2>5 DEF LiveKey, Pending
  <2>7. CASE job[a].sentence /\ part' # part
    <3>1. k[2] = LIVE /\ Pending(a)' /\ job'[a].of = k
      BY <1>1, <2>1, <2>2, <2>7 DEF FlagIsKnown, Pending
    <3>2. (\A x \in Existing : Live(x))'
      BY <1>2, <2>2, <3>1
    <3>3. ASSUME NEW w \in Users PROVE Right(w)'
      <4>1. CASE LiveKey(w) = k
        BY <1>0, <3>1, <4>1 DEF LiveKey
      <4>2. CASE LiveKey(w) # k
        BY <1>2, <2>2, <2>3, <2>6, <4>2 DEF LiveKey
      <4> QED
        BY <4>1, <4>2
    <3> QED
      BY <1>0, <1>3, <3>2, <3>3
  <2>8. CASE ~job[a].sentence \/ part' = part
    <3>1. part'[k].is_disqualified = part[k].is_disqualified
      <4>1. CASE ~job[a].sentence
        BY <2>1, <2>2, <4>1 DEF FlagIsKnown
      <4> QED
        BY <2>8, <4>1
    <3>2. \A x \in Existing : part'[x].is_disqualified = part[x].is_disqualified
      BY <2>2, <3>1
    <3>3. (\A x \in Existing : Live(x))'
      BY <1>2, <2>2, <3>2
    <3>4. \A w \in Users : Right(w)'
      BY <1>2, <2>2, <2>3, <2>6, <3>2 DEF LiveKey
    <3> QED
      BY <1>0, <1>3, <3>3, <3>4
  <2> QED
    BY <2>7, <2>8
<1>11. CASE UNCHANGED <<part, current, banned, job, join>>
  BY <1>4, <1>11 DEF Pending
<1> QED
  BY <1>5, <1>6, <1>7, <1>8, <1>9, <1>10, <1>11, SentenceMove

LEMMA PeaceStep ==
    ASSUME NoneIsNothing, Shapes, OneJob, FlagIsKnown, BannedIsDisqualified, JoinsInPeace, Separate, [Next]_vars
    PROVE  JoinsInPeace'
<1> SUFFICES ASSUME Stay("late_join")
             PROVE  JoinsInPeace'
  BY SceneStays DEF JoinsInPeace, Stay
<1>0. scene' = scene /\ Actor' = Actor /\ Users' = Users /\ Existing \subseteq Key
      /\ ~May("late_join")
  BY SceneStays DEF Actor, Judge, Editor, Page, Admin, Users, Existing, Stay, May
<1>1. DOMAIN job = Actor /\ \A a \in Actor : IsJob(job[a]) /\ (job[a] # Idle => job[a].of \in Existing)
  BY DEF Shapes, Jobs
<1> DEFINE Peace(u) == join[u] # Idle => ~UnderSentence(u) /\ u \notin banned
           Gone(u) == current[u] = LIVE /\ part[LiveKey(u)].is_disqualified
                          => \E a \in Actor : job[a].at = "expel" /\ job[a].of = LiveKey(u)
<1>2. \A u \in Users : Peace(u) /\ Gone(u)
  BY DEF JoinsInPeace
<1>3. ASSUME (\A u \in Users : Peace(u) /\ Gone(u))'
      PROVE  JoinsInPeace'
  BY <1>0, <1>3 DEF JoinsInPeace
<1>4. DOMAIN join = Users /\ DOMAIN current = Users
  BY DEF Shapes, Joins, People
\* What a job carries, its next step does not make up.
<1>5. ASSUME NEW a \in Actor, NEW j, GoesOn(a, j)
      PROVE  \A u \in Users : UnderSentence(u)' => UnderSentence(u)
  <2> DEFINE Carries(x) == x.at \in {"expel", "ban"} \/ x.sentence
  <2>1. \A b \in Actor : job'[b] = IF b = a THEN j ELSE job[b]
    BY <1>1, <1>5 DEF GoesOn
  <2>2. j # Idle /\ Carries(j) => j.of = job[a].of /\ Carries(job[a]) /\ job[a] # Idle
    BY <1>5 DEF GoesOn, Idle
  <2> QED
    BY <1>0, <2>1, <2>2 DEF UnderSentence
<1>6. ASSUME UNCHANGED <<part, current, banned, job, join>>
      PROVE  JoinsInPeace'
  <2>1. \A u \in Users : UnderSentence(u)' <=> UnderSentence(u)
    BY <1>0, <1>6 DEF UnderSentence
  <2> QED
    BY <1>2, <1>3, <1>6, <2>1, <1>0 DEF LiveKey
<1>7. ASSUME NEW u \in Users, JoinContest(u) \/ UpdateUserCount(u) \/ Leave(u)
      PROVE  JoinsInPeace'
  <2>1. UNCHANGED <<part, banned, job>>
    BY <1>7 DEF JoinContest, UpdateUserCount, Leave, jobs, people
  <2>2. \A w \in Users : UnderSentence(w)' <=> UnderSentence(w)
    BY <1>0, <2>1 DEF UnderSentence
  <2>3. \A w \in Users : current'[w] = current[w] \/ current'[w] = None
    BY <1>4, <1>7 DEF JoinContest, UpdateUserCount, Leave, people
  <2>4. \A w \in Users : Gone(w)'
    <3>1. None # LIVE
      BY DEF NoneIsNothing, LIVE
    <3> QED
      BY <1>0, <1>2, <2>1, <2>3, <3>1 DEF LiveKey
  <2>5. \A w \in Users : join'[w] # Idle => join[w] # Idle \/ (~UnderSentence(w) /\ w \notin banned)
    BY <1>0, <1>4, <1>7 DEF JoinContest, UpdateUserCount, Leave, jobs
  <2> QED
    BY <1>0, <1>2, <1>3, <2>1, <2>2, <2>4, <2>5
<1>8. ASSUME NEW u \in Users, Enter(u)
      PROVE  JoinsInPeace'
  <2>1. PICK k \in Key : k = Entered(u) /\ k = <<u, k[2]>>
    BY <1>8, EnteredIs DEF Shapes, Enter
  <2>2. /\ part' = (IF part[k] = None THEN [part EXCEPT ![k] = NewPart] ELSE part) /\ UNCHANGED <<job, banned>>
        /\ current' = [current EXCEPT ![u] = k[2]]
    BY <1>8, <2>1 DEF Enter
  <2>3. \A w \in Users : UnderSentence(w)' <=> UnderSentence(w)
    BY <1>0, <2>2 DEF UnderSentence
  <2>4. join[u] # Idle /\ \A w \in Users \ {u} : join'[w] = join[w]
    BY <1>4, <1>8 DEF Enter, Idle
  <2>5. \A w \in Users : Peace(w)'
    BY <1>2, <2>2, <2>3, <2>4
  <2>6. ~UnderSentence(u) /\ u \notin banned
    BY <1>2, <2>4
  <2>7. LiveKey(u) \in Existing => ~part[LiveKey(u)].is_disqualified
    <3>1. \A a \in Actor : Pending(a) => job[a].of # LiveKey(u)
      BY <1>0, <2>6 DEF UnderSentence, Pending, LiveKey, Idle
    <3> QED
      BY <2>6, <3>1 DEF BannedIsDisqualified
  <2>8. current'[u] = LIVE => ~part'[LiveKey(u)].is_disqualified
    <3>1. ASSUME k[2] = LIVE PROVE k = LiveKey(u)
      BY <2>1, <3>1 DEF LiveKey
    <3>2. k = LiveKey(u) => ~part'[k].is_disqualified
      BY <2>1, <2>2, <2>7 DEF Existing, NewPart, Shapes, People
    <3> QED
      BY <1>4, <2>2, <3>1, <3>2
  <2>9. \A w \in Users \ {u} : current'[w] = current[w] /\ part'[LiveKey(w)] = part[LiveKey(w)]
    <3>1. \A w \in Users \ {u} : LiveKey(w) # k
      BY <2>1 DEF LiveKey
    <3> QED
      BY <1>4, <2>2, <3>1 DEF Shapes, People
  <2>10. \A w \in Users : Gone(w)'
    BY <1>0, <1>2, <2>2, <2>8, <2>9 DEF LiveKey
  <2> QED
    BY <1>0, <1>3, <2>5, <2>10
<1>9. ASSUME NEW a \in Actor, NEW j, Begun(a, j), job[a] = Idle, UNCHANGED <<part, current, banned, join>>
      PROVE  JoinsInPeace'
  <2>1. \A b \in Actor : job'[b] = IF b = a THEN j ELSE job[b]
    BY <1>1, <1>9 DEF Begun
  <2>2. PICK k \in Existing :
             \/ j = [at |-> "load", of |-> k, sentence |-> FALSE]
             \/ \E disq \in BOOLEAN :
                    j = [at |-> "read", of |-> k, sentence |-> TRUE, disq |-> disq] /\ join[k[1]] = Idle
    BY <1>0, <1>9 DEF Begun, Undisturbed
  <2>3. \A u \in Users : join[u] # Idle /\ UnderSentence(u)' => UnderSentence(u)
    <3>1. j.of = k /\ j.at \in {"load", "read"} /\ (j.at = "load" => ~j.sentence)
          /\ (j.at = "read" => join[k[1]] = Idle)
      BY <2>2
    <3> QED
      BY <1>0, <2>1, <3>1 DEF UnderSentence
  <2>4. \A u \in Users : Gone(u)'
    <3>1. \A b \in Actor : job[b].at = "expel" => job'[b] = job[b]
      BY <1>9, <2>1 DEF Idle
    <3> QED
      BY <1>0, <1>2, <1>9, <3>1 DEF LiveKey
  <2> QED
    BY <1>0, <1>2, <1>3, <1>9, <2>3, <2>4
<1>10. ASSUME NEW a \in Actor, Load(a) \/ Read(a) \/ Save(a) \/ Expel(a) \/ Ban(a)
       PROVE  (\A u \in Users : Peace(u))'
  <2>1. PICK j : GoesOn(a, j)
    BY <1>10, JobGoesOn
  <2>2. join' = join
    BY <1>10 DEF Load, Read, Save, Expel, Ban, jobs
  <2>3. \A u \in Users : u \in banned' => u \in banned \/ UnderSentence(u)
    BY <1>10 DEF Load, Read, Save, Expel, Ban, people, UnderSentence, Idle
  <2> QED
    BY <1>0, <1>2, <1>5, <2>1, <2>2, <2>3
<1>11. ASSUME NEW a \in Actor, Load(a) \/ Read(a) \/ Ban(a)
       PROVE  (\A u \in Users : Gone(u))'
  <2>1. UNCHANGED <<part, current>> /\ job[a].at # "expel"
    BY <1>11 DEF Load, Read, Ban, people
  <2>2. \A b \in Actor \ {a} : job'[b] = job[b]
    BY <1>1, <1>11 DEF Load, Read, Ban
  <2>3. \A b \in Actor : job[b].at = "expel" => job'[b] = job[b]
    BY <2>1, <2>2
  <2> QED
    BY <1>0, <1>2, <2>1, <2>3 DEF LiveKey
<1>12. ASSUME NEW a \in Actor, Expel(a)
       PROVE  (\A u \in Users : Gone(u))'
  <2>1. PICK k \in Existing : k = job[a].of /\ k[2] = LIVE
    BY <1>1, <1>12 DEF Expel, FlagIsKnown, Pending, Idle
  <2>2. PICK u \in Users : u = k[1] /\ k = LiveKey(u)
    BY <1>0, <2>1 DEF Key, LiveKey
  <2>3. part' = part /\ current' = [current EXCEPT ![u] = IF <<u, @>> = k THEN None ELSE @]
    BY <1>12, <2>1, <2>2 DEF Expel
  <2>4. current'[u] # LIVE
    BY <1>4, <2>2, <2>3 DEF LiveKey, LIVE, NoneIsNothing
  <2>5. \A b \in Actor \ {a} : job'[b] = job[b]
    BY <1>1, <1>12 DEF Expel
  <2>6. ASSUME NEW w \in Users, w # u PROVE Gone(w)'
    <3>1. LiveKey(w) # k /\ current'[w] = current[w]
      BY <1>4, <2>2, <2>3, <2>6 DEF LiveKey
    <3>2. \A b \in Actor : job[b].of = LiveKey(w) => job'[b] = job[b]
      BY <2>1, <2>5, <3>1
    <3> QED
      BY <1>0, <1>2, <2>3, <3>1, <3>2 DEF LiveKey
  <2> QED
    BY <1>0, <2>4, <2>6
<1>13. ASSUME NEW a \in Actor, Save(a)
       PROVE  (\A u \in Users : Gone(u))'
  <2>1. PICK k \in Existing : k = job[a].of
    BY <1>0, <1>13, SaveDoes
  <2>2. /\ Existing' = Existing /\ job[a].at = "save"
        /\ \A x \in Existing \ {k} : part'[x] = part[x]
        /\ \/ part' = part /\ job' = [job EXCEPT ![a] = Idle]
           \/ /\ part'[k].is_disqualified = job[a].disq
              /\ job' = [job EXCEPT ![a] =
                            IF ~job[a].sentence THEN Idle
                            ELSE [at |-> IF job[a].disq THEN "expel" ELSE "ban", of |-> k, disq |-> job[a].disq]]
    BY <1>0, <1>13, <2>1, SaveDoes
  <2>3. current' = current
    BY <1>13 DEF Save, people
  <2>4. \A b \in Actor : b # a => job'[b] = job[b]
    BY <1>1, <2>2
  <2>5. \A b \in Actor : job[b].at = "expel" => job'[b] = job[b]
    BY <2>2, <2>4
  <2>6. \A u \in Users : current[u] = LIVE => LiveKey(u) \in Existing
    BY DEF Shapes, People, LiveKey, LIVE, NoneIsNothing
  <2>7. ASSUME NEW u \in Users, current[u] = LIVE, part'[LiveKey(u)].is_disqualified
        PROVE  \E b \in Actor : job'[b].at = "expel" /\ job'[b].of = LiveKey(u)
    <3>1. CASE LiveKey(u) # k \/ part' = part
      BY <1>2, <2>2, <2>5, <2>6, <2>7, <3>1
    <3>2. CASE LiveKey(u) = k /\ part' # part /\ ~job[a].sentence
      <4>1. part[k].is_disqualified
        BY <2>1, <2>2, <2>7, <3>2 DEF FlagIsKnown
      <4> QED
        BY <1>2, <2>5, <2>7, <3>2, <4>1
    <3>3. CASE LiveKey(u) = k /\ part' # part /\ job[a].sentence
      BY <1>1, <2>2, <2>7, <3>3
    <3> QED
      BY <3>1, <3>2, <3>3
  <2> QED
    BY <1>0, <2>3, <2>7 DEF LiveKey
<1> QED
  BY <1>3, <1>6, <1>7, <1>8, <1>9, <1>10, <1>11, <1>12, <1>13, SentenceMove

LEMMA SentencesInit ==
    ASSUME NoneIsNothing, PubInit
    PROVE  Sentences
<1>1. /\ \A a \in Actor : job[a] = Idle
      /\ \A u \in Users : join[u] = Idle
      /\ banned = {} /\ subs = <<>>
  BY DEF PubInit, Init
<1>2. \A k \in Existing : ~part[k].is_disqualified
  BY DEF PubInit, Init, Existing, NewPart
<1>3. \A u \in Users : current[u] = LIVE => LiveKey(u) \in Existing
  <2>1. Shapes
    BY ShapesInit
  <2> QED
    BY <2>1 DEF Shapes, People, LiveKey, LIVE, NoneIsNothing
<1>4. OneJob
  <2>1. \A i \in 1..scene.max_subs : Judge(i) \in Actor
    BY DEF Actor
  <2> QED
    BY <1>1, <2>1 DEF OneJob, JudgesAreFree
<1>5. FlagIsKnown
  BY <1>1 DEF FlagIsKnown, Pending, Idle
<1>6. BannedIsDisqualified
  BY <1>1, <1>2 DEF BannedIsDisqualified
<1>7. JoinsInPeace
  BY <1>1, <1>2, <1>3 DEF JoinsInPeace
<1> QED
  BY <1>4, <1>5, <1>6, <1>7 DEF Sentences

LEMMA SentencesStep ==
    ASSUME NoneIsNothing, Shapes, Sentences, [Next]_vars
    PROVE  Sentences'
<1>1. Without({"overlap", "several"})' => Separate
  BY SceneStays DEF Without, Separate
<1> QED
  BY <1>1, OneJobStep, FlagIsKnownStep, BannedStep, PeaceStep DEF Sentences, Separate

\* With nothing of a user under way, his sentence is whole.
LEMMA SentencesAreWhole ==
    ASSUME NoneIsNothing, Shapes, Sentences
    PROVE  SentenceIsWhole
<1> SUFFICES ASSUME Separate, NEW u \in Users,
                    \A k \in Existing : k[1] = u => ~Busy(k)
             PROVE  /\ u \in banned <=> \E k \in Existing : k[1] = u /\ part[k].is_disqualified
                    /\ Without({"late_join"}) /\ current[u] # None => ~part[<<u, current[u]>>].is_disqualified
  BY DEF SentenceIsWhole, Separate
<1>1. OneJob /\ FlagIsKnown /\ BannedIsDisqualified /\ JoinsInPeace
  BY DEF Sentences, Separate
<1>2. \A a \in Actor : job[a] # Idle => job[a].of # LiveKey(u)
  BY DEF Shapes, Jobs, Busy, LiveKey
<1>3. u \in banned <=> LiveKey(u) \in Existing /\ part[LiveKey(u)].is_disqualified
  BY <1>1, <1>2 DEF BannedIsDisqualified, Pending, Idle
<1>4. \A k \in Existing : k[1] = u /\ part[k].is_disqualified => k = LiveKey(u)
  BY <1>1 DEF BannedIsDisqualified, LiveKey, Existing, Key
<1>5. u \in banned <=> \E k \in Existing : k[1] = u /\ part[k].is_disqualified
  BY <1>3, <1>4 DEF LiveKey
<1>6. ASSUME Without({"late_join"}), current[u] # None, part[<<u, current[u]>>].is_disqualified
      PROVE  FALSE
  <2>1. <<u, current[u]>> \in Existing
    BY <1>6 DEF Shapes, People
  <2>2. current[u] = LIVE
    BY <1>4, <1>6, <2>1 DEF LiveKey
  <2>3. Stay("late_join")
    BY <1>6 DEF Without, Stay
  <2>4. \E a \in Actor : job[a].at = "expel" /\ job[a].of = LiveKey(u)
    BY <1>1, <1>6, <2>2, <2>3 DEF JoinsInPeace, LiveKey
  <2> QED
    BY <1>2, <2>4 DEF Idle
<1> QED
  BY <1>5, <1>6

-----------------------------------------------------------------------------
(* The archive *)

LEMMA ArchiveInit ==
    ASSUME PubInit
    PROVE  Archive
<1>1. \A c \in Contests : row[c].end = scene.end[c]
  BY DEF PubInit, Init
<1>2. /\ announced = scene.end /\ open = {} /\ subs = <<>> /\ withdrawn = {} /\ saving = Idle /\ command = Idle
      /\ \A u \in Users : join[u] = Idle
  BY DEF PubInit, Init
<1> QED
  BY <1>1, <1>2 DEF Archive, EndIsAnnounced, PublicIsCurrent, PublishedIsOver, NothingIsAdded, WithdrawnIsMarked,
                        InTransaction, Locked, Idle

\* The contests keep their problems where none is added.
LEMMA ProblemsStay ==
    ASSUME Shapes, NothingIsAdded, "add" \notin scene.acts, [Next]_vars
    PROVE  \A c \in Contests : problems'[c] = problems[c]
<1>1. CASE SaveCommit
  <2>1. saving # Idle /\ saving.p \in problems[saving.c]
    BY <1>1 DEF SaveCommit, NothingIsAdded
  <2>2. problems' = [problems EXCEPT ![saving.c] = @ \cup {saving.p}]
    BY <1>1 DEF SaveCommit
  <2>3. problems[saving.c] \cup {saving.p} = problems[saving.c] /\ DOMAIN problems = Contests
    BY <2>1 DEF Shapes, Commands
  <2> QED
    BY <2>2, <2>3
<1> QED
  BY <1>1, PubMove DEF Organizing, pubVars, PublishStart, ReadBlocked, Publish, Extend, SaveProblem, Hide

LEMMA AddedStep ==
    ASSUME Shapes, NothingIsAdded, [Next]_vars
    PROVE  NothingIsAdded'
<1> SUFFICES ASSUME "add" \notin scene.acts  PROVE NothingIsAdded'
  BY SceneStays DEF NothingIsAdded
<1>1. scene' = scene /\ \A c \in Contests : problems'[c] = problems[c]
  BY SceneStays, ProblemsStay
<1>2. ASSUME NEW c \in Contests, NEW p \in Problem, SaveProblem(c, p)
      PROVE  saving'.c = c /\ saving'.p = p /\ p \in problems[c]
  BY <1>2 DEF SaveProblem, Act
<1>3. saving' = saving \/ saving' = Idle \/ \E c \in Contests, p \in Problem : SaveProblem(c, p)
  BY PubMove DEF pubVars, Organizing, PublishStart, ReadBlocked, Publish, SaveCommit, Extend, Hide
<1>4. saving # Idle => saving.c \in Contests
  BY DEF Shapes, Commands
<1> QED
  BY <1>1, <1>2, <1>3, <1>4 DEF NothingIsAdded

\* Who writes the end of a contest, its mark or the copy of a join.
LEMMA EndMove ==
    ASSUME [Next]_vars
    PROVE  \/ UNCHANGED <<row, join, announced>>
           \/ \E u \in Users : (JoinContest(u) \/ Enter(u) \/ UpdateUserCount(u)) /\ UNCHANGED announced
           \/ Publish
           \/ \E c \in Contests : \E minutes \in {-1, 1} : Extend(c, minutes)
           \/ SaveCommit
BY DEF Next, ContestNext, Tick, Participants, Judging, Recomputing, Organizing, Leave, Submit, Report, GradingEnd,
       UpdateContest, Rejudge, GradingFails, Load, Read, Save, Expel, Ban, Recalculate, Toggle, PublishStart,
       ReadBlocked, SaveProblem, Hide, vars, contestVars, pubVars, rows, jobs

\* A join that ends writes the row back as it is.
LEMMA CountDoes ==
    ASSUME Shapes, EndIsAnnounced, Stay("stale"), NEW u \in Users, UpdateUserCount(u)
    PROVE  /\ DOMAIN row' = Contests
           /\ \A c \in Contests : row'[c].end = row[c].end /\ row'[c].published = row[c].published
<1>1. Main \in Contests /\ DOMAIN row = Contests /\ join[u] # Idle
  BY ContestsAssumption DEF Shapes, Rows, UpdateUserCount, Idle
<1>2. PICK n : row' = [row EXCEPT ![Main] = [join[u].copy EXCEPT !.users = n]]
  BY DEF UpdateUserCount
<1>3. IsRow(join[u].copy) /\ join[u].copy.end = row[Main].end /\ join[u].copy.published = row[Main].published
  BY <1>1 DEF Shapes, Joins, IsJoin, EndIsAnnounced
<1>4. PICK x, y, z : join[u].copy = [end |-> x, published |-> y, users |-> z]
  BY <1>3 DEF IsRow
<1>5. [join[u].copy EXCEPT !.users = n] = [end |-> x, published |-> y, users |-> n]
  BY <1>4
<1>6. x = row[Main].end /\ y = row[Main].published
  BY <1>3, <1>4
<1> QED
  BY <1>1, <1>2, <1>5, <1>6

\* What an organizer writes into a row.
LEMMA ExtendDoes ==
    ASSUME Shapes, NEW c \in Contests, NEW minutes \in {-1, 1}, Extend(c, minutes)
    PROVE  \E end \in Int :
               /\ \A x \in Contests : row'[x].published = row[x].published
               /\ \A x \in Contests : row'[x].end = IF x = c THEN end ELSE row[x].end
               /\ \A x \in Contests : announced'[x] = IF x = c THEN end ELSE announced[x]
<1>1. /\ DOMAIN row = Contests /\ DOMAIN announced = Contests
      /\ row[c] = [end |-> row[c].end, published |-> row[c].published, users |-> row[c].users]
      /\ row[c].end \in Int
  BY DEF Shapes, Rows, IsRow, Commands
<1>2. PICK end \in Int : end = row[c].end + minutes
  BY <1>1
<1>3. row' = [row EXCEPT ![c].end = end] /\ announced' = [announced EXCEPT ![c] = end]
  BY <1>2 DEF Extend
<1>4. \A x \in Contests : announced'[x] = IF x = c THEN end ELSE announced[x]
  BY <1>1, <1>3
<1>5. \A x \in Contests \ {c} : row'[x] = row[x]
  BY <1>1, <1>3
<1>6. row'[c].end = end /\ row'[c].published = row[c].published
  BY <1>1, <1>3
<1> QED
  BY <1>4, <1>5, <1>6

\* A publication, or a row that is saved, writes no end.
LEMMA MarkDoes ==
    ASSUME Shapes, InTransaction, Publish \/ SaveCommit
    PROVE  /\ \A x \in Contests : row'[x].end = row[x].end
           /\ UNCHANGED <<join, announced>> /\ Calm
<1>1. DOMAIN row = Contests /\ \A c \in Contests : IsRow(row[c])
  BY DEF Shapes, Rows
<1>2. UNCHANGED <<join, announced>> /\ Calm
  BY DEF Publish, SaveCommit, jobs, InTransaction, Locked
<1>3. row' = row \/ \E c : \E b : row' = [row EXCEPT ![c].published = b]
  BY DEF Publish, SaveCommit, rows
<1>4. ASSUME NEW c, NEW b, row' = [row EXCEPT ![c].published = b], NEW x \in Contests
      PROVE  row'[x].end = row[x].end
  <2>1. PICK e, p, n : row[x] = [end |-> e, published |-> p, users |-> n]
    BY <1>1 DEF IsRow
  <2>2. [row[x] EXCEPT !.published = b] = [end |-> e, published |-> b, users |-> n]
    BY <2>1
  <2> QED
    BY <1>1, <1>4, <2>1, <2>2
<1> QED
  BY <1>2, <1>3, <1>4

LEMMA EndStep ==
    ASSUME Shapes, EndIsAnnounced, InTransaction, [Next]_vars
    PROVE  EndIsAnnounced'
<1> SUFFICES ASSUME Stay("stale")
             PROVE  EndIsAnnounced'
  BY SceneStays DEF EndIsAnnounced, Stay
<1>0. scene' = scene /\ Users' = Users /\ ~May("stale") /\ Main \in Contests
  BY SceneStays, ContestsAssumption DEF Users, Stay, May
<1>1. /\ \A c \in Contests : row[c].end = announced[c]
      /\ \A u \in Users : join[u] # Idle =>
             join[u].copy.end = row[Main].end /\ join[u].copy.published = row[Main].published
  BY DEF EndIsAnnounced
<1>2. DOMAIN join = Users
  BY DEF Shapes, Joins
<1>3. CASE UNCHANGED <<row, join, announced>>
  BY <1>0, <1>1, <1>3 DEF EndIsAnnounced
<1>4. ASSUME NEW u \in Users, JoinContest(u), UNCHANGED announced
      PROVE  EndIsAnnounced'
  <2>1. PICK x : join' = [join EXCEPT ![u] = [at |-> "enter", copy |-> row[Main], over |-> x]]
    BY <1>4 DEF JoinContest
  <2>2. row' = row
    BY <1>4 DEF JoinContest, rows
  <2>3. join'[u].copy = row[Main] /\ \A w \in Users \ {u} : join'[w] = join[w]
    BY <1>2, <2>1
  <2> QED
    BY <1>0, <1>1, <1>4, <2>2, <2>3 DEF EndIsAnnounced
<1>5. ASSUME NEW u \in Users, Enter(u), UNCHANGED announced
      PROVE  EndIsAnnounced'
  <2>1. PICK x, y : /\ join[u] = [at |-> "enter", copy |-> x, over |-> y]
                    /\ join' = [join EXCEPT ![u] = [at |-> "count", copy |-> x, over |-> y]]
    BY <1>5, EnterJoin DEF Shapes
  <2>2. row' = row
    BY <1>5 DEF Enter, rows
  <2>3. join'[u].copy = join[u].copy /\ join[u] # Idle /\ \A w \in Users \ {u} : join'[w] = join[w]
    BY <1>2, <2>1 DEF Idle
  <2> QED
    BY <1>0, <1>1, <1>5, <2>2, <2>3 DEF EndIsAnnounced
<1>6. ASSUME NEW u \in Users, UpdateUserCount(u), UNCHANGED announced
      PROVE  EndIsAnnounced'
  <2>1. \A c \in Contests : row'[c].end = row[c].end /\ row'[c].published = row[c].published
    BY <1>6, CountDoes
  <2>2. join'[u] = Idle /\ \A w \in Users \ {u} : join'[w] = join[w]
    BY <1>2, <1>6 DEF UpdateUserCount
  <2> QED
    BY <1>0, <1>1, <1>6, <2>1, <2>2 DEF EndIsAnnounced
<1>7. CASE Publish \/ SaveCommit
  <2>1. /\ \A x \in Contests : row'[x].end = row[x].end
        /\ UNCHANGED <<join, announced>> /\ \A u \in Users : join[u] = Idle
    BY <1>0, <1>7, MarkDoes DEF Calm
  <2> QED
    BY <1>0, <1>1, <2>1 DEF EndIsAnnounced
<1>8. ASSUME NEW c \in Contests, NEW minutes \in {-1, 1}, Extend(c, minutes)
      PROVE  EndIsAnnounced'
  <2>1. \A x \in Contests : row'[x].end = announced'[x]
    BY <1>1, <1>8, ExtendDoes
  <2>2. UNCHANGED join /\ \A u \in Users : join[u] = Idle
    BY <1>0, <1>8 DEF Extend, Calm, jobs
  <2> QED
    BY <1>0, <2>1, <2>2 DEF EndIsAnnounced
<1> QED
  BY <1>3, <1>4, <1>5, <1>6, <1>7, <1>8, EndMove

\* What a step does to a verdict that is being written: it is kept, or has just read the archive.
LEMMA GradedStep ==
    ASSUME Shapes, [Next]_vars, NEW n \in DOMAIN subs', subs'[n].at = "graded"
    PROVE  \/ /\ n \in DOMAIN subs /\ subs[n].at = "graded" /\ subs'[n].public = subs[n].public
              /\ subs'[n].sub.prob = subs[n].sub.prob
           \/ open' = open /\ (subs'[n].public <=> subs'[n].sub.prob \in open)
<1>1. CASE UNCHANGED subs
  BY <1>1
<1>2. ASSUME NEW s \in Submission, s.at = "judging", subs' = Append(subs, s)
      PROVE  n \in DOMAIN subs /\ subs'[n] = subs[n]
  BY <1>2 DEF Shapes, Submissions
<1>3. ASSUME NEW i \in DOMAIN subs, NEW s \in Submission, Becomes(i, s),
             \/ s.at = "graded" /\ s.public = (s.sub.prob \in open) /\ UNCHANGED rows
             \/ s.at \in {"done", "judging"}
      PROVE  \/ n \in DOMAIN subs /\ subs'[n] = subs[n]
             \/ open' = open /\ (subs'[n].public <=> subs'[n].sub.prob \in open)
  <2>1. DOMAIN subs' = DOMAIN subs /\ \A x \in DOMAIN subs : subs'[x] = IF x = i THEN s ELSE subs[x]
    BY <1>3 DEF Becomes
  <2>2. CASE n # i
    BY <2>1, <2>2
  <2>3. CASE n = i
    <3>1. s.public = (s.sub.prob \in open) /\ UNCHANGED rows /\ subs'[n] = s
      BY <1>3, <2>1, <2>3
    <3> QED
      BY <3>1 DEF rows
  <2> QED
    BY <2>2, <2>3
<1> QED
  BY <1>1, <1>2, <1>3, SubsChange

\* The command publishes what no contest needs any more, and no verdict on it is being written.
LEMMA PublishDoes ==
    ASSUME Shapes, InTransaction, Publish
    PROVE  \E c \in Contests :
               /\ Settled(problems[c]) /\ UNCHANGED <<subs, problems, withdrawn>>
               /\ ~row[c].published /\ open \subseteq open'
               /\ \A p \in open' \ open : p \in problems[c] /\ (Unhurried => Over(p))
               /\ \A x \in Contests \ {c} : row'[x] = row[x]
<1>1. PICK c \in Contests : c = This
  BY ThisIs DEF Publish, Locked
<1>2. Settled(problems[c]) /\ UNCHANGED <<subs, problems, withdrawn>> /\ ~row[c].published
  BY <1>1 DEF Publish, InTransaction, Locked
<1>3. open' = open \cup (problems[c] \ command.blocked) /\ \E b : row' = [row EXCEPT ![c].published = b]
  BY <1>1 DEF Publish
<1>4. Unhurried => \A p \in problems[c] \ open : p \notin command.blocked => Over(p)
  BY <1>1 DEF Publish, InTransaction, Locked
<1>5. DOMAIN row = Contests
  BY DEF Shapes, Rows
<1> QED
  BY <1>2, <1>3, <1>4, <1>5

\* What the command reads of other contests is so.
LEMMA BlockedMeans ==
    ASSUME Shapes, NEW p, ~Blocked(p, command.now), command # Idle
    PROVE  Over(p)
<1>1. command.now \in Nat /\ command.now <= now /\ now \in Nat
  BY DEF Shapes, Commands, Scened
<1>2. \A x \in Holding(p) : row[x].end <= command.now /\ row[x].end \in Int
  BY DEF Blocked, Finished, Holding, Shapes, Rows, IsRow
<1> QED
  BY <1>1, <1>2 DEF Over

\* Who begins the transaction, and what else happens inside it.
LEMMA LockedMove ==
    ASSUME Shapes, [Next]_vars, Locked'
    PROVE  \/ ReadBlocked
           \/ /\ Locked /\ UNCHANGED <<problems, open, command, subs, join>>
              /\ \/ row' = row
                 \/ \E c \in Contests \ {This}, minutes \in {-1, 1} : Extend(c, minutes) /\ May("late_extend")
<1>1. ~Publish
  <2>1. Publish => command' = AfterThis /\ Locked
    BY DEF Publish, Locked
  <2> QED
    BY <2>1, AfterThisIs DEF Locked, Idle, Shapes
<1>2. command' = command \/ PublishStart \/ ReadBlocked
  BY <1>1, PubMove DEF Organizing, pubVars, SaveCommit, Extend, SaveProblem, Hide
<1>3. ~PublishStart
  BY DEF PublishStart, Locked
<1>4. ASSUME ~ReadBlocked
      PROVE  Locked /\ command' = command
  BY <1>2, <1>3, <1>4 DEF Locked
<1>5. ASSUME Locked, ~ReadBlocked
      PROVE  /\ UNCHANGED <<problems, open, subs, join>>
             /\ \/ row' = row
                \/ \E c \in Contests \ {This}, minutes \in {-1, 1} : Extend(c, minutes) /\ May("late_extend")
  <2>1. CASE UNCHANGED vars
    BY <2>1 DEF vars, contestVars, pubVars, rows, jobs
  <2>2. CASE Tick /\ UNCHANGED pubVars
    BY <2>2 DEF Tick, pubVars, rows, jobs
  <2>3. ASSUME NEW c \in Contests, NEW minutes \in {-1, 1}, Extend(c, minutes)
        PROVE  UNCHANGED <<problems, open, subs, join>> /\ c # This /\ May("late_extend")
    BY <1>5, <2>3 DEF Extend, jobs
  <2>4. ~SaveCommit /\ (\A p \in Problem : ~Hide(p)) /\ \A c \in Contests, p \in Problem : ~SaveProblem(c, p)
    BY <1>5 DEF SaveCommit, Hide, SaveProblem
  <2> QED
    BY <1>1, <1>3, <1>5, <2>1, <2>2, <2>3, <2>4 DEF Next, Organizing
<1> QED
  BY <1>4, <1>5

LEMMA TransactionStep ==
    ASSUME Shapes, EndIsAnnounced, InTransaction, [Next]_vars
    PROVE  InTransaction'
<1> SUFFICES ASSUME Locked'
             PROVE  InTransaction'
  BY DEF InTransaction
<1>1. scene' = scene /\ (Unhurried' <=> Unhurried) /\ Users' = Users
  BY SceneStays DEF Unhurried, Stay, Users
<1>2. CASE ReadBlocked
  <2>1. PICK B : B = {p \in problems[This] \ open : Blocked(p, command.now)}
    OBVIOUS
  <2>2. command.at = "next" /\ Calm /\ Settled(problems[This]) /\ command # Idle
    BY <1>2 DEF ReadBlocked, Idle
  <2>3. command' # AfterThis
    BY <2>2, AfterThisIs DEF Locked, Idle, Shapes
  <2>4. Due(This, command.now) /\ command' = [command EXCEPT !.at = "commit", !.blocked = B]
    BY <1>2, <2>1, <2>3 DEF ReadBlocked
  <2>5. command'.left = command.left /\ command'.blocked = B
    BY <2>2, <2>4 DEF Shapes, Commands
  <2>6. UNCHANGED <<row, open, problems, subs, join, now>> /\ This' = This
    BY <1>2, <2>5 DEF ReadBlocked, contestVars, rows, jobs, This
  <2>7. Calm' /\ Settled(problems[This])'
    BY <1>1, <2>2, <2>6 DEF Calm, Settled, May
  <2>8. ~row[This].published'
    BY <2>4, <2>6 DEF Due
  <2>9. \A p \in problems[This] \ open : p \notin B => Over(p)
    BY <2>1, <2>2, BlockedMeans
  <2>10. \A p : Over(p)' <=> Over(p)
    BY <2>6 DEF Over, Holding
  <2> QED
    BY <2>5, <2>6, <2>7, <2>8, <2>9, <2>10 DEF InTransaction
<1>3. CASE ~ReadBlocked
  <2>1. Locked /\ UNCHANGED <<problems, open, command, subs, join>> /\ This' = This /\ This \in Contests
    BY <1>3, LockedMove, ThisIs DEF This
  <2>2. Calm' /\ Settled(problems[This])'
    BY <1>1, <2>1 DEF Calm, Settled, May, InTransaction
  <2>3. row'[This].published = row[This].published
    BY <1>3, <2>1, LockedMove, ExtendDoes
  <2>4. Unhurried => row' = row
    BY <1>3, LockedMove DEF Unhurried, Stay, May, Extend, Act
  <2>5. ASSUME Unhurried, NEW p, Over(p)
        PROVE  Over(p)'
    <3>1. now \in Nat /\ now' \in Nat /\ now <= now'
      BY SceneStays DEF Shapes, Scened
    <3>2. \A c \in Holding(p) : row[c].end \in Int /\ row[c].end <= now
      BY <2>5 DEF Over, Holding, Shapes, Rows, IsRow
    <3>3. \A c \in Holding(p) : row'[c].end <= now'
      BY <2>4, <2>5, <3>1, <3>2
    <3>4. Holding(p)' = Holding(p)
      BY <2>1 DEF Holding
    <3> QED
      BY <3>3, <3>4 DEF Over
  <2> QED
    BY <1>1, <2>1, <2>2, <2>3, <2>5 DEF InTransaction
<1> QED
  BY <1>2, <1>3

\* A problem comes into the archive by the command, or by a verdict that is written.
LEMMA OpenGrows ==
    ASSUME Shapes, InTransaction, [Next]_vars, NEW p \in open' \ open
    PROVE  \/ \E i \in DOMAIN subs : subs[i].at = "graded" /\ subs[i].public /\ subs[i].sub.prob = p
           \/ \E c \in Contests : ~row[c].published /\ p \in problems[c] /\ (Unhurried => Over(p))
<1>1. ASSUME NEW i \in DOMAIN subs, UpdateContest(i)
      PROVE  subs[i].at = "graded" /\ subs[i].public /\ subs[i].sub.prob = p
  BY <1>1 DEF UpdateContest, UpdateStats
<1>2. CASE Publish
  BY <1>2, PublishDoes
<1>3. ASSUME NEW u \in Users, UpdateUserCount(u)
      PROVE  FALSE
  BY <1>3 DEF UpdateUserCount
<1>4. ASSUME NEW c \in Contests, NEW minutes \in {-1, 1}, Extend(c, minutes)
      PROVE  FALSE
  BY <1>4 DEF Extend
<1>5. ~SaveCommit /\ \A x \in Problem : ~Hide(x)
  BY DEF SaveCommit, Hide
<1> QED
  BY <1>1, <1>2, <1>3, <1>4, <1>5, RowsMove

LEMMA PublicStep ==
    ASSUME Shapes, PublicIsCurrent, InTransaction, [Next]_vars
    PROVE  PublicIsCurrent'
<1> SUFFICES ASSUME Stay("stats"), NEW n \in DOMAIN subs', subs'[n].at = "graded"
             PROVE  subs'[n].public <=> subs'[n].sub.prob \in open'
  BY SceneStays DEF PublicIsCurrent, Stay
<1>1. \A i \in DOMAIN subs : subs[i].at = "graded" => (subs[i].public <=> subs[i].sub.prob \in open)
  BY DEF PublicIsCurrent
<1>2. CASE open' = open
  BY <1>1, <1>2, GradedStep
<1>3. ASSUME open' # open
      PROVE  n \in DOMAIN subs /\ subs[n].at = "graded" /\ subs'[n].public = subs[n].public
             /\ subs'[n].sub.prob = subs[n].sub.prob
  BY <1>3, GradedStep
<1>4. ASSUME NEW i \in DOMAIN subs, UpdateContest(i)
      PROVE  open' = open
  BY <1>1, <1>4 DEF UpdateContest, UpdateStats
<1>5. ASSUME Publish, open' # open
      PROVE  subs'[n].public <=> subs'[n].sub.prob \in open'
  <2>1. PICK c \in Contests : /\ Settled(problems[c]) /\ open \subseteq open'
                              /\ \A p \in open' \ open : p \in problems[c]
    BY <1>5, PublishDoes
  <2>2. subs[n].sub.prob \notin problems[c]
    BY <1>3, <1>5, <2>1 DEF Settled, Stay, May
  <2> QED
    BY <1>1, <1>3, <1>5, <2>1, <2>2
<1>6. ASSUME NEW p \in Problem, Hide(p), open' # open
      PROVE  subs'[n].public <=> subs'[n].sub.prob \in open'
  <2>1. subs[n].sub.prob # p
    BY <1>3, <1>6 DEF Hide, Settled, Stay, May
  <2>2. open' = open \ {p}
    BY <1>6 DEF Hide
  <2> QED
    BY <1>1, <1>3, <1>6, <2>1, <2>2
<1>7. ASSUME NEW u \in Users, UpdateUserCount(u)
      PROVE  open' = open
  BY <1>7 DEF UpdateUserCount
<1>8. ASSUME NEW c \in Contests, NEW minutes \in {-1, 1}, Extend(c, minutes)
      PROVE  open' = open
  BY <1>8 DEF Extend
<1>9. SaveCommit => open' = open
  BY DEF SaveCommit
<1> QED
  BY <1>2, <1>4, <1>5, <1>6, <1>7, <1>8, <1>9, RowsMove

\* A mark is taken away by a row that is saved, and by nothing else.
LEMMA MarksStay ==
    ASSUME Shapes, EndIsAnnounced, InTransaction, Stay("stale"), [Next]_vars,
           NEW c \in Contests, row[c].published, ~(SaveCommit /\ saving.marked /\ saving.c = c)
    PROVE  row'[c].published
<1>1. ASSUME NEW u \in Users, JoinContest(u) \/ Enter(u)
      PROVE  row' = row
  BY <1>1 DEF JoinContest, Enter, rows
<1>2. ASSUME Publish
      PROVE  row'[c].published
  BY <1>2, PublishDoes
<1>3. ASSUME SaveCommit
      PROVE  row'[c].published
  <2>1. PICK b : b = (row[saving.c].published /\ ~saving.marked)
    OBVIOUS
  <2>2. row' = [row EXCEPT ![saving.c].published = b]
    BY <1>3, <2>1 DEF SaveCommit
  <2>3. DOMAIN row = Contests /\ row[c] = [end |-> row[c].end, published |-> row[c].published, users |-> row[c].users]
    BY DEF Shapes, Rows, IsRow
  <2>4. saving.c = c => b = TRUE
    BY <1>3, <2>1
  <2> QED
    BY <2>2, <2>3, <2>4
<1> QED
  BY <1>1, <1>2, <1>3, CountDoes, ExtendDoes, EndMove

\* Where no contest is extended and no problem added, what is over stays over.
LEMMA OverStays ==
    ASSUME Shapes, EndIsAnnounced, NothingIsAdded, InTransaction, Stay("stale"),
           scene.acts \cap {"extend", "add"} = {}, [Next]_vars, NEW p, Over(p)
    PROVE  Over(p)'
<1>1. \A c \in Contests : problems'[c] = problems[c]
  BY ProblemsStay
<1>2. ASSUME NEW c \in Contests, NEW minutes \in {-1, 1}, Extend(c, minutes)
      PROVE  FALSE
  BY <1>2 DEF Extend, Act
<1>3. ASSUME NEW u \in Users, JoinContest(u) \/ Enter(u)
      PROVE  row' = row
  BY <1>3 DEF JoinContest, Enter, rows
<1>4. \A c \in Contests : row'[c].end = row[c].end
  BY <1>2, <1>3, CountDoes, MarkDoes, EndMove
<1>5. now \in Nat /\ now <= now' /\ now' \in Nat
  BY SceneStays DEF Shapes, Scened
<1>6. \A c \in Holding(p) : row[c].end \in Int /\ row[c].end <= now
  BY DEF Over, Holding, Shapes, Rows, IsRow
<1>7. \A c \in Holding(p) : row'[c].end <= now'
  BY <1>4, <1>5, <1>6 DEF Holding
<1>8. Holding(p)' = Holding(p)
  BY <1>1 DEF Holding
<1> QED
  BY <1>7, <1>8 DEF Over

LEMMA OverStep ==
    ASSUME Shapes, EndIsAnnounced, NothingIsAdded, PublishedIsOver, InTransaction, [Next]_vars
    PROVE  PublishedIsOver'
<1> SUFFICES ASSUME Stay("stale"), scene.acts \cap {"extend", "add"} = {}
             PROVE  PublishedIsOver'
  BY SceneStays DEF PublishedIsOver, Stay
<1>1. /\ \A p \in open : Over(p)
      /\ \A i \in DOMAIN subs : subs[i].at = "graded" /\ subs[i].public => Over(subs[i].sub.prob)
  BY DEF PublishedIsOver
<1>2. \A p \in open' : Over(p)'
  <2>1. \A p \in open' : Over(p)
    BY <1>1, OpenGrows DEF Unhurried
  <2> QED
    BY <2>1, OverStays
<1>3. ASSUME NEW n \in DOMAIN subs', subs'[n].at = "graded", subs'[n].public
      PROVE  Over(subs[n].sub.prob)'
  <2>1. PICK p : p = subs'[n].sub.prob
    OBVIOUS
  <2>2. Over(p)
    BY <1>1, <1>3, <2>1, GradedStep
  <2>3. Over(p)'
    BY <2>2, OverStays
  <2> QED
    BY <2>1, <2>3 DEF Over, Holding
<1> QED
  BY <1>2, <1>3 DEF PublishedIsOver

LEMMA WithdrawnStep ==
    ASSUME Shapes, EndIsAnnounced, InTransaction, WithdrawnIsMarked, [Next]_vars
    PROVE  WithdrawnIsMarked'
<1> SUFFICES ASSUME Without({"stale", "stats"}), NEW p \in withdrawn', NEW c \in Holding(p)'
             PROVE  row'[c].published
  BY SceneStays DEF WithdrawnIsMarked, Without
<1>1. Stay("stale") /\ c \in Contests /\ p \in problems'[c] /\ DOMAIN problems = Contests
  BY DEF Without, Stay, Holding, Shapes, Commands
<1>2. CASE SaveCommit
  <2>1. problems' = [problems EXCEPT ![saving.c] = @ \cup {saving.p}] /\ p \in withdrawn \ Reopened
    BY <1>2 DEF SaveCommit
  <2>2. p \in problems[c] \/ (c = saving.c /\ p = saving.p)
    BY <1>1, <2>1
  <2>3. p \in problems[c]
    BY <2>1, <2>2 DEF Reopened
  <2>4. ~(saving.marked /\ saving.c = c)
    BY <2>1, <2>3 DEF Reopened
  <2>5. row[c].published
    BY <1>1, <2>1, <2>3 DEF WithdrawnIsMarked, Holding
  <2> QED
    BY <1>1, <2>4, <2>5, MarksStay
<1>3. CASE ~SaveCommit
  <2>1. problems' = problems
    BY <1>3, PubMove DEF Organizing, pubVars, PublishStart, ReadBlocked, Publish, Extend, SaveProblem, Hide
  <2>2. c \in Holding(p)
    BY <1>1, <2>1 DEF Holding
  <2>3. p \in withdrawn \/ \A x \in Holding(p) : row[x].published
    BY <1>3, PubMove DEF Organizing, pubVars, PublishStart, ReadBlocked, Publish, Extend, SaveProblem, Hide
  <2>4. row[c].published
    BY <2>2, <2>3 DEF WithdrawnIsMarked
  <2> QED
    BY <1>1, <1>3, <2>4, MarksStay
<1> QED
  BY <1>2, <1>3

LEMMA ArchiveStep ==
    ASSUME Shapes, Archive, [Next]_vars
    PROVE  Archive'
BY EndStep, PublicStep, OverStep, AddedStep, WithdrawnStep, TransactionStep DEF Archive

-----------------------------------------------------------------------------
(* The theorems *)

IInv == Shapes /\ Sentences /\ Archive

\* The three invariants hold of every contest there is: of any users, problems,
\* formats and hazards.
THEOREM Invariant ==
    ASSUME NoneIsNothing
    PROVE  Spec => []IInv
<1>1. PubInit => IInv
  BY ShapesInit, SentencesInit, ArchiveInit DEF IInv
<1>2. IInv /\ [Next]_vars => IInv'
  BY ShapesStep, SentencesStep, ArchiveStep DEF IInv
<1> QED
  BY <1>1, <1>2, PTL DEF Spec

\* set_disqualified(), the recomputation it waits for and the joins of its user
\* (src/judge/models/contest.py) leave nobody disqualified and not banned, banned
\* and not disqualified, or disqualified and in the contest.
THEOREM SentencesHold ==
    ASSUME NoneIsNothing
    PROVE  Spec => []SentenceIsWhole
<1>1. IInv => SentenceIsWhole
  BY SentencesAreWhole DEF IInv
<1> QED
  BY <1>1, Invariant, PTL

\* publish_finished_contests() (src/judge/utils/contest_publication.py) publishes
\* no problem before the last announced end of each of its contests.
THEOREM NothingIsEarly ==
    ASSUME NoneIsNothing
    PROVE  Spec => NoEarlyPublication
<1> DEFINE Late == Without({"stale", "late_extend"}) /\ ~Republishing =>
                       \A p \in open' \ open : \A c \in Holding(p) : announced[c] <= now
<1>1. IInv /\ [Next]_vars => [Late]_vars
  <2> SUFFICES ASSUME IInv, [Next]_vars, Without({"stale", "late_extend"}), ~Republishing,
                      NEW p \in open' \ open, NEW c \in Holding(p)
               PROVE  announced[c] <= now
    OBVIOUS
  <2>1. Shapes /\ EndIsAnnounced /\ PublicIsCurrent /\ PublishedIsOver /\ InTransaction /\ Stay("stale") /\ Unhurried
    BY DEF IInv, Archive, Without, Stay, Unhurried
  <2>2. ASSUME NEW i \in DOMAIN subs, subs[i].at = "graded", subs[i].public, subs[i].sub.prob = p
        PROVE  Over(p)
    <3>1. CASE Stay("stats")
      BY <2>1, <2>2, <3>1 DEF PublicIsCurrent
    <3>2. CASE ~Stay("stats")
      BY <2>1, <2>2, <3>2 DEF PublishedIsOver, Republishing, Stay, May
    <3> QED
      BY <3>1, <3>2
  <2>3. Over(p)
    BY <2>1, <2>2, OpenGrows
  <2>4. announced[c] = row[c].end
    BY <2>1 DEF EndIsAnnounced, Holding
  <2> QED
    BY <2>3, <2>4 DEF Over
<1> QED
  BY <1>1, Invariant, PTL DEF Spec, NoEarlyPublication

\* What an administrator takes out of the archive after the marks were set is not
\* published again while the marks of its contests stay: however the command, its
\* joins, extensions, verdicts and saved rows are interleaved
\* (src/judge/utils/contest_publication.py, src/judge/signals.py:89-98), only a row
\* that is saved takes a mark away.
THEOREM NothingComesBack ==
    ASSUME NoneIsNothing
    PROVE  Spec => WithdrawnStaysOut
<1> DEFINE Out == Without({"stale", "stats"}) => open' \cap withdrawn \subseteq open
<1>1. IInv /\ [Next]_vars => [Out]_vars
  <2> SUFFICES ASSUME IInv, [Next]_vars, Without({"stale", "stats"}),
                      NEW p \in open' \ open, p \in withdrawn
               PROVE  FALSE
    OBVIOUS
  <2>1. Shapes /\ PublicIsCurrent /\ WithdrawnIsMarked /\ InTransaction /\ Stay("stats")
    BY DEF IInv, Archive, Without, Stay
  <2>2. \A i \in DOMAIN subs : ~(subs[i].at = "graded" /\ subs[i].public /\ subs[i].sub.prob = p)
    BY <2>1 DEF PublicIsCurrent
  <2>3. PICK c \in Contests : ~row[c].published /\ p \in problems[c]
    BY <2>1, <2>2, OpenGrows
  <2> QED
    BY <2>1, <2>3 DEF WithdrawnIsMarked, Holding
<1> QED
  BY <1>1, Invariant, PTL DEF Spec, WithdrawnStaysOut
=============================================================================
