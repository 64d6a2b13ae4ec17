-------------------------------- MODULE Bridge --------------------------------
(***************************************************************************)
(* A submission's way through the site, the judge bridge and the database. *)
(*                                                                         *)
(* JudgeList is the dispatcher; this module adds what surrounds it:        *)
(*   - the rows of the database: Submission.status, the number of          *)
(*     SubmissionTestCase rows and the score stored with the result;       *)
(*   - the web workers, which run judge_submission and abort_submission    *)
(*     of judge/judgeapi.py step by step, with no lock between the steps;  *)
(*   - the packets a judge sends about a submission and what               *)
(*     judge/bridge/judge_handler.py does for each, where the call into    *)
(*     the dispatcher and the updates that follow it are separate steps;   *)
(*   - the bridge process dying and starting again                         *)
(*     (judge/bridge/daemon.py).                                           *)
(*                                                                         *)
(* Judges are external.  One answers each request it was sent with an      *)
(* acknowledgement, then a compile error or a grading of NCases cases; a   *)
(* terminate-submission that reaches it in time ends either.               *)
(***************************************************************************)
EXTENDS JudgeList

CONSTANTS
    Site,         \* web workers
    ContestSub,   \* the submissions that belong to a contest
    NCases,       \* test cases of a grading
    SiteEnv       \* what else may happen on the site, see SiteHazards

\* "eager": judge_submission is called for a submission somebody is already
\* busy with; "abort": abort_submission is called; "killed": a web worker dies
\* between two steps.
SiteHazards == {"eager", "abort", "killed"}

\* The request the daemon makes of a submission it finds unfinished.
Recovered(s) == [id |-> s, judge_id |-> None, priority |-> IF s \in ContestSub THEN 0 ELSE 1]

ASSUME SiteAssumption ==
    /\ Sub \subseteq Nat
    /\ ContestSub \subseteq Sub
    /\ \A s \in Sub : Recovered(s) \in Requests
    /\ NCases \in Nat
    /\ SiteEnv \subseteq SiteHazards
    /\ None \notin Site

VARIABLES
    status,   \* status[s]: Submission.status, or "none" before there is a row
    cases,    \* cases[s]: how many SubmissionTestCase rows s has
    score,    \* score[s]: the cases the stored result counts, or None
    site,     \* site[p]: what the web worker p is doing
    phase,    \* phase[s]: how far the judge that holds s is
    graded,   \* graded[s]: how many cases that judge has reported
    told,     \* the submissions whose judge was sent terminate-submission
    todo,     \* todo[c]: what the handler still has to do for a packet
    gone,     \* gone[c]: the _working of a handler that has been removed
    bridge,   \* "up", "down", or "booting" before the servers listen
    pending   \* the unfinished submissions the daemon has yet to queue

dbvars == <<status, cases, score>>
judgevars == <<phase, graded, told>>
procvars == <<todo, gone, bridge, pending>>
bvars == <<vars, dbvars, site, judgevars, procvars>>

InProgress == {"QU", "P", "G"}
Final == {"D", "IE", "CE", "AB"}

NoWork == [op |-> "none"]             \* a worker without a call
Rest == [op |-> "none", sub |-> None]  \* a handler waiting for a packet
Work == {NoWork} \cup
        [op : {"update", "delete", "request"}, req : Requests] \cup
        [op : {"terminate", "mark"}, sub : Sub]

Todo == {Rest} \cup [op : {"read", "CE", "IE", "AB"}, sub : Sub]
               \cup [op : {"D"}, sub : Sub, n : 0..NCases]

BTypeOK ==
    /\ status \in [Sub -> {"none"} \cup InProgress \cup Final]
    /\ cases \in [Sub -> 0..NCases]
    /\ score \in [Sub -> 0..NCases \cup {None}]
    /\ site \in [Site -> Work]
    /\ phase \in [Sub -> {"none", "sent", "acked", "begun"}]
    /\ graded \in [Sub -> 0..NCases]
    /\ told \subseteq Sub
    /\ todo \in [Conn -> Todo]
    /\ gone \in [Conn -> Sub \cup {None}]
    /\ bridge \in {"up", "down", "booting"}
    /\ pending \subseteq Sub

BInit ==
    /\ Init
    /\ status = [s \in Sub |-> "none"]
    /\ cases = [s \in Sub |-> 0]
    /\ score = [s \in Sub |-> None]
    /\ site = [p \in Site |-> NoWork]
    /\ phase = [s \in Sub |-> "none"]
    /\ graded = [s \in Sub |-> 0]
    /\ told = {}
    /\ todo = [c \in Conn |-> Rest]
    /\ gone = [c \in Conn |-> None]
    /\ bridge = "up"
    /\ pending = {}

-----------------------------------------------------------------------------
(* What a step of the dispatcher means to the judges *)

\* A submission that reaches a judge starts afresh there, one that no judge
\* holds any more has no progress; terminate-submission names no submission, so
\* it concerns the one the judge holds when it arrives.
Deliver ==
    LET at(h) == {s \in Sub : \E c \in Conn : s \in h[c]} IN
    /\ phase' = [s \in Sub |-> IF s \in at(held) \cap at(held') THEN phase[s]
                               ELSE IF s \in at(held') THEN "sent" ELSE "none"]
    /\ graded' = [s \in Sub |-> IF s \in at(held) \cap at(held') THEN graded[s] ELSE 0]
    /\ told' = told \cap at(held) \cap at(held')

\* Steps of the dispatcher that concern no row and no worker.
OnlyDispatcher == bridge = "up" /\ Deliver /\ UNCHANGED <<dbvars, site, procvars>>

HandlerThread(c) == (Connected(c) \/ UpdateProblems(c) \/ Sweep(c)) /\ OnlyDispatcher

HolderThread == Finish /\ OnlyDispatcher

\* A judge connects, has new problems, or its ping fails.
JudgeSide(c) ==
    /\ \/ gone[c] = None /\ Register(c, Kind)
       \/ todo[c] = Rest /\ "stale_kick" \in Env /\ SupportedProblems(c, Kind)
       \/ Close(c)
    /\ OnlyDispatcher

Admin ==
    /\ \/ \E n \in JudgeName, b \in BOOLEAN : UpdateDisable(n, b)
       \/ \E n \in JudgeName : Disconnect(n)
       \/ RemoveStranger
    /\ OnlyDispatcher

-----------------------------------------------------------------------------
(* Packets of a judge: judge_handler.py *)

\* The handler's thread reads the next packet, which is about s.
Reads(c, s) ==
    /\ stage[c] = "connected"
    /\ todo[c] = Rest
    /\ s \in held[c]

\* on_submission_acknowledged.  A wrong acknowledgement marks both submissions
\* and closes the connection; on_submission_processing runs all the same.
Ack(c, s) ==
    /\ Reads(c, s)
    /\ phase[s] = "sent"
    /\ phase' = [phase EXCEPT ![s] = "acked"]
    /\ \/ /\ s = working[c]
          /\ status' = [status EXCEPT ![s] = "P"]
          /\ UNCHANGED vars
       \/ /\ s # working[c]
          /\ status' = [t \in Sub |-> IF t = s THEN "P"
                                      ELSE IF t = working[c] THEN "IE" ELSE status[t]]
          /\ Close(c)
    /\ UNCHANGED <<cases, score, site, graded, told, procvars>>

\* Mutant: the rows of an earlier grading stay.
Begin_KeepsRows(c, s) ==
    /\ Reads(c, s)
    /\ phase[s] = "acked"
    /\ phase' = [phase EXCEPT ![s] = "begun"]
    /\ status' = [status EXCEPT ![s] = "G"]
    /\ UNCHANGED <<vars, cases, score, site, graded, told, procvars>>

\* on_grading_begin: the rows of an earlier grading go.
Begin(c, s) ==
    /\ Reads(c, s)
    /\ phase[s] = "acked"
    /\ phase' = [phase EXCEPT ![s] = "begun"]
    /\ status' = [status EXCEPT ![s] = "G"]
    /\ cases' = [cases EXCEPT ![s] = 0]
    /\ UNCHANGED <<vars, score, site, graded, told, procvars>>

\* on_test_case, for a packet of one case.
TestCase(c, s) ==
    /\ Reads(c, s)
    /\ phase[s] = "begun"
    /\ graded[s] < NCases
    /\ graded' = [graded EXCEPT ![s] = @ + 1]
    /\ cases' = [cases EXCEPT ![s] = @ + 1]
    /\ UNCHANGED <<vars, status, score, site, phase, told, procvars>>

\* The packet that ends s: _free_self comes first.  When on_judge_free raises
\* -- no entry for s, no minimum tier to compare with, or a failed dispatch to a
\* judge that another failure has thrown out -- on_packet drops the rest of the
\* handler.
Ends(c, s, op) ==
    LET failed == Serves(c, [working EXCEPT ![c] = None]) /\ queue' = queue
        raises == submission_map[s] = None \/ min_tier = None \/ (c \notin judges /\ failed) IN
    /\ Reads(c, s)
    /\ OnJudgeFree(c, s)
    /\ todo' = [todo EXCEPT ![c] = IF raises THEN Rest ELSE [op |-> op, sub |-> s]]
    /\ Deliver
    /\ UNCHANGED <<dbvars, site, gone, bridge, pending>>

\* on_grading_end; on_compile_error; on_internal_error; on_submission_terminated.
GradingEnd(c, s) == phase[s] = "begun" /\ graded[s] = NCases /\ Ends(c, s, "read")
CompileError(c, s) == phase[s] = "acked" /\ Ends(c, s, "CE")
InternalError(c, s) == phase[s] \in {"acked", "begun"} /\ Ends(c, s, "IE")
Terminated(c, s) == phase[s] # "sent" /\ s \in told /\ Ends(c, s, "AB")

\* on_grading_end: the rows are read and summed up ...
ReadCases(c) ==
    /\ todo[c].op = "read"
    /\ todo' = [todo EXCEPT ![c] = [op |-> "D", sub |-> @.sub, n |-> cases[@.sub]]]
    /\ UNCHANGED <<vars, dbvars, site, judgevars, gone, bridge, pending>>

\* ... and submission.save() writes the result; or the one update of the others.
Store(c) ==
    LET t == todo[c] IN
    /\ t.op \in {"D", "CE", "IE", "AB"}
    /\ status' = [status EXCEPT ![t.sub] = t.op]
    /\ score' = [score EXCEPT ![t.sub] = CASE t.op = "D" -> t.n
                                           [] t.op = "AB" -> 0
                                           [] OTHER -> @]
    /\ todo' = [todo EXCEPT ![c] = Rest]
    /\ UNCHANGED <<vars, cases, site, judgevars, gone, bridge, pending>>

\* Mutant: a judge that leaves takes what it was working on with it.
Leave_ForgetsWork(c) ==
    /\ todo[c] = Rest
    /\ gone[c] = None
    /\ Remove(c)
    /\ Deliver
    /\ UNCHANGED <<dbvars, site, procvars>>

\* on_disconnect: remove() under the lock ...
Leave(c) ==
    /\ todo[c] = Rest
    /\ gone[c] = None
    /\ Remove(c)
    /\ gone' = [gone EXCEPT ![c] = working[c]]
    /\ Deliver
    /\ UNCHANGED <<dbvars, site, todo, bridge, pending>>

\* ... and the internal error for what it was working on, by then perhaps
\* requested anew.
LeaveMark(c) ==
    /\ gone[c] # None
    /\ status' = [status EXCEPT ![gone[c]] = "IE"]
    /\ gone' = [gone EXCEPT ![c] = None]
    /\ UNCHANGED <<vars, cases, score, site, judgevars, todo, bridge, pending>>

-----------------------------------------------------------------------------
(* The web workers: judgeapi.py *)

Does(p, work) == site' = [site EXCEPT ![p] = work]

\* The worker p is in the middle of a call about s.
IsFor(p, s) ==
    \/ site[p].op \in {"update", "delete", "request"} /\ site[p].req.id = s
    \/ site[p].op \in {"terminate", "mark"} /\ site[p].sub = s

\* Nobody is busy with s: not the dispatcher, a handler, the daemon or a worker.
\* The code looks at the row alone: a batch rejudge leaves out the rows that are QU,
\* P or G (tasks/submission.py:13-24), a single one is looked at in SiteUpdate.  A
\* row that has its final status, or is still QU, while somebody is busy with it is
\* judged again with "eager" only.
Unattended(s) ==
    /\ submission_map[s] = None
    /\ ~Queued(s)
    /\ s \notin pending
    /\ \A c \in Conn : todo[c].sub # s /\ gone[c] # s
    /\ \A p \in Site : ~IsFor(p, s)

\* Mutant: a submission is judged again without a look at who is busy with it.
StartJudge_Eager(p, r) ==
    /\ site[p] = NoWork
    /\ \/ /\ r.priority < REJUDGE_PRIORITY
          /\ status[r.id] = "none"
          /\ status' = [status EXCEPT ![r.id] = "QU"]
       \/ /\ r.priority >= REJUDGE_PRIORITY
          /\ status[r.id] # "none"
          /\ UNCHANGED status
    /\ Does(p, [op |-> "update", req |-> r])
    /\ UNCHANGED <<vars, cases, score, judgevars, procvars>>

\* judge_submission is called: for a row that form_valid() has just created, or
\* to judge one again.
StartJudge(p, r) ==
    /\ site[p] = NoWork
    /\ \/ /\ r.priority < REJUDGE_PRIORITY
          /\ status[r.id] = "none"
          /\ status' = [status EXCEPT ![r.id] = "QU"]
       \/ /\ r.priority >= REJUDGE_PRIORITY
          /\ status[r.id] # "none"
          /\ "eager" \in SiteEnv \/ Unattended(r.id)
          /\ UNCHANGED status
    /\ Does(p, [op |-> "update", req |-> r])
    /\ UNCHANGED <<vars, cases, score, judgevars, procvars>>

\* .exclude(status__in=('P', 'G')).update(status='QU', points=None, ..)
SiteUpdate(p) ==
    LET r == site[p].req IN
    /\ site[p].op = "update"
    /\ IF status[r.id] \in {"P", "G"}
       THEN Does(p, NoWork) /\ UNCHANGED <<status, score>>
       ELSE /\ status' = [status EXCEPT ![r.id] = "QU"]
            /\ score' = [score EXCEPT ![r.id] = None]
            /\ Does(p, [op |-> "delete", req |-> r])
    /\ UNCHANGED <<vars, cases, judgevars, procvars>>

SiteDelete(p) ==
    LET r == site[p].req IN
    /\ site[p].op = "delete"
    /\ cases' = [cases EXCEPT ![r.id] = 0]
    /\ Does(p, [op |-> "request", req |-> r])
    /\ UNCHANGED <<vars, status, score, judgevars, procvars>>

\* judge_request: the dispatcher takes the request or, when it has s already,
\* ignores it; without a bridge the request fails.
SiteRequest(p) ==
    LET r == site[p].req IN
    /\ site[p].op = "request"
    /\ \/ /\ bridge = "up" /\ LockFree
          /\ IF submission_map[r.id] = None /\ ~Queued(r.id)
             THEN Judge(r) /\ Deliver
             ELSE UNCHANGED <<vars, judgevars>>
          /\ UNCHANGED status
       \/ /\ bridge # "up"
          /\ status' = [status EXCEPT ![r.id] = "IE"]
          /\ UNCHANGED <<vars, judgevars>>
    /\ Does(p, NoWork)
    /\ UNCHANGED <<cases, score, procvars>>

\* abort_submission(s): the status is that of the object the view has loaded.
StartAbort(p, s) ==
    /\ "abort" \in SiteEnv
    /\ site[p] = NoWork
    /\ status[s] \notin {"none", "D"}
    /\ Does(p, [op |-> "terminate", sub |-> s])
    /\ UNCHANGED <<vars, dbvars, judgevars, procvars>>

\* terminate-submission: judge-aborted is true, or missing from the answer when
\* nothing can be sent to the judge, when some judge has an entry for s.
SiteTerminate(p) ==
    LET s == site[p].sub
        c == submission_map[s] IN
    /\ site[p].op = "terminate"
    /\ \/ /\ bridge = "up" /\ LockFree
          /\ c # None
          /\ told' = IF c \in closed \/ s \notin held[c] THEN told ELSE told \cup {s}
          /\ Does(p, NoWork)
          /\ UNCHANGED <<vars, phase, graded>>
       \/ /\ bridge = "up" /\ LockFree
          /\ c = None
          /\ IF Queued(s) THEN Abort(s) ELSE UNCHANGED vars
          /\ Does(p, [op |-> "mark", sub |-> s])
          /\ UNCHANGED judgevars
       \/ /\ bridge # "up"
          /\ Does(p, NoWork)
          /\ UNCHANGED <<vars, judgevars>>
    /\ UNCHANGED <<dbvars, procvars>>

\* The submission was not at a judge: it is marked, whatever it is by now.
SiteMark(p) ==
    LET s == site[p].sub IN
    /\ site[p].op = "mark"
    /\ status' = [status EXCEPT ![s] = "AB"]
    /\ score' = [score EXCEPT ![s] = 0]
    /\ Does(p, NoWork)
    /\ UNCHANGED <<vars, cases, judgevars, procvars>>

SiteKilled(p) ==
    /\ "killed" \in SiteEnv
    /\ site[p] # NoWork
    /\ Does(p, NoWork)
    /\ UNCHANGED <<vars, dbvars, judgevars, procvars>>

-----------------------------------------------------------------------------
(* The bridge process: daemon.py *)

Crash ==
    /\ Restart
    /\ bridge' = "down"
    /\ pending' = {}
    /\ todo' = [c \in Conn |-> Rest]
    /\ gone' = [c \in Conn |-> None]
    /\ Deliver
    /\ UNCHANGED <<dbvars, site>>

\* Mutant: only what was waiting goes back to the queue.
Boot_OnlyWaiting ==
    /\ bridge = "down"
    /\ bridge' = "booting"
    /\ pending' = {s \in Sub : status[s] = "QU"}
    /\ UNCHANGED <<vars, dbvars, site, judgevars, todo, gone>>

\* unfinished_submissions()
Boot ==
    /\ bridge = "down"
    /\ bridge' = "booting"
    /\ pending' = {s \in Sub : status[s] \in InProgress}
    /\ status' = [s \in Sub |-> IF status[s] \in InProgress THEN "QU" ELSE status[s]]
    /\ UNCHANGED <<vars, cases, score, site, judgevars, todo, gone>>

\* judges.judge() for each of them, oldest first, before the servers listen.
BootJudge ==
    /\ bridge = "booting"
    /\ \E s \in pending :
        /\ \A t \in pending : s <= t
        /\ pending' = pending \ {s}
        /\ Judge(Recovered(s))
    /\ Deliver
    /\ UNCHANGED <<dbvars, site, todo, gone, bridge>>

Listen ==
    /\ bridge = "booting"
    /\ pending = {}
    /\ bridge' = "up"
    /\ UNCHANGED <<vars, dbvars, site, judgevars, todo, gone, pending>>

-----------------------------------------------------------------------------
Packets(c) ==
    \/ \E s \in Sub : Ack(c, s) \/ Begin(c, s) \/ TestCase(c, s)
    \/ \E s \in Sub : GradingEnd(c, s) \/ CompileError(c, s)
    \/ \E s \in Sub : InternalError(c, s) \/ Terminated(c, s)

Handler(c) == ReadCases(c) \/ Store(c) \/ Leave(c) \/ LeaveMark(c)

Starts(p) ==
    \/ \E r \in Requests : StartJudge(p, r)
    \/ \E s \in Sub : StartAbort(p, s)
    \/ SiteKilled(p)

Worker(p) == SiteUpdate(p) \/ SiteDelete(p) \/ SiteRequest(p) \/ SiteTerminate(p) \/ SiteMark(p)

Process == Crash \/ Boot \/ BootJudge \/ Listen

BNext ==
    \/ Admin
    \/ HolderThread
    \/ \E c \in Conn : HandlerThread(c) \/ JudgeSide(c) \/ Packets(c) \/ Handler(c)
    \/ \E p \in Site : Starts(p) \/ Worker(p)
    \/ Process

BSpec == BInit /\ [][BNext]_bvars

\* Threads and workers run, the daemon comes back, and a judge answers a request
\* and goes on grading until it says how it ended (see JudgeList on SF).
BFairness(acks) ==
    /\ \A c \in Conn :
        /\ WF_bvars(HandlerThread(c))
        /\ WF_bvars(ReadCases(c)) /\ WF_bvars(Store(c)) /\ WF_bvars(LeaveMark(c))
        /\ SF_bvars(c \in closed /\ Leave(c))
    /\ WF_bvars(HolderThread)
    /\ \A c \in Conn, s \in Sub :
        /\ acks => WF_bvars(Ack(c, s))
        /\ WF_bvars(TestCase(c, s))
        /\ WF_bvars(Begin(c, s) \/ CompileError(c, s) \/ InternalError(c, s))
        /\ SF_bvars(GradingEnd(c, s) \/ InternalError(c, s) \/ Terminated(c, s))
    /\ \A p \in Site : SF_bvars(Worker(p))
    /\ WF_bvars(Boot \/ BootJudge \/ Listen)

BFairSpec == BSpec /\ BFairness(TRUE)

\* The same for judges that may fail to acknowledge.
BSilentSpec == BSpec /\ BFairness(FALSE)

-----------------------------------------------------------------------------
(* Properties *)

\* Somebody will act on s: it waits, a judge that will answer holds it, or a
\* handler, a worker or the daemon has it in hand.
Accounted(s) ==
    \/ bridge # "up"
    \/ Queued(s)
    \/ \E c \in Conn : s \in held[c] \/ todo[c].sub = s \/ gone[c] = s
    \/ \E p \in Site : IsFor(p, s)

\* No submission is stuck unfinished with nobody to finish it, whatever judges
\* leave, the bridge dies or the workers do in whichever order.
NobodyIsForgotten ==
    Without(Raising \cup {"stale_kick", "late_disable", "disable"}) /\ "killed" \notin SiteEnv =>
        \A s \in Sub : status[s] \in InProgress => Accounted(s)

\* A graded submission's score counts every case, when nobody asks to judge a
\* submission that somebody is busy with.
ResultComplete ==
    Without(Raising \cup {"stale_kick", "restart"}) /\ "eager" \notin SiteEnv =>
        \A s \in Sub : status[s] = "D" => score[s] = NCases

\* The same of any rejudge: "this mechanism does not prevent a new rejudge from
\* being scheduled while already queued, but that does not lead to data
\* corruption" (judge_submission).
RejudgeIsHarmless == \A s \in Sub : status[s] = "D" => score[s] = NCases

\* A final status stays until somebody asks to judge the submission again.
FinalUntilRejudge ==
    [][Without(Raising \cup {"stale_kick", "restart"}) /\ SiteEnv \subseteq {"killed"} =>
          \A s \in Sub : status[s] \in Final => status'[s] \in {status[s], "QU"}]_bvars

\* A submission a judge was sent is acknowledged, or its connection is closed:
\* "Judge failed to acknowledge submission" (_kill_if_no_response).
Acknowledged ==
    \A c \in Conn, s \in Sub :
        (s \in held[c] /\ phase[s] = "sent") ~> (phase[s] # "sent" \/ c \in closed)

\* Every submission asked for gets a final status, when a judge that can take
\* it stays.  A judge whose connection was shut before it was sent a submission
\* takes the entry with it of whoever was sent that submission instead, and the
\* answer of that one is then dropped: with closings this is about one judge.
EverySubmissionEnds ==
    /\ Without({"fetch", "send", "stale_kick", "late_disable", "disable"}) /\ "killed" \notin SiteEnv
    /\ Without({"close"}) \/ Cardinality(Conn) = 1
    => \A s \in Sub, c \in Conn :
          <>[](c \in current_tier_judges) => [](status[s] \in InProgress => <>(status[s] \in Final))
=============================================================================
