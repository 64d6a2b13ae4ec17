------------------------------ MODULE JudgeList ------------------------------
(***************************************************************************)
(* The dispatcher of the judge bridge: judge/bridge/judge_list.py.         *)
(*                                                                         *)
(* One process keeps the queue of submissions and the judges connected to  *)
(* it; a thread per connection calls it.  Every operation takes the one    *)
(* reentrant lock, so an operation is one action -- except the three that  *)
(* call _update_min_tier, whose loop over the judges of the new tier does  *)
(* one dispatch per judge: they hold the lock over several actions         *)
(* (holder), and what other threads do WITHOUT the lock (the unlocked      *)
(* check of on_supported_problems, the late write of _connected) can fall  *)
(* between them.                                                           *)
(*                                                                         *)
(* A connection c of Conn is one JudgeHandler object.  Name[c] is the      *)
(* judge it authenticates as (two connections may share a name), Tier[c]   *)
(* the tier cached at the handshake.  A submission's (problem, language)   *)
(* is KindOf[s]; a connection accepts the kinds in problems[c].            *)
(***************************************************************************)
EXTENDS Integers, Sequences, FiniteSets

CONSTANTS
    Sub,        \* submissions
    Conn,       \* connections of judges: JudgeHandler objects
    JudgeName,  \* names of judges
    Name,       \* Name[c]: the judge a connection authenticates as
    Tier,       \* Tier[c]: Judge.tier, cached at the handshake
    Kind,       \* (problem, language) pairs
    KindOf,     \* KindOf[s]: what submission s needs
    Requests,   \* the submission-requests the site may send
    Env,        \* the events of the environment that may occur, see Hazards
    None        \* Python's None

Priorities == 0..3
REJUDGE_PRIORITY == 2

\* What Env may hold.  "fetch" and "send" make judge.submit() raise (before, or
\* after, it has set _working); "stale_kick" lets a dispatch fall between the
\* unlocked check of on_supported_problems and update_problems; "late_disable"
\* lets _connected() cache a flag other than the one in use; "disable",
\* "enable" and "close" are the administrator's (dis)able and terminate;
\* "leave" is a disconnection, "restart" a new bridge process.
Hazards == {"fetch", "send", "stale_kick", "late_disable",
            "disable", "enable", "close", "leave", "restart"}

\* The events that make a dispatch raise: at all, and after _working is set.
Raising == {"fetch", "send", "close"}
LateRaising == {"send", "close"}

Request == [id : Sub, judge_id : JudgeName \cup {None}, priority : Priorities]
Entry   == [id : Sub, judge_id : JudgeName \cup {None}]

ASSUME ConstantsAssumption ==
    /\ Name \in [Conn -> JudgeName]
    /\ KindOf \in [Sub -> Kind]
    /\ Requests \subseteq Request
    /\ Env \subseteq Hazards
    /\ None \notin Sub \cup Conn \cup JudgeName
    /\ Conn \cap JudgeName = {}  \* a handler is no string

\* Tiers are natural numbers (PositiveIntegerField); the second conjunct only
\* says that min() finds one of its arguments.
ASSUME TierAssumption ==
    /\ Tier \in [Conn -> Nat]
    /\ None \notin Nat
    /\ \A J \in SUBSET Conn : J # {} => \E j \in J : \A k \in J : Tier[j] <= Tier[k]

VARIABLES
    queue,           \* queue[p]: the nodes in front of marker p and behind marker p-1
    submission_map,  \* submission_map[s]: the connection s was handed to, or None
    judges,          \* the connections the dispatcher knows
    min_tier,        \* the smallest tier of an enabled judge, or None
    holder,          \* the operation that holds the lock across _update_min_tier
    working,         \* working[c]: JudgeHandler._working
    is_disabled,     \* is_disabled[c]: JudgeHandler.is_disabled
    problems,        \* problems[c]: the kinds c accepts
    stage,           \* stage[c]: where the handler's thread is
    closed,          \* connections the bridge has shut down and not yet removed
    held             \* held[c]: submissions sent to c that it has not answered

vars == <<queue, submission_map, judges, min_tier, holder,
          working, is_disabled, problems, stage, closed, held>>

Idle == [op |-> "idle", conn |-> None, sweep |-> {}]

TypeOK ==
    /\ queue \in [Priorities -> Seq(Entry)]
    /\ submission_map \in [Sub -> Conn \cup {None}]
    /\ judges \subseteq Conn
    /\ min_tier \in Nat \cup {None}
    /\ holder \in [op : {"idle", "register", "remove", "disable"},
                   conn : Conn \cup {None}, sweep : SUBSET Conn]
    /\ working \in [Conn -> Sub \cup {None}]
    /\ is_disabled \in [Conn -> BOOLEAN]
    /\ problems \in [Conn -> SUBSET Kind]
    /\ stage \in [Conn -> {"off", "registered", "connected", "kicking"}]
    /\ closed \subseteq Conn
    /\ held \in [Conn -> SUBSET Sub]

Init ==
    /\ queue = [p \in Priorities |-> <<>>]
    /\ submission_map = [s \in Sub |-> None]
    /\ judges = {}
    /\ min_tier = None
    /\ holder = Idle
    /\ working = [c \in Conn |-> None]
    /\ is_disabled = [c \in Conn |-> FALSE]
    /\ problems = [c \in Conn |-> {}]
    /\ stage = [c \in Conn |-> "off"]
    /\ closed = {}
    /\ held = [c \in Conn |-> {}]

-----------------------------------------------------------------------------
(* The queue and the judges *)

\* node_map: the submissions that have a node in the queue.
Queued(s) == \E p \in Priorities : \E i \in 1..Len(queue[p]) : queue[p][i].id = s

\* dllist.remove(node) for the i-th node of priority p.
RemoveNode(p, i) ==
    [queue EXCEPT ![p] = SubSeq(@, 1, i - 1) \o SubSeq(@, i + 1, Len(@))]

can_judge(c, kind, judge_id) ==
    /\ kind \in problems[c]
    /\ (judge_id = None /\ ~is_disabled[c]) \/ Name[c] = judge_id

\* current_tier_judges() over the judges J with the flags d, for the tier t.
TierJudges(J, d, t) == {j \in J : Tier[j] = t /\ ~d[j]}
current_tier_judges == TierJudges(judges, is_disabled, min_tier)

\* should_reserve_judge() when w is what the judges are working on.
should_reserve_judge(w) ==
    /\ Cardinality(current_tier_judges) > 1
    /\ Cardinality({j \in current_tier_judges : w[j] = None}) <= 1

Nodes == UNION {{<<p, i>> : i \in DOMAIN queue[p]} : p \in Priorities}
NodeValue(n) == queue[n[1]][n[2]]

\* The nodes _handle_free_judge may reach and hand to c: it returns at the
\* first rejudge when a judge is to be kept in reserve.
Eligible(c, w) ==
    {n \in Nodes :
        /\ n[1] >= REJUDGE_PRIORITY => ~should_reserve_judge(w)
        /\ can_judge(c, KindOf[NodeValue(n).id], NodeValue(n).judge_id)}

\* The walk finds something for c.  Without a minimum tier the comparison
\* raises, which changes nothing; a judge of a higher tier is not served.
Serves(c, w) == min_tier # None /\ Tier[c] <= min_tier /\ Eligible(c, w) # {}

\* The order in which the queue is walked.
Before(m, n) == m[1] < n[1] \/ (m[1] = n[1] /\ m[2] < n[2])

-----------------------------------------------------------------------------
(* Handing a submission to a judge *)

\* Nothing can be sent through a connection that has been shut down.
Outcome(c) == {IF c \in closed THEN "send" ELSE "ok"} \cup ({"fetch", "send"} \cap Env)

\* submission_map[s] = c, then c.submit(s): it sets _working and sends the
\* request, or raises before ("fetch") or after ("send") it has set _working.
\* A raise throws c out of judges.  m, w and h are submission_map, working and
\* held as the caller has already changed them.
Submit(c, s, outcome, m, w, h) ==
    /\ submission_map' = [m EXCEPT ![s] = c]
    /\ working' = IF outcome = "fetch" THEN w ELSE [w EXCEPT ![c] = s]
    /\ held' = IF outcome = "ok" THEN [h EXCEPT ![c] = @ \cup {s}] ELSE h
    /\ judges' = IF outcome = "ok" THEN judges ELSE judges \ {c}

\* Mutant: the node is taken out of the queue before submit() has succeeded.
HandleFree_RemoveFirst(c, m, w, h) ==
    \/ /\ ~Serves(c, w)
       /\ submission_map' = m /\ working' = w /\ held' = h
       /\ UNCHANGED <<queue, judges>>
    \/ /\ Serves(c, w)
       /\ \E n \in Eligible(c, w), outcome \in Outcome(c) :
            /\ \A k \in Eligible(c, w) : ~Before(k, n)
            /\ Submit(c, NodeValue(n).id, outcome, m, w, h)
            /\ queue' = RemoveNode(n[1], n[2])

\* Mutant: the queue is walked from its end.
HandleFree_LastNode(c, m, w, h) ==
    \/ /\ ~Serves(c, w)
       /\ submission_map' = m /\ working' = w /\ held' = h
       /\ UNCHANGED <<queue, judges>>
    \/ /\ Serves(c, w)
       /\ \E n \in Eligible(c, w), outcome \in Outcome(c) :
            /\ \A k \in Eligible(c, w) : ~Before(n, k)
            /\ Submit(c, NodeValue(n).id, outcome, m, w, h)
            /\ queue' = IF outcome = "ok" THEN RemoveNode(n[1], n[2]) ELSE queue

\* _handle_free_judge(c).  The node leaves the queue only when submit() has
\* succeeded.
HandleFree(c, m, w, h) ==
    \/ /\ ~Serves(c, w)
       /\ submission_map' = m /\ working' = w /\ held' = h
       /\ UNCHANGED <<queue, judges>>
    \/ /\ Serves(c, w)
       /\ \E n \in Eligible(c, w), outcome \in Outcome(c) :
            /\ \A k \in Eligible(c, w) : ~Before(k, n)
            /\ Submit(c, NodeValue(n).id, outcome, m, w, h)
            /\ queue' = IF outcome = "ok" THEN RemoveNode(n[1], n[2]) ELSE queue

HandleFreeNow(c) == HandleFree(c, submission_map, working, held)

\* min() of the tiers of the enabled judges of J, None when there is none.
MinTier(J, d) ==
    LET E == {j \in J : ~d[j]} IN
    IF E = {} THEN None ELSE Tier[CHOOSE j \in E : \A k \in E : Tier[j] <= Tier[k]]

\* Mutant: disabled judges count for the minimum.
UpdateMinTier_CountsDisabled(J, d, op, c) ==
    LET t == MinTier(J, [j \in Conn |-> FALSE]) IN
    /\ min_tier' = t
    /\ holder' = [op |-> op, conn |-> c,
                  sweep |-> IF min_tier # None /\ t # None /\ t > min_tier
                            THEN TierJudges(J, d, t) ELSE {}]

\* _update_min_tier(): op keeps the lock and sweeps the judges of the new tier
\* when it is larger than the old one.
UpdateMinTier(J, d, op, c) ==
    LET t == MinTier(J, d) IN
    /\ min_tier' = t
    /\ holder' = [op |-> op, conn |-> c,
                  sweep |-> IF min_tier # None /\ t # None /\ t > min_tier
                            THEN TierJudges(J, d, t) ELSE {}]

\* No operation holds the lock (and, unless "stale_kick" may happen, no handler
\* is between its unlocked check and update_problems).
LockFree ==
    /\ holder = Idle
    /\ "stale_kick" \in Env \/ \A c \in Conn : stage[c] # "kicking"

\* disconnect(judge_id, force=True): the connections it shuts down.
Disconnected(judge_id) == {j \in judges : Name[j] = judge_id}

-----------------------------------------------------------------------------
(* Operations under the lock *)

\* on_handshake .. judges.register(c): a fresh handler, which nothing refers to.
\* register() passes the handler OBJECT to disconnect(), which compares it with
\* the NAME of every judge.
Register(c, ps) ==
    /\ LockFree
    /\ stage[c] = "off"
    /\ \A s \in Sub : submission_map[s] # c
    /\ stage' = [stage EXCEPT ![c] = "registered"]
    /\ problems' = [problems EXCEPT ![c] = ps]
    /\ is_disabled' = [is_disabled EXCEPT ![c] = FALSE]
    /\ closed' = closed \cup Disconnected(c)
    /\ judges' = judges \cup {c}
    /\ UpdateMinTier(judges', is_disabled', "register", c)
    /\ UNCHANGED <<queue, submission_map, working, held>>

\* Mutant: a disconnected judge keeps its entry.
Remove_KeepsEntry(c) ==
    /\ "leave" \in Env \/ c \in closed
    /\ LockFree
    /\ stage[c] = "connected"
    /\ stage' = [stage EXCEPT ![c] = "off"]
    /\ working' = [working EXCEPT ![c] = None]
    /\ held' = [held EXCEPT ![c] = {}]
    /\ closed' = closed \ {c}
    /\ judges' = judges \ {c}
    /\ UpdateMinTier(judges', is_disabled, "remove", c)
    /\ UNCHANGED <<queue, submission_map, is_disabled, problems>>

\* on_disconnect .. judges.remove(c).  The entry of _working is deleted whoever
\* owns it.  The object keeps _working, but nothing reads it from here on.
Remove(c) ==
    /\ "leave" \in Env \/ c \in closed
    /\ LockFree
    /\ stage[c] = "connected"
    /\ stage' = [stage EXCEPT ![c] = "off"]
    /\ submission_map' = IF working[c] = None THEN submission_map
                         ELSE [submission_map EXCEPT ![working[c]] = None]
    /\ working' = [working EXCEPT ![c] = None]
    /\ held' = [held EXCEPT ![c] = {}]
    /\ closed' = closed \ {c}
    /\ judges' = judges \ {c}
    /\ UpdateMinTier(judges', is_disabled, "remove", c)
    /\ UNCHANGED <<queue, is_disabled, problems>>

\* disconnect(n, force=True).  Without force the judge is asked to leave.
Disconnect(n) ==
    /\ "close" \in Env
    /\ LockFree
    /\ closed' = closed \cup Disconnected(n)
    /\ UNCHANGED <<queue, submission_map, judges, min_tier, holder, working,
                   is_disabled, problems, stage, held>>

\* A connection that never authenticated closes: remove() recomputes the tier.
RemoveStranger ==
    /\ "leave" \in Env
    /\ LockFree
    /\ UpdateMinTier(judges, is_disabled, "remove", None)
    /\ UNCHANGED <<queue, submission_map, judges, working, is_disabled,
                   problems, stage, closed, held>>

\* update_disable_judge(n, b).
UpdateDisable(n, b) ==
    /\ (IF b THEN "disable" ELSE "enable") \in Env
    /\ LockFree
    /\ is_disabled' = [c \in Conn |->
          IF c \in judges /\ Name[c] = n THEN b ELSE is_disabled[c]]
    /\ UpdateMinTier(judges, is_disabled', "disable", None)
    /\ UNCHANGED <<queue, submission_map, judges, working, problems, stage, closed, held>>

\* One turn of _update_min_tier's loop.
Sweep(j) ==
    /\ j \in holder.sweep
    /\ holder' = [holder EXCEPT !.sweep = @ \ {j}]
    /\ IF working[j] = None THEN HandleFreeNow(j)
       ELSE UNCHANGED <<queue, submission_map, judges, working, held>>
    /\ UNCHANGED <<min_tier, is_disabled, problems, stage, closed>>

\* Mutant: a judge that connects is given nothing of the queue.
Finish_NewJudgeWaits ==
    LET next == {j \in Conn :
                    holder.op = "remove" /\ current_tier_judges = {j} /\ working[j] = None} IN
    /\ holder # Idle
    /\ holder.sweep = {}
    /\ holder' = Idle
    /\ IF next = {}
       THEN UNCHANGED <<queue, submission_map, judges, working, held>>
       ELSE \E j \in next : HandleFreeNow(j)
    /\ UNCHANGED <<min_tier, is_disabled, problems, stage, closed>>

\* What follows _update_min_tier: register() serves the new judge, remove() the
\* only judge left, if it is free.
Finish ==
    LET next == {j \in Conn :
                    \/ holder.op = "register" /\ j = holder.conn
                    \/ holder.op = "remove" /\ current_tier_judges = {j} /\ working[j] = None} IN
    /\ holder # Idle
    /\ holder.sweep = {}
    /\ holder' = Idle
    /\ IF next = {}
       THEN UNCHANGED <<queue, submission_map, judges, working, held>>
       ELSE \E j \in next : HandleFreeNow(j)
    /\ UNCHANGED <<min_tier, is_disabled, problems, stage, closed>>

\* Mutant: a judge that becomes free is not given the next submission.
OnJudgeFree_NoDispatch(c, s) ==
    /\ LockFree
    /\ stage[c] = "connected"
    /\ s \in held[c]
    /\ held' = [held EXCEPT ![c] = @ \ {s}]
    /\ IF submission_map[s] = None
       THEN UNCHANGED <<submission_map, working>>
       ELSE /\ submission_map' = [submission_map EXCEPT ![s] = None]
            /\ working' = [working EXCEPT ![c] = None]
    /\ UNCHANGED <<queue, judges, min_tier, holder, is_disabled, problems, stage, closed>>

\* Mutant: _working keeps the submission that has ended.
OnJudgeFree_KeepsWorking(c, s) ==
    LET left == [held EXCEPT ![c] = @ \ {s}] IN
    /\ LockFree
    /\ stage[c] = "connected"
    /\ s \in held[c]
    /\ IF submission_map[s] = None
       THEN /\ held' = left
            /\ UNCHANGED <<queue, submission_map, judges, working>>
       ELSE HandleFree(c, [submission_map EXCEPT ![s] = None], working, left)
    /\ UNCHANGED <<min_tier, holder, is_disabled, problems, stage, closed>>

\* Mutant: _working becomes False where None is meant.
OnJudgeFree_False(c, s) ==
    LET left == [held EXCEPT ![c] = @ \ {s}] IN
    /\ LockFree
    /\ stage[c] = "connected"
    /\ s \in held[c]
    /\ IF submission_map[s] = None
       THEN /\ held' = left
            /\ UNCHANGED <<queue, submission_map, judges, working>>
       ELSE HandleFree(c, [submission_map EXCEPT ![s] = None],
                          [working EXCEPT ![c] = FALSE], left)
    /\ UNCHANGED <<min_tier, holder, is_disabled, problems, stage, closed>>

\* on_judge_free(c, s), for a packet that ends s: KeyError when s has no entry.
OnJudgeFree(c, s) ==
    LET left == [held EXCEPT ![c] = @ \ {s}] IN
    /\ LockFree
    /\ stage[c] = "connected"
    /\ s \in held[c]
    /\ IF submission_map[s] = None
       THEN /\ held' = left
            /\ UNCHANGED <<queue, submission_map, judges, working>>
       ELSE HandleFree(c, [submission_map EXCEPT ![s] = None],
                          [working EXCEPT ![c] = None], left)
    /\ UNCHANGED <<min_tier, holder, is_disabled, problems, stage, closed>>

\* abort(s): a submission a judge has is left to that judge (which is sent
\* terminate-submission), a queued one leaves the queue.
Abort(s) ==
    /\ LockFree
    /\ submission_map[s] = None
    /\ \E n \in Nodes : NodeValue(n).id = s /\ queue' = RemoveNode(n[1], n[2])
    /\ UNCHANGED <<submission_map, judges, min_tier, holder, working,
                   is_disabled, problems, stage, closed, held>>

\* Mutant: a submission some judge has is accepted again.
Judge_IgnoresEntry(r) ==
    LET candidates == {j \in current_tier_judges : can_judge(j, KindOf[r.id], r.judge_id)}
        free == {j \in candidates : working[j] = None}
        available == IF /\ Cardinality(candidates) > 1
                        /\ Cardinality(free) = 1
                        /\ r.priority >= REJUDGE_PRIORITY
                     THEN {} ELSE free IN
    /\ LockFree
    /\ ~Queued(r.id)
    /\ IF available # {}
       THEN /\ \E j \in available : \E outcome \in Outcome(j) :
                   Submit(j, r.id, outcome, submission_map, working, held)
            /\ UNCHANGED queue
       ELSE /\ queue' = [queue EXCEPT ![r.priority] =
                            Append(@, [id |-> r.id, judge_id |-> r.judge_id])]
            /\ UNCHANGED <<submission_map, judges, working, held>>
    /\ UNCHANGED <<min_tier, holder, is_disabled, problems, stage, closed>>

\* Mutant: a submission in the queue is accepted again.
Judge_IgnoresNode(r) ==
    LET candidates == {j \in current_tier_judges : can_judge(j, KindOf[r.id], r.judge_id)}
        free == {j \in candidates : working[j] = None}
        available == IF /\ Cardinality(candidates) > 1
                        /\ Cardinality(free) = 1
                        /\ r.priority >= REJUDGE_PRIORITY
                     THEN {} ELSE free IN
    /\ LockFree
    /\ submission_map[r.id] = None
    /\ IF available # {}
       THEN /\ \E j \in available : \E outcome \in Outcome(j) :
                   Submit(j, r.id, outcome, submission_map, working, held)
            /\ UNCHANGED queue
       ELSE /\ queue' = [queue EXCEPT ![r.priority] =
                            Append(@, [id |-> r.id, judge_id |-> r.judge_id])]
            /\ UNCHANGED <<submission_map, judges, working, held>>
    /\ UNCHANGED <<min_tier, holder, is_disabled, problems, stage, closed>>

\* Mutant: rejudges take the last free judge.
Judge_NoReserve(r) ==
    LET candidates == {j \in current_tier_judges : can_judge(j, KindOf[r.id], r.judge_id)}
        free == {j \in candidates : working[j] = None}
        available == free IN
    /\ LockFree
    /\ submission_map[r.id] = None
    /\ ~Queued(r.id)
    /\ IF available # {}
       THEN /\ \E j \in available : \E outcome \in Outcome(j) :
                   Submit(j, r.id, outcome, submission_map, working, held)
            /\ UNCHANGED queue
       ELSE /\ queue' = [queue EXCEPT ![r.priority] =
                            Append(@, [id |-> r.id, judge_id |-> r.judge_id])]
            /\ UNCHANGED <<submission_map, judges, working, held>>
    /\ UNCHANGED <<min_tier, holder, is_disabled, problems, stage, closed>>

\* judge(id, .., judge_id, priority).  A submission that is queued or handed out
\* already is ignored, and so is the retry after a failed dispatch, which finds
\* the entry it has just made.
Judge(r) ==
    LET candidates == {j \in current_tier_judges : can_judge(j, KindOf[r.id], r.judge_id)}
        free == {j \in candidates : working[j] = None}
        available == IF /\ Cardinality(candidates) > 1
                        /\ Cardinality(free) = 1
                        /\ r.priority >= REJUDGE_PRIORITY
                     THEN {} ELSE free IN
    /\ LockFree
    /\ submission_map[r.id] = None
    /\ ~Queued(r.id)
    /\ IF available # {}
       THEN /\ \E j \in available : \E outcome \in Outcome(j) :
                   Submit(j, r.id, outcome, submission_map, working, held)
            /\ UNCHANGED queue
       ELSE /\ queue' = [queue EXCEPT ![r.priority] =
                            Append(@, [id |-> r.id, judge_id |-> r.judge_id])]
            /\ UNCHANGED <<submission_map, judges, working, held>>
    /\ UNCHANGED <<min_tier, holder, is_disabled, problems, stage, closed>>

-----------------------------------------------------------------------------
(* What the handler's thread does without the lock *)

\* _connected(), after register() has returned: caches Judge.is_disabled.
Connected(c) ==
    /\ stage[c] = "registered"
    /\ holder.conn # c
    /\ stage' = [stage EXCEPT ![c] = "connected"]
    /\ \E b \in IF "late_disable" \in Env THEN BOOLEAN ELSE {is_disabled[c]} :
          is_disabled' = [is_disabled EXCEPT ![c] = b]
    /\ UNCHANGED <<queue, submission_map, judges, min_tier, holder, working,
                   problems, closed, held>>

\* on_supported_problems, up to `if not self.working`.
SupportedProblems(c, ps) ==
    /\ stage[c] = "connected"
    /\ "stale_kick" \in Env \/ LockFree
    /\ problems' = [problems EXCEPT ![c] = ps]
    /\ stage' = [stage EXCEPT ![c] = IF working[c] = None THEN "kicking" ELSE @]
    /\ UNCHANGED <<queue, submission_map, judges, min_tier, holder, working,
                   is_disabled, closed, held>>

\* update_problems(c): it does not check _working again.
UpdateProblems(c) ==
    /\ holder = Idle
    /\ stage[c] = "kicking"
    /\ stage' = [stage EXCEPT ![c] = "connected"]
    /\ HandleFreeNow(c)
    /\ UNCHANGED <<min_tier, holder, is_disabled, problems, closed>>

\* self.close() outside the lock: the ping thread could not send, or the judge
\* acknowledged what it was not sent.
Close(c) ==
    /\ "close" \in Env
    /\ stage[c] # "off"
    /\ closed' = closed \cup {c}
    /\ UNCHANGED <<queue, submission_map, judges, min_tier, holder, working,
                   is_disabled, problems, stage, held>>

\* A new bridge process: every connection and the queue are gone.  The daemon
\* then calls judge() for the submissions the database holds unfinished.
Restart ==
    /\ "restart" \in Env
    /\ queue' = [p \in Priorities |-> <<>>]
    /\ submission_map' = [s \in Sub |-> None]
    /\ judges' = {}
    /\ min_tier' = None
    /\ holder' = Idle
    /\ working' = [c \in Conn |-> None]
    /\ is_disabled' = [c \in Conn |-> FALSE]
    /\ problems' = [c \in Conn |-> {}]
    /\ stage' = [c \in Conn |-> "off"]
    /\ closed' = {}
    /\ held' = [c \in Conn |-> {}]

-----------------------------------------------------------------------------
Locked ==
    \/ \E c \in Conn, ps \in SUBSET Kind : Register(c, ps)
    \/ \E c \in Conn : Remove(c)
    \/ \E n \in JudgeName : Disconnect(n)
    \/ RemoveStranger
    \/ \E n \in JudgeName, b \in BOOLEAN : UpdateDisable(n, b)
    \/ \E j \in Conn : Sweep(j)
    \/ Finish
    \/ \E c \in Conn, s \in Sub : OnJudgeFree(c, s)
    \/ \E s \in Sub : Abort(s)
    \/ \E r \in Requests : Judge(r)

Unlocked ==
    \/ \E c \in Conn : Connected(c)
    \/ \E c \in Conn, ps \in SUBSET Kind : SupportedProblems(c, ps)
    \/ \E c \in Conn : UpdateProblems(c)
    \/ \E c \in Conn : Close(c)

Next == Locked \/ Unlocked \/ Restart

Spec == Init /\ [][Next]_vars

\* The operations that hold the lock go on and handler threads run.  A judge
\* answers what it was sent: strongly fair, because the answer waits in the
\* socket while the thread serves another packet or waits for the lock.
Fairness ==
    /\ \A j \in Conn : WF_vars(Sweep(j))
    /\ WF_vars(Finish)
    /\ \A c \in Conn : WF_vars(Connected(c)) /\ WF_vars(UpdateProblems(c))
    /\ \A c \in Conn : SF_vars(c \in closed /\ Remove(c))
    /\ \A c \in Conn, s \in Sub : SF_vars(OnJudgeFree(c, s))

FairSpec == Spec /\ Fairness

-----------------------------------------------------------------------------
(* Properties.  Without(E) says that none of the events E may happen; a        *)
(* property that needs it is one the code loses when one of them does.         *)

Without(E) == E \cap Env = {}

\* A submission has at most one node in the queue, whatever happens: judge()
\* is idempotent, also after a failed dispatch left the node where it was.
QueuedOnce ==
    \A m, n \in Nodes : NodeValue(m).id = NodeValue(n).id => m = n

\* No submission is at two judges at once, also when judges disconnect, the
\* bridge restarts, a dispatch fails early or two reach the same judge.
NoDoubleGrading ==
    Without(LateRaising) => \A c, d \in Conn : c # d => held[c] \cap held[d] = {}

\* The bookkeeping agrees: s has an entry for c exactly when c is working on s
\* and nothing else, and then it is not queued.  No entry is left behind, which
\* would make judge() ignore s for ever.
OneAtATime ==
    Without(Raising \cup {"stale_kick", "late_disable"}) =>
        \A c \in Conn, s \in Sub :
            /\ submission_map[s] = c <=> working[c] = s
            /\ s \in held[c] <=> working[c] = s
            /\ Queued(s) => submission_map[s] = None

\* The cached minimum is the minimum over the judges known and enabled.
MinTierCurrent ==
    Without(Raising \cup {"late_disable"}) =>
        min_tier = MinTier(judges, is_disabled)

\* A judge of the current tier is not idle while a new submission it could take
\* waits, nor -- when it is the only one -- while anything it could take waits.
WorkConserving ==
    Without(Raising \cup {"stale_kick", "late_disable", "enable"}) /\ holder = Idle =>
            \A c \in current_tier_judges, n \in Nodes :
                /\ working[c] = None
                /\ stage[c] # "kicking"
                /\ can_judge(c, KindOf[NodeValue(n).id], NodeValue(n).judge_id)
                => /\ n[1] >= REJUDGE_PRIORITY
                   /\ Without({"disable"}) => Cardinality(current_tier_judges) > 1

Handed(s, c) == s \notin held[c] /\ s \in held'[c]

\* A submission is handed to a judge before none that this judge could take and
\* that is ahead of it, whether it comes from the queue or goes straight to the
\* judge, unless both wait for the reserve to be lifted.
NoOvertaking ==
    [][Without(Raising \cup {"stale_kick", "late_disable", "enable"}) =>
          \A c \in Conn, k \in Nodes :
              LET waits == /\ k[1] < REJUDGE_PRIORITY
                           /\ can_judge(c, KindOf[NodeValue(k).id], NodeValue(k).judge_id)
              IN waits =>
                 /\ \A n \in Nodes : Before(k, n) => ~Handed(NodeValue(n).id, c)
                 /\ \A r \in Requests :
                      Judge(r) /\ k[1] <= r.priority => ~Handed(r.id, c)]_vars

\* A submission leaves the queue into the hands of a judge, by an abort of that
\* very submission, or with the process; a failed dispatch loses no node.
NoLoss ==
    [][\A s \in Sub : Queued(s) /\ ~Queued(s)' =>
          \/ \E c \in Conn : s \in held'[c]
          \/ Abort(s)
          \/ Restart]_vars

\* A step hands a rejudge to a judge and leaves none of the tier free, where the
\* tier had several judges: one that waited, or one that came and that each
\* judge of the tier could have taken (judge() counts those that can take it).
TakesTheLast(s) ==
    /\ Cardinality(current_tier_judges) > 1
    /\ \A d \in current_tier_judges : working'[d] # None
    /\ \E c \in Conn : Handed(s, c)
    /\ \/ \E n \in Nodes : n[1] >= REJUDGE_PRIORITY /\ NodeValue(n).id = s
       \/ \E r \in Requests :
            /\ r.id = s /\ r.priority >= REJUDGE_PRIORITY
            /\ Judge(r)
            /\ \A d \in current_tier_judges : can_judge(d, KindOf[s], r.judge_id)

\* When a tier has several judges, one of them stays free for new submissions:
\* no rejudge is handed to the last, whether it comes from the queue or from a
\* request.
KeepsAReserve == [][\A s \in Sub : ~TakesTheLast(s)]_vars

\* The comment in register(): "Disconnect all judges with the same name".
SameNameDisconnected ==
    [][\A c \in Conn, ps \in SUBSET Kind :
          Register(c, ps) => \A d \in judges : Name[d] = Name[c] => d \in closed']_vars

\* A contest submission that waits is handed to a judge or aborted, when one
\* judge of the current tier that can take it stays.
ContestServed ==
    \A s \in Sub, c \in Conn :
        <>[](c \in current_tier_judges /\ KindOf[s] \in problems[c]) =>
            []((\E n \in Nodes : n[1] = 0 /\ NodeValue(n) = [id |-> s, judge_id |-> None])
                => <>~Queued(s))
============================================================================
