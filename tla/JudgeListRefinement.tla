------------------------- MODULE JudgeListRefinement -------------------------
(***************************************************************************)
(* What TLAPS proves of JudgeListImplementsDispatch: as long as no         *)
(* dispatch raises and no thread acts on a stale check, every step of the  *)
(* dispatcher is a step of Dispatch or leaves every submission where it    *)
(* is.                                                                     *)
(***************************************************************************)
EXTENDS JudgeListProofs, JudgeListImplementsDispatch

-----------------------------------------------------------------------------
(* Where a submission is *)

\* Under the books that agree, a submission is at a judge exactly when the
\* judge works on it, and it waits exactly when it is queued.
LEMMA PlacesByTheBooks ==
    ASSUME BookInv, Calm, NEW s \in Sub
    PROVE  /\ place[s] = WhereIs(s)
           /\ place[s] = "waiting" <=> Queued(s)
           /\ place[s] = "out" <=> submission_map[s] = None /\ ~Queued(s)
           /\ \A c \in Conn : place[s] = c <=> working[c] = s
<1>1. submission_map[s] \in Conn \cup {None}
  BY CalmState DEF MapType
<1>2. \A c \in Conn : /\ submission_map[s] = c <=> working[c] = s
                      /\ Queued(s) => submission_map[s] = None
  BY CalmState DEF Exact
<1>3. /\ "out" \notin Conn /\ "waiting" \notin Conn /\ "out" # "waiting"
      /\ None \notin Conn
  BY PlacesAssumption, ConstantsAssumption
<1>4. place[s] = WhereIs(s)
  BY DEF place
<1>5. Queued(s) => submission_map[s] = None
  BY <1>1, <1>2
<1>6. CASE submission_map[s] = None
  BY <1>2, <1>3, <1>4, <1>6 DEF WhereIs
<1>7. CASE submission_map[s] # None
  BY <1>1, <1>2, <1>3, <1>4, <1>5, <1>7 DEF WhereIs
<1> QED
  BY <1>6, <1>7

\* A judge that works on nothing has nothing.
LEMMA FreeJudge ==
    ASSUME BookInv, Calm, NEW c \in Conn, working[c] = None
    PROVE  Abstract!Free(c)
<1> SUFFICES ASSUME NEW s \in Sub PROVE place[s] # c
  BY DEF Abstract!Free
<1> QED
  BY PlacesByTheBooks, ConstantsAssumption

\* The places after a step, from the two things they are read off.
LEMMA PlacesAfter ==
    ASSUME NEW p, p \in [Sub -> Conn \cup {"out", "waiting"}],
           \A s \in Sub : IF submission_map'[s] # None THEN p[s] = submission_map'[s]
                          ELSE IF Queued(s)' THEN p[s] = "waiting" ELSE p[s] = "out"
    PROVE  place' = p
<1>1. place' = [s \in Sub |-> WhereIs(s)']
  BY DEF place
<1>2. \A s \in Sub : WhereIs(s)' = p[s]
  BY DEF WhereIs
<1> QED
  BY <1>1, <1>2

LEMMA PlaceType ==
    ASSUME BookInv, Calm
    PROVE  place \in [Sub -> Conn \cup {"out", "waiting"}]
<1> SUFFICES ASSUME NEW s \in Sub PROVE WhereIs(s) \in Conn \cup {"out", "waiting"}
  BY DEF place
<1> QED
  BY CalmState DEF WhereIs, MapType

\* Most steps move nothing.
LEMMA NothingMoves ==
    ASSUME UNCHANGED <<queue, submission_map>>
    PROVE  place' = place
BY DEF place, WhereIs, Queued

-----------------------------------------------------------------------------
(* A free judge is handed a submission that waits *)

\* _handle_free_judge(c) hands out nothing, or something of the queue, which
\* then loses the node of that submission and no other.
LEMMA HandsFromQueue ==
    ASSUME Without(Raising), closed = {}, QueueType, QueuedOnce, NEW c \in Conn,
           NEW m, NEW w, NEW h, HandleFree(c, m, w, h)
    PROVE  \/ queue' = queue /\ submission_map' = m
           \/ \E t \in Sub : /\ Queued(t)
                             /\ submission_map' = [m EXCEPT ![t] = c]
                             /\ \A u : Queued(u)' <=> Queued(u) /\ u # t
<1>1. CASE ~Serves(c, w)
  BY <1>1 DEF HandleFree
<1>2. CASE Serves(c, w)
  <2>1. PICK n \in Eligible(c, w) :
            /\ Submit(c, NodeValue(n).id, "ok", m, w, h)
            /\ queue' = RemoveNode(n[1], n[2])
    BY <1>2, OutcomeOk DEF HandleFree
  <2>2. n \in Nodes
    BY DEF Eligible
  <2>3. \A u : Queued(u)' <=> Queued(u) /\ u # NodeValue(n).id
    BY <2>1, <2>2, RemoveNodeEffect
  <2>4. PICK p \in Priorities : \E i \in 1 .. Len(queue[p]) : n = <<p, i>>
    BY <2>2, NodesOfQueue
  <2>5. PICK i \in 1 .. Len(queue[p]) : n = <<p, i>>
    BY <2>4
  <2>6. NodeValue(n) = queue[p][i] /\ queue[p][i] \in Entry
    BY <2>5, NodesOfQueue
  <2>7. NodeValue(n).id \in Sub /\ Queued(NodeValue(n).id)
    BY <2>6 DEF Entry, Queued
  <2>8. submission_map' = [m EXCEPT ![NodeValue(n).id] = c]
    BY <2>1 DEF Submit
  <2> QED
    BY <2>3, <2>7, <2>8
<1> QED
  BY <1>1, <1>2

LEMMA ServingIsHand ==
    ASSUME BookInv, Calm, NEW c \in Conn, working[c] = None, HandleFreeNow(c)
    PROVE  place' = place \/ \E s \in Sub : Abstract!Hand(s, c)
<1>1. CASE queue' = queue /\ submission_map' = submission_map
  BY <1>1, NothingMoves
<1>2. CASE ~(queue' = queue /\ submission_map' = submission_map)
  <2>1. PICK t \in Sub : /\ Queued(t)
                         /\ submission_map' = [submission_map EXCEPT ![t] = c]
                         /\ \A u : Queued(u)' <=> Queued(u) /\ u # t
    BY <1>2, CalmState, HandsFromQueue DEF HandleFreeNow
  <2>2. place \in [Sub -> Conn \cup {"out", "waiting"}] /\ MapType(submission_map)
    BY PlaceType, CalmState
  <2>3. place' = [place EXCEPT ![t] = c]
    <3> DEFINE p == [place EXCEPT ![t] = c]
    <3>1. p \in [Sub -> Conn \cup {"out", "waiting"}]
      BY <2>2
    <3>2. ASSUME NEW s \in Sub
          PROVE  IF submission_map'[s] # None THEN p[s] = submission_map'[s]
                 ELSE IF Queued(s)' THEN p[s] = "waiting" ELSE p[s] = "out"
      <4>1. submission_map'[s] = IF s = t THEN c ELSE submission_map[s]
        BY <2>1, <2>2 DEF MapType
      <4>2. p[s] = IF s = t THEN c ELSE WhereIs(s)
        BY <2>2, PlacesByTheBooks
      <4>3. c # None
        BY ConstantsAssumption
      <4> HIDE DEF p
      <4> QED
        BY <2>1, <4>1, <4>2, <4>3 DEF WhereIs
    <3> HIDE DEF p
    <3>3. place' = p
      BY <3>1, <3>2, PlacesAfter
    <3> QED
      BY <3>3 DEF p
  <2>4. place[t] = "waiting" /\ Abstract!Free(c)
    BY <2>1, PlacesByTheBooks, FreeJudge
  <2>5. Abstract!Hand(t, c)
    BY <2>3, <2>4 DEF Abstract!Hand
  <2> QED
    BY <2>5
<1> QED
  BY <1>1, <1>2

\* A judge that answers is free, and may be handed one that waits in the same
\* step.
LEMMA OnJudgeFreeIsAnswer ==
    ASSUME BookInv, Calm, NEW c \in Conn, NEW s \in Sub, OnJudgeFree(c, s)
    PROVE  Abstract!Answer(s, c)
<1> DEFINE m == [submission_map EXCEPT ![s] = None]
           w == [working EXCEPT ![c] = None]
           h == [held EXCEPT ![c] = @ \ {s}]
<1>1. /\ QueueType /\ QueuedOnce /\ MapType(submission_map)
      /\ closed = {} /\ Without(Raising)
      /\ place \in [Sub -> Conn \cup {"out", "waiting"}]
  BY CalmState, PlaceType
<1>2. working[c] = s /\ submission_map[s] = c /\ c # None /\ ~Queued(s)
  BY CalmState, ConstantsAssumption DEF OnJudgeFree, Exact
<1>3. place[s] = c
  BY <1>2, PlacesByTheBooks
<1>4. \A u \in Sub : m[u] = IF u = s THEN None ELSE submission_map[u]
  BY <1>1 DEF MapType
<1>5. HandleFree(c, m, w, h)
  BY <1>2 DEF OnJudgeFree
<1>6. m \in [Sub -> Conn \cup {None}]
  BY <1>1 DEF MapType
<1> HIDE DEF m, w, h
<1>7. CASE queue' = queue /\ submission_map' = m
  <2> DEFINE p == [place EXCEPT ![s] = "out"]
  <2>1. p \in [Sub -> Conn \cup {"out", "waiting"}]
    BY <1>1
  <2>2. ASSUME NEW u \in Sub
        PROVE  IF submission_map'[u] # None THEN p[u] = submission_map'[u]
               ELSE IF Queued(u)' THEN p[u] = "waiting" ELSE p[u] = "out"
    <3>1. p[u] = IF u = s THEN "out" ELSE WhereIs(u)
      BY <1>1, PlacesByTheBooks
    <3>2. Queued(u)' <=> Queued(u)
      BY <1>7, SameQueue
    <3> HIDE DEF p
    <3> QED
      BY <1>2, <1>4, <1>7, <3>1, <3>2 DEF WhereIs
  <2> HIDE DEF p
  <2>3. place' = p
    BY <2>1, <2>2, PlacesAfter
  <2> QED
    BY <1>3, <2>3 DEF p, Abstract!Answer
<1>8. CASE ~(queue' = queue /\ submission_map' = m)
  <2>1. PICK t \in Sub : /\ Queued(t)
                         /\ submission_map' = [m EXCEPT ![t] = c]
                         /\ \A u : Queued(u)' <=> Queued(u) /\ u # t
    BY <1>1, <1>5, <1>8, HandsFromQueue
  <2> DEFINE p == [place EXCEPT ![s] = "out", ![t] = c]
  <2>2. p \in [Sub -> Conn \cup {"out", "waiting"}]
    BY <1>1
  <2>3. ASSUME NEW u \in Sub
        PROVE  IF submission_map'[u] # None THEN p[u] = submission_map'[u]
               ELSE IF Queued(u)' THEN p[u] = "waiting" ELSE p[u] = "out"
    <3>1. p[u] = IF u = t THEN c ELSE IF u = s THEN "out" ELSE WhereIs(u)
      BY <1>1, PlacesByTheBooks
    <3>2. submission_map'[u] = IF u = t THEN c ELSE m[u]
      BY <1>6, <2>1
    <3> HIDE DEF p
    <3> QED
      BY <1>2, <1>4, <2>1, <3>1, <3>2 DEF WhereIs
  <2> HIDE DEF p
  <2>4. place' = p
    BY <2>2, <2>3, PlacesAfter
  <2>5. place[t] = "waiting"
    BY <2>1, PlacesByTheBooks
  <2> QED
    BY <1>3, <2>4, <2>5 DEF p, Abstract!Answer
<1> QED
  BY <1>7, <1>8

-----------------------------------------------------------------------------
(* The operations *)

\* What a judge that leaves was working on is asked for again by nobody but the
\* site: for the dispatcher it is out.
LEMMA RemoveIsAnswer ==
    ASSUME BookInv, Calm, NEW c \in Conn, Remove(c)
    PROVE  place' = place \/ \E s \in Sub : Abstract!Answer(s, c)
<1>1. /\ MapType(submission_map) /\ WorkingType(working)
      /\ place \in [Sub -> Conn \cup {"out", "waiting"}]
  BY CalmState, PlaceType
<1>2. CASE working[c] = None
  BY <1>2, NothingMoves DEF Remove
<1>3. CASE working[c] # None
  <2> DEFINE s == working[c]
             p == [place EXCEPT ![s] = "out"]
  <2>1. s \in Sub /\ submission_map' = [submission_map EXCEPT ![s] = None]
    BY <1>1, <1>3 DEF Remove, WorkingType
  <2>2. place[s] = c /\ ~Queued(s)
    BY <2>1, PlacesByTheBooks, CalmState, ConstantsAssumption DEF Exact
  <2>3. p \in [Sub -> Conn \cup {"out", "waiting"}]
    BY <1>1
  <2> HIDE DEF s
  <2>4. ASSUME NEW u \in Sub
        PROVE  IF submission_map'[u] # None THEN p[u] = submission_map'[u]
               ELSE IF Queued(u)' THEN p[u] = "waiting" ELSE p[u] = "out"
    <3>1. p[u] = IF u = s THEN "out" ELSE WhereIs(u)
      BY <1>1, PlacesByTheBooks
    <3>2. submission_map'[u] = IF u = s THEN None ELSE submission_map[u]
      BY <1>1, <2>1 DEF MapType
    <3>3. Queued(u)' <=> Queued(u)
      BY SameQueue DEF Remove
    <3> HIDE DEF p
    <3> QED
      BY <2>2, <3>1, <3>2, <3>3 DEF WhereIs
  <2> HIDE DEF p
  <2>5. place' = p
    BY <2>3, <2>4, PlacesAfter
  <2> QED
    BY <2>1, <2>2, <2>5 DEF p, Abstract!Answer
<1> QED
  BY <1>2, <1>3

LEMMA AbortIsWithdraw ==
    ASSUME BookInv, Calm, NEW s \in Sub, Abort(s)
    PROVE  Abstract!Withdraw(s)
<1> DEFINE p == [place EXCEPT ![s] = "out"]
<1>1. /\ QueueType /\ QueuedOnce
      /\ place \in [Sub -> Conn \cup {"out", "waiting"}]
  BY CalmState, PlaceType
<1>2. PICK n \in Nodes : NodeValue(n).id = s /\ queue' = RemoveNode(n[1], n[2])
  BY DEF Abort
<1>3. \A u : Queued(u)' <=> Queued(u) /\ u # s
  BY <1>1, <1>2, RemoveNodeEffect
<1>4. Queued(s)
  <2>1. PICK q \in Priorities : \E i \in 1 .. Len(queue[q]) : n = <<q, i>>
    BY <1>1, NodesOfQueue
  <2>2. PICK i \in 1 .. Len(queue[q]) : n = <<q, i>>
    BY <2>1
  <2> QED
    BY <1>1, <1>2, <2>2, NodesOfQueue DEF Queued
<1>5. p \in [Sub -> Conn \cup {"out", "waiting"}]
  BY <1>1
<1>6. ASSUME NEW u \in Sub
      PROVE  IF submission_map'[u] # None THEN p[u] = submission_map'[u]
             ELSE IF Queued(u)' THEN p[u] = "waiting" ELSE p[u] = "out"
  <2>1. p[u] = IF u = s THEN "out" ELSE WhereIs(u)
    BY <1>1, PlacesByTheBooks
  <2>2. submission_map' = submission_map /\ submission_map[s] = None
    BY DEF Abort
  <2> HIDE DEF p
  <2> QED
    BY <1>3, <2>1, <2>2 DEF WhereIs
<1> HIDE DEF p
<1>7. place' = p
  BY <1>5, <1>6, PlacesAfter
<1>8. place[s] = "waiting"
  BY <1>4, PlacesByTheBooks
<1> QED
  BY <1>7, <1>8 DEF p, Abstract!Withdraw

\* judge() gives a submission that is out to a free judge, or lets it wait.
LEMMA JudgeIsAsk ==
    ASSUME BookInv, Calm, NEW r \in Requests, Judge(r)
    PROVE  r.id \in Sub /\ Abstract!Ask(r.id)
<1>1. /\ QueueType /\ QueuedOnce /\ MapType(submission_map)
      /\ closed = {} /\ Without(Raising) /\ judges \subseteq Conn
      /\ place \in [Sub -> Conn \cup {"out", "waiting"}]
  BY CalmState, PlaceType
<1>2. /\ r.id \in Sub /\ r.priority \in Priorities
      /\ [id |-> r.id, judge_id |-> r.judge_id] \in Entry
  BY ConstantsAssumption DEF Request, Entry
<1>3. submission_map[r.id] = None /\ ~Queued(r.id)
  BY DEF Judge
<1>4. place[r.id] = "out"
  BY <1>2, <1>3, PlacesByTheBooks
<1>5. \/ /\ \E j \in judges : /\ working[j] = None
                              /\ \E outcome \in Outcome(j) :
                                   Submit(j, r.id, outcome, submission_map, working, held)
         /\ queue' = queue
      \/ /\ queue' = [queue EXCEPT ![r.priority] =
                         Append(@, [id |-> r.id, judge_id |-> r.judge_id])]
         /\ UNCHANGED <<submission_map, judges, working, held>>
  <2>1. current_tier_judges \subseteq judges
    BY DEF current_tier_judges, TierJudges
  <2> QED
    BY <2>1 DEF Judge
<1>6. ASSUME NEW where \in {"waiting"} \cup Conn,
             \A u \in Sub : submission_map'[u] =
                 IF u = r.id /\ where # "waiting" THEN where ELSE submission_map[u],
             \A u \in Sub : Queued(u)' <=> Queued(u) \/ (u = r.id /\ where = "waiting")
      PROVE  place' = [place EXCEPT ![r.id] = where]
  <2> DEFINE p == [place EXCEPT ![r.id] = where]
  <2>1. p \in [Sub -> Conn \cup {"out", "waiting"}]
    BY <1>1
  <2>2. ASSUME NEW u \in Sub
        PROVE  IF submission_map'[u] # None THEN p[u] = submission_map'[u]
               ELSE IF Queued(u)' THEN p[u] = "waiting" ELSE p[u] = "out"
    <3>1. p[u] = IF u = r.id THEN where ELSE WhereIs(u)
      BY <1>1, PlacesByTheBooks
    <3>2. None \notin Conn
      BY ConstantsAssumption
    <3> HIDE DEF p
    <3> QED
      BY <1>3, <1>6, <3>1, <3>2 DEF WhereIs
  <2> HIDE DEF p
  <2>3. place' = p
    BY <2>1, <2>2, PlacesAfter
  <2> QED
    BY <2>3 DEF p
<1>7. CASE /\ \E j \in judges : /\ working[j] = None
                                /\ \E outcome \in Outcome(j) :
                                     Submit(j, r.id, outcome, submission_map, working, held)
           /\ queue' = queue
  <2>1. PICK j \in judges : /\ working[j] = None
                            /\ \E outcome \in Outcome(j) :
                                 Submit(j, r.id, outcome, submission_map, working, held)
    BY <1>7
  <2>2. j \in Conn /\ j # "waiting"
    BY <1>1, PlacesAssumption
  <2>3. submission_map' = [submission_map EXCEPT ![r.id] = j]
    BY <2>1 DEF Submit
  <2>4. \A u \in Sub : submission_map'[u] = IF u = r.id THEN j ELSE submission_map[u]
    BY <1>1, <2>3 DEF MapType
  <2>5. \A u \in Sub : Queued(u)' <=> Queued(u)
    BY <1>7, SameQueue
  <2>6. place' = [place EXCEPT ![r.id] = j]
    BY <1>6, <2>2, <2>4, <2>5
  <2>7. Abstract!Free(j)
    BY <2>1, <2>2, FreeJudge
  <2> QED
    BY <1>2, <1>4, <2>2, <2>6, <2>7 DEF Abstract!Ask
<1>8. CASE /\ queue' = [queue EXCEPT ![r.priority] =
                           Append(@, [id |-> r.id, judge_id |-> r.judge_id])]
           /\ UNCHANGED <<submission_map, judges, working, held>>
  <2> DEFINE e == [id |-> r.id, judge_id |-> r.judge_id]
  <2>1. e \in Entry /\ e.id = r.id /\ queue' = [queue EXCEPT ![r.priority] = Append(@, e)]
    BY <1>2, <1>8
  <2> HIDE DEF e
  <2>2. \A u : Queued(u)' <=> Queued(u) \/ u = r.id
    BY <1>1, <1>2, <1>3, <2>1, AppendNodeEffect
  <2>3. place' = [place EXCEPT ![r.id] = "waiting"]
    BY <1>6, <1>8, <2>2
  <2> QED
    BY <1>2, <1>4, <2>3 DEF Abstract!Ask
<1> QED
  BY <1>5, <1>7, <1>8

\* One turn of the loop of _update_min_tier, and what follows the loop, serve a
\* judge that is free.
LEMMA SweepIsHand ==
    ASSUME BookInv, Calm, NEW j \in Conn, Sweep(j)
    PROVE  place' = place \/ \E s \in Sub : Abstract!Hand(s, j)
<1>1. CASE working[j] = None
  BY <1>1, ServingIsHand DEF Sweep
<1>2. CASE working[j] # None
  BY <1>2, NothingMoves DEF Sweep
<1> QED
  BY <1>1, <1>2

LEMMA FinishIsHand ==
    ASSUME BookInv, Calm, Finish
    PROVE  place' = place \/ \E s \in Sub, c \in Conn : Abstract!Hand(s, c)
<1>1. CASE UNCHANGED <<queue, submission_map>>
  BY <1>1, NothingMoves
<1>2. CASE ~UNCHANGED <<queue, submission_map>>
  <2>1. PICK j \in Conn : /\ HandleFreeNow(j)
                          /\ \/ holder.op = "register" /\ j = holder.conn
                             \/ working[j] = None
    BY <1>2 DEF Finish
  <2>2. working[j] = None
    BY <2>1, CalmState DEF Threads
  <2> QED
    BY <2>1, <2>2, ServingIsHand
<1> QED
  BY <1>1, <1>2

LEMMA RestartIsForget ==
    ASSUME Restart
    PROVE  Abstract!Forget
<1>1. \A s \in Sub : ~Queued(s)'
  BY DEF Restart, Queued
<1>2. \A s \in Sub : submission_map'[s] = None
  BY DEF Restart
<1>3. \A s \in Sub : WhereIs(s)' = "out"
  BY <1>1, <1>2 DEF WhereIs
<1> QED
  BY <1>3 DEF Abstract!Forget, place

LEMMA StepsAreSteps ==
    ASSUME Calm
    PROVE  BookInv /\ [Next]_vars => [Abstract!DispatchNext]_place
<1> SUFFICES ASSUME BookInv, [Next]_vars, place' # place PROVE Abstract!DispatchNext
  OBVIOUS
<1>0. ~UNCHANGED <<queue, submission_map>>
  BY NothingMoves
<1>1. ASSUME Locked PROVE Abstract!DispatchNext
  <2>1. ASSUME NEW c \in Conn, NEW ps \in SUBSET Kind, Register(c, ps) PROVE FALSE
    BY <1>0, <2>1 DEF Register
  <2>2. ASSUME NEW c \in Conn, Remove(c) PROVE Abstract!DispatchNext
    BY <2>2, RemoveIsAnswer DEF Abstract!DispatchNext
  <2>3. ASSUME NEW n \in JudgeName, Disconnect(n) PROVE FALSE
    BY <1>0, <2>3 DEF Disconnect
  <2>4. ASSUME RemoveStranger PROVE FALSE
    BY <1>0, <2>4 DEF RemoveStranger
  <2>5. ASSUME NEW n \in JudgeName, NEW b \in BOOLEAN, UpdateDisable(n, b) PROVE FALSE
    BY <1>0, <2>5 DEF UpdateDisable
  <2>6. ASSUME NEW j \in Conn, Sweep(j) PROVE Abstract!DispatchNext
    BY <2>6, SweepIsHand DEF Abstract!DispatchNext
  <2>7. ASSUME Finish PROVE Abstract!DispatchNext
    BY <2>7, FinishIsHand DEF Abstract!DispatchNext
  <2>8. ASSUME NEW c \in Conn, NEW s \in Sub, OnJudgeFree(c, s) PROVE Abstract!DispatchNext
    BY <2>8, OnJudgeFreeIsAnswer DEF Abstract!DispatchNext
  <2>9. ASSUME NEW s \in Sub, Abort(s) PROVE Abstract!DispatchNext
    BY <2>9, AbortIsWithdraw DEF Abstract!DispatchNext
  <2>10. ASSUME NEW r \in Requests, Judge(r) PROVE Abstract!DispatchNext
    BY <2>10, JudgeIsAsk DEF Abstract!DispatchNext
  <2> QED
    BY <1>1, <2>1, <2>2, <2>3, <2>4, <2>5, <2>6, <2>7, <2>8, <2>9, <2>10, Zenon DEF Locked
<1>2. ASSUME Unlocked PROVE Abstract!DispatchNext
  <2>1. PICK c \in Conn : UpdateProblems(c)
    BY <1>0, <1>2 DEF Unlocked, Connected, SupportedProblems, Close
  <2>2. working[c] = None /\ HandleFreeNow(c)
    BY <2>1, CalmState DEF UpdateProblems, Threads
  <2> QED
    BY <2>2, ServingIsHand DEF Abstract!DispatchNext
<1>3. ASSUME Restart PROVE Abstract!DispatchNext
  BY <1>3, RestartIsForget DEF Abstract!DispatchNext
<1> QED
  BY <1>0, <1>1, <1>2, <1>3 DEF Next, vars

LEMMA StartsOut == Init => Abstract!DispatchInit
<1> SUFFICES ASSUME Init PROVE Abstract!DispatchInit
  OBVIOUS
<1>1. \A s \in Sub : submission_map[s] = None /\ ~Queued(s)
  BY DEF Init, Queued
<1> QED
  BY <1>1 DEF Abstract!DispatchInit, place, WhereIs

\* The dispatcher keeps the promise of Dispatch, for any number of judges,
\* tiers, submissions and requests, and with judges that leave, are disabled
\* and enabled and a bridge that restarts: a submission goes only from the site
\* to the queue or a free judge, from the queue to a free judge, and back to
\* the site when its judge answers or leaves.  (Calm excludes what the books do
\* not survive: a dispatch that raises, a stale check, a late flag.)
THEOREM Refinement ==
    ASSUME Calm
    PROVE  Spec => ImplementsDispatch
<1>1. Spec => []BookInv
  BY InitBookInv, NextKeepsBookInv, PTL DEF Spec
<1>2. Init => Abstract!DispatchInit
  BY StartsOut
<1>3. BookInv /\ [Next]_vars => [Abstract!DispatchNext]_place
  BY StepsAreSteps
<1> QED
  BY <1>1, <1>2, <1>3, PTL DEF Spec, ImplementsDispatch, Abstract!DispatchSpec
=============================================================================
