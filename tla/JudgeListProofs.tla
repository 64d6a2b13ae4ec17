--------------------------- MODULE JudgeListProofs ---------------------------
(***************************************************************************)
(* What TLAPS proves of JudgeList for every set of judges, submissions and *)
(* requests.                                                               *)
(*                                                                         *)
(* First for every Env; then, where no dispatch raises: the cached minimum *)
(* tier is current; _working, submission_map, the queue and the judges     *)
(* agree on who has what; no judge is idle beside what it could do; no     *)
(* submission is overtaken -- and, whatever happens again, that a tier of  *)
(* several judges keeps one in reserve.                                    *)
(***************************************************************************)
EXTENDS JudgeList, SequenceTheorems, FiniteSetTheorems, TLAPS

-----------------------------------------------------------------------------
(* Sequences without one entry *)

\* dllist.remove(node): every entry but the i-th, in the same order.
LEMMA WithoutEntry ==
    ASSUME NEW S, NEW s \in Seq(S), NEW i \in 1 .. Len(s)
    PROVE  LET t == SubSeq(s, 1, i - 1) \o SubSeq(s, i + 1, Len(s))
           IN /\ t \in Seq(S)
              /\ Len(t) = Len(s) - 1
              /\ \A k \in 1 .. Len(s) - 1 : t[k] = s[IF k < i THEN k ELSE k + 1]
<1> DEFINE a == SubSeq(s, 1, i - 1)
           b == SubSeq(s, i + 1, Len(s))
<1>1. /\ Len(s) \in Nat
      /\ \A k \in 1 .. Len(s) : s[k] \in S
  BY LenProperties, ElementOfSeq
<1>2. /\ a \in Seq(S)
      /\ Len(a) = i - 1
      /\ \A k \in 1 .. i - 1 : a[k] = s[k]
  <2>1. \A k \in 1 .. i - 1 : s[k] \in S
    BY <1>1
  <2>2. 1 \in Int /\ i - 1 \in Int
    BY <1>1
  <2>3. /\ a \in Seq(S)
        /\ Len(a) = IF 1 <= i - 1 THEN i - 1 - 1 + 1 ELSE 0
        /\ \A k \in 1 .. i - 1 - 1 + 1 : a[k] = s[1 + k - 1]
    BY <2>1, <2>2, SubSeqProperties
  <2> HIDE DEF a
  <2> QED
    BY <1>1, <2>3
<1>3. /\ b \in Seq(S)
      /\ Len(b) = Len(s) - i
      /\ \A k \in 1 .. Len(s) - i : b[k] = s[k + i]
  <2>1. \A k \in i + 1 .. Len(s) : s[k] \in S
    BY <1>1
  <2>2. i + 1 \in Int /\ Len(s) \in Int
    BY <1>1
  <2>3. /\ b \in Seq(S)
        /\ Len(b) = IF i + 1 <= Len(s) THEN Len(s) - (i + 1) + 1 ELSE 0
        /\ \A k \in 1 .. Len(s) - (i + 1) + 1 : b[k] = s[i + 1 + k - 1]
    BY <2>1, <2>2, SubSeqProperties
  <2> HIDE DEF b
  <2> QED
    BY <1>1, <2>3
<1> HIDE DEF a, b
<1>4. /\ a \o b \in Seq(S)
      /\ Len(a \o b) = Len(a) + Len(b)
      /\ \A k \in 1 .. Len(a) + Len(b) :
            (a \o b)[k] = IF k <= Len(a) THEN a[k] ELSE b[k - Len(a)]
  BY <1>2, <1>3, ConcatProperties
<1>5. \A k \in 1 .. Len(s) - 1 : (a \o b)[k] = s[IF k < i THEN k ELSE k + 1]
  BY <1>1, <1>2, <1>3, <1>4
<1>6. a \o b \in Seq(S) /\ Len(a \o b) = Len(s) - 1
  BY <1>1, <1>2, <1>3, <1>4
<1> QED
  BY <1>5, <1>6, Zenon DEF a, b

-----------------------------------------------------------------------------
(* The queue *)

QueueType == queue \in [Priorities -> Seq(Entry)]

\* QueuedOnce without pairs.
OneNodePerId(q) ==
    \A p, r \in Priorities : \A i \in 1 .. Len(q[p]), k \in 1 .. Len(q[r]) :
        q[p][i].id = q[r][k].id => p = r /\ i = k

LEMMA NodesOfQueue ==
    ASSUME QueueType
    PROVE  /\ \A n \in Nodes : \E p \in Priorities : \E i \in 1 .. Len(queue[p]) : n = <<p, i>>
           /\ \A p \in Priorities : \A i \in 1 .. Len(queue[p]) :
                /\ <<p, i>> \in Nodes
                /\ NodeValue(<<p, i>>) = queue[p][i]
                /\ queue[p][i] \in Entry
<1>1. \A p \in Priorities : /\ DOMAIN queue[p] = 1 .. Len(queue[p])
                            /\ \A i \in 1 .. Len(queue[p]) : queue[p][i] \in Entry
  BY LenProperties, ElementOfSeq DEF QueueType
<1> QED
  BY <1>1 DEF Nodes, NodeValue

LEMMA QueuedOnceIsOneNodePerId == QueueType => (QueuedOnce <=> OneNodePerId(queue))
<1> SUFFICES ASSUME QueueType PROVE QueuedOnce <=> OneNodePerId(queue)
  OBVIOUS
<1>1. ASSUME QueuedOnce PROVE OneNodePerId(queue)
  <2> SUFFICES ASSUME NEW p \in Priorities, NEW r \in Priorities,
                      NEW i \in 1 .. Len(queue[p]), NEW k \in 1 .. Len(queue[r]),
                      queue[p][i].id = queue[r][k].id
               PROVE  p = r /\ i = k
    BY DEF OneNodePerId
  <2>1. /\ <<p, i>> \in Nodes /\ NodeValue(<<p, i>>) = queue[p][i]
        /\ <<r, k>> \in Nodes /\ NodeValue(<<r, k>>) = queue[r][k]
    BY NodesOfQueue
  <2>2. <<p, i>> = <<r, k>>
    BY <1>1, <2>1 DEF QueuedOnce
  <2> QED
    BY <2>2
<1>2. ASSUME OneNodePerId(queue) PROVE QueuedOnce
  BY <1>2, NodesOfQueue DEF QueuedOnce, OneNodePerId
<1> QED
  BY <1>1, <1>2

\* A node taken out of the queue: what is left, and that only its submission
\* is no longer queued.
LEMMA RemoveNodeEffect ==
    ASSUME QueueType, QueuedOnce, NEW n \in Nodes, queue' = RemoveNode(n[1], n[2])
    PROVE  /\ QueueType'
           /\ QueuedOnce'
           /\ \A s : Queued(s)' <=> Queued(s) /\ s # NodeValue(n).id
<1> PICK p \in Priorities : \E i \in 1 .. Len(queue[p]) : n = <<p, i>>
  BY NodesOfQueue
<1> PICK i \in 1 .. Len(queue[p]) : n = <<p, i>>
  OBVIOUS
<1>0. n[1] = p /\ n[2] = i /\ NodeValue(n) = queue[p][i]
  BY NodesOfQueue
<1> DEFINE old(r, k) == IF r = p /\ k >= i THEN k + 1 ELSE k
<1>1. \A r \in Priorities : queue[r] \in Seq(Entry) /\ Len(queue[r]) \in Nat
  BY LenProperties DEF QueueType
<1>2. /\ queue' \in [Priorities -> Seq(Entry)]
      /\ \A r \in Priorities : Len(queue'[r]) = IF r = p THEN Len(queue[p]) - 1 ELSE Len(queue[r])
      /\ \A r \in Priorities : \A k \in 1 .. Len(queue'[r]) : queue'[r][k] = queue[r][old(r, k)]
  <2> DEFINE t == SubSeq(queue[p], 1, i - 1) \o SubSeq(queue[p], i + 1, Len(queue[p]))
  <2>1. queue' = [queue EXCEPT ![p] = t]
    BY <1>0 DEF RemoveNode
  <2>2. /\ t \in Seq(Entry)
        /\ Len(t) = Len(queue[p]) - 1
        /\ \A k \in 1 .. Len(queue[p]) - 1 : t[k] = queue[p][IF k < i THEN k ELSE k + 1]
    BY <1>1, WithoutEntry
  <2> HIDE DEF t
  <2>3. queue' \in [Priorities -> Seq(Entry)]
    BY <2>1, <2>2 DEF QueueType
  <2>4. \A r \in Priorities : queue'[r] = IF r = p THEN t ELSE queue[r]
    BY <2>1 DEF QueueType
  <2>5. \A k \in 1 .. Len(queue[p]) - 1 : t[k] = queue[p][old(p, k)]
    BY <1>1, <2>2
  <2>6. \A r \in Priorities \ {p} : \A k : old(r, k) = k
    OBVIOUS
  <2> HIDE DEF old
  <2>7. \A r \in Priorities : Len(queue'[r]) = IF r = p THEN Len(queue[p]) - 1 ELSE Len(queue[r])
    BY <2>2, <2>4
  <2>8. ASSUME NEW r \in Priorities, NEW k \in 1 .. Len(queue'[r])
        PROVE  queue'[r][k] = queue[r][old(r, k)]
    <3>1. CASE r = p
      BY <2>4, <2>5, <2>7, <3>1
    <3>2. CASE r # p
      BY <2>4, <2>6, <3>2
    <3> QED
      BY <3>1, <3>2
  <2> QED
    BY <2>3, <2>7, <2>8
<1>3. \A r \in Priorities : \A k \in 1 .. Len(queue'[r]) :
        old(r, k) \in 1 .. Len(queue[r]) /\ ~(r = p /\ old(r, k) = i)
  BY <1>1, <1>2
<1>4. \A r \in Priorities : \A k, l \in 1 .. Len(queue'[r]) : old(r, k) = old(r, l) => k = l
  BY <1>1, <1>2
<1>5. \A r \in Priorities : \A j \in 1 .. Len(queue[r]) : ~(r = p /\ j = i) =>
        \E k \in 1 .. Len(queue'[r]) : old(r, k) = j
  <2> SUFFICES ASSUME NEW r \in Priorities, NEW j \in 1 .. Len(queue[r]), ~(r = p /\ j = i)
               PROVE  \E k \in 1 .. Len(queue'[r]) : old(r, k) = j
    OBVIOUS
  <2>1. CASE r = p /\ j > i
    <3>1. j - 1 \in 1 .. Len(queue'[r]) /\ old(r, j - 1) = j
      BY <1>1, <1>2, <2>1
    <3> QED
      BY <3>1
  <2>2. CASE ~(r = p /\ j > i)
    <3>1. j \in 1 .. Len(queue'[r]) /\ old(r, j) = j
      BY <1>1, <1>2, <2>2
    <3> QED
      BY <3>1
  <2> QED
    BY <2>1, <2>2
<1> HIDE DEF old
<1>6. OneNodePerId(queue)
  BY QueuedOnceIsOneNodePerId
<1>7. QueueType'
  BY <1>2 DEF QueueType
<1>8. OneNodePerId(queue')
  <2> SUFFICES ASSUME NEW r \in Priorities, NEW u \in Priorities,
                      NEW k \in 1 .. Len(queue'[r]), NEW l \in 1 .. Len(queue'[u]),
                      queue'[r][k].id = queue'[u][l].id
               PROVE  r = u /\ k = l
    BY DEF OneNodePerId
  <2>1. queue[r][old(r, k)].id = queue[u][old(u, l)].id
    BY <1>2
  <2>2. old(r, k) \in 1 .. Len(queue[r]) /\ old(u, l) \in 1 .. Len(queue[u])
    BY <1>3
  <2>3. r = u /\ old(r, k) = old(u, l)
    BY <1>6, <2>1, <2>2 DEF OneNodePerId
  <2> QED
    BY <1>4, <2>3
<1>9. QueuedOnce'
  <2>1. (QueueType => (QueuedOnce <=> OneNodePerId(queue)))'
    BY QueuedOnceIsOneNodePerId, PTL
  <2> QED
    BY <1>7, <1>8, <2>1
<1>10. ASSUME NEW s PROVE Queued(s)' <=> Queued(s) /\ s # NodeValue(n).id
  <2>1. ASSUME Queued(s)' PROVE Queued(s) /\ s # NodeValue(n).id
    <3>0. PICK r \in Priorities : \E k \in 1 .. Len(queue'[r]) : queue'[r][k].id = s
      BY <2>1 DEF Queued
    <3>1. PICK k \in 1 .. Len(queue'[r]) : queue'[r][k].id = s
      BY <3>0
    <3>2. queue[r][old(r, k)].id = s
      BY <1>2, <3>1
    <3>3. old(r, k) \in 1 .. Len(queue[r]) /\ ~(r = p /\ old(r, k) = i)
      BY <1>3
    <3>4. s # queue[p][i].id
      BY <1>6, <3>2, <3>3 DEF OneNodePerId
    <3> QED
      BY <1>0, <3>2, <3>3, <3>4 DEF Queued
  <2>2. ASSUME Queued(s), s # NodeValue(n).id PROVE Queued(s)'
    <3>0. PICK r \in Priorities : \E j \in 1 .. Len(queue[r]) : queue[r][j].id = s
      BY <2>2 DEF Queued
    <3>1. PICK j \in 1 .. Len(queue[r]) : queue[r][j].id = s
      BY <3>0
    <3>2. ~(r = p /\ j = i)
      BY <1>0, <2>2, <3>1
    <3>3. PICK k \in 1 .. Len(queue'[r]) : old(r, k) = j
      BY <1>5, <3>2
    <3>4. queue'[r][k].id = s
      BY <1>2, <3>1, <3>3
    <3> QED
      BY <3>4 DEF Queued
  <2> QED
    BY <2>1, <2>2
<1> QED
  BY <1>7, <1>9, <1>10

\* A node put at the end of a priority, for a submission that is not queued.
LEMMA AppendNodeEffect ==
    ASSUME QueueType, QueuedOnce, NEW p \in Priorities, NEW e \in Entry, ~Queued(e.id),
           queue' = [queue EXCEPT ![p] = Append(@, e)]
    PROVE  /\ QueueType'
           /\ QueuedOnce'
           /\ \A s : Queued(s)' <=> Queued(s) \/ s = e.id
<1>1. \A r \in Priorities : queue[r] \in Seq(Entry) /\ Len(queue[r]) \in Nat
  BY LenProperties DEF QueueType
<1>2. /\ Append(queue[p], e) \in Seq(Entry)
      /\ Len(Append(queue[p], e)) = Len(queue[p]) + 1
      /\ \A i \in 1 .. Len(queue[p]) : Append(queue[p], e)[i] = queue[p][i]
      /\ Append(queue[p], e)[Len(queue[p]) + 1] = e
  BY <1>1, AppendProperties
<1>3. /\ queue' \in [Priorities -> Seq(Entry)]
      /\ queue'[p] = Append(queue[p], e)
      /\ \A r \in Priorities \ {p} : queue'[r] = queue[r]
  BY <1>2 DEF QueueType
<1>4. ASSUME NEW r \in Priorities, NEW k \in 1 .. Len(queue'[r])
      PROVE  \/ r = p /\ k = Len(queue[p]) + 1 /\ queue'[r][k] = e
             \/ k \in 1 .. Len(queue[r]) /\ queue'[r][k] = queue[r][k]
  <2>1. CASE r = p
    BY <1>1, <1>2, <1>3, <2>1
  <2>2. CASE r # p
    BY <1>3, <2>2
  <2> QED
    BY <2>1, <2>2
<1>5. ASSUME NEW r \in Priorities, NEW k \in 1 .. Len(queue[r])
      PROVE  k \in 1 .. Len(queue'[r]) /\ queue'[r][k] = queue[r][k]
  <2>1. CASE r = p
    BY <1>1, <1>2, <1>3, <2>1
  <2>2. CASE r # p
    BY <1>3, <2>2
  <2> QED
    BY <2>1, <2>2
<1>6. Len(queue[p]) + 1 \in 1 .. Len(queue'[p]) /\ queue'[p][Len(queue[p]) + 1] = e
  BY <1>1, <1>2, <1>3
<1>7. OneNodePerId(queue)
  BY QueuedOnceIsOneNodePerId
<1>8. QueueType'
  BY <1>3 DEF QueueType
<1>9. OneNodePerId(queue')
  <2> SUFFICES ASSUME NEW r \in Priorities, NEW u \in Priorities,
                      NEW k \in 1 .. Len(queue'[r]), NEW l \in 1 .. Len(queue'[u]),
                      queue'[r][k].id = queue'[u][l].id
               PROVE  r = u /\ k = l
    BY DEF OneNodePerId
  <2>1. CASE k \in 1 .. Len(queue[r]) /\ l \in 1 .. Len(queue[u])
    BY <1>5, <1>7, <2>1 DEF OneNodePerId
  <2>2. CASE k \notin 1 .. Len(queue[r]) /\ l \in 1 .. Len(queue[u])
    BY <1>4, <1>5, <2>2 DEF Queued
  <2>3. CASE k \in 1 .. Len(queue[r]) /\ l \notin 1 .. Len(queue[u])
    BY <1>4, <1>5, <2>3 DEF Queued
  <2>4. CASE k \notin 1 .. Len(queue[r]) /\ l \notin 1 .. Len(queue[u])
    BY <1>4, <2>4
  <2> QED
    BY <2>1, <2>2, <2>3, <2>4
<1>10. QueuedOnce'
  <2>1. (QueueType => (QueuedOnce <=> OneNodePerId(queue)))'
    BY QueuedOnceIsOneNodePerId, PTL
  <2> QED
    BY <1>8, <1>9, <2>1
<1>11. ASSUME NEW s PROVE Queued(s)' <=> Queued(s) \/ s = e.id
  <2>1. ASSUME Queued(s)' PROVE Queued(s) \/ s = e.id
    BY <1>4, <2>1 DEF Queued
  <2>2. ASSUME Queued(s) PROVE Queued(s)'
    BY <1>5, <2>2 DEF Queued
  <2>3. ASSUME s = e.id PROVE Queued(s)'
    BY <1>6, <2>3 DEF Queued
  <2> QED
    BY <2>1, <2>2, <2>3
<1> QED
  BY <1>8, <1>10, <1>11

-----------------------------------------------------------------------------
(* Types *)

LEMMA MinTierType ==
    ASSUME NEW J \in SUBSET Conn, NEW d
    PROVE  MinTier(J, d) \in Nat \cup {None}
<1> DEFINE E == {j \in J : ~d[j]}
<1>1. CASE E = {}
  BY <1>1 DEF MinTier
<1>2. CASE E # {}
  <2>1. E \in SUBSET Conn
    OBVIOUS
  <2>2. \E j \in E : \A k \in E : Tier[j] <= Tier[k]
    BY <1>2, <2>1, TierAssumption
  <2>3. (CHOOSE j \in E : \A k \in E : Tier[j] <= Tier[k]) \in Conn
    BY <2>1, <2>2
  <2>4. MinTier(J, d) = Tier[CHOOSE j \in E : \A k \in E : Tier[j] <= Tier[k]]
    BY <1>2 DEF MinTier
  <2> QED
    BY <2>3, <2>4, TierAssumption
<1> QED
  BY <1>1, <1>2

MapType(m) == m \in [Sub -> Conn \cup {None}]
WorkingType(w) == w \in [Conn -> Sub \cup {None}]
HeldType(h) == h \in [Conn -> SUBSET Sub]

-----------------------------------------------------------------------------
(* Handing out a submission *)

\* What a judge is working on is one of the submissions it holds; what it holds
\* has an entry for it and no node.
Owned(m, w, h) ==
    \A c \in Conn, s \in Sub :
        /\ w[c] = s => s \in h[c]
        /\ s \in h[c] => m[s] = c /\ ~Queued(s)

LEMMA SubmitTypes ==
    ASSUME judges \subseteq Conn, NEW c \in Conn, NEW s \in Sub, NEW outcome,
           NEW m, MapType(m), NEW w, WorkingType(w), NEW h, HeldType(h),
           Submit(c, s, outcome, m, w, h)
    PROVE  MapType(submission_map') /\ WorkingType(working') /\ HeldType(held') /\ judges' \subseteq Conn
BY DEF Submit, MapType, WorkingType, HeldType

\* s is nobody's: once it is handed out, and out of the queue, it is c's.
LEMMA SubmitKeepsOwned ==
    ASSUME NEW c \in Conn, NEW s \in Sub, NEW outcome \in {"ok", "fetch"},
           NEW m, MapType(m), NEW w, WorkingType(w), NEW h, HeldType(h),
           Submit(c, s, outcome, m, w, h), Owned(m, w, h),
           \A d \in Conn : s \notin h[d],
           \A u \in Sub : Queued(u)' => Queued(u) \/ \A d \in Conn : u \notin h[d],
           outcome = "ok" => ~Queued(s)'
    PROVE  Owned(submission_map, working, held)'
<1>1. submission_map' = [m EXCEPT ![s] = c]
  BY DEF Submit
<1>2. CASE outcome = "ok"
  <2>1. working' = [w EXCEPT ![c] = s] /\ held' = [h EXCEPT ![c] = @ \cup {s}]
    BY <1>2 DEF Submit
  <2> SUFFICES ASSUME NEW d \in Conn, NEW u \in Sub
               PROVE  /\ working'[d] = u => u \in held'[d]
                      /\ u \in held'[d] => submission_map'[u] = d /\ ~Queued(u)'
    BY DEF Owned
  <2>2. CASE u = s
    BY <1>1, <1>2, <2>1, <2>2 DEF Owned, MapType, WorkingType, HeldType
  <2>3. CASE u # s
    BY <1>1, <2>1, <2>3 DEF Owned, MapType, WorkingType, HeldType
  <2> QED
    BY <2>2, <2>3
<1>3. CASE outcome = "fetch"
  <2>1. working' = w /\ held' = h
    BY <1>3 DEF Submit
  <2> SUFFICES ASSUME NEW d \in Conn, NEW u \in Sub
               PROVE  /\ working'[d] = u => u \in held'[d]
                      /\ u \in held'[d] => submission_map'[u] = d /\ ~Queued(u)'
    BY DEF Owned
  <2> QED
    BY <1>1, <2>1 DEF Owned, MapType, WorkingType, HeldType
<1> QED
  BY <1>2, <1>3

LEMMA OutcomeEarly ==
    ASSUME Without(LateRaising), closed = {}, NEW c \in Conn
    PROVE  Outcome(c) \subseteq {"ok", "fetch"}
BY DEF Without, LateRaising, Outcome

LEMMA HandleFreeEffect ==
    ASSUME QueueType, QueuedOnce, judges \subseteq Conn, NEW c \in Conn,
           NEW m, MapType(m), NEW w, WorkingType(w), NEW h, HeldType(h),
           HandleFree(c, m, w, h)
    PROVE  /\ QueueType' /\ QueuedOnce' /\ judges' \subseteq Conn
           /\ MapType(submission_map') /\ WorkingType(working') /\ HeldType(held')
           /\ \A s \in Sub : Queued(s)' => Queued(s)
           /\ \A s \in Sub : Queued(s) /\ ~Queued(s)' => s \in held'[c]
           /\ Without(LateRaising) /\ closed = {} /\ Owned(m, w, h)
                => Owned(submission_map, working, held)'
<1>1. CASE ~Serves(c, w)
  <2>1. submission_map' = m /\ working' = w /\ held' = h /\ queue' = queue /\ judges' = judges
    BY <1>1 DEF HandleFree
  <2>2. \A s : Queued(s)' <=> Queued(s)
    BY <2>1 DEF Queued
  <2>3. QueueType' /\ QueuedOnce'
    BY <2>1 DEF QueueType, QueuedOnce, Nodes, NodeValue
  <2>4. Owned(m, w, h) => Owned(submission_map, working, held)'
    BY <2>1, <2>2 DEF Owned
  <2> QED
    BY <2>1, <2>2, <2>3, <2>4
<1>2. CASE Serves(c, w)
  <2>1. PICK n \in Eligible(c, w), outcome \in Outcome(c) :
            /\ Submit(c, NodeValue(n).id, outcome, m, w, h)
            /\ queue' = IF outcome = "ok" THEN RemoveNode(n[1], n[2]) ELSE queue
    BY <1>2 DEF HandleFree
  <2> DEFINE s == NodeValue(n).id
  <2>2. n \in Nodes
    BY DEF Eligible
  <2>3. s \in Sub /\ Queued(s)
    <3>1. PICK p \in Priorities : \E i \in 1 .. Len(queue[p]) : n = <<p, i>>
      BY <2>2, NodesOfQueue
    <3>2. PICK i \in 1 .. Len(queue[p]) : n = <<p, i>>
      BY <3>1
    <3>3. s = queue[p][i].id /\ queue[p][i] \in Entry
      BY <3>2, NodesOfQueue
    <3> QED
      BY <3>3 DEF Entry, Queued
  <2> HIDE DEF s
  <2>4. CASE outcome = "ok"
    <3>1. QueueType' /\ QueuedOnce' /\ \A u : Queued(u)' <=> Queued(u) /\ u # s
      BY <2>1, <2>2, <2>4, RemoveNodeEffect DEF s
    <3>2. s \in held'[c]
      BY <2>1, <2>3, <2>4 DEF Submit, HeldType, s
    <3>3. MapType(submission_map') /\ WorkingType(working') /\ HeldType(held') /\ judges' \subseteq Conn
      BY <2>1, <2>3, SubmitTypes DEF s
    <3>4. ASSUME Without(LateRaising), closed = {}, Owned(m, w, h)
          PROVE  Owned(submission_map, working, held)'
      <4>1. \A d \in Conn : s \notin h[d]
        BY <2>3, <3>4 DEF Owned
      <4> QED
        BY <2>1, <2>3, <2>4, <3>1, <3>4, <4>1, SubmitKeepsOwned DEF s
    <3> QED
      BY <3>1, <3>2, <3>3, <3>4
  <2>5. CASE outcome # "ok"
    <3>1. queue' = queue
      BY <2>1, <2>5
    <3>2. QueueType' /\ QueuedOnce' /\ \A u : Queued(u)' <=> Queued(u)
      BY <3>1 DEF QueueType, QueuedOnce, Nodes, NodeValue, Queued
    <3>3. MapType(submission_map') /\ WorkingType(working') /\ HeldType(held') /\ judges' \subseteq Conn
      BY <2>1, <2>3, SubmitTypes DEF s
    <3>4. ASSUME Without(LateRaising), closed = {}, Owned(m, w, h)
          PROVE  Owned(submission_map, working, held)'
      <4>1. \A d \in Conn : s \notin h[d]
        BY <2>3, <3>4 DEF Owned
      <4>2. outcome \in {"ok", "fetch"}
        BY <3>4, OutcomeEarly
      <4> QED
        BY <2>1, <2>3, <2>5, <3>2, <3>4, <4>1, <4>2, SubmitKeepsOwned DEF s
    <3> QED
      BY <3>2, <3>3, <3>4
  <2> QED
    BY <2>4, <2>5
<1> QED
  BY <1>1, <1>2

-----------------------------------------------------------------------------
(* The inductive invariant *)

\* As long as a dispatch can fail only before _working is set.
OwnedEarly == Without(LateRaising) => closed = {} /\ Owned(submission_map, working, held)

IInv ==
    /\ TypeOK
    /\ QueuedOnce
    /\ OwnedEarly

LEMMA TypeParts ==
    TypeOK => /\ QueueType /\ MapType(submission_map) /\ WorkingType(working)
              /\ HeldType(held) /\ judges \subseteq Conn
BY DEF TypeOK, QueueType, MapType, WorkingType, HeldType

LEMMA SameQueue ==
    ASSUME queue' = queue
    PROVE  /\ QueueType' <=> QueueType
           /\ QueuedOnce' <=> QueuedOnce
           /\ \A s : Queued(s)' <=> Queued(s)
BY DEF QueueType, QueuedOnce, Nodes, NodeValue, Queued

LEMMA UpdateMinTierTypes ==
    ASSUME NEW J \in SUBSET Conn, NEW d, NEW op \in {"register", "remove", "disable"},
           NEW c \in Conn \cup {None}, UpdateMinTier(J, d, op, c)
    PROVE  /\ min_tier' \in Nat \cup {None}
           /\ holder' \in [op : {"idle", "register", "remove", "disable"},
                           conn : Conn \cup {None}, sweep : SUBSET Conn]
<1>1. min_tier' \in Nat \cup {None}
  BY MinTierType DEF UpdateMinTier
<1>2. \A t : TierJudges(J, d, t) \subseteq Conn
  BY DEF TierJudges
<1> QED
  BY <1>1, <1>2 DEF UpdateMinTier

LEMMA InitIInv == Init => IInv
<1> SUFFICES ASSUME Init PROVE IInv
  OBVIOUS
<1>1. QueueType /\ \A p \in Priorities : Len(queue[p]) = 0
  BY DEF Init, QueueType
<1>2. TypeOK
  BY <1>1, TierAssumption DEF Init, TypeOK, QueueType, Idle
<1>3. QueuedOnce
  BY <1>1, NodesOfQueue DEF QueuedOnce
<1>4. OwnedEarly
  BY ConstantsAssumption DEF Init, OwnedEarly, Owned
<1> QED
  BY <1>2, <1>3, <1>4 DEF IInv

-----------------------------------------------------------------------------
(* Every operation keeps it *)

\* What a call of _handle_free_judge needs and what it leaves.
LEMMA HandleFreeNowKeeps ==
    ASSUME IInv, NEW c \in Conn, HandleFreeNow(c), closed' = closed
    PROVE  /\ QueueType' /\ QueuedOnce' /\ judges' \subseteq Conn
           /\ MapType(submission_map') /\ WorkingType(working') /\ HeldType(held')
           /\ OwnedEarly'
<1>1. /\ QueueType /\ QueuedOnce /\ judges \subseteq Conn
      /\ MapType(submission_map) /\ WorkingType(working) /\ HeldType(held)
  BY TypeParts DEF IInv
<1>2. HandleFree(c, submission_map, working, held)
  BY DEF HandleFreeNow
<1>3. /\ QueueType' /\ QueuedOnce' /\ judges' \subseteq Conn
      /\ MapType(submission_map') /\ WorkingType(working') /\ HeldType(held')
      /\ Without(LateRaising) /\ closed = {} /\ Owned(submission_map, working, held)
            => Owned(submission_map, working, held)'
  BY <1>1, <1>2, HandleFreeEffect
<1>4. OwnedEarly'
  BY <1>3 DEF IInv, OwnedEarly, Without
<1> QED
  BY <1>3, <1>4

\* What a step that hands nothing out leaves alone.
LEMMA NothingHanded ==
    ASSUME IInv, UNCHANGED <<queue, submission_map, working, held>>,
           Without(LateRaising) /\ closed = {} => closed' = {}
    PROVE  QueueType' /\ QueuedOnce' /\ OwnedEarly'
<1>1. QueueType' /\ QueuedOnce' /\ \A s : Queued(s)' <=> Queued(s)
  BY SameQueue, TypeParts DEF IInv
<1>2. Owned(submission_map, working, held) => Owned(submission_map, working, held)'
  BY <1>1 DEF Owned
<1> QED
  BY <1>1, <1>2 DEF IInv, OwnedEarly, Without

LEMMA RegisterKeeps ==
    ASSUME IInv, NEW c \in Conn, NEW ps \in SUBSET Kind, Register(c, ps)
    PROVE  IInv'
<1>1. Disconnected(c) = {}
  BY ConstantsAssumption DEF IInv, TypeOK, Disconnected
<1>2. QueueType' /\ QueuedOnce' /\ OwnedEarly'
  BY <1>1, NothingHanded DEF Register
<1>3. judges' \in SUBSET Conn
  BY DEF Register, IInv, TypeOK
<1>4. UpdateMinTier(judges', is_disabled', "register", c)
  BY DEF Register
<1>5. /\ min_tier' \in Nat \cup {None}
      /\ holder' \in [op : {"idle", "register", "remove", "disable"},
                      conn : Conn \cup {None}, sweep : SUBSET Conn]
  BY <1>3, <1>4, UpdateMinTierTypes
<1>6. TypeOK'
  BY <1>1, <1>2, <1>3, <1>5 DEF Register, IInv, TypeOK, QueueType
<1> QED
  BY <1>2, <1>6 DEF IInv

LEMMA RemoveKeeps ==
    ASSUME IInv, NEW c \in Conn, Remove(c)
    PROVE  IInv'
<1>1. QueueType' /\ QueuedOnce' /\ \A s : Queued(s)' <=> Queued(s)
  BY SameQueue, TypeParts DEF Remove, IInv
<1>2. OwnedEarly'
  <2> SUFFICES ASSUME Without(LateRaising), closed = {}, Owned(submission_map, working, held)
               PROVE  closed' = {} /\ Owned(submission_map, working, held)'
    BY DEF IInv, OwnedEarly, Without
  <2>1. closed' = {}
    BY DEF Remove
  <2>2. ASSUME NEW d \in Conn, NEW s \in Sub
        PROVE  /\ working'[d] = s => s \in held'[d]
               /\ s \in held'[d] => submission_map'[s] = d /\ ~Queued(s)'
    <3>1. CASE d = c
      BY <3>1, ConstantsAssumption DEF Remove, IInv, TypeOK
    <3>2. CASE d # c
      <4>1. working'[d] = working[d] /\ held'[d] = held[d]
        BY <3>2 DEF Remove, IInv, TypeOK
      <4>2. s \in held[d] => submission_map[s] = d /\ s # working[c]
        BY <3>2 DEF Owned, IInv, TypeOK
      <4>3. s \in held[d] => submission_map'[s] = d
        BY <4>2 DEF Remove, IInv, TypeOK
      <4> QED
        BY <1>1, <4>1, <4>3 DEF Owned
    <3> QED
      BY <3>1, <3>2
  <2> QED
    BY <2>1, <2>2 DEF Owned
<1> DEFINE J == judges \ {c}
<1>3. judges' = J /\ J \in SUBSET Conn
  BY DEF Remove, IInv, TypeOK
<1>4. UpdateMinTier(J, is_disabled, "remove", c)
  BY DEF Remove
<1> HIDE DEF J
<1>5. /\ min_tier' \in Nat \cup {None}
      /\ holder' \in [op : {"idle", "register", "remove", "disable"},
                      conn : Conn \cup {None}, sweep : SUBSET Conn]
  BY <1>3, <1>4, UpdateMinTierTypes
<1>6. TypeOK'
  BY <1>1, <1>3, <1>5 DEF Remove, IInv, TypeOK, QueueType
<1> QED
  BY <1>1, <1>2, <1>6 DEF IInv

LEMMA RemoveStrangerKeeps ==
    ASSUME IInv, RemoveStranger
    PROVE  IInv'
<1>1. QueueType' /\ QueuedOnce' /\ OwnedEarly'
  BY NothingHanded DEF RemoveStranger
<1>2. judges \in SUBSET Conn /\ UpdateMinTier(judges, is_disabled, "remove", None)
  BY DEF RemoveStranger, IInv, TypeOK
<1>3. /\ min_tier' \in Nat \cup {None}
      /\ holder' \in [op : {"idle", "register", "remove", "disable"},
                      conn : Conn \cup {None}, sweep : SUBSET Conn]
  BY <1>2, UpdateMinTierTypes
<1>4. TypeOK'
  BY <1>1, <1>3 DEF RemoveStranger, IInv, TypeOK, QueueType
<1> QED
  BY <1>1, <1>3, <1>4 DEF IInv

LEMMA UpdateDisableKeeps ==
    ASSUME IInv, NEW n \in JudgeName, NEW b \in BOOLEAN, UpdateDisable(n, b)
    PROVE  IInv'
<1>1. QueueType' /\ QueuedOnce' /\ OwnedEarly'
  BY NothingHanded DEF UpdateDisable
<1>2. judges \in SUBSET Conn /\ UpdateMinTier(judges, is_disabled', "disable", None)
  BY DEF UpdateDisable, IInv, TypeOK
<1>3. /\ min_tier' \in Nat \cup {None}
      /\ holder' \in [op : {"idle", "register", "remove", "disable"},
                      conn : Conn \cup {None}, sweep : SUBSET Conn]
  BY <1>2, UpdateMinTierTypes
<1>4. TypeOK'
  BY <1>1, <1>3 DEF UpdateDisable, IInv, TypeOK, QueueType
<1> QED
  BY <1>1, <1>3, <1>4 DEF IInv

LEMMA SweepKeeps ==
    ASSUME IInv, NEW j \in Conn, Sweep(j)
    PROVE  IInv'
<1>1. /\ QueueType' /\ QueuedOnce' /\ judges' \subseteq Conn
      /\ MapType(submission_map') /\ WorkingType(working') /\ HeldType(held')
      /\ OwnedEarly'
  <2>1. CASE working[j] = None
    BY <2>1, HandleFreeNowKeeps DEF Sweep
  <2>2. CASE working[j] # None
    BY <2>2, NothingHanded, TypeParts DEF Sweep, IInv
  <2> QED
    BY <2>1, <2>2
<1>2. /\ holder' \in [op : {"idle", "register", "remove", "disable"},
                      conn : Conn \cup {None}, sweep : SUBSET Conn]
  BY DEF Sweep, IInv, TypeOK
<1>3. TypeOK'
  BY <1>1, <1>2 DEF Sweep, IInv, TypeOK, QueueType, MapType, WorkingType, HeldType
<1> QED
  BY <1>1, <1>2, <1>3 DEF IInv

LEMMA FinishKeeps ==
    ASSUME IInv, Finish
    PROVE  IInv'
<1>1. /\ QueueType' /\ QueuedOnce' /\ judges' \subseteq Conn
      /\ MapType(submission_map') /\ WorkingType(working') /\ HeldType(held')
      /\ OwnedEarly'
  <2>1. CASE UNCHANGED <<queue, submission_map, judges, working, held>>
    BY <2>1, NothingHanded, TypeParts DEF Finish, IInv
  <2>2. CASE ~UNCHANGED <<queue, submission_map, judges, working, held>>
    <3>1. \E j \in Conn : HandleFreeNow(j)
      BY <2>2 DEF Finish
    <3>2. closed' = closed
      BY DEF Finish
    <3> QED
      BY <3>1, <3>2, HandleFreeNowKeeps
  <2> QED
    BY <2>1, <2>2
<1>2. holder' = Idle
  BY DEF Finish
<1>3. TypeOK'
  BY <1>1, <1>2 DEF Finish, Idle, IInv, TypeOK, QueueType, MapType, WorkingType, HeldType
<1> QED
  BY <1>1, <1>2, <1>3 DEF IInv

\* The steps that only shut connections down: after them nothing is promised.
LEMMA DisconnectKeeps ==
    ASSUME IInv, NEW n \in JudgeName, Disconnect(n)
    PROVE  IInv'
<1>1. "close" \in Env
  BY DEF Disconnect
<1>2. QueueType' /\ QueuedOnce' /\ OwnedEarly'
  BY <1>1, NothingHanded DEF Disconnect, Without, LateRaising
<1>3. Disconnected(n) \subseteq Conn
  BY DEF Disconnected, IInv, TypeOK
<1>4. TypeOK'
  BY <1>2, <1>3 DEF Disconnect, IInv, TypeOK, QueueType
<1> QED
  BY <1>2, <1>4 DEF IInv

LEMMA CloseKeeps ==
    ASSUME IInv, NEW c \in Conn, Close(c)
    PROVE  IInv'
<1>1. "close" \in Env
  BY DEF Close
<1>2. QueueType' /\ QueuedOnce' /\ OwnedEarly'
  BY <1>1, NothingHanded DEF Close, Without, LateRaising
<1>3. TypeOK'
  BY <1>2 DEF Close, IInv, TypeOK, QueueType
<1> QED
  BY <1>2, <1>3 DEF IInv

\* The answer takes s out of every part of the bookkeeping before the judge is
\* given something else.
LEMMA OnJudgeFreeKeeps ==
    ASSUME IInv, NEW c \in Conn, NEW s \in Sub, OnJudgeFree(c, s)
    PROVE  IInv'
<1> DEFINE m == [submission_map EXCEPT ![s] = None]
           w == [working EXCEPT ![c] = None]
           h == [held EXCEPT ![c] = @ \ {s}]
<1>1. /\ QueueType /\ QueuedOnce /\ judges \subseteq Conn
      /\ MapType(submission_map) /\ WorkingType(working) /\ HeldType(held)
  BY TypeParts DEF IInv
<1>2. MapType(m) /\ WorkingType(w) /\ HeldType(h)
  BY <1>1 DEF MapType, WorkingType, HeldType
<1>3. closed' = closed
  BY DEF OnJudgeFree
<1>4. Owned(submission_map, working, held) => submission_map[s] # None /\ Owned(m, w, h)
  <2> SUFFICES ASSUME Owned(submission_map, working, held)
               PROVE  submission_map[s] # None /\ Owned(m, w, h)
    OBVIOUS
  <2>1. submission_map[s] = c /\ c # None
    BY ConstantsAssumption DEF OnJudgeFree, Owned
  <2>2. ASSUME NEW d \in Conn, NEW u \in Sub
        PROVE  /\ w[d] = u => u \in h[d]
               /\ u \in h[d] => m[u] = d /\ ~Queued(u)
    <3>1. w[d] = u => d # c /\ working[d] = u
      BY <1>1, ConstantsAssumption DEF WorkingType
    <3>2. h[d] \subseteq held[d] /\ (d # c => h[d] = held[d]) /\ s \notin h[c]
      BY <1>1 DEF HeldType
    <3>3. u \in h[d] => u # s
      BY <2>1, <3>2 DEF Owned
    <3>4. u # s => m[u] = submission_map[u]
      BY <1>1 DEF MapType
    <3> QED
      BY <3>1, <3>2, <3>3, <3>4 DEF Owned
  <2> QED
    BY <2>1, <2>2 DEF Owned
<1>5. /\ QueueType' /\ QueuedOnce' /\ judges' \subseteq Conn
      /\ MapType(submission_map') /\ WorkingType(working') /\ HeldType(held')
      /\ OwnedEarly'
  <2>1. CASE submission_map[s] = None
    <3>1. queue' = queue /\ submission_map' = submission_map /\ working' = working
          /\ judges' = judges /\ held' = h
      BY <2>1 DEF OnJudgeFree
    <3>2. QueueType' /\ QueuedOnce'
      BY <1>1, <3>1, SameQueue
    <3>3. OwnedEarly'
      BY <1>3, <1>4, <2>1 DEF OwnedEarly, IInv, Without
    <3> QED
      BY <1>1, <1>2, <3>1, <3>2, <3>3
  <2>2. CASE submission_map[s] # None
    <3> HIDE DEF m, w, h
    <3>1. HandleFree(c, m, w, h)
      BY <2>2 DEF OnJudgeFree, m, w, h
    <3>2. /\ QueueType' /\ QueuedOnce' /\ judges' \subseteq Conn
          /\ MapType(submission_map') /\ WorkingType(working') /\ HeldType(held')
          /\ Without(LateRaising) /\ closed = {} /\ Owned(m, w, h)
               => Owned(submission_map, working, held)'
      BY <1>1, <1>2, <3>1, HandleFreeEffect
    <3>3. OwnedEarly'
      BY <1>3, <1>4, <3>2 DEF OwnedEarly, IInv, Without
    <3> QED
      BY <3>2, <3>3
  <2> QED
    BY <2>1, <2>2
<1>6. TypeOK'
  BY <1>5 DEF OnJudgeFree, IInv, TypeOK, QueueType, MapType, WorkingType, HeldType
<1> QED
  BY <1>5, <1>6 DEF IInv

LEMMA AbortKeeps ==
    ASSUME IInv, NEW s \in Sub, Abort(s)
    PROVE  IInv'
<1> PICK n \in Nodes : NodeValue(n).id = s /\ queue' = RemoveNode(n[1], n[2])
  BY DEF Abort
<1>1. /\ QueueType' /\ QueuedOnce'
      /\ \A u : Queued(u)' => Queued(u)
  BY RemoveNodeEffect, TypeParts DEF IInv
<1>2. OwnedEarly'
  BY <1>1 DEF Abort, IInv, OwnedEarly, Owned, Without
<1>3. TypeOK'
  BY <1>1 DEF Abort, IInv, TypeOK, QueueType
<1> QED
  BY <1>1, <1>2, <1>3 DEF IInv

\* The two tests at the top of judge() are what keeps a submission in one place.
LEMMA JudgeKeeps ==
    ASSUME IInv, NEW r \in Requests, Judge(r)
    PROVE  IInv'
<1>1. /\ QueueType /\ QueuedOnce /\ judges \subseteq Conn
      /\ MapType(submission_map) /\ WorkingType(working) /\ HeldType(held)
  BY TypeParts DEF IInv
<1>2. /\ r.id \in Sub /\ r.priority \in Priorities
      /\ [id |-> r.id, judge_id |-> r.judge_id] \in Entry
  BY ConstantsAssumption DEF Request, Entry
<1>3. closed' = closed /\ submission_map[r.id] = None /\ ~Queued(r.id)
  BY DEF Judge
<1>4. Owned(submission_map, working, held) => \A d \in Conn : r.id \notin held[d]
  BY <1>2, <1>3, ConstantsAssumption DEF Owned
<1>5. \/ /\ \E j \in Conn : \E outcome \in Outcome(j) :
                Submit(j, r.id, outcome, submission_map, working, held)
         /\ queue' = queue
      \/ /\ queue' = [queue EXCEPT ![r.priority] =
                         Append(@, [id |-> r.id, judge_id |-> r.judge_id])]
         /\ UNCHANGED <<submission_map, judges, working, held>>
  <2>1. current_tier_judges \subseteq Conn
    BY DEF current_tier_judges, TierJudges, IInv, TypeOK
  <2> QED
    BY <2>1 DEF Judge
<1>6. /\ QueueType' /\ QueuedOnce' /\ judges' \subseteq Conn
      /\ MapType(submission_map') /\ WorkingType(working') /\ HeldType(held')
      /\ OwnedEarly'
  <2>1. CASE /\ \E j \in Conn : \E outcome \in Outcome(j) :
                   Submit(j, r.id, outcome, submission_map, working, held)
             /\ queue' = queue
    <3> PICK j \in Conn : \E outcome \in Outcome(j) :
                   Submit(j, r.id, outcome, submission_map, working, held)
      BY <2>1
    <3>1. PICK outcome \in Outcome(j) :
                   Submit(j, r.id, outcome, submission_map, working, held)
      OBVIOUS
    <3>2. QueueType' /\ QueuedOnce' /\ \A u : Queued(u)' <=> Queued(u)
      BY <1>1, <2>1, SameQueue
    <3>3. MapType(submission_map') /\ WorkingType(working') /\ HeldType(held') /\ judges' \subseteq Conn
      BY <1>1, <1>2, <3>1, SubmitTypes
    <3>4. ASSUME Without(LateRaising), closed = {}, Owned(submission_map, working, held)
          PROVE  Owned(submission_map, working, held)'
      <4>1. outcome \in {"ok", "fetch"}
        BY <3>4, OutcomeEarly
      <4>2. /\ \A d \in Conn : r.id \notin held[d]
            /\ ~Queued(r.id)'
            /\ \A u \in Sub : Queued(u)' => Queued(u)
        BY <1>3, <1>4, <3>2, <3>4
      <4> QED
        BY <1>1, <1>2, <3>1, <3>4, <4>1, <4>2, SubmitKeepsOwned
    <3>5. OwnedEarly'
      BY <1>3, <3>4 DEF IInv, OwnedEarly, Without
    <3> QED
      BY <3>2, <3>3, <3>5
  <2>2. CASE /\ queue' = [queue EXCEPT ![r.priority] =
                             Append(@, [id |-> r.id, judge_id |-> r.judge_id])]
             /\ UNCHANGED <<submission_map, judges, working, held>>
    <3> DEFINE e == [id |-> r.id, judge_id |-> r.judge_id]
    <3>1. e \in Entry /\ e.id = r.id /\ queue' = [queue EXCEPT ![r.priority] = Append(@, e)]
      BY <1>2, <2>2
    <3> HIDE DEF e
    <3>2. QueueType' /\ QueuedOnce' /\ \A u : Queued(u)' <=> Queued(u) \/ u = r.id
      BY <1>1, <1>2, <1>3, <3>1, AppendNodeEffect
    <3>3. Owned(submission_map, working, held) => Owned(submission_map, working, held)'
      BY <1>4, <2>2, <3>2 DEF Owned
    <3>4. OwnedEarly'
      BY <1>3, <3>3 DEF IInv, OwnedEarly, Without
    <3> QED
      BY <1>1, <2>2, <3>2, <3>4
  <2> QED
    BY <1>5, <2>1, <2>2
<1>7. TypeOK'
  BY <1>6 DEF Judge, IInv, TypeOK, QueueType, MapType, WorkingType, HeldType
<1> QED
  BY <1>6, <1>7 DEF IInv

LEMMA ConnectedKeeps ==
    ASSUME IInv, NEW c \in Conn, Connected(c)
    PROVE  IInv'
<1>1. QueueType' /\ QueuedOnce' /\ OwnedEarly'
  BY NothingHanded DEF Connected
<1>2. is_disabled' \in [Conn -> BOOLEAN]
  <2>1. PICK b \in BOOLEAN : is_disabled' = [is_disabled EXCEPT ![c] = b]
    BY DEF Connected, IInv, TypeOK
  <2> QED
    BY <2>1 DEF IInv, TypeOK
<1>3. TypeOK'
  BY <1>1, <1>2 DEF Connected, IInv, TypeOK, QueueType
<1> QED
  BY <1>1, <1>3 DEF IInv

LEMMA SupportedProblemsKeeps ==
    ASSUME IInv, NEW c \in Conn, NEW ps \in SUBSET Kind, SupportedProblems(c, ps)
    PROVE  IInv'
<1>1. QueueType' /\ QueuedOnce' /\ OwnedEarly'
  BY NothingHanded DEF SupportedProblems
<1>2. TypeOK'
  BY <1>1 DEF SupportedProblems, IInv, TypeOK, QueueType
<1> QED
  BY <1>1, <1>2 DEF IInv

LEMMA UpdateProblemsKeeps ==
    ASSUME IInv, NEW c \in Conn, UpdateProblems(c)
    PROVE  IInv'
<1>1. /\ QueueType' /\ QueuedOnce' /\ judges' \subseteq Conn
      /\ MapType(submission_map') /\ WorkingType(working') /\ HeldType(held')
      /\ OwnedEarly'
  BY HandleFreeNowKeeps DEF UpdateProblems
<1>2. TypeOK'
  BY <1>1 DEF UpdateProblems, IInv, TypeOK, QueueType, MapType, WorkingType, HeldType
<1> QED
  BY <1>1, <1>2 DEF IInv

LEMMA RestartKeeps ==
    ASSUME IInv, Restart
    PROVE  IInv'
<1>1. Init'
  BY DEF Restart, Init
<1>2. (Init => IInv)'
  BY InitIInv, PTL
<1> QED
  BY <1>1, <1>2

LEMMA StutterKeeps ==
    ASSUME IInv, UNCHANGED vars
    PROVE  IInv'
<1>1. QueueType' /\ QueuedOnce' /\ OwnedEarly'
  BY NothingHanded DEF vars
<1>2. TypeOK'
  BY <1>1 DEF vars, IInv, TypeOK, QueueType
<1> QED
  BY <1>1, <1>2 DEF IInv

LEMMA NextKeeps == IInv /\ [Next]_vars => IInv'
<1> SUFFICES ASSUME IInv, [Next]_vars PROVE IInv'
  OBVIOUS
<1>1. CASE Locked
  BY <1>1, RegisterKeeps, RemoveKeeps, DisconnectKeeps, RemoveStrangerKeeps,
     UpdateDisableKeeps, SweepKeeps, FinishKeeps, OnJudgeFreeKeeps, AbortKeeps,
     JudgeKeeps, Zenon DEF Locked
<1>2. CASE Unlocked
  BY <1>2, ConnectedKeeps, SupportedProblemsKeeps, UpdateProblemsKeeps, CloseKeeps
  DEF Unlocked
<1>3. CASE Restart
  BY <1>3, RestartKeeps
<1>4. CASE UNCHANGED vars
  BY <1>4, StutterKeeps
<1> QED
  BY <1>1, <1>2, <1>3, <1>4 DEF Next

-----------------------------------------------------------------------------
(* The theorems *)

\* Types, single nodes, and who has what as far as any event leaves it.
THEOREM Invariant == Spec => []IInv
BY InitIInv, NextKeeps, PTL DEF Spec

\* The state of the dispatcher is always the one judge_list.py means: nodes of
\* known submissions, entries that name known judges, one flag per judge.
THEOREM TypeCorrect == Spec => []TypeOK
<1>1. IInv => TypeOK
  BY DEF IInv
<1> QED
  BY <1>1, Invariant, PTL

\* judge() never gives a submission a second node, whatever the judges, the
\* administrator and the network do in between.
THEOREM OneNode == Spec => []QueuedOnce
<1>1. IInv => QueuedOnce
  BY DEF IInv
<1> QED
  BY <1>1, Invariant, PTL

\* No submission is at two judges, for any number of judges, as long as a
\* dispatch that fails fails before the request is sent.
THEOREM OneJudge == Spec => []NoDoubleGrading
<1>1. IInv => NoDoubleGrading
  <2> SUFFICES ASSUME IInv, Without(LateRaising), NEW c \in Conn, NEW d \in Conn, c # d
               PROVE  held[c] \cap held[d] = {}
    BY DEF NoDoubleGrading
  <2>1. Owned(submission_map, working, held) /\ held \in [Conn -> SUBSET Sub]
    BY DEF IInv, OwnedEarly, TypeOK
  <2>2. \A s \in Sub : ~(s \in held[c] /\ s \in held[d])
    BY <2>1 DEF Owned
  <2> QED
    BY <2>1, <2>2
<1> QED
  BY <1>1, Invariant, PTL

\* A node leaves the queue only into the hands of a judge, by the abort of its
\* own submission or with the process: no failed dispatch, reconnection or
\* tier change loses a submission.
THEOREM NoneLost == Spec => NoLoss
<1> DEFINE Kept == \A s \in Sub : Queued(s) /\ ~Queued(s)' =>
                      \/ \E c \in Conn : s \in held'[c]
                      \/ Abort(s)
                      \/ Restart
<1>1. IInv /\ [Next]_vars => [Kept]_vars
  <2> SUFFICES ASSUME IInv, Next PROVE Kept
    OBVIOUS
  <2>1. /\ QueueType /\ QueuedOnce /\ judges \subseteq Conn
        /\ MapType(submission_map) /\ WorkingType(working) /\ HeldType(held)
    BY TypeParts DEF IInv
  <2>2. ASSUME NEW c \in Conn, HandleFreeNow(c) PROVE Kept
    BY <2>1, <2>2, HandleFreeEffect DEF HandleFreeNow
  <2>3. ASSUME queue' = queue PROVE Kept
    BY <2>3, SameQueue
  <2>4. ASSUME NEW c \in Conn, NEW s \in Sub, OnJudgeFree(c, s) PROVE Kept
    <3> DEFINE m == [submission_map EXCEPT ![s] = None]
               w == [working EXCEPT ![c] = None]
               h == [held EXCEPT ![c] = @ \ {s}]
    <3>1. MapType(m) /\ WorkingType(w) /\ HeldType(h)
      BY <2>1 DEF MapType, WorkingType, HeldType
    <3>2. queue' = queue \/ HandleFree(c, m, w, h)
      BY <2>4 DEF OnJudgeFree
    <3> HIDE DEF m, w, h
    <3> QED
      BY <2>1, <2>3, <3>1, <3>2, HandleFreeEffect
  <2>5. ASSUME NEW s \in Sub, Abort(s) PROVE Kept
    <3>1. PICK n \in Nodes : NodeValue(n).id = s /\ queue' = RemoveNode(n[1], n[2])
      BY <2>5 DEF Abort
    <3>2. \A u : Queued(u)' <=> Queued(u) /\ u # s
      BY <2>1, <3>1, RemoveNodeEffect
    <3> QED
      BY <2>5, <3>2
  <2>6. ASSUME NEW r \in Requests, Judge(r) PROVE Kept
    <3> DEFINE e == [id |-> r.id, judge_id |-> r.judge_id]
    <3>1. CASE queue' = queue
      BY <2>3, <3>1
    <3>2. CASE queue' # queue
      <4>1. r.priority \in Priorities /\ e \in Entry /\ e.id = r.id
        BY ConstantsAssumption DEF Request, Entry
      <4>2. ~Queued(r.id) /\ queue' = [queue EXCEPT ![r.priority] = Append(@, e)]
        BY <2>6, <3>2 DEF Judge
      <4> HIDE DEF e
      <4>3. \A u : Queued(u)' <=> Queued(u) \/ u = e.id
        BY <2>1, <4>1, <4>2, AppendNodeEffect
      <4> QED
        BY <4>3
    <3> QED
      BY <3>1, <3>2
  <2>7. ASSUME NEW j \in Conn, Sweep(j) PROVE Kept
    <3>1. HandleFreeNow(j) \/ queue' = queue
      BY <2>7 DEF Sweep
    <3> QED
      BY <2>2, <2>3, <3>1
  <2>8. ASSUME Finish PROVE Kept
    <3>1. (\E j \in Conn : HandleFreeNow(j)) \/ queue' = queue
      BY <2>8 DEF Finish
    <3> QED
      BY <2>2, <2>3, <3>1
  <2> HIDE DEF Kept
  <2>9. CASE Locked
    <3>1. ASSUME NEW c \in Conn, NEW ps \in SUBSET Kind, Register(c, ps) PROVE Kept
      BY <2>3, <3>1 DEF Register
    <3>2. ASSUME NEW c \in Conn, Remove(c) PROVE Kept
      BY <2>3, <3>2 DEF Remove
    <3>3. ASSUME NEW n \in JudgeName, Disconnect(n) PROVE Kept
      BY <2>3, <3>3 DEF Disconnect
    <3>4. ASSUME RemoveStranger PROVE Kept
      BY <2>3, <3>4 DEF RemoveStranger
    <3>5. ASSUME NEW n \in JudgeName, NEW b \in BOOLEAN, UpdateDisable(n, b) PROVE Kept
      BY <2>3, <3>5 DEF UpdateDisable
    <3> QED
      BY <2>4, <2>5, <2>6, <2>7, <2>8, <2>9, <3>1, <3>2, <3>3, <3>4, <3>5 DEF Locked
  <2>10. CASE Unlocked
    <3>1. ASSUME NEW c \in Conn, UpdateProblems(c) PROVE Kept
      BY <2>2, <3>1 DEF UpdateProblems
    <3>2. ASSUME NEW c \in Conn, Connected(c) PROVE Kept
      BY <2>3, <3>2 DEF Connected
    <3>3. ASSUME NEW c \in Conn, NEW ps \in SUBSET Kind, SupportedProblems(c, ps) PROVE Kept
      BY <2>3, <3>3 DEF SupportedProblems
    <3>4. ASSUME NEW c \in Conn, Close(c) PROVE Kept
      BY <2>3, <3>4 DEF Close
    <3> QED
      BY <2>10, <3>1, <3>2, <3>3, <3>4 DEF Unlocked
  <2>11. CASE Restart
    BY <2>11 DEF Kept
  <2> QED
    BY <2>9, <2>10, <2>11 DEF Next
<1> QED
  BY <1>1, Invariant, PTL DEF Spec, NoLoss

-----------------------------------------------------------------------------
(* No dispatch raises *)

LEMMA OutcomeOk ==
    ASSUME Without(Raising), closed = {}, NEW c \in Conn
    PROVE  Outcome(c) = {"ok"}
BY DEF Without, Raising, Outcome

\* Then nothing is closed behind the dispatcher's back.
LEMMA NothingClosed == IInv /\ Without(Raising) => closed = {}
BY DEF IInv, OwnedEarly, Without, Raising, LateRaising

\* A judge that is served stays, and gets a submission only from the queue.
LEMMA HandleFreeOk ==
    ASSUME Without(Raising), closed = {}, QueueType, NEW c \in Conn,
           NEW m, NEW w, NEW h, HandleFree(c, m, w, h)
    PROVE  /\ judges' = judges
           /\ \/ UNCHANGED queue /\ submission_map' = m /\ working' = w /\ held' = h
              \/ \E s \in Sub : Queued(s) /\ Submit(c, s, "ok", m, w, h)
<1>1. CASE ~Serves(c, w)
  BY <1>1 DEF HandleFree
<1>2. CASE Serves(c, w)
  <2>1. PICK n \in Eligible(c, w), outcome \in Outcome(c) :
            Submit(c, NodeValue(n).id, outcome, m, w, h)
    BY <1>2 DEF HandleFree
  <2>2. outcome = "ok"
    BY OutcomeOk
  <2>3. PICK p \in Priorities : \E i \in 1 .. Len(queue[p]) : n = <<p, i>>
    BY NodesOfQueue DEF Eligible
  <2>4. PICK i \in 1 .. Len(queue[p]) : n = <<p, i>>
    BY <2>3
  <2>5. NodeValue(n) = queue[p][i] /\ queue[p][i] \in Entry
    BY <2>4, NodesOfQueue
  <2>6. NodeValue(n).id \in Sub /\ Queued(NodeValue(n).id)
    BY <2>5 DEF Entry, Queued
  <2>7. judges' = judges
    BY <2>1, <2>2 DEF Submit
  <2> QED
    BY <2>1, <2>2, <2>6, <2>7
<1> QED
  BY <1>1, <1>2

-----------------------------------------------------------------------------
(* The minimum tier *)

\* min() over the tiers of the enabled judges.
LEMMA MinTierIsMinimum ==
    ASSUME NEW J \in SUBSET Conn, NEW d, NEW k \in J, ~d[k]
    PROVE  /\ MinTier(J, d) \in Nat
           /\ MinTier(J, d) <= Tier[k]
           /\ \E j \in J : ~d[j] /\ MinTier(J, d) = Tier[j]
<1> DEFINE E == {j \in J : ~d[j]}
           least == CHOOSE j \in E : \A l \in E : Tier[j] <= Tier[l]
<1>1. E \in SUBSET Conn /\ E # {}
  OBVIOUS
<1>2. \E j \in E : \A l \in E : Tier[j] <= Tier[l]
  BY <1>1, TierAssumption
<1>3. least \in E /\ \A l \in E : Tier[least] <= Tier[l]
  BY <1>2
<1>4. MinTier(J, d) = Tier[least]
  BY <1>1 DEF MinTier
<1> HIDE DEF least
<1> QED
  BY <1>1, <1>3, <1>4, TierAssumption

TierInv == IInv /\ MinTierCurrent

LEMMA InitTierInv == Init => TierInv
<1> SUFFICES ASSUME Init PROVE TierInv
  OBVIOUS
<1>1. MinTier(judges, is_disabled) = None
  BY DEF Init, MinTier
<1> QED
  BY <1>1, InitIInv DEF Init, TierInv, MinTierCurrent

LEMMA NextKeepsTierInv == TierInv /\ [Next]_vars => TierInv'
<1> SUFFICES ASSUME TierInv, [Next]_vars PROVE TierInv'
  OBVIOUS
<1>1. IInv'
  BY NextKeeps DEF TierInv
<1>2. SUFFICES ASSUME Without(Raising), Without({"late_disable"})
               PROVE  min_tier' = MinTier(judges', is_disabled')
  BY <1>1 DEF TierInv, MinTierCurrent, Without
<1>3. min_tier = MinTier(judges, is_disabled) /\ closed = {} /\ QueueType
  BY <1>2, NothingClosed, TypeParts DEF TierInv, MinTierCurrent, Without, IInv
<1>4. ASSUME UNCHANGED <<min_tier, judges, is_disabled>>
      PROVE  min_tier' = MinTier(judges', is_disabled')
  BY <1>3, <1>4
<1>5. ASSUME NEW c \in Conn, NEW m, NEW w, NEW h, HandleFree(c, m, w, h)
      PROVE  judges' = judges
  BY <1>2, <1>3, <1>5, HandleFreeOk
<1>6. ASSUME NEW c \in Conn, HandleFreeNow(c) PROVE judges' = judges
  BY <1>5, <1>6 DEF HandleFreeNow
<1>7. CASE Locked
  <2>1. ASSUME NEW c \in Conn, NEW ps \in SUBSET Kind, Register(c, ps)
        PROVE  min_tier' = MinTier(judges', is_disabled')
    BY <2>1 DEF Register, UpdateMinTier
  <2>2. ASSUME NEW c \in Conn, Remove(c)
        PROVE  min_tier' = MinTier(judges', is_disabled')
    BY <2>2 DEF Remove, UpdateMinTier
  <2>3. ASSUME NEW n \in JudgeName, Disconnect(n)
        PROVE  UNCHANGED <<min_tier, judges, is_disabled>>
    BY <2>3 DEF Disconnect
  <2>4. ASSUME RemoveStranger PROVE min_tier' = MinTier(judges', is_disabled')
    BY <2>4 DEF RemoveStranger, UpdateMinTier
  <2>5. ASSUME NEW n \in JudgeName, NEW b \in BOOLEAN, UpdateDisable(n, b)
        PROVE  min_tier' = MinTier(judges', is_disabled')
    BY <2>5 DEF UpdateDisable, UpdateMinTier
  <2>6. ASSUME NEW j \in Conn, Sweep(j) PROVE UNCHANGED <<min_tier, judges, is_disabled>>
    BY <1>6, <2>6 DEF Sweep
  <2>7. ASSUME Finish PROVE UNCHANGED <<min_tier, judges, is_disabled>>
    BY <1>6, <2>7 DEF Finish
  <2>8. ASSUME NEW c \in Conn, NEW s \in Sub, OnJudgeFree(c, s)
        PROVE  UNCHANGED <<min_tier, judges, is_disabled>>
    BY <1>5, <2>8 DEF OnJudgeFree
  <2>9. ASSUME NEW s \in Sub, Abort(s) PROVE UNCHANGED <<min_tier, judges, is_disabled>>
    BY <2>9 DEF Abort
  <2>10. ASSUME NEW r \in Requests, Judge(r) PROVE UNCHANGED <<min_tier, judges, is_disabled>>
    <3>1. current_tier_judges \subseteq Conn
      BY DEF current_tier_judges, TierJudges, TierInv, IInv, TypeOK
    <3>2. \/ judges' = judges
          \/ \E j \in Conn : \E outcome \in Outcome(j) :
                Submit(j, r.id, outcome, submission_map, working, held)
      BY <2>10, <3>1 DEF Judge
    <3>3. judges' = judges
      BY <1>2, <1>3, <3>2, OutcomeOk DEF Submit
    <3> QED
      BY <2>10, <3>3 DEF Judge
  <2> QED
    BY <1>4, <1>7, <2>1, <2>2, <2>3, <2>4, <2>5, <2>6, <2>7, <2>8, <2>9, <2>10 DEF Locked
<1>8. CASE Unlocked
  <2>1. ASSUME NEW c \in Conn, Connected(c) PROVE UNCHANGED <<min_tier, judges, is_disabled>>
    <3>1. is_disabled' = [is_disabled EXCEPT ![c] = is_disabled[c]]
      BY <1>2, <2>1 DEF Connected, Without
    <3>2. is_disabled' = is_disabled
      BY <3>1 DEF TierInv, IInv, TypeOK
    <3> QED
      BY <2>1, <3>2 DEF Connected
  <2>2. ASSUME NEW c \in Conn, NEW ps \in SUBSET Kind, SupportedProblems(c, ps)
        PROVE  UNCHANGED <<min_tier, judges, is_disabled>>
    BY <2>2 DEF SupportedProblems
  <2>3. ASSUME NEW c \in Conn, UpdateProblems(c)
        PROVE  UNCHANGED <<min_tier, judges, is_disabled>>
    BY <1>6, <2>3 DEF UpdateProblems
  <2>4. ASSUME NEW c \in Conn, Close(c) PROVE UNCHANGED <<min_tier, judges, is_disabled>>
    BY <2>4 DEF Close
  <2> QED
    BY <1>4, <1>8, <2>1, <2>2, <2>3, <2>4 DEF Unlocked
<1>9. CASE Restart
  BY <1>9 DEF Restart, MinTier
<1>10. CASE UNCHANGED vars
  BY <1>4, <1>10 DEF vars
<1> QED
  BY <1>7, <1>8, <1>9, <1>10 DEF Next

\* Between any two operations the cached minimum tier is the minimum over the
\* judges that are connected and enabled, as _handle_free_judge and judge()
\* take for granted; what breaks it is a dispatch that throws a judge out of
\* judges, or the flag _connected() writes late.
THEOREM TierIsCurrent == Spec => []MinTierCurrent
<1>1. Spec => []TierInv
  BY InitTierInv, NextKeepsTierInv, PTL DEF Spec
<1>2. TierInv => MinTierCurrent
  BY DEF TierInv
<1> QED
  BY <1>1, <1>2, PTL

-----------------------------------------------------------------------------
(* Who has what *)

\* submission_map, _working, what the judges have and the queue agree.
Exact(m, w, h) ==
    \A c \in Conn, s \in Sub :
        /\ m[s] = c <=> w[c] = s
        /\ s \in h[c] <=> w[c] = s
        /\ Queued(s) => m[s] = None

\* Only a free judge is handed a submission, which nobody has.
LEMMA SubmitKeepsExact ==
    ASSUME NEW c \in Conn, NEW s \in Sub,
           NEW m, MapType(m), NEW w, WorkingType(w), NEW h, HeldType(h),
           Submit(c, s, "ok", m, w, h), Exact(m, w, h), w[c] = None, m[s] = None,
           \A u \in Sub : Queued(u)' => Queued(u) /\ u # s
    PROVE  Exact(submission_map, working, held)'
<1>1. /\ submission_map' = [m EXCEPT ![s] = c]
      /\ working' = [w EXCEPT ![c] = s]
      /\ held' = [h EXCEPT ![c] = @ \cup {s}]
  BY DEF Submit
<1> SUFFICES ASSUME NEW d \in Conn, NEW u \in Sub
             PROVE  /\ submission_map'[u] = d <=> working'[d] = u
                    /\ u \in held'[d] <=> working'[d] = u
                    /\ Queued(u)' => submission_map'[u] = None
  BY DEF Exact
<1>2. m[u] = d <=> w[d] = u
  BY DEF Exact
<1>3. u \in h[d] <=> w[d] = u
  BY DEF Exact
<1>4. Queued(u) => m[u] = None
  BY DEF Exact
<1>5. submission_map'[u] = IF u = s THEN c ELSE m[u]
  BY <1>1 DEF MapType
<1>6. working'[d] = IF d = c THEN s ELSE w[d]
  BY <1>1 DEF WorkingType
<1>7. held'[d] = IF d = c THEN h[d] \cup {s} ELSE h[d]
  BY <1>1 DEF HeldType
<1>8. u # None /\ d # None
  BY ConstantsAssumption
<1> QED
  BY <1>2, <1>3, <1>4, <1>5, <1>6, <1>7, <1>8

\* A free judge that is served.
LEMMA HandleFreeKeepsExact ==
    ASSUME Without(Raising), closed = {}, QueueType, QueuedOnce, judges \subseteq Conn,
           NEW c \in Conn, NEW m, MapType(m), NEW w, WorkingType(w), NEW h, HeldType(h),
           HandleFree(c, m, w, h), Exact(m, w, h), w[c] = None
    PROVE  Exact(submission_map, working, held)'
<1>1. \A u \in Sub : Queued(u)' => Queued(u)
  BY HandleFreeEffect
<1>2. CASE submission_map' = m /\ working' = w /\ held' = h
  BY <1>1, <1>2 DEF Exact
<1>3. CASE ~(submission_map' = m /\ working' = w /\ held' = h)
  <2>1. PICK n \in Eligible(c, w) : \E outcome \in Outcome(c) :
            /\ Submit(c, NodeValue(n).id, outcome, m, w, h)
            /\ queue' = IF outcome = "ok" THEN RemoveNode(n[1], n[2]) ELSE queue
    BY <1>3 DEF HandleFree
  <2>2. Submit(c, NodeValue(n).id, "ok", m, w, h) /\ queue' = RemoveNode(n[1], n[2])
    BY <2>1, OutcomeOk
  <2>3. n \in Nodes
    BY DEF Eligible
  <2>4. \A u : Queued(u)' <=> Queued(u) /\ u # NodeValue(n).id
    BY <2>2, <2>3, RemoveNodeEffect
  <2>5. NodeValue(n).id \in Sub /\ Queued(NodeValue(n).id)
    <3>1. PICK p \in Priorities : \E i \in 1 .. Len(queue[p]) : n = <<p, i>>
      BY <2>3, NodesOfQueue
    <3>2. PICK i \in 1 .. Len(queue[p]) : n = <<p, i>>
      BY <3>1
    <3>3. NodeValue(n) = queue[p][i] /\ queue[p][i] \in Entry
      BY <3>2, NodesOfQueue
    <3> QED
      BY <3>3 DEF Entry, Queued
  <2>6. m[NodeValue(n).id] = None
    BY <2>5 DEF Exact
  <2> QED
    BY <2>2, <2>4, <2>5, <2>6, SubmitKeepsExact
<1> QED
  BY <1>2, <1>3

\* Where the handlers' threads are: a judge that is off has nothing and is not
\* known, one between its unlocked check and update_problems is free, and the
\* operation that holds the lock serves judges that are known and free.
Threads ==
    /\ \A c \in Conn : stage[c] = "off" => working[c] = None /\ c \notin judges
    /\ \A c \in Conn : stage[c] = "kicking" => holder = Idle /\ working[c] = None
    /\ holder.sweep \subseteq judges
    /\ holder.op = "register" =>
          /\ holder.sweep = {}
          /\ holder.conn \in Conn
          /\ working[holder.conn] = None
          /\ stage[holder.conn] # "off"

Calm == Without(Raising \cup {"stale_kick", "late_disable"})

BookInv ==
    /\ TierInv
    /\ Calm => Exact(submission_map, working, held) /\ Threads

LEMMA CalmParts ==
    Calm => /\ Without(Raising)
            /\ "stale_kick" \notin Env
            /\ "late_disable" \notin Env
BY DEF Calm, Without

LEMMA InitBookInv == Init => BookInv
<1> SUFFICES ASSUME Init PROVE BookInv
  OBVIOUS
<1>1. QueueType /\ \A p \in Priorities : Len(queue[p]) = 0
  BY DEF Init, QueueType
<1>2. Exact(submission_map, working, held)
  BY ConstantsAssumption DEF Init, Exact
<1>3. Threads
  BY DEF Init, Threads, Idle
<1> QED
  BY <1>2, <1>3, InitTierInv DEF BookInv

\* What the steps below start from.
LEMMA CalmState ==
    ASSUME BookInv, Calm
    PROVE  /\ TypeOK /\ QueueType /\ QueuedOnce /\ judges \subseteq Conn
           /\ MapType(submission_map) /\ WorkingType(working) /\ HeldType(held)
           /\ closed = {} /\ Without(Raising)
           /\ min_tier = MinTier(judges, is_disabled)
           /\ Exact(submission_map, working, held) /\ Threads
<1>1. Without(Raising) /\ Without(Raising \cup {"late_disable"})
  BY DEF Calm, Without
<1> QED
  BY <1>1, NothingClosed, TypeParts DEF BookInv, TierInv, IInv, MinTierCurrent

\* A step that hands nothing out keeps the books.
LEMMA ExactKept ==
    ASSUME Exact(submission_map, working, held),
           UNCHANGED <<queue, submission_map, working, held>>
    PROVE  Exact(submission_map, working, held)'
BY SameQueue DEF Exact

\* A new judge never raises the minimum: register() sweeps nobody.
LEMMA RegisterSweepsNobody ==
    ASSUME BookInv, Calm, NEW c \in Conn, NEW ps \in SUBSET Kind, Register(c, ps)
    PROVE  holder'.op = "register" /\ holder'.conn = c /\ holder'.sweep = {}
<1> DEFINE d == [is_disabled EXCEPT ![c] = FALSE]
           J == judges \cup {c}
           t == MinTier(J, d)
<1>1. judges \subseteq Conn /\ min_tier = MinTier(judges, is_disabled) /\ c \notin judges
      /\ is_disabled \in [Conn -> BOOLEAN]
  BY CalmState DEF Register, Threads, TypeOK
<1>2. UpdateMinTier(J, d, "register", c)
  BY DEF Register
<1>3. J \in SUBSET Conn /\ c \in J /\ ~d[c]
  BY <1>1
<1>4. min_tier # None => ~(t > min_tier)
  <2> SUFFICES ASSUME min_tier # None PROVE ~(t > min_tier)
    OBVIOUS
  <2>1. PICK k \in judges : ~is_disabled[k]
    BY <1>1 DEF MinTier
  <2>2. PICK j \in judges : ~is_disabled[j] /\ min_tier = Tier[j]
    BY <1>1, <2>1, MinTierIsMinimum
  <2>3. j \in J /\ ~d[j]
    BY <1>1, <2>2
  <2> HIDE DEF d, J
  <2>4. t \in Nat /\ t <= Tier[j] /\ Tier[j] \in Nat
    BY <1>1, <1>3, <2>2, <2>3, MinTierIsMinimum, TierAssumption
  <2> QED
    BY <2>2, <2>4
<1> HIDE DEF d, J
<1> QED
  BY <1>2, <1>4 DEF UpdateMinTier

LEMMA RegisterKeepsBooks ==
    ASSUME BookInv, Calm, NEW c \in Conn, NEW ps \in SUBSET Kind, Register(c, ps)
    PROVE  (Exact(submission_map, working, held) /\ Threads)'
<1>1. TypeOK /\ Threads /\ Exact(submission_map, working, held)
  BY CalmState
<1>2. Exact(submission_map, working, held)'
  BY <1>1, ExactKept DEF Register
<1>3. holder'.op = "register" /\ holder'.conn = c /\ holder'.sweep = {}
  BY RegisterSweepsNobody
<1>4. "stale_kick" \notin Env /\ LockFree /\ stage[c] = "off"
  BY CalmParts DEF Register
<1>5. stage' = [stage EXCEPT ![c] = "registered"] /\ working' = working /\ judges' = judges \cup {c}
  BY DEF Register
<1>6. \A d \in Conn : stage'[d] # "kicking"
  BY <1>1, <1>4, <1>5 DEF LockFree, TypeOK
<1>7. \A d \in Conn : stage'[d] = "off" => d # c /\ stage[d] = "off"
  BY <1>1, <1>5 DEF TypeOK
<1>8. stage'[c] # "off" /\ working'[c] = None
  BY <1>1, <1>4, <1>5 DEF TypeOK, Threads
<1> QED
  BY <1>1, <1>2, <1>3, <1>5, <1>6, <1>7, <1>8 DEF Threads

LEMMA RemoveKeepsBooks ==
    ASSUME BookInv, Calm, NEW c \in Conn, Remove(c)
    PROVE  (Exact(submission_map, working, held) /\ Threads)'
<1>1. TypeOK /\ Threads /\ Exact(submission_map, working, held)
  BY CalmState
<1>2. Exact(submission_map, working, held)'
  <2> SUFFICES ASSUME NEW d \in Conn, NEW u \in Sub
               PROVE  /\ submission_map'[u] = d <=> working'[d] = u
                      /\ u \in held'[d] <=> working'[d] = u
                      /\ Queued(u)' => submission_map'[u] = None
    BY DEF Exact
  <2>1. /\ submission_map[u] = d <=> working[d] = u
        /\ submission_map[u] = c <=> working[c] = u
        /\ u \in held[d] <=> working[d] = u
        /\ Queued(u) => submission_map[u] = None
    BY <1>1 DEF Exact
  <2>2. Queued(u)' <=> Queued(u)
    BY SameQueue DEF Remove
  <2>3. submission_map'[u] = IF working[c] = u THEN None ELSE submission_map[u]
    BY <1>1, ConstantsAssumption DEF Remove, TypeOK
  <2>4. /\ working'[d] = IF d = c THEN None ELSE working[d]
        /\ held'[d] = IF d = c THEN {} ELSE held[d]
    BY <1>1 DEF Remove, TypeOK
  <2>5. u # None /\ d # None
    BY ConstantsAssumption
  <2> QED
    BY <2>1, <2>2, <2>3, <2>4, <2>5
<1>3. /\ holder'.op = "remove"
      /\ holder'.sweep \subseteq judges'
  BY DEF Remove, UpdateMinTier, TierJudges
<1>4. "stale_kick" \notin Env /\ LockFree
  BY CalmParts DEF Remove
<1>5. stage' = [stage EXCEPT ![c] = "off"] /\ working' = [working EXCEPT ![c] = None]
      /\ judges' = judges \ {c}
  BY DEF Remove
<1>6. \A d \in Conn : stage'[d] # "kicking"
  BY <1>1, <1>4, <1>5 DEF LockFree, TypeOK
<1>7. \A d \in Conn : stage'[d] = "off" => working'[d] = None /\ d \notin judges'
  BY <1>1, <1>5 DEF TypeOK, Threads
<1> QED
  BY <1>2, <1>3, <1>6, <1>7 DEF Threads

\* update_disable_judge and remove() for a stranger only touch the tier.
LEMMA TierStepKeepsBooks ==
    ASSUME BookInv, Calm, RemoveStranger \/ \E n \in JudgeName, b \in BOOLEAN : UpdateDisable(n, b)
    PROVE  (Exact(submission_map, working, held) /\ Threads)'
<1>1. TypeOK /\ Threads /\ Exact(submission_map, working, held)
  BY CalmState
<1>2. /\ UNCHANGED <<queue, submission_map, judges, working, stage, held>>
      /\ LockFree
  BY DEF RemoveStranger, UpdateDisable
<1>3. Exact(submission_map, working, held)'
  BY <1>1, <1>2, ExactKept
<1>4. holder'.op # "register" /\ holder'.sweep \subseteq judges'
  BY <1>2 DEF RemoveStranger, UpdateDisable, UpdateMinTier, TierJudges
<1>5. \A d \in Conn : stage'[d] # "kicking"
  BY <1>2, CalmParts DEF LockFree
<1> QED
  BY <1>1, <1>2, <1>3, <1>4, <1>5 DEF Threads

\* _handle_free_judge(j) for a judge that is connected and free.
LEMMA ServeKeepsBooks ==
    ASSUME BookInv, Calm, NEW j \in Conn, working[j] = None, HandleFreeNow(j)
    PROVE  /\ Exact(submission_map, working, held)'
           /\ judges' = judges
           /\ \A d \in Conn \ {j} : working'[d] = working[d]
<1>1. /\ QueueType /\ QueuedOnce /\ judges \subseteq Conn
      /\ MapType(submission_map) /\ WorkingType(working) /\ HeldType(held)
      /\ closed = {} /\ Without(Raising) /\ Exact(submission_map, working, held)
  BY CalmState
<1>2. HandleFree(j, submission_map, working, held)
  BY DEF HandleFreeNow
<1>3. Exact(submission_map, working, held)'
  BY <1>1, <1>2, HandleFreeKeepsExact
<1>4. /\ judges' = judges
      /\ \/ working' = working
         \/ \E s \in Sub : Submit(j, s, "ok", submission_map, working, held)
  BY <1>1, <1>2, HandleFreeOk
<1>5. \A d \in Conn \ {j} : working'[d] = working[d]
  BY <1>1, <1>4 DEF Submit, WorkingType
<1> QED
  BY <1>3, <1>4, <1>5

LEMMA SweepKeepsBooks ==
    ASSUME BookInv, Calm, NEW j \in Conn, Sweep(j)
    PROVE  (Exact(submission_map, working, held) /\ Threads)'
<1>1. TypeOK /\ Threads /\ Exact(submission_map, working, held)
  BY CalmState
<1>2. /\ Exact(submission_map, working, held)'
      /\ judges' = judges
      /\ \A d \in Conn \ {j} : working'[d] = working[d]
  <2>1. CASE working[j] = None
    BY <2>1, ServeKeepsBooks DEF Sweep
  <2>2. CASE working[j] # None
    BY <1>1, <2>2, ExactKept DEF Sweep
  <2> QED
    BY <2>1, <2>2
<1>3. holder'.op = holder.op /\ holder'.sweep \subseteq holder.sweep
  BY <1>1 DEF Sweep, TypeOK
<1>4. j \in holder.sweep /\ j \in judges /\ stage' = stage
  BY <1>1 DEF Sweep, Threads
<1>5. holder.op # "register" /\ holder # Idle
  BY <1>1, <1>4 DEF Threads, Idle
<1>6. \A d \in Conn : stage'[d] # "kicking"
  BY <1>1, <1>4, <1>5 DEF Threads
<1>7. \A d \in Conn : stage'[d] = "off" => working'[d] = None /\ d \notin judges'
  BY <1>1, <1>2, <1>4 DEF Threads
<1> QED
  BY <1>1, <1>2, <1>3, <1>5, <1>6, <1>7 DEF Threads

LEMMA FinishKeepsBooks ==
    ASSUME BookInv, Calm, Finish
    PROVE  (Exact(submission_map, working, held) /\ Threads)'
<1>1. TypeOK /\ Threads /\ Exact(submission_map, working, held)
  BY CalmState
<1>2. CASE UNCHANGED <<queue, submission_map, judges, working, held>>
  <2>1. Exact(submission_map, working, held)'
    BY <1>1, <1>2, ExactKept
  <2>2. holder # Idle /\ holder' = Idle /\ stage' = stage
    BY DEF Finish
  <2> QED
    BY <1>1, <1>2, <2>1, <2>2 DEF Threads, Idle
<1>3. CASE ~UNCHANGED <<queue, submission_map, judges, working, held>>
  <2>1. PICK j \in Conn : /\ HandleFreeNow(j)
                          /\ \/ holder.op = "register" /\ j = holder.conn
                             \/ current_tier_judges = {j} /\ working[j] = None
    BY <1>3 DEF Finish
  <2>2. working[j] = None /\ stage[j] # "off"
    <3>1. CASE holder.op = "register" /\ j = holder.conn
      BY <1>1, <3>1 DEF Threads
    <3>2. CASE current_tier_judges = {j} /\ working[j] = None
      <4>1. j \in judges
        BY <3>2 DEF current_tier_judges, TierJudges
      <4> QED
        BY <1>1, <3>2, <4>1 DEF Threads
    <3> QED
      BY <2>1, <3>1, <3>2
  <2>3. /\ Exact(submission_map, working, held)'
        /\ judges' = judges
        /\ \A d \in Conn \ {j} : working'[d] = working[d]
    BY <2>1, <2>2, ServeKeepsBooks
  <2>4. holder # Idle /\ holder' = Idle /\ stage' = stage
    BY DEF Finish
  <2> QED
    BY <1>1, <2>2, <2>3, <2>4 DEF Threads, Idle
<1> QED
  BY <1>2, <1>3

\* The answer frees its judge before the judge is served.
LEMMA OnJudgeFreeKeepsBooks ==
    ASSUME BookInv, Calm, NEW c \in Conn, NEW s \in Sub, OnJudgeFree(c, s)
    PROVE  (Exact(submission_map, working, held) /\ Threads)'
<1> DEFINE m == [submission_map EXCEPT ![s] = None]
           w == [working EXCEPT ![c] = None]
           h == [held EXCEPT ![c] = @ \ {s}]
<1>1. /\ TypeOK /\ Threads /\ Exact(submission_map, working, held)
      /\ QueueType /\ QueuedOnce /\ judges \subseteq Conn
      /\ MapType(submission_map) /\ WorkingType(working) /\ HeldType(held)
      /\ closed = {} /\ Without(Raising)
  BY CalmState
<1>2. working[c] = s /\ submission_map[s] = c /\ s # None /\ c # None
  BY <1>1, ConstantsAssumption DEF OnJudgeFree, Exact
<1>3. MapType(m) /\ WorkingType(w) /\ HeldType(h) /\ w[c] = None
  BY <1>1 DEF MapType, WorkingType, HeldType
<1>4. Exact(m, w, h)
  <2> SUFFICES ASSUME NEW d \in Conn, NEW u \in Sub
               PROVE  /\ m[u] = d <=> w[d] = u
                      /\ u \in h[d] <=> w[d] = u
                      /\ Queued(u) => m[u] = None
    BY DEF Exact
  <2>1. /\ submission_map[u] = d <=> working[d] = u
        /\ submission_map[u] = c <=> working[c] = u
        /\ u \in held[d] <=> working[d] = u
        /\ Queued(u) => submission_map[u] = None
    BY <1>1 DEF Exact
  <2>2. /\ m[u] = IF u = s THEN None ELSE submission_map[u]
        /\ w[d] = IF d = c THEN None ELSE working[d]
        /\ h[d] = IF d = c THEN held[d] \ {s} ELSE held[d]
    BY <1>1 DEF MapType, WorkingType, HeldType
  <2>3. u # None /\ d # None
    BY ConstantsAssumption
  <2> HIDE DEF m, w, h
  <2> QED
    BY <1>2, <2>1, <2>2, <2>3
<1> HIDE DEF m, w, h
<1>5. HandleFree(c, m, w, h)
  BY <1>2 DEF OnJudgeFree, m, w, h
<1>6. Exact(submission_map, working, held)'
  BY <1>1, <1>3, <1>4, <1>5, HandleFreeKeepsExact
<1>7. /\ judges' = judges
      /\ working' = w \/ \E u \in Sub : Submit(c, u, "ok", m, w, h)
  BY <1>1, <1>5, HandleFreeOk
<1>8. \A d \in Conn \ {c} : working'[d] = working[d]
  <2>1. \A d \in Conn \ {c} : w[d] = working[d]
    BY <1>1 DEF w, WorkingType
  <2> QED
    BY <1>3, <1>7, <2>1 DEF Submit, WorkingType
<1>9. /\ stage[c] = "connected" /\ holder = Idle
      /\ UNCHANGED <<holder, stage>>
      /\ \A d \in Conn : stage[d] # "kicking"
  BY CalmParts DEF OnJudgeFree, LockFree
<1>10. \A d \in Conn : stage'[d] = "off" => working'[d] = None /\ d \notin judges'
  BY <1>1, <1>7, <1>8, <1>9 DEF Threads
<1> QED
  BY <1>1, <1>6, <1>7, <1>9, <1>10 DEF Threads, Idle

LEMMA AbortKeepsBooks ==
    ASSUME BookInv, Calm, NEW s \in Sub, Abort(s)
    PROVE  (Exact(submission_map, working, held) /\ Threads)'
<1>1. Threads /\ Exact(submission_map, working, held) /\ QueueType /\ QueuedOnce
  BY CalmState
<1> PICK n \in Nodes : NodeValue(n).id = s /\ queue' = RemoveNode(n[1], n[2])
  BY DEF Abort
<1>2. \A u : Queued(u)' => Queued(u)
  BY <1>1, RemoveNodeEffect
<1>3. Exact(submission_map, working, held)'
  BY <1>1, <1>2 DEF Abort, Exact
<1>4. Threads'
  BY <1>1 DEF Abort, Threads
<1> QED
  BY <1>3, <1>4

\* judge() hands a submission nobody has to a free judge, or appends its node.
LEMMA JudgeKeepsBooks ==
    ASSUME BookInv, Calm, NEW r \in Requests, Judge(r)
    PROVE  (Exact(submission_map, working, held) /\ Threads)'
<1>1. /\ TypeOK /\ Threads /\ Exact(submission_map, working, held)
      /\ QueueType /\ QueuedOnce /\ judges \subseteq Conn
      /\ MapType(submission_map) /\ WorkingType(working) /\ HeldType(held)
      /\ closed = {} /\ Without(Raising)
  BY CalmState
<1>2. /\ r.id \in Sub /\ r.priority \in Priorities
      /\ [id |-> r.id, judge_id |-> r.judge_id] \in Entry
  BY ConstantsAssumption DEF Request, Entry
<1>3. /\ UNCHANGED <<holder, stage>> /\ holder = Idle
      /\ submission_map[r.id] = None /\ ~Queued(r.id)
      /\ \A d \in Conn : stage[d] # "kicking"
  BY CalmParts DEF Judge, LockFree
<1>4. \/ /\ \E j \in judges : /\ working[j] = None
                              /\ \E outcome \in Outcome(j) :
                                   Submit(j, r.id, outcome, submission_map, working, held)
         /\ queue' = queue
      \/ /\ queue' = [queue EXCEPT ![r.priority] =
                         Append(@, [id |-> r.id, judge_id |-> r.judge_id])]
         /\ UNCHANGED <<submission_map, judges, working, held>>
  <2>1. current_tier_judges \subseteq judges
    BY DEF current_tier_judges, TierJudges
  <2> QED
    BY <2>1 DEF Judge
<1>5. CASE /\ \E j \in judges : /\ working[j] = None
                                /\ \E outcome \in Outcome(j) :
                                     Submit(j, r.id, outcome, submission_map, working, held)
           /\ queue' = queue
  <2>1. PICK j \in judges : /\ working[j] = None
                            /\ \E outcome \in Outcome(j) :
                                 Submit(j, r.id, outcome, submission_map, working, held)
    BY <1>5
  <2>2. j \in Conn /\ Submit(j, r.id, "ok", submission_map, working, held)
    BY <1>1, <2>1, OutcomeOk
  <2>3. \A u \in Sub : Queued(u)' => Queued(u) /\ u # r.id
    BY <1>3, <1>5, SameQueue
  <2>4. Exact(submission_map, working, held)'
    BY <1>1, <1>2, <1>3, <2>1, <2>2, <2>3, SubmitKeepsExact
  <2>5. judges' = judges /\ \A d \in Conn \ {j} : working'[d] = working[d]
    BY <1>1, <2>2 DEF Submit, WorkingType
  <2>6. stage[j] # "off"
    BY <1>1, <2>1, <2>2 DEF Threads
  <2> QED
    BY <1>1, <1>3, <2>4, <2>5, <2>6 DEF Threads, Idle
<1>6. CASE /\ queue' = [queue EXCEPT ![r.priority] =
                           Append(@, [id |-> r.id, judge_id |-> r.judge_id])]
           /\ UNCHANGED <<submission_map, judges, working, held>>
  <2> DEFINE e == [id |-> r.id, judge_id |-> r.judge_id]
  <2>1. e \in Entry /\ e.id = r.id /\ queue' = [queue EXCEPT ![r.priority] = Append(@, e)]
    BY <1>2, <1>6
  <2> HIDE DEF e
  <2>2. \A u : Queued(u)' <=> Queued(u) \/ u = r.id
    BY <1>1, <1>2, <1>3, <2>1, AppendNodeEffect
  <2>3. Exact(submission_map, working, held)'
    BY <1>1, <1>3, <1>6, <2>2 DEF Exact
  <2>4. Threads'
    BY <1>1, <1>3, <1>6 DEF Threads
  <2> QED
    BY <2>3, <2>4
<1> QED
  BY <1>4, <1>5, <1>6

\* What a handler's thread does without the lock: without "stale_kick" nothing
\* falls between its check of _working and update_problems.
LEMMA UnlockedKeepsBooks ==
    ASSUME BookInv, Calm, Unlocked
    PROVE  (Exact(submission_map, working, held) /\ Threads)'
<1>1. TypeOK /\ Threads /\ Exact(submission_map, working, held)
  BY CalmState
<1>2. ASSUME NEW c \in Conn, Connected(c)
      PROVE  (Exact(submission_map, working, held) /\ Threads)'
  <2>1. Exact(submission_map, working, held)'
    BY <1>1, <1>2, ExactKept DEF Connected
  <2>2. stage' = [stage EXCEPT ![c] = "connected"] /\ UNCHANGED <<judges, holder, working>>
    BY <1>2 DEF Connected
  <2>3. /\ \A d \in Conn : stage'[d] = "off" => stage[d] = "off"
        /\ \A d \in Conn : stage'[d] = "kicking" => stage[d] = "kicking"
        /\ stage'[c] # "off"
        /\ \A d \in Conn : stage[d] # "off" => stage'[d] # "off"
    BY <1>1, <2>2 DEF TypeOK
  <2> QED
    BY <1>1, <2>1, <2>2, <2>3 DEF Threads
<1>3. ASSUME NEW c \in Conn, NEW ps \in SUBSET Kind, SupportedProblems(c, ps)
      PROVE  (Exact(submission_map, working, held) /\ Threads)'
  <2>1. Exact(submission_map, working, held)'
    BY <1>1, <1>3, ExactKept DEF SupportedProblems
  <2>2. /\ stage' = [stage EXCEPT ![c] = IF working[c] = None THEN "kicking" ELSE @]
        /\ stage[c] = "connected"
        /\ UNCHANGED <<judges, holder, working>>
        /\ holder = Idle
    BY <1>3, CalmParts DEF SupportedProblems, LockFree
  <2>3. /\ \A d \in Conn : stage'[d] = "off" => stage[d] = "off"
        /\ \A d \in Conn : stage'[d] = "kicking" => stage[d] = "kicking" \/ working[d] = None
    BY <1>1, <2>2 DEF TypeOK
  <2> QED
    BY <1>1, <2>1, <2>2, <2>3 DEF Threads, Idle
<1>4. ASSUME NEW c \in Conn, UpdateProblems(c)
      PROVE  (Exact(submission_map, working, held) /\ Threads)'
  <2>1. /\ stage' = [stage EXCEPT ![c] = "connected"] /\ stage[c] = "kicking"
        /\ UNCHANGED holder /\ holder = Idle /\ HandleFreeNow(c)
    BY <1>4 DEF UpdateProblems
  <2>2. working[c] = None
    BY <1>1, <2>1 DEF Threads
  <2>3. /\ Exact(submission_map, working, held)'
        /\ judges' = judges
        /\ \A d \in Conn \ {c} : working'[d] = working[d]
    BY <2>1, <2>2, ServeKeepsBooks
  <2>4. /\ \A d \in Conn : stage'[d] = "off" => stage[d] = "off" /\ d # c
        /\ \A d \in Conn : stage'[d] = "kicking" => stage[d] = "kicking" /\ d # c
    BY <1>1, <2>1 DEF TypeOK
  <2> QED
    BY <1>1, <2>1, <2>3, <2>4 DEF Threads, Idle
<1>5. ASSUME NEW c \in Conn, Close(c) PROVE FALSE
  BY <1>5 DEF Close, Calm, Without, Raising
<1> QED
  BY <1>2, <1>3, <1>4, <1>5 DEF Unlocked

LEMMA NextKeepsBookInv == BookInv /\ [Next]_vars => BookInv'
<1> SUFFICES ASSUME BookInv, [Next]_vars PROVE BookInv'
  OBVIOUS
<1>1. TierInv'
  BY NextKeepsTierInv DEF BookInv
<1>2. SUFFICES ASSUME Calm PROVE (Exact(submission_map, working, held) /\ Threads)'
  BY <1>1 DEF BookInv, Calm, Without
<1>3. CASE Locked
  <2>1. ASSUME NEW n \in JudgeName, Disconnect(n) PROVE FALSE
    BY <1>2, <2>1 DEF Disconnect, Calm, Without, Raising
  <2> QED
    BY <1>2, <1>3, <2>1, RegisterKeepsBooks, RemoveKeepsBooks, TierStepKeepsBooks,
       SweepKeepsBooks, FinishKeepsBooks, OnJudgeFreeKeepsBooks, AbortKeepsBooks,
       JudgeKeepsBooks, Zenon DEF Locked
<1>4. CASE Unlocked
  BY <1>2, <1>4, UnlockedKeepsBooks
<1>5. CASE Restart
  <2>1. Init'
    BY <1>5 DEF Restart, Init
  <2>2. (Init => BookInv)'
    BY InitBookInv, PTL
  <2> QED
    BY <1>2, <2>1, <2>2 DEF BookInv, Calm, Without
<1>6. CASE UNCHANGED vars
  <2>1. Threads /\ Exact(submission_map, working, held)
    BY <1>2, CalmState
  <2>2. Exact(submission_map, working, held)'
    BY <1>6, <2>1, ExactKept DEF vars
  <2>3. Threads'
    BY <1>6, <2>1 DEF vars, Threads
  <2> QED
    BY <2>2, <2>3
<1> QED
  BY <1>3, <1>4, <1>5, <1>6 DEF Next

\* As long as no dispatch raises and no thread acts on a stale check, a judge
\* works on one submission, the one that has an entry for it; no entry is left
\* behind, and what is queued is at no judge -- for any number of judges.
THEOREM BooksAgree == Spec => []OneAtATime
<1>1. Spec => []BookInv
  BY InitBookInv, NextKeepsBookInv, PTL DEF Spec
<1>2. BookInv => OneAtATime
  BY DEF BookInv, OneAtATime, Calm, Exact
<1> QED
  BY <1>1, <1>2, PTL

-----------------------------------------------------------------------------
(* The judge kept in reserve *)

\* _handle_free_judge removes a judge at most, one whose submit() raised.
LEMMA HandleFreeJudges ==
    ASSUME NEW c, NEW m, NEW w, NEW h, HandleFree(c, m, w, h)
    PROVE  judges' \subseteq judges
BY DEF HandleFree, Submit

\* A bridge knows finitely many judges: register() adds one, nothing else adds.
LEMMA NextKeepsJudgesFinite == IsFiniteSet(judges) /\ [Next]_vars => IsFiniteSet(judges)'
<1> SUFFICES ASSUME IsFiniteSet(judges), [Next]_vars PROVE IsFiniteSet(judges')
  OBVIOUS
<1>1. ASSUME judges' \subseteq judges PROVE IsFiniteSet(judges')
  BY <1>1, FS_Subset
<1>2. ASSUME NEW c \in Conn, HandleFreeNow(c) PROVE judges' \subseteq judges
  BY <1>2, HandleFreeJudges DEF HandleFreeNow
<1>3. CASE Locked
  <2>1. ASSUME NEW c \in Conn, NEW ps \in SUBSET Kind, Register(c, ps) PROVE IsFiniteSet(judges')
    BY <2>1, FS_AddElement DEF Register
  <2>2. ASSUME NEW c \in Conn, Remove(c) PROVE judges' \subseteq judges
    BY <2>2 DEF Remove
  <2>3. ASSUME NEW n \in JudgeName, Disconnect(n) PROVE judges' \subseteq judges
    BY <2>3 DEF Disconnect
  <2>4. ASSUME RemoveStranger PROVE judges' \subseteq judges
    BY <2>4 DEF RemoveStranger
  <2>5. ASSUME NEW n \in JudgeName, NEW b \in BOOLEAN, UpdateDisable(n, b)
        PROVE  judges' \subseteq judges
    BY <2>5 DEF UpdateDisable
  <2>6. ASSUME NEW j \in Conn, Sweep(j) PROVE judges' \subseteq judges
    BY <1>2, <2>6 DEF Sweep
  <2>7. ASSUME Finish PROVE judges' \subseteq judges
    BY <1>2, <2>7 DEF Finish
  <2>8. ASSUME NEW c \in Conn, NEW s \in Sub, OnJudgeFree(c, s) PROVE judges' \subseteq judges
    BY <2>8, HandleFreeJudges DEF OnJudgeFree
  <2>9. ASSUME NEW s \in Sub, Abort(s) PROVE judges' \subseteq judges
    BY <2>9 DEF Abort
  <2>10. ASSUME NEW r \in Requests, Judge(r) PROVE judges' \subseteq judges
    BY <2>10 DEF Judge, Submit
  <2> QED
    BY <1>1, <1>3, <2>1, <2>2, <2>3, <2>4, <2>5, <2>6, <2>7, <2>8, <2>9, <2>10 DEF Locked
<1>4. CASE Unlocked
  <2>1. judges' \subseteq judges
    BY <1>2, <1>4 DEF Unlocked, Connected, SupportedProblems, UpdateProblems, Close
  <2> QED
    BY <1>1, <2>1
<1>5. CASE Restart
  BY <1>5, FS_EmptySet DEF Restart
<1>6. CASE UNCHANGED vars
  BY <1>6 DEF vars
<1> QED
  BY <1>3, <1>4, <1>5, <1>6 DEF Next

\* The walk of the queue hands s to c: the first node that c may be handed when
\* the judges work on w.
WalkHands(s, c) ==
    \E w \in [Conn -> Sub \cup {None}] : \E n \in Eligible(c, w) :
        /\ NodeValue(n).id = s
        /\ \A k \in Eligible(c, w) : ~Before(k, n)
        /\ \A d \in Conn \ {c} : working'[d] = w[d]

LEMMA HandleFreeHands ==
    ASSUME NEW j \in Conn, NEW m, NEW w, WorkingType(w), NEW h, HeldType(h),
           HandleFree(j, m, w, h),
           NEW s \in Sub, NEW c \in Conn, s \notin h[c], s \in held'[c]
    PROVE  WalkHands(s, c)
<1>1. held' # h
  OBVIOUS
<1>2. PICK n \in Eligible(j, w), outcome \in Outcome(j) :
         /\ \A k \in Eligible(j, w) : ~Before(k, n)
         /\ Submit(j, NodeValue(n).id, outcome, m, w, h)
  BY <1>1 DEF HandleFree
<1>3. held' = [h EXCEPT ![j] = @ \cup {NodeValue(n).id}]
  BY <1>1, <1>2 DEF Submit
<1>4. c = j /\ NodeValue(n).id = s
  BY <1>3 DEF HeldType
<1>5. \A d \in Conn \ {c} : working'[d] = w[d]
  BY <1>2, <1>4 DEF Submit, WorkingType
<1> QED
  BY <1>2, <1>4, <1>5 DEF WalkHands, WorkingType

\* A judge gets a submission by judge() or from the queue, in no other way.
LEMMA Handing ==
    ASSUME TypeOK, [Next]_vars, NEW s \in Sub, NEW c \in Conn, Handed(s, c)
    PROVE  \/ \E r \in Requests : r.id = s /\ Judge(r)
           \/ WalkHands(s, c)
<1> HIDE DEF WalkHands
<1>1. WorkingType(working) /\ HeldType(held) /\ judges \subseteq Conn
  BY TypeParts
<1>2. s \notin held[c] /\ s \in held'[c]
  BY DEF Handed
<1>3. ASSUME NEW j \in Conn, HandleFreeNow(j) PROVE WalkHands(s, c)
  BY <1>1, <1>2, <1>3, HandleFreeHands DEF HandleFreeNow
<1>4. CASE Locked
  <2>1. ASSUME NEW d \in Conn, NEW ps \in SUBSET Kind, Register(d, ps) PROVE FALSE
    BY <1>2, <2>1 DEF Register
  <2>2. ASSUME NEW d \in Conn, Remove(d) PROVE FALSE
    <3>1. held' = [held EXCEPT ![d] = {}]
      BY <2>2 DEF Remove
    <3> QED
      BY <1>1, <1>2, <3>1 DEF HeldType
  <2>3. ASSUME NEW n \in JudgeName, Disconnect(n) PROVE FALSE
    BY <1>2, <2>3 DEF Disconnect
  <2>4. ASSUME RemoveStranger PROVE FALSE
    BY <1>2, <2>4 DEF RemoveStranger
  <2>5. ASSUME NEW n \in JudgeName, NEW b \in BOOLEAN, UpdateDisable(n, b) PROVE FALSE
    BY <1>2, <2>5 DEF UpdateDisable
  <2>6. ASSUME NEW j \in Conn, Sweep(j) PROVE WalkHands(s, c)
    BY <1>2, <1>3, <2>6 DEF Sweep
  <2>7. ASSUME Finish PROVE WalkHands(s, c)
    BY <1>2, <1>3, <2>7 DEF Finish
  <2>8. ASSUME NEW d \in Conn, NEW u \in Sub, OnJudgeFree(d, u) PROVE WalkHands(s, c)
    <3> DEFINE h == [held EXCEPT ![d] = @ \ {u}]
               w == [working EXCEPT ![d] = None]
               m == [submission_map EXCEPT ![u] = None]
    <3>1. HeldType(h) /\ WorkingType(w) /\ s \notin h[c]
      BY <1>1, <1>2 DEF HeldType, WorkingType
    <3> HIDE DEF h, w, m
    <3>2. held' = h \/ HandleFree(d, m, w, h)
      BY <2>8 DEF OnJudgeFree, h, w, m
    <3> QED
      BY <1>2, <3>1, <3>2, HandleFreeHands
  <2>9. ASSUME NEW u \in Sub, Abort(u) PROVE FALSE
    BY <1>2, <2>9 DEF Abort
  <2>10. ASSUME NEW r \in Requests, Judge(r) PROVE r.id = s
    <3>1. PICK j \in current_tier_judges : \E outcome \in Outcome(j) :
             Submit(j, r.id, outcome, submission_map, working, held)
      BY <1>2, <2>10 DEF Judge
    <3>2. j \in Conn
      BY <1>1 DEF current_tier_judges, TierJudges
    <3>3. held' = held \/ held' = [held EXCEPT ![j] = @ \cup {r.id}]
      BY <3>1 DEF Submit
    <3> QED
      BY <1>1, <1>2, <3>2, <3>3 DEF HeldType
  <2> QED
    BY <1>4, <2>1, <2>2, <2>3, <2>4, <2>5, <2>6, <2>7, <2>8, <2>9, <2>10 DEF Locked
<1>5. CASE Unlocked
  <2>1. PICK d \in Conn : UpdateProblems(d)
    BY <1>2, <1>5 DEF Unlocked, Connected, SupportedProblems, Close
  <2> QED
    BY <1>3, <2>1 DEF UpdateProblems
<1>6. CASE Restart
  BY <1>2, <1>6 DEF Restart
<1>7. CASE UNCHANGED vars
  BY <1>2, <1>7 DEF vars
<1> QED
  BY <1>4, <1>5, <1>6, <1>7 DEF Next

\* Of a set with more than one element another one is left.
LEMMA AnotherOne ==
    ASSUME NEW S, IsFiniteSet(S), ~(Cardinality(S) <= 1), NEW x
    PROVE  \E y \in S : y # x
<1> SUFFICES ASSUME \A y \in S : y = x PROVE FALSE
  OBVIOUS
<1>1. S \subseteq {x}
  OBVIOUS
<1>2. Cardinality(S) <= Cardinality({x})
  BY <1>1, FS_Subset, FS_Singleton
<1>3. Cardinality({x}) = 1
  BY FS_Singleton
<1> QED
  BY <1>2, <1>3

LEMMA TierIsFinite ==
    ASSUME IsFiniteSet(judges), NEW S \in SUBSET current_tier_judges
    PROVE  IsFiniteSet(S) /\ Cardinality(S) \in Nat /\ IsFiniteSet(current_tier_judges)
           /\ Cardinality(current_tier_judges) \in Nat
           /\ Cardinality(S) <= Cardinality(current_tier_judges)
<1>1. current_tier_judges \subseteq judges
  BY DEF current_tier_judges, TierJudges
<1>2. IsFiniteSet(current_tier_judges)
  BY <1>1, FS_Subset
<1>3. IsFiniteSet(S) /\ Cardinality(S) <= Cardinality(current_tier_judges)
  BY <1>2, FS_Subset
<1> QED
  BY <1>2, <1>3, FS_CardinalityType

\* No step hands a rejudge to the last free judge of a tier of several, whatever
\* may happen besides: neither the walk of the queue (should_reserve_judge), nor
\* judge() when every judge of the tier could have taken the rejudge.
LEMMA ReserveStep ==
    ASSUME IInv, IsFiniteSet(judges), [Next]_vars, NEW s \in Sub
    PROVE  ~TakesTheLast(s)
<1> SUFFICES ASSUME TakesTheLast(s) PROVE FALSE
  OBVIOUS
<1>1. /\ TypeOK /\ QueueType /\ QueuedOnce /\ judges \subseteq Conn
      /\ WorkingType(working) /\ HeldType(held)
  BY TypeParts DEF IInv
<1>2. /\ Cardinality(current_tier_judges) > 1
      /\ \A d \in current_tier_judges : working'[d] # None
      /\ current_tier_judges \subseteq Conn
  BY <1>1 DEF TakesTheLast, current_tier_judges, TierJudges
<1>3. PICK c \in Conn : Handed(s, c)
  BY DEF TakesTheLast
<1>4. CASE \E n \in Nodes : n[1] >= REJUDGE_PRIORITY /\ NodeValue(n).id = s
  <2>1. PICK n \in Nodes : n[1] >= REJUDGE_PRIORITY /\ NodeValue(n).id = s
    BY <1>4
  <2>2. Queued(s)
    <3>1. PICK p \in Priorities : \E i \in 1 .. Len(queue[p]) : n = <<p, i>>
      BY <1>1, NodesOfQueue
    <3>2. PICK i \in 1 .. Len(queue[p]) : n = <<p, i>>
      BY <3>1
    <3> QED
      BY <1>1, <2>1, <3>2, NodesOfQueue DEF Queued
  <2>3. WalkHands(s, c)
    BY <1>1, <1>3, <2>2, Handing DEF Judge
  <2>4. PICK w \in [Conn -> Sub \cup {None}] : \E k \in Eligible(c, w) :
            NodeValue(k).id = s /\ \A d \in Conn \ {c} : working'[d] = w[d]
    BY <2>3 DEF WalkHands
  <2>5. n \in Eligible(c, w)
    BY <1>1, <2>1, <2>4 DEF Eligible, QueuedOnce
  <2> DEFINE free == {j \in current_tier_judges : w[j] = None}
  <2>6. ~(Cardinality(free) <= 1)
    BY <1>2, <2>1, <2>5 DEF Eligible, should_reserve_judge
  <2>7. IsFiniteSet(free)
    BY TierIsFinite
  <2>8. PICK d \in free : d # c
    BY <2>6, <2>7, AnotherOne
  <2> QED
    BY <1>2, <2>4, <2>8
<1>5. CASE \E r \in Requests : /\ r.id = s /\ r.priority >= REJUDGE_PRIORITY
                               /\ Judge(r)
                               /\ \A d \in current_tier_judges :
                                     can_judge(d, KindOf[s], r.judge_id)
  <2>1. PICK r \in Requests : /\ r.id = s /\ r.priority >= REJUDGE_PRIORITY
                              /\ Judge(r)
                              /\ \A d \in current_tier_judges :
                                    can_judge(d, KindOf[s], r.judge_id)
    BY <1>5
  <2> DEFINE candidates == {j \in current_tier_judges : can_judge(j, KindOf[r.id], r.judge_id)}
             free == {j \in candidates : working[j] = None}
  <2>2. candidates = current_tier_judges
    BY <2>1
  <2>3. held' # held
    BY <1>3 DEF Handed
  <2>4. /\ Cardinality(free) # 1
        /\ \E j \in free : \E outcome \in Outcome(j) :
              Submit(j, r.id, outcome, submission_map, working, held)
    BY <1>2, <2>1, <2>2, <2>3 DEF Judge
  <2>5. PICK j \in free : \E outcome \in Outcome(j) :
              Submit(j, r.id, outcome, submission_map, working, held)
    BY <2>4
  <2>6. IsFiniteSet(free) /\ Cardinality(free) \in Nat
    BY <2>2, TierIsFinite
  <2>7. Cardinality(free) # 0
    BY <2>5, <2>6, FS_EmptySet
  <2>8. ~(Cardinality(free) <= 1)
    BY <2>4, <2>6, <2>7
  <2>9. PICK d \in free : d # j
    BY <2>6, <2>8, AnotherOne
  <2>10. j \in Conn /\ d \in Conn /\ working[d] = None /\ d \in current_tier_judges
    BY <1>2, <2>2, <2>9
  <2>11. working'[d] = None
    BY <1>1, <2>5, <2>9, <2>10 DEF Submit, WorkingType
  <2> QED
    BY <1>2, <2>10, <2>11
<1> QED
  BY <1>4, <1>5 DEF TakesTheLast

\* While a tier has several judges, one of them stays free for new submissions,
\* whatever the environment does, and however many judges there are.
THEOREM ReserveIsKept == Spec => KeepsAReserve
<1> DEFINE Inv == IInv /\ IsFiniteSet(judges)
<1>1. Init => Inv
  BY InitIInv, FS_EmptySet DEF Init
<1>2. Inv /\ [Next]_vars => Inv'
  BY NextKeeps, NextKeepsJudgesFinite
<1>3. Inv /\ [Next]_vars => [\A s \in Sub : ~TakesTheLast(s)]_vars
  BY ReserveStep
<1> QED
  BY <1>1, <1>2, <1>3, PTL DEF Spec, KeepsAReserve

-----------------------------------------------------------------------------
(* No idle judge beside what it could do *)

Waits(p, e) == \E i \in 1 .. Len(queue[p]) : queue[p][i] = e

\* Somebody is about to serve c: its thread, between the unlocked check and
\* update_problems; the sweep over the new tier; the end of its register().
Owed(c) ==
    \/ stage[c] = "kicking"
    \/ c \in holder.sweep
    \/ holder.op = "register" /\ holder.conn = c

\* WorkConserving, at every step of an operation: an idle judge of the tier that
\* is owed nothing finds no new submission it could take, and a rejudge only when
\* the tier has several judges or remove() has yet to serve the only one left.
Busy ==
    \A c \in current_tier_judges, p \in Priorities, e \in Entry :
        /\ working[c] = None
        /\ ~Owed(c)
        /\ Waits(p, e)
        /\ can_judge(c, KindOf[e.id], e.judge_id)
        => /\ p >= REJUDGE_PRIORITY
           /\ Without({"disable"}) =>
                Cardinality(current_tier_judges) > 1 \/ holder.op = "remove"

Diligent == Without(Raising \cup {"stale_kick", "late_disable", "enable"})

WorkInv ==
    /\ BookInv
    /\ IsFiniteSet(judges)
    /\ Diligent => Busy

LEMMA DiligentParts == Diligent => Calm /\ "enable" \notin Env
BY DEF Diligent, Calm, Without

LEMMA WaitsIsQueued ==
    ASSUME QueueType
    PROVE  /\ \A n \in Nodes : /\ n[1] \in Priorities
                               /\ NodeValue(n) \in Entry
                               /\ Waits(n[1], NodeValue(n))
           /\ \A p \in Priorities : \A e : Waits(p, e) =>
                \E n \in Nodes : n[1] = p /\ NodeValue(n) = e
<1>1. ASSUME NEW n \in Nodes
      PROVE  n[1] \in Priorities /\ NodeValue(n) \in Entry /\ Waits(n[1], NodeValue(n))
  <2>1. PICK p \in Priorities : \E i \in 1 .. Len(queue[p]) : n = <<p, i>>
    BY NodesOfQueue
  <2>2. PICK i \in 1 .. Len(queue[p]) : n = <<p, i>>
    BY <2>1
  <2> QED
    BY <2>2, NodesOfQueue DEF Waits
<1>2. ASSUME NEW p \in Priorities, NEW e, Waits(p, e)
      PROVE  \E n \in Nodes : n[1] = p /\ NodeValue(n) = e
  <2>1. PICK i \in 1 .. Len(queue[p]) : queue[p][i] = e
    BY <1>2 DEF Waits
  <2>2. <<p, i>> \in Nodes /\ NodeValue(<<p, i>>) = e /\ <<p, i>>[1] = p
    BY <2>1, NodesOfQueue
  <2> QED
    BY <2>2
<1> QED
  BY <1>1, <1>2

\* The walk and an abort take nodes away, judge() adds one.
LEMMA RemoveNodeWaits ==
    ASSUME QueueType, NEW n \in Nodes, queue' = RemoveNode(n[1], n[2]),
           NEW p \in Priorities, NEW e, Waits(p, e)'
    PROVE  Waits(p, e)
<1>1. PICK q \in Priorities : \E i \in 1 .. Len(queue[q]) : n = <<q, i>>
  BY NodesOfQueue
<1>2. PICK i \in 1 .. Len(queue[q]) : n = <<q, i>>
  BY <1>1
<1> DEFINE t == SubSeq(queue[q], 1, i - 1) \o SubSeq(queue[q], i + 1, Len(queue[q]))
<1>3. queue' = [queue EXCEPT ![q] = t]
  BY <1>2 DEF RemoveNode
<1>4. queue[q] \in Seq(Entry) /\ Len(queue[q]) \in Nat
  BY LenProperties DEF QueueType
<1>5. /\ Len(t) = Len(queue[q]) - 1
      /\ \A k \in 1 .. Len(queue[q]) - 1 : t[k] = queue[q][IF k < i THEN k ELSE k + 1]
  BY <1>4, WithoutEntry
<1> HIDE DEF t
<1>6. CASE p = q
  <2>1. PICK k \in 1 .. Len(t) : t[k] = e
    BY <1>3, <1>6 DEF Waits, QueueType
  <2>2. (IF k < i THEN k ELSE k + 1) \in 1 .. Len(queue[q])
    BY <1>4, <1>5, <2>1
  <2> QED
    BY <1>5, <1>6, <2>1, <2>2 DEF Waits
<1>7. CASE p # q
  BY <1>3, <1>7 DEF Waits, QueueType
<1> QED
  BY <1>6, <1>7

LEMMA AppendNodeWaits ==
    ASSUME QueueType, NEW q \in Priorities, NEW x \in Entry,
           queue' = [queue EXCEPT ![q] = Append(@, x)],
           NEW p \in Priorities, NEW e, Waits(p, e)'
    PROVE  Waits(p, e) \/ (p = q /\ e = x)
<1>1. queue[q] \in Seq(Entry) /\ Len(queue[q]) \in Nat
  BY LenProperties DEF QueueType
<1>2. /\ Len(Append(queue[q], x)) = Len(queue[q]) + 1
      /\ \A k \in 1 .. Len(queue[q]) : Append(queue[q], x)[k] = queue[q][k]
      /\ Append(queue[q], x)[Len(queue[q]) + 1] = x
  BY <1>1, AppendProperties
<1>3. CASE p = q
  <2>1. queue'[p] = Append(queue[q], x)
    BY <1>3 DEF QueueType
  <2>2. PICK k \in 1 .. Len(queue[q]) + 1 : Append(queue[q], x)[k] = e
    BY <1>2, <2>1 DEF Waits
  <2>3. k \in 1 .. Len(queue[q]) \/ k = Len(queue[q]) + 1
    BY <1>1, <2>2
  <2> QED
    BY <1>2, <1>3, <2>2, <2>3 DEF Waits
<1>4. CASE p # q
  BY <1>4 DEF Waits, QueueType
<1> QED
  BY <1>3, <1>4

LEMMA HandleFreeWaits ==
    ASSUME QueueType, NEW c, NEW m, NEW w, NEW h, HandleFree(c, m, w, h),
           NEW p \in Priorities, NEW e, Waits(p, e)'
    PROVE  Waits(p, e)
<1>1. queue' = queue \/ \E n \in Nodes : queue' = RemoveNode(n[1], n[2])
  BY DEF HandleFree, Eligible
<1>2. CASE queue' = queue
  BY <1>2 DEF Waits
<1> QED
  BY <1>1, <1>2, RemoveNodeWaits

\* A step after which what a judge could take, and the judges of the tier, are
\* what they were keeps Busy: fewer nodes, and no judge idle that was not.
LEMMA BusyKept ==
    ASSUME Busy, UNCHANGED <<judges, is_disabled, min_tier>>,
           \A p \in Priorities : \A e \in Entry : Waits(p, e)' => Waits(p, e),
           \A c \in current_tier_judges : working'[c] = None /\ ~Owed(c)' =>
               /\ working[c] = None
               /\ ~Owed(c)
               /\ problems'[c] = problems[c],
           holder'.op = holder.op \/ holder.op # "remove"
    PROVE  Busy'
<1>1. current_tier_judges' = current_tier_judges
  BY DEF current_tier_judges
<1> SUFFICES ASSUME NEW c \in current_tier_judges, NEW p \in Priorities, NEW e \in Entry,
                    working'[c] = None, ~Owed(c)', Waits(p, e)',
                    can_judge(c, KindOf[e.id], e.judge_id)'
             PROVE  /\ p >= REJUDGE_PRIORITY
                    /\ Without({"disable"}) =>
                          Cardinality(current_tier_judges) > 1 \/ holder'.op = "remove"
  BY <1>1 DEF Busy, Without
<1>2. can_judge(c, KindOf[e.id], e.judge_id)
  BY DEF can_judge
<1> QED
  BY <1>2 DEF Busy

\* After its walk a judge of the tier works, or there was nothing for it.
LEMMA ServedJudge ==
    ASSUME Calm, closed = {}, QueueType, QueuedOnce, judges \subseteq Conn,
           IsFiniteSet(judges), min_tier \in Nat \cup {None},
           NEW c \in current_tier_judges, NEW m, NEW w, WorkingType(w), NEW h,
           HandleFree(c, m, w, h), working'[c] = None,
           NEW p \in Priorities, NEW e \in Entry, Waits(p, e)',
           can_judge(c, KindOf[e.id], e.judge_id)
    PROVE  p >= REJUDGE_PRIORITY /\ Cardinality(current_tier_judges) > 1
<1>1. c \in judges /\ c \in Conn /\ Tier[c] = min_tier
  BY DEF current_tier_judges, TierJudges
<1>2. min_tier # None /\ Tier[c] <= min_tier
  BY <1>1, TierAssumption
<1>3. /\ ~Serves(c, w)
      /\ queue' = queue
  <2> SUFFICES ASSUME Serves(c, w) PROVE FALSE
    BY DEF HandleFree
  <2>1. PICK n \in Eligible(c, w), outcome \in Outcome(c) :
            Submit(c, NodeValue(n).id, outcome, m, w, h)
    BY DEF HandleFree
  <2>2. outcome = "ok"
    BY <1>1, OutcomeOk, CalmParts
  <2>3. working' = [w EXCEPT ![c] = NodeValue(n).id]
    BY <2>1, <2>2 DEF Submit
  <2>4. NodeValue(n).id \in Sub
    BY WaitsIsQueued DEF Eligible, Entry
  <2> QED
    BY <1>1, <2>3, <2>4, ConstantsAssumption DEF WorkingType
<1>4. Eligible(c, w) = {}
  BY <1>2, <1>3 DEF Serves
<1>5. Waits(p, e)
  BY <1>3 DEF Waits
<1>6. PICK n \in Nodes : n[1] = p /\ NodeValue(n) = e
  BY <1>5, WaitsIsQueued
<1>7. p >= REJUDGE_PRIORITY /\ should_reserve_judge(w)
  BY <1>4, <1>6 DEF Eligible
<1> QED
  BY <1>7 DEF should_reserve_judge

\* Serving c, whatever it worked on before.
LEMMA BusyAfterServing ==
    ASSUME Busy, Calm, closed = {}, QueueType, QueuedOnce, judges \subseteq Conn,
           IsFiniteSet(judges), min_tier \in Nat \cup {None},
           MapType(submission_map), WorkingType(working), HeldType(held),
           NEW c \in Conn, NEW m, MapType(m), NEW w, WorkingType(w), NEW h, HeldType(h),
           HandleFree(c, m, w, h),
           \A d \in Conn \ {c} : w[d] = working[d],
           UNCHANGED <<is_disabled, min_tier, problems>>,
           \A d \in Conn \ {c} : Owed(d) => Owed(d)',
           holder'.op = holder.op \/ holder.op # "remove" \/ current_tier_judges = {c}
    PROVE  Busy'
<1>1. judges' = judges
  BY HandleFreeOk, CalmParts
<1>2. current_tier_judges' = current_tier_judges
  BY <1>1 DEF current_tier_judges
<1> SUFFICES ASSUME NEW d \in current_tier_judges, NEW p \in Priorities, NEW e \in Entry,
                    working'[d] = None, ~Owed(d)', Waits(p, e)',
                    can_judge(d, KindOf[e.id], e.judge_id)'
             PROVE  /\ p >= REJUDGE_PRIORITY
                    /\ Without({"disable"}) =>
                          Cardinality(current_tier_judges) > 1 \/ holder'.op = "remove"
  BY <1>2 DEF Busy, Without
<1>3. can_judge(d, KindOf[e.id], e.judge_id) /\ d \in Conn
  BY DEF can_judge, current_tier_judges, TierJudges
<1>4. CASE d = c
  BY <1>3, <1>4, ServedJudge
<1>5. CASE d # c
  <2>1. working[d] = None /\ ~Owed(d)
    <3>1. working' = w \/ \E s \in Sub : Submit(c, s, "ok", m, w, h)
      BY HandleFreeOk, CalmParts
    <3>2. working'[d] = w[d]
      BY <1>3, <1>5, <3>1 DEF Submit, WorkingType
    <3> QED
      BY <1>3, <1>5, <3>2
  <2>2. Waits(p, e)
    BY HandleFreeWaits
  <2>3. holder'.op = holder.op \/ holder.op # "remove"
    BY <1>5
  <2>4. /\ p >= REJUDGE_PRIORITY
        /\ Without({"disable"}) =>
             Cardinality(current_tier_judges) > 1 \/ holder.op = "remove"
    BY <1>3, <2>1, <2>2 DEF Busy
  <2> QED
    BY <2>3, <2>4
<1> QED
  BY <1>4, <1>5

-----------------------------------------------------------------------------
(* Every step keeps the judges busy *)

LEMMA InitWorkInv == Init => WorkInv
<1> SUFFICES ASSUME Init PROVE WorkInv
  OBVIOUS
<1>1. Busy
  BY DEF Init, Busy, current_tier_judges, TierJudges
<1> QED
  BY <1>1, InitBookInv, FS_EmptySet DEF WorkInv, Init

\* What the steps below start from.
LEMMA DiligentState ==
    ASSUME WorkInv, Diligent
    PROVE  /\ Busy /\ BookInv /\ Calm /\ IsFiniteSet(judges)
           /\ TypeOK /\ QueueType /\ QueuedOnce /\ judges \subseteq Conn
           /\ MapType(submission_map) /\ WorkingType(working) /\ HeldType(held)
           /\ closed = {} /\ min_tier = MinTier(judges, is_disabled)
           /\ min_tier \in Nat \cup {None} /\ Threads
           /\ "enable" \notin Env /\ "stale_kick" \notin Env
<1>1. BookInv /\ Calm /\ "enable" \notin Env /\ "stale_kick" \notin Env
  BY DiligentParts, CalmParts DEF WorkInv
<1>2. TypeOK /\ min_tier \in Nat \cup {None}
  BY <1>1, CalmState DEF TypeOK
<1> QED
  BY <1>1, <1>2, CalmState DEF WorkInv

\* When no operation holds the lock and no thread is at update_problems, nobody
\* is owed anything.
LEMMA NobodyOwed ==
    ASSUME LockFree, "stale_kick" \notin Env, NEW c \in Conn
    PROVE  ~Owed(c)
BY DEF LockFree, Owed, Idle

\* Whoever is in the tier after judges left or were disabled was in it before,
\* or _update_min_tier sweeps it.
LEMMA TierShrinks ==
    ASSUME judges \subseteq Conn, min_tier = MinTier(judges, is_disabled),
           NEW J \in SUBSET judges, NEW f, \A j \in J : ~f[j] => ~is_disabled[j],
           NEW op, NEW x, UpdateMinTier(J, f, op, x),
           NEW c \in TierJudges(J, f, min_tier'), c \notin holder'.sweep
    PROVE  c \in current_tier_judges
<1>1. c \in J /\ ~f[c] /\ Tier[c] = min_tier' /\ c \in judges /\ ~is_disabled[c]
  BY DEF TierJudges
<1>2. /\ min_tier \in Nat /\ min_tier <= Tier[c] /\ Tier[c] \in Nat
  BY <1>1, MinTierIsMinimum, TierAssumption
<1>3. ~(min_tier' > min_tier)
  BY <1>1, <1>2, TierAssumption DEF UpdateMinTier
<1> QED
  BY <1>1, <1>2, <1>3 DEF current_tier_judges, TierJudges

\* A judge that connects is owed a walk; it shares the tier, takes it, or is not
\* in it.
LEMMA RegisterKeepsBusy ==
    ASSUME WorkInv, Diligent, NEW c \in Conn, NEW ps \in SUBSET Kind, Register(c, ps)
    PROVE  Busy'
<1>1. /\ Busy /\ BookInv /\ Calm /\ IsFiniteSet(judges) /\ TypeOK /\ Threads
      /\ judges \subseteq Conn /\ min_tier = MinTier(judges, is_disabled)
      /\ "stale_kick" \notin Env
  BY DiligentState
<1> DEFINE f == [is_disabled EXCEPT ![c] = FALSE]
           J == judges \cup {c}
<1>2. /\ judges' = J /\ is_disabled' = f /\ UpdateMinTier(J, f, "register", c)
      /\ problems' = [problems EXCEPT ![c] = ps]
      /\ UNCHANGED <<queue, working>>
      /\ LockFree /\ stage[c] = "off" /\ holder.op = "idle"
  BY DEF Register, LockFree, Idle
<1>3. c \notin judges /\ \A d \in judges : f[d] = is_disabled[d] /\ problems'[d] = problems[d]
  BY <1>1, <1>2 DEF Threads, TypeOK
<1>4. Owed(c)'
  BY RegisterSweepsNobody, <1>1 DEF Owed
<1>5. ASSUME NEW d \in current_tier_judges', d # c
      PROVE  d \in current_tier_judges /\ current_tier_judges \subseteq current_tier_judges'
  <2>1. d \in judges /\ ~is_disabled[d] /\ Tier[d] = min_tier'
    BY <1>2, <1>3, <1>5 DEF current_tier_judges, TierJudges
  <2>2. min_tier \in Nat /\ min_tier <= Tier[d] /\ Tier[d] \in Nat
    BY <1>1, <2>1, MinTierIsMinimum, TierAssumption
  <2>3. PICK j \in judges : ~is_disabled[j] /\ min_tier = Tier[j]
    BY <1>1, <2>1, MinTierIsMinimum
  <2>4. J \in SUBSET Conn /\ j \in J /\ ~f[j]
    BY <1>1, <1>3, <2>3
  <2>5. min_tier' = MinTier(J, f)
    BY <1>2 DEF UpdateMinTier
  <2> HIDE DEF J, f
  <2>6. min_tier' <= Tier[j]
    BY <2>4, <2>5, MinTierIsMinimum
  <2>7. min_tier' = min_tier
    BY <2>1, <2>2, <2>3, <2>6
  <2> QED
    BY <1>2, <1>3, <2>1, <2>7 DEF current_tier_judges, TierJudges, J
<1> HIDE DEF f, J
<1> SUFFICES ASSUME NEW d \in current_tier_judges', NEW p \in Priorities, NEW e \in Entry,
                    working'[d] = None, ~Owed(d)', Waits(p, e)',
                    can_judge(d, KindOf[e.id], e.judge_id)'
             PROVE  /\ p >= REJUDGE_PRIORITY
                    /\ Without({"disable"}) => Cardinality(current_tier_judges') > 1
  BY DEF Busy, Without
<1>6. d # c
  BY <1>4
<1>7. d \in current_tier_judges /\ d \in judges /\ d \in Conn
  BY <1>1, <1>5, <1>6 DEF current_tier_judges, TierJudges
<1>8. working[d] = None /\ Waits(p, e) /\ can_judge(d, KindOf[e.id], e.judge_id)
  BY <1>2, <1>3, <1>7 DEF Waits, can_judge
<1>9. ~Owed(d)
  BY <1>1, <1>2, <1>7, NobodyOwed
<1>10. p >= REJUDGE_PRIORITY /\ (Without({"disable"}) => Cardinality(current_tier_judges) > 1)
  BY <1>1, <1>2, <1>7, <1>8, <1>9 DEF Busy
<1>11. /\ Cardinality(current_tier_judges) <= Cardinality(current_tier_judges')
       /\ Cardinality(current_tier_judges) \in Nat /\ Cardinality(current_tier_judges') \in Nat
  <2>1. IsFiniteSet(judges')
    BY <1>1, <1>2, FS_AddElement DEF J
  <2>2. current_tier_judges' \subseteq judges' /\ current_tier_judges \subseteq current_tier_judges'
    BY <1>5, <1>6 DEF current_tier_judges, TierJudges
  <2> PICK T : T = current_tier_judges'
    OBVIOUS
  <2>3. IsFiniteSet(T)
    BY <2>1, <2>2, FS_Subset
  <2> QED
    BY <2>2, <2>3, FS_Subset, FS_CardinalityType
<1> QED
  BY <1>10, <1>11

\* remove() and update_disable_judge().
LEMMA TierStepKeepsBusy ==
    ASSUME WorkInv, Diligent,
           \/ \E c \in Conn : Remove(c)
           \/ RemoveStranger
           \/ \E n \in JudgeName, b \in BOOLEAN : UpdateDisable(n, b)
    PROVE  Busy'
<1>1. /\ Busy /\ TypeOK /\ judges \subseteq Conn /\ min_tier = MinTier(judges, is_disabled)
      /\ "enable" \notin Env /\ "stale_kick" \notin Env
  BY DiligentState
<1>2. /\ LockFree /\ holder.op = "idle"
      /\ UNCHANGED <<queue, problems>>
      /\ judges' \subseteq judges
      /\ \A d \in judges' : working'[d] = working[d]
      /\ \A d \in judges' : ~is_disabled'[d] => ~is_disabled[d]
      /\ holder'.op = "remove" \/ "disable" \in Env
      /\ \E op, x : UpdateMinTier(judges', is_disabled', op, x)
  <2>1. ASSUME NEW c \in Conn, Remove(c)
        PROVE  /\ LockFree
               /\ UNCHANGED <<queue, problems, is_disabled>>
               /\ judges' \subseteq judges
               /\ \A d \in judges' : working'[d] = working[d]
               /\ UpdateMinTier(judges', is_disabled', "remove", c)
    BY <1>1, <2>1 DEF Remove, TypeOK
  <2>2. ASSUME RemoveStranger
        PROVE  /\ LockFree
               /\ UNCHANGED <<queue, problems, is_disabled, judges, working>>
               /\ UpdateMinTier(judges', is_disabled', "remove", None)
    BY <2>2 DEF RemoveStranger
  <2>3. ASSUME NEW n \in JudgeName, NEW b \in BOOLEAN, UpdateDisable(n, b)
        PROVE  /\ LockFree
               /\ UNCHANGED <<queue, problems, judges, working>>
               /\ \A d \in judges' : ~is_disabled'[d] => ~is_disabled[d]
               /\ "disable" \in Env
               /\ UpdateMinTier(judges', is_disabled', "disable", None)
    <3>1. b = TRUE /\ "disable" \in Env
      BY <1>1, <2>3 DEF UpdateDisable
    <3> QED
      BY <1>1, <2>3, <3>1 DEF UpdateDisable
  <2>4. LockFree => holder.op = "idle"
    BY DEF LockFree, Idle
  <2>5. ASSUME NEW op, NEW x, UpdateMinTier(judges', is_disabled', op, x) PROVE holder'.op = op
    BY <2>5 DEF UpdateMinTier
  <2>6. CASE \E c \in Conn : Remove(c)
    BY <2>1, <2>4, <2>5, <2>6
  <2>7. CASE RemoveStranger
    BY <2>2, <2>4, <2>5, <2>7
  <2>8. CASE \E n \in JudgeName, b \in BOOLEAN : UpdateDisable(n, b)
    BY <2>3, <2>4, <2>8
  <2> QED
    BY <2>6, <2>7, <2>8
<1> SUFFICES ASSUME NEW d \in current_tier_judges', NEW p \in Priorities, NEW e \in Entry,
                    working'[d] = None, ~Owed(d)', Waits(p, e)',
                    can_judge(d, KindOf[e.id], e.judge_id)'
             PROVE  p >= REJUDGE_PRIORITY
  BY <1>2 DEF Busy, Without
<1>3. /\ d \in TierJudges(judges', is_disabled', min_tier')
      /\ d \in judges' /\ d \in Conn /\ ~is_disabled'[d]
  BY <1>1, <1>2 DEF current_tier_judges, TierJudges
<1>4. d \notin holder'.sweep
  BY DEF Owed
<1>5. d \in current_tier_judges
  BY <1>1, <1>2, <1>3, <1>4, TierShrinks
<1>6. ~Owed(d)
  BY <1>1, <1>2, <1>3, NobodyOwed
<1>7. working[d] = None /\ Waits(p, e) /\ can_judge(d, KindOf[e.id], e.judge_id)
  BY <1>2, <1>3 DEF Waits, can_judge
<1> QED
  BY <1>1, <1>5, <1>6, <1>7 DEF Busy

\* Nobody is handed anything and the queue only loses nodes.
LEMMA BusyKeptByWorking ==
    ASSUME Busy, UNCHANGED <<judges, is_disabled, min_tier, problems, holder, stage>>,
           \A p \in Priorities : \A e \in Entry : Waits(p, e)' => Waits(p, e),
           \A c \in current_tier_judges : working'[c] = None => working[c] = None
    PROVE  Busy'
<1>1. \A c \in current_tier_judges : Owed(c)' <=> Owed(c)
  BY DEF Owed
<1> QED
  BY <1>1, BusyKept

LEMMA SweepKeepsBusy ==
    ASSUME WorkInv, Diligent, NEW j \in Conn, Sweep(j)
    PROVE  Busy'
<1>1. /\ Busy /\ BookInv /\ Calm /\ IsFiniteSet(judges)
      /\ TypeOK /\ QueueType /\ QueuedOnce /\ judges \subseteq Conn
      /\ MapType(submission_map) /\ WorkingType(working) /\ HeldType(held)
      /\ closed = {} /\ min_tier \in Nat \cup {None}
  BY DiligentState
<1>2. /\ holder' = [holder EXCEPT !.sweep = @ \ {j}]
      /\ UNCHANGED <<min_tier, is_disabled, problems, stage, closed>>
  BY DEF Sweep
<1>3. /\ holder'.op = holder.op /\ holder'.conn = holder.conn
      /\ holder'.sweep = holder.sweep \ {j}
  BY <1>1, <1>2 DEF TypeOK
<1>4. \A d \in Conn \ {j} : Owed(d)' <=> Owed(d)
  BY <1>2, <1>3 DEF Owed
<1>5. CASE working[j] = None
  <2>1. HandleFree(j, submission_map, working, held)
    BY <1>5 DEF Sweep, HandleFreeNow
  <2> QED
    BY <1>1, <1>2, <1>3, <1>4, <2>1, BusyAfterServing
<1>6. CASE working[j] # None
  <2>1. UNCHANGED <<queue, judges, working>>
    BY <1>6 DEF Sweep
  <2>2. \A c \in current_tier_judges : working'[c] = None => c # j /\ c \in Conn
    BY <1>1, <1>6, <2>1 DEF current_tier_judges, TierJudges
  <2>3. \A p \in Priorities : \A e \in Entry : Waits(p, e)' => Waits(p, e)
    BY <2>1 DEF Waits
  <2> QED
    BY <1>1, <1>2, <1>3, <1>4, <2>1, <2>2, <2>3, BusyKept
<1> QED
  BY <1>5, <1>6

\* register() ends by serving the judge that came, remove() by serving the only
\* one left.
LEMMA FinishKeepsBusy ==
    ASSUME WorkInv, Diligent, Finish
    PROVE  Busy'
<1>1. /\ Busy /\ BookInv /\ Calm /\ IsFiniteSet(judges) /\ Threads
      /\ TypeOK /\ QueueType /\ QueuedOnce /\ judges \subseteq Conn
      /\ MapType(submission_map) /\ WorkingType(working) /\ HeldType(held)
      /\ closed = {} /\ min_tier \in Nat \cup {None}
  BY DiligentState
<1>2. /\ holder.sweep = {} /\ holder'.op = "idle" /\ holder'.sweep = {}
      /\ UNCHANGED <<min_tier, is_disabled, problems, stage, closed>>
  BY DEF Finish, Idle
<1>3. \A d \in Conn : Owed(d)' => Owed(d)
  BY <1>2 DEF Owed
<1>4. \A d \in Conn : Owed(d) => Owed(d)' \/ (holder.op = "register" /\ holder.conn = d)
  BY <1>2 DEF Owed
<1>5. CASE UNCHANGED <<queue, submission_map, judges, working, held>>
           /\ holder.op # "register"
           /\ \A j \in Conn : ~(holder.op = "remove" /\ current_tier_judges = {j}
                                 /\ working[j] = None)
  <2> SUFFICES ASSUME NEW c \in current_tier_judges, NEW p \in Priorities, NEW e \in Entry,
                      working'[c] = None, ~Owed(c)', Waits(p, e)',
                      can_judge(c, KindOf[e.id], e.judge_id)'
               PROVE  /\ p >= REJUDGE_PRIORITY
                      /\ Without({"disable"}) => Cardinality(current_tier_judges) > 1
    <3>1. current_tier_judges' = current_tier_judges
      BY <1>2, <1>5 DEF current_tier_judges
    <3> QED
      BY <3>1 DEF Busy, Without
  <2>1. c \in Conn /\ working[c] = None /\ Waits(p, e) /\ can_judge(c, KindOf[e.id], e.judge_id)
    BY <1>1, <1>2, <1>5 DEF Waits, can_judge, current_tier_judges, TierJudges
  <2>2. ~Owed(c)
    BY <1>4, <1>5, <2>1
  <2>3. /\ p >= REJUDGE_PRIORITY
        /\ Without({"disable"}) =>
             Cardinality(current_tier_judges) > 1 \/ holder.op = "remove"
    BY <1>1, <2>1, <2>2 DEF Busy
  <2>4. holder.op = "remove" => current_tier_judges # {c}
    BY <1>5, <2>1
  <2>5. current_tier_judges # {c} => Cardinality(current_tier_judges) > 1
    <3>1. IsFiniteSet(current_tier_judges) /\ Cardinality(current_tier_judges) \in Nat
      BY <1>1, TierIsFinite
    <3>2. Cardinality(current_tier_judges) # 0
      BY <3>1, FS_EmptySet
    <3>3. Cardinality(current_tier_judges) = 1 => \E x : current_tier_judges = {x}
      BY <3>1, FS_Singleton
    <3> QED
      BY <3>1, <3>2, <3>3
  <2> QED
    BY <2>3, <2>4, <2>5
<1>6. ASSUME NEW j \in Conn, HandleFreeNow(j),
             \/ holder.op = "register" /\ j = holder.conn
             \/ holder.op = "remove" /\ current_tier_judges = {j}
      PROVE  Busy'
  <2>1. HandleFree(j, submission_map, working, held)
    BY <1>6 DEF HandleFreeNow
  <2>2. holder.op # "remove" \/ current_tier_judges = {j}
    BY <1>6
  <2>3. CASE holder.op = "register"
    <3>1. \A d \in Conn \ {j} : Owed(d) => Owed(d)'
      BY <1>4, <1>6, <2>3
    <3> QED
      BY <1>1, <1>2, <2>1, <2>2, <3>1, BusyAfterServing
  <2>4. CASE holder.op # "register"
    <3>1. \A d \in Conn \ {j} : Owed(d) => Owed(d)'
      BY <1>4, <2>4
    <3> QED
      BY <1>1, <1>2, <2>1, <2>2, <3>1, BusyAfterServing
  <2> QED
    BY <2>3, <2>4
<1> DEFINE next == {j \in Conn :
                      \/ holder.op = "register" /\ j = holder.conn
                      \/ holder.op = "remove" /\ current_tier_judges = {j} /\ working[j] = None}
<1>7. CASE next = {}
  <2>1. UNCHANGED <<queue, submission_map, judges, working, held>>
    BY <1>7 DEF Finish
  <2>2. holder.op # "register"
    BY <1>1, <1>7 DEF Threads
  <2> QED
    BY <1>5, <1>7, <2>1, <2>2
<1>8. CASE next # {}
  <2>1. \E j \in next : HandleFreeNow(j)
    BY <1>8 DEF Finish
  <2> QED
    BY <1>6, <2>1
<1> QED
  BY <1>7, <1>8

LEMMA OnJudgeFreeKeepsBusy ==
    ASSUME WorkInv, Diligent, NEW c \in Conn, NEW s \in Sub, OnJudgeFree(c, s)
    PROVE  Busy'
<1>1. /\ Busy /\ BookInv /\ Calm /\ IsFiniteSet(judges)
      /\ TypeOK /\ QueueType /\ QueuedOnce /\ judges \subseteq Conn
      /\ MapType(submission_map) /\ WorkingType(working) /\ HeldType(held)
      /\ closed = {} /\ min_tier \in Nat \cup {None}
  BY DiligentState
<1>2. UNCHANGED <<min_tier, holder, is_disabled, problems, stage, closed>>
  BY DEF OnJudgeFree
<1>3. \A d \in Conn : Owed(d)' <=> Owed(d)
  BY <1>2 DEF Owed
<1> DEFINE m == [submission_map EXCEPT ![s] = None]
           w == [working EXCEPT ![c] = None]
           h == [held EXCEPT ![c] = @ \ {s}]
<1>4. MapType(m) /\ WorkingType(w) /\ HeldType(h) /\ \A d \in Conn \ {c} : w[d] = working[d]
  BY <1>1 DEF MapType, WorkingType, HeldType
<1> HIDE DEF m, w, h
<1>5. UNCHANGED <<queue, submission_map, judges, working>> \/ HandleFree(c, m, w, h)
  BY DEF OnJudgeFree, m, w, h
<1>6. CASE UNCHANGED <<queue, submission_map, judges, working>>
  BY <1>1, <1>2, <1>6, BusyKeptByWorking DEF Waits
<1>7. CASE HandleFree(c, m, w, h)
  BY <1>1, <1>2, <1>3, <1>4, <1>7, BusyAfterServing
<1> QED
  BY <1>5, <1>6, <1>7

LEMMA AbortKeepsBusy ==
    ASSUME WorkInv, Diligent, NEW s \in Sub, Abort(s)
    PROVE  Busy'
<1>1. Busy /\ QueueType
  BY DiligentState
<1>2. PICK n \in Nodes : queue' = RemoveNode(n[1], n[2])
  BY DEF Abort
<1>3. \A p \in Priorities : \A e \in Entry : Waits(p, e)' => Waits(p, e)
  BY <1>1, <1>2, RemoveNodeWaits
<1> QED
  BY <1>1, <1>3, BusyKeptByWorking DEF Abort

\* judge() appends a node only when no judge of the tier may take it.
LEMMA JudgeKeepsBusy ==
    ASSUME WorkInv, Diligent, NEW r \in Requests, Judge(r)
    PROVE  Busy'
<1>1. /\ Busy /\ BookInv /\ Calm /\ IsFiniteSet(judges)
      /\ TypeOK /\ QueueType /\ judges \subseteq Conn
      /\ WorkingType(working) /\ closed = {}
  BY DiligentState
<1>2. /\ r.id \in Sub /\ r.priority \in Priorities
      /\ [id |-> r.id, judge_id |-> r.judge_id] \in Entry
  BY ConstantsAssumption DEF Request, Entry
<1> DEFINE candidates == {j \in current_tier_judges : can_judge(j, KindOf[r.id], r.judge_id)}
           free == {j \in candidates : working[j] = None}
           x == [id |-> r.id, judge_id |-> r.judge_id]
<1>3. UNCHANGED <<min_tier, holder, is_disabled, problems, stage>>
  BY DEF Judge
<1>4. CASE \E j \in current_tier_judges : \E outcome \in Outcome(j) :
              /\ Submit(j, r.id, outcome, submission_map, working, held)
              /\ UNCHANGED queue
  <2>1. PICK j \in current_tier_judges : \E outcome \in Outcome(j) :
              /\ Submit(j, r.id, outcome, submission_map, working, held)
              /\ UNCHANGED queue
    BY <1>4
  <2>2. j \in Conn /\ Submit(j, r.id, "ok", submission_map, working, held)
    BY <1>1, <2>1, OutcomeOk, CalmParts DEF current_tier_judges, TierJudges
  <2>3. judges' = judges /\ working' = [working EXCEPT ![j] = r.id] /\ queue' = queue
    BY <2>1, <2>2 DEF Submit
  <2>4. r.id # None
    BY <1>2, ConstantsAssumption
  <2>5. \A c \in current_tier_judges : working'[c] = None => working[c] = None
    BY <1>1, <2>2, <2>3, <2>4 DEF WorkingType, current_tier_judges, TierJudges
  <2>6. \A p \in Priorities : \A e \in Entry : Waits(p, e)' => Waits(p, e)
    BY <2>3 DEF Waits
  <2> QED
    BY <1>1, <1>3, <2>3, <2>5, <2>6, BusyKeptByWorking
<1>5. CASE /\ queue' = [queue EXCEPT ![r.priority] = Append(@, x)]
           /\ UNCHANGED <<submission_map, judges, working, held>>
           /\ \/ free = {}
              \/ /\ Cardinality(candidates) > 1
                 /\ r.priority >= REJUDGE_PRIORITY
  <2> SUFFICES ASSUME NEW c \in current_tier_judges, NEW p \in Priorities, NEW e \in Entry,
                      working'[c] = None, ~Owed(c)', Waits(p, e)',
                      can_judge(c, KindOf[e.id], e.judge_id)'
               PROVE  /\ p >= REJUDGE_PRIORITY
                      /\ Without({"disable"}) =>
                           Cardinality(current_tier_judges) > 1 \/ holder'.op = "remove"
    <3>1. current_tier_judges' = current_tier_judges
      BY <1>3, <1>5 DEF current_tier_judges
    <3> QED
      BY <3>1 DEF Busy, Without
  <2>1. working[c] = None /\ ~Owed(c) /\ can_judge(c, KindOf[e.id], e.judge_id)
    BY <1>3, <1>5 DEF Owed, can_judge
  <2>2. CASE Waits(p, e)
    BY <1>1, <1>3, <2>1, <2>2 DEF Busy
  <2>3. CASE p = r.priority /\ e = x
    <3>1. e.id = r.id /\ e.judge_id = r.judge_id
      BY <2>3
    <3>2. c \in free
      BY <2>1, <3>1
    <3>3. Cardinality(candidates) > 1 /\ r.priority >= REJUDGE_PRIORITY
      BY <1>5, <3>2
    <3>4. /\ Cardinality(candidates) <= Cardinality(current_tier_judges)
          /\ Cardinality(candidates) \in Nat /\ Cardinality(current_tier_judges) \in Nat
      <4>1. candidates \in SUBSET current_tier_judges
        OBVIOUS
      <4> HIDE DEF candidates
      <4>2. IsFiniteSet(candidates)
        BY <1>1, <4>1, TierIsFinite
      <4> QED
        BY <1>1, <4>1, <4>2, TierIsFinite
    <3> HIDE DEF candidates
    <3> QED
      BY <2>3, <3>3, <3>4
  <2>4. Waits(p, e) \/ (p = r.priority /\ e = x)
    <3>1. x \in Entry /\ queue' = [queue EXCEPT ![r.priority] = Append(@, x)]
      BY <1>2, <1>5
    <3> HIDE DEF x
    <3> QED
      BY <1>1, <1>2, <3>1, AppendNodeWaits
  <2> QED
    BY <2>2, <2>3, <2>4
<1> DEFINE available == IF /\ Cardinality(candidates) > 1
                           /\ Cardinality(free) = 1
                           /\ r.priority >= REJUDGE_PRIORITY
                        THEN {} ELSE free
<1>6. IF available # {}
      THEN /\ \E j \in available : \E outcome \in Outcome(j) :
                  Submit(j, r.id, outcome, submission_map, working, held)
           /\ UNCHANGED queue
      ELSE /\ queue' = [queue EXCEPT ![r.priority] = Append(@, x)]
           /\ UNCHANGED <<submission_map, judges, working, held>>
  BY DEF Judge
<1>7. available \subseteq current_tier_judges
  OBVIOUS
<1>8. available = {} => \/ free = {}
                        \/ /\ Cardinality(candidates) > 1
                           /\ r.priority >= REJUDGE_PRIORITY
  OBVIOUS
<1> HIDE DEF available, candidates, free, x
<1> QED
  BY <1>4, <1>5, <1>6, <1>7, <1>8

LEMMA UnlockedKeepsBusy ==
    ASSUME WorkInv, Diligent, Unlocked
    PROVE  Busy'
<1>1. /\ Busy /\ BookInv /\ Calm /\ IsFiniteSet(judges)
      /\ TypeOK /\ QueueType /\ QueuedOnce /\ judges \subseteq Conn
      /\ MapType(submission_map) /\ WorkingType(working) /\ HeldType(held)
      /\ closed = {} /\ min_tier \in Nat \cup {None}
  BY DiligentState
<1>2. ASSUME NEW c \in Conn, Connected(c) PROVE Busy'
  <2>1. /\ UNCHANGED <<queue, judges, min_tier, holder, working, problems>>
        /\ stage' = [stage EXCEPT ![c] = "connected"] /\ stage[c] = "registered"
        /\ is_disabled' = [is_disabled EXCEPT ![c] = is_disabled[c]]
    BY <1>1, <1>2, CalmParts DEF Connected
  <2>2. is_disabled' = is_disabled
    BY <1>1, <2>1 DEF TypeOK
  <2>3. \A d \in current_tier_judges : Owed(d)' <=> Owed(d)
    <3>1. \A d \in Conn : stage'[d] = "kicking" <=> stage[d] = "kicking"
      BY <1>1, <2>1 DEF TypeOK
    <3> QED
      BY <1>1, <2>1, <3>1 DEF Owed, current_tier_judges, TierJudges
  <2>4. \A p \in Priorities : \A e \in Entry : Waits(p, e)' => Waits(p, e)
    BY <2>1 DEF Waits
  <2> QED
    BY <1>1, <2>1, <2>2, <2>3, <2>4, BusyKept
<1>3. ASSUME NEW c \in Conn, NEW ps \in SUBSET Kind, SupportedProblems(c, ps) PROVE Busy'
  <2>1. /\ UNCHANGED <<queue, judges, min_tier, holder, working, is_disabled>>
        /\ problems' = [problems EXCEPT ![c] = ps]
        /\ stage' = [stage EXCEPT ![c] = IF working[c] = None THEN "kicking" ELSE @]
        /\ stage[c] = "connected"
    BY <1>3 DEF SupportedProblems
  <2>2. \A d \in Conn : stage[d] = "kicking" => stage'[d] = "kicking"
    BY <1>1, <2>1 DEF TypeOK
  <2>3. working[c] = None => stage'[c] = "kicking"
    BY <1>1, <2>1 DEF TypeOK
  <2>4. \A d \in Conn : Owed(d) => Owed(d)'
    BY <2>1, <2>2 DEF Owed
  <2>5. \A d \in current_tier_judges : working'[d] = None /\ ~Owed(d)' =>
            working[d] = None /\ ~Owed(d) /\ problems'[d] = problems[d]
    <3> SUFFICES ASSUME NEW d \in current_tier_judges, working'[d] = None, ~Owed(d)'
                 PROVE  working[d] = None /\ ~Owed(d) /\ problems'[d] = problems[d]
      OBVIOUS
    <3>1. d \in Conn
      BY <1>1 DEF current_tier_judges, TierJudges
    <3>2. stage'[d] # "kicking"
      BY DEF Owed
    <3>3. d # c
      BY <2>1, <2>3, <3>2
    <3> QED
      BY <1>1, <2>1, <2>4, <3>1, <3>3 DEF TypeOK
  <2>6. \A p \in Priorities : \A e \in Entry : Waits(p, e)' => Waits(p, e)
    BY <2>1 DEF Waits
  <2> QED
    BY <1>1, <2>1, <2>5, <2>6, BusyKept
<1>4. ASSUME NEW c \in Conn, UpdateProblems(c) PROVE Busy'
  <2>1. /\ UNCHANGED <<min_tier, holder, is_disabled, problems>>
        /\ stage' = [stage EXCEPT ![c] = "connected"]
        /\ HandleFree(c, submission_map, working, held)
    BY <1>4 DEF UpdateProblems, HandleFreeNow
  <2>2. \A d \in Conn \ {c} : Owed(d) => Owed(d)'
    <3>1. \A d \in Conn \ {c} : stage'[d] = stage[d]
      BY <1>1, <2>1 DEF TypeOK
    <3> QED
      BY <2>1, <3>1 DEF Owed
  <2> QED
    BY <1>1, <2>1, <2>2, BusyAfterServing
<1>5. ASSUME NEW c \in Conn, Close(c) PROVE FALSE
  BY <1>1, <1>5 DEF Close, Calm, Without, Raising
<1> QED
  BY <1>2, <1>3, <1>4, <1>5 DEF Unlocked

LEMMA NextKeepsWorkInv == WorkInv /\ [Next]_vars => WorkInv'
<1> SUFFICES ASSUME WorkInv, [Next]_vars PROVE WorkInv'
  OBVIOUS
<1>1. BookInv' /\ IsFiniteSet(judges)'
  BY NextKeepsBookInv, NextKeepsJudgesFinite DEF WorkInv
<1>2. SUFFICES ASSUME Diligent PROVE Busy'
  BY <1>1 DEF WorkInv, Diligent, Without
<1>3. CASE Locked
  <2>1. ASSUME NEW n \in JudgeName, Disconnect(n) PROVE FALSE
    BY <1>2, <2>1 DEF Disconnect, Diligent, Without, Raising
  <2> QED
    BY <1>2, <1>3, <2>1, RegisterKeepsBusy, TierStepKeepsBusy, SweepKeepsBusy,
       FinishKeepsBusy, OnJudgeFreeKeepsBusy, AbortKeepsBusy, JudgeKeepsBusy,
       Zenon DEF Locked
<1>4. CASE Unlocked
  BY <1>2, <1>4, UnlockedKeepsBusy
<1>5. CASE Restart
  <2>1. Init'
    BY <1>5 DEF Restart, Init
  <2>2. (Init => WorkInv)'
    BY InitWorkInv, PTL
  <2> QED
    BY <1>2, <2>1, <2>2 DEF WorkInv, Diligent, Without
<1>6. CASE UNCHANGED vars
  <2>1. Busy
    BY <1>2 DEF WorkInv
  <2> QED
    BY <1>6, <2>1, BusyKeptByWorking DEF vars, Waits
<1> QED
  BY <1>3, <1>4, <1>5, <1>6 DEF Next

\* Between any two operations no judge of the tier is idle beside a new
\* submission it could take, and the only judge of a tier not beside a rejudge
\* either -- for any number of judges, tiers and submissions.
THEOREM JudgesAreBusy == Spec => []WorkConserving
<1>1. Spec => []WorkInv
  BY InitWorkInv, NextKeepsWorkInv, PTL DEF Spec
<1>2. WorkInv => WorkConserving
  <2> SUFFICES ASSUME WorkInv, Diligent, holder = Idle,
                      NEW c \in current_tier_judges, NEW n \in Nodes,
                      working[c] = None, stage[c] # "kicking",
                      can_judge(c, KindOf[NodeValue(n).id], NodeValue(n).judge_id)
               PROVE  /\ n[1] >= REJUDGE_PRIORITY
                      /\ Without({"disable"}) => Cardinality(current_tier_judges) > 1
    BY DEF WorkConserving, Diligent
  <2>1. Busy /\ QueueType
    BY DiligentState
  <2>2. ~Owed(c) /\ holder.op = "idle"
    BY DEF Owed, Idle
  <2>3. n[1] \in Priorities /\ NodeValue(n) \in Entry /\ Waits(n[1], NodeValue(n))
    BY <2>1, WaitsIsQueued
  <2> QED
    BY <2>1, <2>2, <2>3 DEF Busy
<1> QED
  BY <1>1, <1>2, PTL

\* What NoOvertaking says of one step.
Overtaken ==
    \E c \in Conn, k \in Nodes :
        /\ k[1] < REJUDGE_PRIORITY
        /\ can_judge(c, KindOf[NodeValue(k).id], NodeValue(k).judge_id)
        /\ \/ \E n \in Nodes : Before(k, n) /\ Handed(NodeValue(n).id, c)
           \/ \E r \in Requests : Judge(r) /\ k[1] <= r.priority /\ Handed(r.id, c)

\* The walk hands out the first node that c may be handed, and a new submission
\* that c could take is one; judge() finds c busy when such a one waits.
LEMMA NobodyOvertakes ==
    ASSUME WorkInv, Diligent, [Next]_vars
    PROVE  ~Overtaken
<1>1. /\ Busy /\ TypeOK /\ QueueType /\ QueuedOnce /\ judges \subseteq Conn
      /\ HeldType(held) /\ "stale_kick" \notin Env
  BY DiligentState
<1> SUFFICES ASSUME NEW c \in Conn, NEW k \in Nodes, k[1] < REJUDGE_PRIORITY,
                    can_judge(c, KindOf[NodeValue(k).id], NodeValue(k).judge_id)
             PROVE  /\ \A n \in Nodes : Before(k, n) => ~Handed(NodeValue(n).id, c)
                    /\ \A r \in Requests : Judge(r) => ~Handed(r.id, c)
  BY DEF Overtaken
<1>2. k[1] \in Priorities /\ NodeValue(k) \in Entry /\ Waits(k[1], NodeValue(k))
  BY <1>1, WaitsIsQueued
<1>3. ASSUME NEW n \in Nodes, Before(k, n), Handed(NodeValue(n).id, c) PROVE FALSE
  <2>1. NodeValue(n).id \in Sub /\ Queued(NodeValue(n).id)
    BY <1>1, WaitsIsQueued DEF Entry, Waits, Queued
  <2>2. WalkHands(NodeValue(n).id, c)
    BY <1>1, <1>3, <2>1, Handing DEF Judge
  <2>3. PICK w \in [Conn -> Sub \cup {None}] : \E x \in Eligible(c, w) :
            /\ NodeValue(x).id = NodeValue(n).id
            /\ \A y \in Eligible(c, w) : ~Before(y, x)
    BY <2>2 DEF WalkHands
  <2>4. n \in Eligible(c, w) /\ \A y \in Eligible(c, w) : ~Before(y, n)
    BY <1>1, <2>3 DEF Eligible, QueuedOnce
  <2>5. k \in Eligible(c, w)
    BY <1>2 DEF Eligible, REJUDGE_PRIORITY, Priorities
  <2> QED
    BY <1>3, <2>4, <2>5
<1>4. ASSUME NEW r \in Requests, Judge(r), Handed(r.id, c) PROVE FALSE
  <2>1. held' # held
    BY <1>4 DEF Handed
  <2>2. PICK j \in current_tier_judges : /\ working[j] = None
                                         /\ \E outcome \in Outcome(j) :
                                              Submit(j, r.id, outcome, submission_map,
                                                     working, held)
    BY <1>4, <2>1 DEF Judge
  <2>3. held' = held \/ held' = [held EXCEPT ![j] = @ \cup {r.id}]
    BY <2>2 DEF Submit
  <2>4. j = c
    BY <1>1, <1>4, <2>1, <2>3 DEF HeldType, Handed
  <2>5. ~Owed(c)
    BY <1>1, <1>4, NobodyOwed DEF Judge
  <2> QED
    BY <1>1, <1>2, <2>2, <2>4, <2>5 DEF Busy, REJUDGE_PRIORITY, Priorities
<1> QED
  BY <1>3, <1>4

\* No new submission is passed over for a judge that could take it, by one behind
\* it in the queue or by one that judge() hands out directly.
THEOREM NobodyIsOvertaken == Spec => NoOvertaking
<1>1. Spec => []WorkInv
  BY InitWorkInv, NextKeepsWorkInv, PTL DEF Spec
<1>2. WorkInv /\ [Next]_vars => [Diligent => ~Overtaken]_vars
  BY NobodyOvertakes
<1>3. Spec => [][Diligent => ~Overtaken]_vars
  BY <1>1, <1>2, PTL DEF Spec
<1>4. (Diligent => ~Overtaken) =>
         (Without(Raising \cup {"stale_kick", "late_disable", "enable"}) =>
          \A c \in Conn, k \in Nodes :
              LET waits == /\ k[1] < REJUDGE_PRIORITY
                           /\ can_judge(c, KindOf[NodeValue(k).id], NodeValue(k).judge_id)
              IN waits =>
                 /\ \A n \in Nodes : Before(k, n) => ~Handed(NodeValue(n).id, c)
                 /\ \A r \in Requests :
                      Judge(r) /\ k[1] <= r.priority => ~Handed(r.id, c))
  BY DEF Diligent, Overtaken
<1> QED
  BY <1>3, <1>4, PTL DEF NoOvertaking
==============================================================================
