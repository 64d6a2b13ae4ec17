---------------------------- MODULE RunnerProofs ----------------------------
(***************************************************************************)
(* What TLAPS proves of Runner for every server of Scenes and every finite *)
(* set of requests: nothing is taken and not given back, a user has one    *)
(* program under way, no pool is left behind, the gate of the compilers    *)
(* holds, and a browser that is told of the end has been told all.         *)
(***************************************************************************)
EXTENDS Runner, FiniteSetTheorems, SequenceTheorems, TLAPS

-----------------------------------------------------------------------------
(* Counting *)

\* A set of requests that changes in one request at most.
LEMMA CountStep ==
    ASSUME NEW S \in SUBSET Req, NEW T \in SUBSET Req, NEW r \in Req,
           \A o \in Req \ {r} : o \in S <=> o \in T
    PROVE  /\ Cardinality(S) \in Nat
           /\ r \in S => Cardinality(S) > 0
           /\ r \in S /\ r \in T => Cardinality(T) = Cardinality(S)
           /\ r \notin S /\ r \notin T => Cardinality(T) = Cardinality(S)
           /\ r \in S /\ r \notin T => Cardinality(T) = Cardinality(S) - 1
           /\ r \notin S /\ r \in T => Cardinality(T) = Cardinality(S) + 1
<1>1. IsFiniteSet(S) /\ IsFiniteSet(T)
  BY RunnerAssumption, FS_Subset
<1>2. Cardinality(S) \in Nat
  BY <1>1, FS_CardinalityType
<1>3. r \in S => Cardinality(S) > 0
  BY <1>1, <1>2, FS_EmptySet
<1>4. (r \in S <=> r \in T) => T = S
  OBVIOUS
<1>5. r \in S /\ r \notin T => T = S \ {r}
  OBVIOUS
<1>6. r \notin S /\ r \in T => T = S \cup {r}
  OBVIOUS
<1>7. Cardinality(S \ {r}) = IF r \in S THEN Cardinality(S) - 1 ELSE Cardinality(S)
  BY <1>1, FS_RemoveElement
<1>8. Cardinality(S \cup {r}) = IF r \in S THEN Cardinality(S) ELSE Cardinality(S) + 1
  BY <1>1, FS_AddElement
<1> QED
  BY <1>2, <1>3, <1>4, <1>5, <1>6, <1>7, <1>8

\* The smallest of some natural numbers.
LEMMA Smallest ==
    ASSUME NEW T \in SUBSET Nat, T # {}
    PROVE  \E x \in T : \A y \in T : x <= y
<1>1. PICK x \in T : \A y \in T : <<y, x>> \notin OpToRel(<, Nat)
  BY WFMin, NatLessThanWellFounded
<1>2. ASSUME NEW y \in T PROVE x <= y
  <2>1. <<y, x>> \in Nat \X Nat
    OBVIOUS
  <2>2. ~(y < x)
    BY <1>1, <2>1 DEF OpToRel
  <2> QED
    BY <2>1, <2>2
<1> QED
  BY <1>2

-----------------------------------------------------------------------------
(* The inductive invariant *)

\* What a thread has when it is where it is.
HasBusy(r) == pc[r].at \in InRun \/ (Is(r, "run") /\ At(r, "exit"))
HasSession(r) == pc[r].at \in InSession \/ (Terminal(r) /\ At(r, "exit"))
HasGate(r) == pc[r].at \in InGate
HasUser(r, u) == UserOf(r) = u /\ pc[r].at \notin {"idle", "over", "limit", "end"}
HasWorker(r, i) == pc[r].at \in InRun \ {"choose"} /\ pc[r].i = i
HasSlot(r) == ~Is(r, "poll") /\ ~Free(r)

\* The counters, each with the requests it counts.
Counted ==
    /\ busy = Cardinality({r \in Req : HasBusy(r)})
    /\ sessions = Cardinality({r \in Req : HasSession(r)})
    /\ gate = scene.workers - Cardinality({r \in Req : HasGate(r)})
    /\ \A u \in User : active[u] = Cardinality({r \in Req : HasUser(r, u)})
    /\ \A i \in Worker : load[i] = Cardinality({r \in Req : HasWorker(r, i)})
    /\ slots = scene.connections - Cardinality({r \in Req : HasSlot(r)})

\* Runs and terminals go their own ways; from submit() on a run has a worker.
Ways ==
    \A r \in Req :
        /\ ~At(r, "idle") => scene.kind[r] \in Kinds
        /\ pc[r].at \in InRun => Is(r, "run")
        /\ pc[r].at \in InSession => Terminal(r)
        /\ pc[r].at \in InRun \ {"choose"} => pc[r] \in Located

\* A user has at most one request within the limits.
OnePerUser == \A u \in User : active[u] <= 1

\* A job is of a thread that waits for its pool, and for no other job of it, or
\* of nobody who waits any more.
JobIs(g, k) ==
    LET j == pool[g].jobs[k] IN
    /\ j.of # None =>
          /\ At(j.of, "wait") /\ pc[j.of].pool = g /\ j.user = UserOf(j.of)
          /\ \A l \in DOMAIN pool[g].jobs : pool[g].jobs[l].of = j.of => l = k
    /\ j.of = None => May("slow")

\* Those who are told of a broken pool find it broken.
Jobs ==
    /\ \A g \in DOMAIN pool : \A k \in DOMAIN pool[g].jobs : JobIs(g, k)
    /\ \A r \in Req : At(r, "broken") => pool[pc[r].pool].broken

\* A child belongs to a thread that waits for it.
Children ==
    \A r \in Req :
        /\ child[r] # "none" => pc[r].at \in {"compile", "join"}
        /\ child[r] = "compiling" => At(r, "compile") \/ May("slow_compile")

\* The thread of r has done what it had to do but for its finally clauses.
Past(r) == pc[r].at \in {"exit", "release", "end", "over"}

\* The session of a terminal is in the table while its thread holds an inner end.
Table ==
    \A r \in poll_sessions : Is(r, "poll") /\ ~At(r, "idle") /\ (inner[r] \/ At(r, "over"))

\* The last message of a terminal has been sent.
Said(r) == Past(r) \/ child[r] = "dead"

\* What the pump has of it: it ends behind the last message.
MessageOf(r) ==
    /\ ps[r].quiet \/ ps[r].shut => web[r].is = "gone"
    /\ wire[r] # 0 => Said(r)
    /\ wire[r] = 1 => ps[r].last
    /\ Is(r, "poll") /\ web[r].is # "gone" /\ Said(r) => wire[r] # 0
    /\ ps[r].done /\ web[r].is # "gone" => wire[r] = 1
    /\ web[r].is = "told" => ps[r].done /\ web[r].last

LastMessage == Without({"nap", "crash"}) => \A r \in Req : MessageOf(r)

IInv ==
    /\ TypeOK /\ Counted /\ Ways
    /\ OnePerUser /\ Jobs /\ NoOrphanPool
    /\ Children /\ Table /\ LastMessage

-----------------------------------------------------------------------------
(* Steps of one thread *)

LEMMA Scene ==
    ASSUME TypeOK
    PROVE  /\ scene.kind \in [Req -> Kinds \cup {None}] /\ scene.user \in [Req -> User]
           /\ scene.workers \in Nat \ {0} /\ scene.max_sessions \in Nat \ {0}
           /\ scene.per_minute \in Nat \ {0} /\ scene.connections \in Nat \ {0}
           /\ scene.queue \in Nat /\ scene.max_events \in Nat
BY SceneAssumption DEF TypeOK

LEMMA PoolType ==
    ASSUME TypeOK, NEW g \in DOMAIN pool
    PROVE  /\ pool[g] \in [jobs : Seq(Job), broken : BOOLEAN]
           /\ pool[g].jobs \in Seq(Job)
           /\ DOMAIN pool = 1 .. Len(pool) /\ Len(pool) \in Nat
           /\ DOMAIN pool[g].jobs = 1 .. Len(pool[g].jobs) /\ Len(pool[g].jobs) \in Nat
<1>1. DOMAIN pool = 1 .. Len(pool) /\ Len(pool) \in Nat
  BY LenProperties DEF TypeOK
<1>2. pool[g] \in [jobs : Seq(Job), broken : BOOLEAN]
  BY <1>1, ElementOfSeq DEF TypeOK
<1>3. pool[g].jobs \in Seq(Job)
  BY <1>2
<1> QED
  BY <1>1, <1>2, <1>3, LenProperties

LEMMA GoEffect ==
    ASSUME TypeOK, NEW r \in Req, NEW at \in Places, Go(r, at)
    PROVE  /\ pc' \in [Req -> [at : Places] \cup Located]
           /\ At(r, at)'
           /\ \A o \in Req \ {r} : pc'[o] = pc[o]
           /\ pc[r] \in Located => /\ pc'[r] \in Located
                                   /\ pc'[r].i = pc[r].i
                                   /\ pc'[r].pool = pc[r].pool
<1>1. pc' = [pc EXCEPT ![r] = [pc[r] EXCEPT !.at = at]]
  BY DEF Go
<1>2. pc[r] \in [at : Places] \cup Located /\ pc \in [Req -> [at : Places] \cup Located]
  BY DEF TypeOK
<1>3. CASE pc[r] \in [at : Places]
  <2>1. [pc[r] EXCEPT !.at = at] \in [at : Places]
    BY <1>3
  <2>2. pc[r] \notin Located
    BY <1>3 DEF Located
  <2>3. [pc[r] EXCEPT !.at = at].at = at
    BY <1>3
  <2> QED
    BY <1>1, <1>2, <2>1, <2>2, <2>3 DEF At
<1>4. CASE pc[r] \in Located
  <2>1. /\ [pc[r] EXCEPT !.at = at] \in Located
        /\ [pc[r] EXCEPT !.at = at].at = at
        /\ [pc[r] EXCEPT !.at = at].i = pc[r].i
        /\ [pc[r] EXCEPT !.at = at].pool = pc[r].pool
    BY <1>4 DEF Located
  <2> QED
    BY <1>1, <1>2, <2>1 DEF At
<1> QED
  BY <1>2, <1>3, <1>4

\* What a counter owes a thread that has moved.
Delta(before, after) == (IF after THEN 1 ELSE 0) - (IF before THEN 1 ELSE 0)

LEMMA CountDelta ==
    ASSUME NEW S \in SUBSET Req, NEW T \in SUBSET Req, NEW r \in Req,
           \A o \in Req \ {r} : o \in S <=> o \in T
    PROVE  /\ Cardinality(S) \in Nat
           /\ Cardinality(T) = Cardinality(S) + Delta(r \in S, r \in T)
BY CountStep DEF Delta

LEMMA CountedAfter ==
    ASSUME TypeOK, Counted, scene' = scene,
           NEW r \in Req, \A o \in Req \ {r} : pc'[o] = pc[o],
           busy' = busy + Delta(HasBusy(r), HasBusy(r)'),
           sessions' = sessions + Delta(HasSession(r), HasSession(r)'),
           gate' = gate - Delta(HasGate(r), HasGate(r)'),
           \A u \in User : active'[u] = active[u] + Delta(HasUser(r, u), HasUser(r, u)'),
           \A i \in Worker : load'[i] = load[i] + Delta(HasWorker(r, i), HasWorker(r, i)'),
           slots' = slots - Delta(HasSlot(r), HasSlot(r)')
    PROVE  Counted'
<1>1. busy' = Cardinality({o \in Req : HasBusy(o)'})
  <2>1. \A o \in Req \ {r} : HasBusy(o)' <=> HasBusy(o)
    BY DEF HasBusy, Is, At
  <2>2. Cardinality({o \in Req : HasBusy(o)'})
            = Cardinality({o \in Req : HasBusy(o)})
              + Delta(r \in {o \in Req : HasBusy(o)}, r \in {o \in Req : HasBusy(o)'})
    BY <2>1, CountDelta
  <2> QED
    BY <2>2 DEF Counted, Delta
<1>2. sessions' = Cardinality({o \in Req : HasSession(o)'})
  <2>1. \A o \in Req \ {r} : HasSession(o)' <=> HasSession(o)
    BY DEF HasSession, Terminal, Is, At
  <2>2. Cardinality({o \in Req : HasSession(o)'})
            = Cardinality({o \in Req : HasSession(o)})
              + Delta(r \in {o \in Req : HasSession(o)}, r \in {o \in Req : HasSession(o)'})
    BY <2>1, CountDelta
  <2> QED
    BY <2>2 DEF Counted, Delta
<1>3. gate' = scene.workers - Cardinality({o \in Req : HasGate(o)'})
  <2>1. \A o \in Req \ {r} : HasGate(o)' <=> HasGate(o)
    BY DEF HasGate
  <2>2. /\ Cardinality({o \in Req : HasGate(o)}) \in Nat
        /\ Cardinality({o \in Req : HasGate(o)'})
            = Cardinality({o \in Req : HasGate(o)})
              + Delta(r \in {o \in Req : HasGate(o)}, r \in {o \in Req : HasGate(o)'})
    BY <2>1, CountDelta
  <2> QED
    BY <2>2, Scene DEF Counted, Delta
<1>4. ASSUME NEW u \in User
      PROVE  active'[u] = Cardinality({o \in Req : HasUser(o, u)'})
  <2>1. \A o \in Req \ {r} : HasUser(o, u)' <=> HasUser(o, u)
    BY DEF HasUser, UserOf
  <2>2. Cardinality({o \in Req : HasUser(o, u)'})
            = Cardinality({o \in Req : HasUser(o, u)})
              + Delta(r \in {o \in Req : HasUser(o, u)}, r \in {o \in Req : HasUser(o, u)'})
    BY <2>1, CountDelta
  <2> QED
    BY <2>2 DEF Counted, Delta
<1>5. ASSUME NEW i \in Worker
      PROVE  load'[i] = Cardinality({o \in Req : HasWorker(o, i)'})
  <2>1. \A o \in Req \ {r} : HasWorker(o, i)' <=> HasWorker(o, i)
    BY DEF HasWorker
  <2>2. Cardinality({o \in Req : HasWorker(o, i)'})
            = Cardinality({o \in Req : HasWorker(o, i)})
              + Delta(r \in {o \in Req : HasWorker(o, i)}, r \in {o \in Req : HasWorker(o, i)'})
    BY <2>1, CountDelta
  <2> QED
    BY <2>2 DEF Counted, Delta
<1>6. slots' = scene.connections - Cardinality({o \in Req : HasSlot(o)'})
  <2>1. \A o \in Req \ {r} : HasSlot(o)' <=> HasSlot(o)
    BY DEF HasSlot, Is, Free
  <2>2. /\ Cardinality({o \in Req : HasSlot(o)}) \in Nat
        /\ Cardinality({o \in Req : HasSlot(o)'})
            = Cardinality({o \in Req : HasSlot(o)})
              + Delta(r \in {o \in Req : HasSlot(o)}, r \in {o \in Req : HasSlot(o)'})
    BY <2>1, CountDelta
  <2> QED
    BY <2>2, Scene DEF Counted, Delta
<1> QED
  BY <1>1, <1>2, <1>3, <1>4, <1>5, <1>6 DEF Counted, Worker

\* The counts that a thread that moves from a to b is in.
LEMMA MoveEffect ==
    ASSUME TypeOK, Ways, scene' = scene, NEW r \in Req, NEW b \in Places, Go(r, b)
    PROVE  /\ HasBusy(r)' <=> b \in InRun \/ (Is(r, "run") /\ b = "exit")
           /\ HasSession(r)' <=> b \in InSession \/ (Terminal(r) /\ b = "exit")
           /\ HasGate(r)' <=> b \in InGate
           /\ \A u : HasUser(r, u)' <=> UserOf(r) = u /\ b \notin {"idle", "over", "limit", "end"}
           /\ pc[r] \in Located =>
                \A i : HasWorker(r, i)' <=> b \in InRun \ {"choose"} /\ pc[r].i = i
           /\ b \notin InRun \ {"choose"} => \A i : ~HasWorker(r, i)'
           /\ HasSlot(r)' <=> ~Is(r, "poll") /\ b \notin {"idle", "over"}
BY GoEffect DEF HasBusy, HasSession, HasGate, HasUser, HasWorker, HasSlot, At, Is, Terminal, Free, UserOf

LEMMA BeginCounted ==
    ASSUME TypeOK, Ways, Counted, NEW r \in Req, Begin(r)
    PROVE  Counted'
<1>1. "limit" \in Places /\ Go(r, "limit") /\ At(r, "idle") /\ ~Is(r, "poll") /\ scene' = scene
  BY DEF Begin, Places, Is
<1>2. \A o \in Req \ {r} : pc'[o] = pc[o]
  BY <1>1, GoEffect
<1>3. /\ ~HasBusy(r) /\ ~HasSession(r) /\ ~HasGate(r) /\ ~HasSlot(r)
      /\ \A u : ~HasUser(r, u)
      /\ \A i : ~HasWorker(r, i)
  BY <1>1 DEF HasBusy, HasSession, HasGate, HasUser, HasWorker, HasSlot, At, Free,
              InRun, InSession, InGate
<1>4. /\ ~HasBusy(r)' /\ ~HasSession(r)' /\ ~HasGate(r)' /\ HasSlot(r)'
      /\ \A u : ~HasUser(r, u)'
      /\ \A i : ~HasWorker(r, i)'
  BY <1>1, MoveEffect DEF InRun, InSession, InGate
<1>5. /\ busy' = busy + Delta(HasBusy(r), HasBusy(r)')
      /\ sessions' = sessions + Delta(HasSession(r), HasSession(r)')
      /\ gate' = gate - Delta(HasGate(r), HasGate(r)')
      /\ slots' = slots - Delta(HasSlot(r), HasSlot(r)')
  BY <1>3, <1>4 DEF Begin, Delta, TypeOK
<1>6. \A u \in User : active'[u] = active[u] + Delta(HasUser(r, u), HasUser(r, u)')
  BY <1>3, <1>4 DEF Begin, limiter, Delta, TypeOK
<1>7. \A i \in Worker : load'[i] = load[i] + Delta(HasWorker(r, i), HasWorker(r, i)')
  BY <1>3, <1>4 DEF Begin, workers, Delta, TypeOK
<1> QED
  BY <1>1, <1>2, <1>5, <1>6, <1>7, CountedAfter

\* Most moves change no count ...
SameCounts(r) ==
    /\ HasBusy(r)' <=> HasBusy(r)
    /\ HasSession(r)' <=> HasSession(r)
    /\ HasGate(r)' <=> HasGate(r)
    /\ \A u \in User : HasUser(r, u)' <=> HasUser(r, u)
    /\ \A i \in Worker : HasWorker(r, i)' <=> HasWorker(r, i)
    /\ HasSlot(r)' <=> HasSlot(r)

LEMMA NothingCounted ==
    ASSUME Counted, scene' = scene, \A r \in Req : SameCounts(r),
           UNCHANGED <<busy, sessions, gate, active, load, slots>>
    PROVE  Counted'
<1>1. {r \in Req : HasBusy(r)'} = {r \in Req : HasBusy(r)}
  BY DEF SameCounts
<1>2. {r \in Req : HasSession(r)'} = {r \in Req : HasSession(r)}
  BY DEF SameCounts
<1>3. {r \in Req : HasGate(r)'} = {r \in Req : HasGate(r)}
  BY DEF SameCounts
<1>4. \A u \in User : {r \in Req : HasUser(r, u)'} = {r \in Req : HasUser(r, u)}
  BY DEF SameCounts
<1>5. \A i \in Worker : {r \in Req : HasWorker(r, i)'} = {r \in Req : HasWorker(r, i)}
  BY DEF SameCounts
<1>6. {r \in Req : HasSlot(r)'} = {r \in Req : HasSlot(r)}
  BY DEF SameCounts
<1> QED
  BY <1>1, <1>2, <1>3, <1>4, <1>5, <1>6 DEF Counted, Worker

\* ... because the places a thread moves between count alike.
LEMMA MoveCounted ==
    ASSUME TypeOK, Ways, Counted, scene' = scene,
           UNCHANGED <<busy, sessions, gate, active, load, slots>>,
           NEW r \in Req, NEW a \in Places, NEW b \in Places, At(r, a), Go(r, b),
           \/ a = "idle" /\ b = "limit" /\ Is(r, "poll")
           \/ a = "limit" /\ b = "end"
           \/ a = "enter" /\ b = "release"
           \/ a \in InRun \ {"choose"} /\ b \in InRun \ {"choose"}
           \/ a \in InSession \ InGate /\ b \in (InSession \ InGate) \cup {"exit"}
           \/ a \in InGate /\ b \in InGate
    PROVE  Counted'
<1>1. \A o \in Req \ {r} : pc'[o] = pc[o]
  BY GoEffect
<1>2. \A o \in Req \ {r} : SameCounts(o)
  BY <1>1 DEF SameCounts, HasBusy, HasSession, HasGate, HasUser, HasWorker, HasSlot,
              At, Is, Terminal, Free, UserOf
<1>3. SameCounts(r)
  <2>1. /\ a \in InRun \ {"choose"} => Is(r, "run") /\ pc[r] \in Located
        /\ a \in InSession => Terminal(r)
        /\ a = pc[r].at
        /\ ~(Is(r, "run") /\ Terminal(r))
    BY DEF Ways, At, Is, Terminal
  <2>2. /\ HasBusy(r)' <=> HasBusy(r)
        /\ HasSession(r)' <=> HasSession(r)
        /\ HasGate(r)' <=> HasGate(r)
        /\ HasSlot(r)' <=> HasSlot(r)
        /\ \A u \in User : HasUser(r, u)' <=> HasUser(r, u)
    BY <2>1, MoveEffect DEF HasBusy, HasSession, HasGate, HasUser, HasSlot,
                            At, Free, InRun, InSession, InGate
  <2>3. \A i \in Worker : HasWorker(r, i)' <=> HasWorker(r, i)
    BY <2>1, MoveEffect DEF HasWorker, InRun, InSession, InGate
  <2> QED
    BY <2>2, <2>3 DEF SameCounts
<1> QED
  BY <1>2, <1>3, NothingCounted

\* Every thread whose move is counted moves on its own.
LEMMA LimitCounted ==
    ASSUME TypeOK, Ways, Counted, NEW r \in Req, Limit(r)
    PROVE  Counted'
<1>1. At(r, "limit") /\ scene' = scene /\ UNCHANGED <<busy, sessions, gate, load, slots>>
  BY DEF Limit, counts, workers
<1>2. CASE Go(r, "end") /\ UNCHANGED active
  BY <1>1, <1>2, MoveCounted DEF Places
<1>3. CASE Go(r, "enter") /\ active' = [active EXCEPT ![UserOf(r)] = @ + 1]
  <2>1. "enter" \in Places
    BY DEF Places
  <2>2. /\ ~HasBusy(r) /\ ~HasBusy(r)' /\ ~HasSession(r) /\ ~HasSession(r)'
        /\ ~HasGate(r) /\ ~HasGate(r)' /\ (HasSlot(r)' <=> HasSlot(r))
        /\ \A u : ~HasUser(r, u) /\ (HasUser(r, u)' <=> UserOf(r) = u)
        /\ \A i : ~HasWorker(r, i) /\ ~HasWorker(r, i)'
    BY <1>1, <1>3, <2>1, MoveEffect
       DEF HasBusy, HasSession, HasGate, HasUser, HasWorker, HasSlot, At, Free,
           InRun, InSession, InGate
  <2>3. /\ busy' = busy + Delta(HasBusy(r), HasBusy(r)')
        /\ sessions' = sessions + Delta(HasSession(r), HasSession(r)')
        /\ gate' = gate - Delta(HasGate(r), HasGate(r)')
        /\ slots' = slots - Delta(HasSlot(r), HasSlot(r)')
    BY <1>1, <2>2 DEF Delta, TypeOK
  <2>4. \A u \in User : active'[u] = active[u] + Delta(HasUser(r, u), HasUser(r, u)')
    BY <1>3, <2>2 DEF Delta, TypeOK
  <2>5. \A i \in Worker : load'[i] = load[i] + Delta(HasWorker(r, i), HasWorker(r, i)')
    BY <1>1, <2>2 DEF Delta, TypeOK
  <2> QED
    BY <1>1, <1>3, <2>1, <2>3, <2>4, <2>5, GoEffect, CountedAfter
<1> QED
  BY <1>2, <1>3 DEF Limit

LEMMA EnterCounted ==
    ASSUME TypeOK, Ways, Counted, NEW r \in Req, Enter(r)
    PROVE  Counted'
<1>1. At(r, "enter") /\ scene' = scene /\ UNCHANGED <<active, gate, load, slots>>
  BY DEF Enter, limiter, workers
<1>2. CASE Go(r, "release") /\ UNCHANGED <<busy, sessions>>
  BY <1>1, <1>2, MoveCounted DEF Places, InRun, InSession, InGate
<1>3. CASE Is(r, "run") /\ Go(r, "choose") /\ busy' = busy + 1 /\ UNCHANGED sessions
  <2>1. "choose" \in Places
    BY DEF Places, InRun, InSession, InGate
  <2>2. /\ ~HasBusy(r) /\ HasBusy(r)'
        /\ ~HasSession(r) /\ ~HasSession(r)'
        /\ ~HasGate(r) /\ ~HasGate(r)'
        /\ (HasSlot(r)' <=> HasSlot(r))
        /\ \A u \in User : HasUser(r, u)' <=> HasUser(r, u)
        /\ \A i \in Worker : HasWorker(r, i)' <=> HasWorker(r, i)
    BY <1>1, <1>3, <2>1, MoveEffect
       DEF HasBusy, HasSession, HasGate, HasUser, HasWorker, HasSlot,
           At, Is, Terminal, Free, InRun, InSession, InGate, Kinds, Ways
  <2>3. /\ busy' = busy + Delta(HasBusy(r), HasBusy(r)')
        /\ sessions' = sessions + Delta(HasSession(r), HasSession(r)')
        /\ gate' = gate - Delta(HasGate(r), HasGate(r)')
        /\ slots' = slots - Delta(HasSlot(r), HasSlot(r)')
    BY <1>1, <1>3, <2>2 DEF Delta, TypeOK
  <2>4. \A u \in User : active'[u] = active[u] + Delta(HasUser(r, u), HasUser(r, u)')
    BY <1>1, <1>3, <2>2 DEF Delta, TypeOK
  <2>5. \A i \in Worker : load'[i] = load[i] + Delta(HasWorker(r, i), HasWorker(r, i)')
    BY <1>1, <1>3, <2>2 DEF Delta, TypeOK
  <2> QED
    BY <1>1, <1>3, <2>1, <2>3, <2>4, <2>5, GoEffect, CountedAfter
<1>4. CASE ~Is(r, "run") /\ Go(r, "gate") /\ sessions' = sessions + 1 /\ UNCHANGED busy
  <2>1. "gate" \in Places
    BY DEF Places, InRun, InSession, InGate
  <2>2. /\ ~HasBusy(r) /\ ~HasBusy(r)'
        /\ ~HasSession(r) /\ HasSession(r)'
        /\ ~HasGate(r) /\ ~HasGate(r)'
        /\ (HasSlot(r)' <=> HasSlot(r))
        /\ \A u \in User : HasUser(r, u)' <=> HasUser(r, u)
        /\ \A i \in Worker : HasWorker(r, i)' <=> HasWorker(r, i)
    BY <1>1, <1>4, <2>1, MoveEffect
       DEF HasBusy, HasSession, HasGate, HasUser, HasWorker, HasSlot,
           At, Is, Terminal, Free, InRun, InSession, InGate, Kinds, Ways
  <2>3. /\ busy' = busy + Delta(HasBusy(r), HasBusy(r)')
        /\ sessions' = sessions + Delta(HasSession(r), HasSession(r)')
        /\ gate' = gate - Delta(HasGate(r), HasGate(r)')
        /\ slots' = slots - Delta(HasSlot(r), HasSlot(r)')
    BY <1>1, <1>4, <2>2 DEF Delta, TypeOK
  <2>4. \A u \in User : active'[u] = active[u] + Delta(HasUser(r, u), HasUser(r, u)')
    BY <1>1, <1>4, <2>2 DEF Delta, TypeOK
  <2>5. \A i \in Worker : load'[i] = load[i] + Delta(HasWorker(r, i), HasWorker(r, i)')
    BY <1>1, <1>4, <2>2 DEF Delta, TypeOK
  <2> QED
    BY <1>1, <1>4, <2>1, <2>3, <2>4, <2>5, GoEffect, CountedAfter
<1> QED
  BY <1>1, <1>2, <1>3, <1>4 DEF Enter

LEMMA ExitCounted ==
    ASSUME TypeOK, Ways, Counted, NEW r \in Req, Exit(r)
    PROVE  Counted'
<1>1. At(r, "exit") /\ scene' = scene /\ Go(r, "release")
      /\ UNCHANGED <<active, gate, load, slots>>
  BY DEF Exit, limiter, workers
<1>2. CASE Is(r, "run") /\ busy' = busy - 1 /\ UNCHANGED sessions
  <2>1. "release" \in Places
    BY DEF Places, InRun, InSession, InGate
  <2>2. /\ HasBusy(r) /\ ~HasBusy(r)'
        /\ ~HasSession(r) /\ ~HasSession(r)'
        /\ ~HasGate(r) /\ ~HasGate(r)'
        /\ (HasSlot(r)' <=> HasSlot(r))
        /\ \A u \in User : HasUser(r, u)' <=> HasUser(r, u)
        /\ \A i \in Worker : HasWorker(r, i)' <=> HasWorker(r, i)
    BY <1>1, <1>2, <2>1, MoveEffect
       DEF HasBusy, HasSession, HasGate, HasUser, HasWorker, HasSlot,
           At, Is, Terminal, Free, InRun, InSession, InGate, Kinds, Ways
  <2>3. /\ busy' = busy + Delta(HasBusy(r), HasBusy(r)')
        /\ sessions' = sessions + Delta(HasSession(r), HasSession(r)')
        /\ gate' = gate - Delta(HasGate(r), HasGate(r)')
        /\ slots' = slots - Delta(HasSlot(r), HasSlot(r)')
    BY <1>1, <1>2, <2>2 DEF Delta, TypeOK
  <2>4. \A u \in User : active'[u] = active[u] + Delta(HasUser(r, u), HasUser(r, u)')
    BY <1>1, <1>2, <2>2 DEF Delta, TypeOK
  <2>5. \A i \in Worker : load'[i] = load[i] + Delta(HasWorker(r, i), HasWorker(r, i)')
    BY <1>1, <1>2, <2>2 DEF Delta, TypeOK
  <2> QED
    BY <1>1, <1>2, <2>1, <2>3, <2>4, <2>5, GoEffect, CountedAfter
<1>3. CASE ~Is(r, "run") /\ sessions' = sessions - 1 /\ UNCHANGED busy
  <2>1. "release" \in Places
    BY DEF Places, InRun, InSession, InGate
  <2>2. /\ ~HasBusy(r) /\ ~HasBusy(r)'
        /\ HasSession(r) /\ ~HasSession(r)'
        /\ ~HasGate(r) /\ ~HasGate(r)'
        /\ (HasSlot(r)' <=> HasSlot(r))
        /\ \A u \in User : HasUser(r, u)' <=> HasUser(r, u)
        /\ \A i \in Worker : HasWorker(r, i)' <=> HasWorker(r, i)
    BY <1>1, <1>3, <2>1, MoveEffect
       DEF HasBusy, HasSession, HasGate, HasUser, HasWorker, HasSlot,
           At, Is, Terminal, Free, InRun, InSession, InGate, Kinds, Ways
  <2>3. /\ busy' = busy + Delta(HasBusy(r), HasBusy(r)')
        /\ sessions' = sessions + Delta(HasSession(r), HasSession(r)')
        /\ gate' = gate - Delta(HasGate(r), HasGate(r)')
        /\ slots' = slots - Delta(HasSlot(r), HasSlot(r)')
    BY <1>1, <1>3, <2>2 DEF Delta, TypeOK
  <2>4. \A u \in User : active'[u] = active[u] + Delta(HasUser(r, u), HasUser(r, u)')
    BY <1>1, <1>3, <2>2 DEF Delta, TypeOK
  <2>5. \A i \in Worker : load'[i] = load[i] + Delta(HasWorker(r, i), HasWorker(r, i)')
    BY <1>1, <1>3, <2>2 DEF Delta, TypeOK
  <2> QED
    BY <1>1, <1>3, <2>1, <2>3, <2>4, <2>5, GoEffect, CountedAfter
<1> QED
  BY <1>1, <1>2, <1>3 DEF Exit

LEMMA ReleaseCounted ==
    ASSUME TypeOK, Ways, Counted, NEW r \in Req, Release(r)
    PROVE  Counted'
<1>1. At(r, "release") /\ scene' = scene /\ UNCHANGED <<busy, sessions, gate, load, slots>>
  BY DEF Release, counts, workers
<1>2. CASE Go(r, "end") /\ active' = [active EXCEPT ![UserOf(r)] = @ - 1]
  <2>1. "end" \in Places
    BY DEF Places, InRun, InSession, InGate
  <2>2. /\ ~HasBusy(r) /\ ~HasBusy(r)'
        /\ ~HasSession(r) /\ ~HasSession(r)'
        /\ ~HasGate(r) /\ ~HasGate(r)'
        /\ (HasSlot(r)' <=> HasSlot(r))
        /\ \A u : ~HasUser(r, u)' /\ (HasUser(r, u) <=> UserOf(r) = u)
        /\ \A i \in Worker : HasWorker(r, i)' <=> HasWorker(r, i)
    BY <1>1, <1>2, <2>1, MoveEffect
       DEF HasBusy, HasSession, HasGate, HasUser, HasWorker, HasSlot,
           At, Is, Terminal, Free, InRun, InSession, InGate, Kinds, Ways
  <2>3. /\ busy' = busy + Delta(HasBusy(r), HasBusy(r)')
        /\ sessions' = sessions + Delta(HasSession(r), HasSession(r)')
        /\ gate' = gate - Delta(HasGate(r), HasGate(r)')
        /\ slots' = slots - Delta(HasSlot(r), HasSlot(r)')
    BY <1>1, <1>2, <2>2 DEF Delta, TypeOK
  <2>4. \A u \in User : active'[u] = active[u] + Delta(HasUser(r, u), HasUser(r, u)')
    BY <1>1, <1>2, <2>2 DEF Delta, TypeOK
  <2>5. \A i \in Worker : load'[i] = load[i] + Delta(HasWorker(r, i), HasWorker(r, i)')
    BY <1>1, <1>2, <2>2 DEF Delta, TypeOK
  <2> QED
    BY <1>1, <1>2, <2>1, <2>3, <2>4, <2>5, GoEffect, CountedAfter
<1> QED
  BY <1>1, <1>2 DEF Release

LEMMA LeaveCounted ==
    ASSUME TypeOK, Ways, Counted, NEW r \in Req, Leave(r)
    PROVE  Counted'
<1>1. /\ At(r, "leave") /\ scene' = scene /\ UNCHANGED <<busy, sessions, active, gate, slots>>
      /\ pc[r] \in Located
  BY DEF Leave, counts, limiter, Ways, At, InRun
<1>2. CASE Go(r, "exit") /\ load' = [load EXCEPT ![pc[r].i] = @ - 1]
  <2>1. "exit" \in Places
    BY DEF Places, InRun, InSession, InGate
  <2>2. /\ (HasBusy(r)' <=> HasBusy(r))
        /\ ~HasSession(r) /\ ~HasSession(r)'
        /\ ~HasGate(r) /\ ~HasGate(r)'
        /\ (HasSlot(r)' <=> HasSlot(r))
        /\ \A u \in User : HasUser(r, u)' <=> HasUser(r, u)
        /\ \A i : ~HasWorker(r, i)' /\ (HasWorker(r, i) <=> pc[r].i = i)
    BY <1>1, <1>2, <2>1, MoveEffect
       DEF HasBusy, HasSession, HasGate, HasUser, HasWorker, HasSlot,
           At, Is, Terminal, Free, InRun, InSession, InGate, Kinds, Ways
  <2>3. /\ busy' = busy + Delta(HasBusy(r), HasBusy(r)')
        /\ sessions' = sessions + Delta(HasSession(r), HasSession(r)')
        /\ gate' = gate - Delta(HasGate(r), HasGate(r)')
        /\ slots' = slots - Delta(HasSlot(r), HasSlot(r)')
    BY <1>1, <1>2, <2>2 DEF Delta, TypeOK
  <2>4. \A u \in User : active'[u] = active[u] + Delta(HasUser(r, u), HasUser(r, u)')
    BY <1>1, <1>2, <2>2 DEF Delta, TypeOK
  <2>5. \A i \in Worker : load'[i] = load[i] + Delta(HasWorker(r, i), HasWorker(r, i)')
    BY <1>1, <1>2, <2>2 DEF Delta, TypeOK
  <2> QED
    BY <1>1, <1>2, <2>1, <2>3, <2>4, <2>5, GoEffect, CountedAfter
<1> QED
  BY <1>1, <1>2 DEF Leave

LEMMA GateCounted ==
    ASSUME TypeOK, Ways, Counted, NEW r \in Req, Gate(r)
    PROVE  Counted'
<1>1. At(r, "gate") /\ scene' = scene /\ UNCHANGED <<busy, sessions, active, load, slots>>
  BY DEF Gate, limiter, workers
<1>2. CASE gate' = gate - 1 /\ Go(r, "fork")
  <2>1. "fork" \in Places
    BY DEF Places, InRun, InSession, InGate
  <2>2. /\ (HasBusy(r)' <=> HasBusy(r))
        /\ (HasSession(r)' <=> HasSession(r))
        /\ ~HasGate(r) /\ HasGate(r)'
        /\ (HasSlot(r)' <=> HasSlot(r))
        /\ \A u \in User : HasUser(r, u)' <=> HasUser(r, u)
        /\ \A i \in Worker : HasWorker(r, i)' <=> HasWorker(r, i)
    BY <1>1, <1>2, <2>1, MoveEffect
       DEF HasBusy, HasSession, HasGate, HasUser, HasWorker, HasSlot,
           At, Is, Terminal, Free, InRun, InSession, InGate, Kinds, Ways
  <2>3. /\ busy' = busy + Delta(HasBusy(r), HasBusy(r)')
        /\ sessions' = sessions + Delta(HasSession(r), HasSession(r)')
        /\ gate' = gate - Delta(HasGate(r), HasGate(r)')
        /\ slots' = slots - Delta(HasSlot(r), HasSlot(r)')
    BY <1>1, <1>2, <2>2 DEF Delta, TypeOK
  <2>4. \A u \in User : active'[u] = active[u] + Delta(HasUser(r, u), HasUser(r, u)')
    BY <1>1, <1>2, <2>2 DEF Delta, TypeOK
  <2>5. \A i \in Worker : load'[i] = load[i] + Delta(HasWorker(r, i), HasWorker(r, i)')
    BY <1>1, <1>2, <2>2 DEF Delta, TypeOK
  <2> QED
    BY <1>1, <1>2, <2>1, <2>3, <2>4, <2>5, GoEffect, CountedAfter
<1>3. CASE UNCHANGED gate /\ \E b \in {"exit", "queued"} : Go(r, b)
  BY <1>1, <1>3, MoveCounted DEF Places, InRun, InSession, InGate
<1> QED
  BY <1>1, <1>2, <1>3 DEF Gate

LEMMA DequeueCounted ==
    ASSUME TypeOK, Ways, Counted, NEW r \in Req, Dequeue(r)
    PROVE  Counted'
<1>1. At(r, "queued") /\ scene' = scene /\ UNCHANGED <<busy, sessions, active, load, slots>>
  BY DEF Dequeue, limiter, workers
<1>2. CASE gate' = gate - 1 /\ Go(r, "fork")
  <2>1. "fork" \in Places
    BY DEF Places, InRun, InSession, InGate
  <2>2. /\ (HasBusy(r)' <=> HasBusy(r))
        /\ (HasSession(r)' <=> HasSession(r))
        /\ ~HasGate(r) /\ HasGate(r)'
        /\ (HasSlot(r)' <=> HasSlot(r))
        /\ \A u \in User : HasUser(r, u)' <=> HasUser(r, u)
        /\ \A i \in Worker : HasWorker(r, i)' <=> HasWorker(r, i)
    BY <1>1, <1>2, <2>1, MoveEffect
       DEF HasBusy, HasSession, HasGate, HasUser, HasWorker, HasSlot,
           At, Is, Terminal, Free, InRun, InSession, InGate, Kinds, Ways
  <2>3. /\ busy' = busy + Delta(HasBusy(r), HasBusy(r)')
        /\ sessions' = sessions + Delta(HasSession(r), HasSession(r)')
        /\ gate' = gate - Delta(HasGate(r), HasGate(r)')
        /\ slots' = slots - Delta(HasSlot(r), HasSlot(r)')
    BY <1>1, <1>2, <2>2 DEF Delta, TypeOK
  <2>4. \A u \in User : active'[u] = active[u] + Delta(HasUser(r, u), HasUser(r, u)')
    BY <1>1, <1>2, <2>2 DEF Delta, TypeOK
  <2>5. \A i \in Worker : load'[i] = load[i] + Delta(HasWorker(r, i), HasWorker(r, i)')
    BY <1>1, <1>2, <2>2 DEF Delta, TypeOK
  <2> QED
    BY <1>1, <1>2, <2>1, <2>3, <2>4, <2>5, GoEffect, CountedAfter
<1> QED
  BY <1>1, <1>2 DEF Dequeue

LEMMA UngateCounted ==
    ASSUME TypeOK, Ways, Counted, NEW r \in Req, Ungate(r)
    PROVE  Counted'
<1>1. At(r, "compile") /\ scene' = scene /\ UNCHANGED <<busy, sessions, active, load, slots>>
  BY DEF Ungate, limiter, workers
<1>2. CASE gate' = gate + 1 /\ Go(r, "join")
  <2>1. "join" \in Places
    BY DEF Places, InRun, InSession, InGate
  <2>2. /\ (HasBusy(r)' <=> HasBusy(r))
        /\ (HasSession(r)' <=> HasSession(r))
        /\ HasGate(r) /\ ~HasGate(r)'
        /\ (HasSlot(r)' <=> HasSlot(r))
        /\ \A u \in User : HasUser(r, u)' <=> HasUser(r, u)
        /\ \A i \in Worker : HasWorker(r, i)' <=> HasWorker(r, i)
    BY <1>1, <1>2, <2>1, MoveEffect
       DEF HasBusy, HasSession, HasGate, HasUser, HasWorker, HasSlot,
           At, Is, Terminal, Free, InRun, InSession, InGate, Kinds, Ways
  <2>3. /\ busy' = busy + Delta(HasBusy(r), HasBusy(r)')
        /\ sessions' = sessions + Delta(HasSession(r), HasSession(r)')
        /\ gate' = gate - Delta(HasGate(r), HasGate(r)')
        /\ slots' = slots - Delta(HasSlot(r), HasSlot(r)')
    BY <1>1, <1>2, <2>2 DEF Delta, TypeOK
  <2>4. \A u \in User : active'[u] = active[u] + Delta(HasUser(r, u), HasUser(r, u)')
    BY <1>1, <1>2, <2>2 DEF Delta, TypeOK
  <2>5. \A i \in Worker : load'[i] = load[i] + Delta(HasWorker(r, i), HasWorker(r, i)')
    BY <1>1, <1>2, <2>2 DEF Delta, TypeOK
  <2> QED
    BY <1>1, <1>2, <2>1, <2>3, <2>4, <2>5, GoEffect, CountedAfter
<1> QED
  BY <1>1, <1>2 DEF Ungate

\* There is a first worker among the least busy.
LEMMA ChosenWorker ==
    ASSUME TypeOK, NEW preferred \in Worker
    PROVE  Chosen(preferred) \in Worker
<1> DEFINE P(i) == \A j \in Worker : load[i] < load[j] \/ (load[i] = load[j] /\ i <= j)
           loads == {load[j] : j \in Worker}
<1>0. load \in [Worker -> Nat] /\ Worker \subseteq Nat /\ 1 \in Worker
  <2>1. load \in [Worker -> Nat]
    BY DEF TypeOK
  <2>2. scene.workers \in Nat \ {0}
    BY Scene
  <2> QED
    BY <2>1, <2>2 DEF Worker
<1>1. loads \in SUBSET Nat /\ loads # {}
  BY <1>0
<1>2. PICK n \in loads : \A m \in loads : n <= m
  BY <1>1, Smallest
<1> DEFINE T == {j \in Worker : load[j] = n}
<1>3. T \in SUBSET Nat /\ T # {}
  BY <1>0, <1>2
<1> HIDE DEF loads
<1>4. PICK i \in T : \A j \in T : i <= j
  BY <1>3, Smallest
<1>5. \A j \in Worker : n <= load[j] /\ load[j] \in Nat
  BY <1>0, <1>2 DEF loads
<1>6. i \in Worker /\ P(i)
  BY <1>0, <1>4, <1>5
<1>7. (CHOOSE k \in Worker : P(k)) \in Worker
  BY <1>6
<1> QED
  BY <1>7 DEF Chosen

LEMMA ChooseCounted ==
    ASSUME TypeOK, Ways, Counted, NEW r \in Req, Choose(r)
    PROVE  Counted'
<1>1. /\ At(r, "choose") /\ scene' = scene
      /\ UNCHANGED <<busy, sessions, active, gate, slots>>
  BY DEF Choose, counts, limiter
<1>2. PICK i \in Worker : /\ load' = [load EXCEPT ![i] = @ + 1]
                          /\ pc' = [pc EXCEPT ![r] = [at |-> "submit", i |-> i, pool |-> pools[i]]]
  BY ChosenWorker DEF Choose
<1>3. /\ \A o \in Req \ {r} : pc'[o] = pc[o]
      /\ pc'[r].at = "submit" /\ pc'[r].i = i
  BY <1>2 DEF TypeOK
<1>4. /\ HasBusy(r) /\ HasBusy(r)'
      /\ ~HasSession(r) /\ ~HasSession(r)'
      /\ ~HasGate(r) /\ ~HasGate(r)'
      /\ (HasSlot(r)' <=> HasSlot(r))
      /\ \A u \in User : HasUser(r, u)' <=> HasUser(r, u)
      /\ \A k : ~HasWorker(r, k) /\ (HasWorker(r, k)' <=> k = i)
  BY <1>1, <1>3 DEF HasBusy, HasSession, HasGate, HasUser, HasWorker, HasSlot,
           At, Is, Terminal, Free, UserOf, InRun, InSession, InGate
<1>5. /\ busy' = busy + Delta(HasBusy(r), HasBusy(r)')
      /\ sessions' = sessions + Delta(HasSession(r), HasSession(r)')
      /\ gate' = gate - Delta(HasGate(r), HasGate(r)')
      /\ slots' = slots - Delta(HasSlot(r), HasSlot(r)')
  BY <1>1, <1>4 DEF Delta, TypeOK
<1>6. \A u \in User : active'[u] = active[u] + Delta(HasUser(r, u), HasUser(r, u)')
  BY <1>1, <1>4 DEF Delta, TypeOK
<1>7. \A k \in Worker : load'[k] = load[k] + Delta(HasWorker(r, k), HasWorker(r, k)')
  BY <1>2, <1>4 DEF Delta, TypeOK
<1> QED
  BY <1>1, <1>3, <1>5, <1>6, <1>7, CountedAfter

LEMMA EndCounted ==
    ASSUME TypeOK, Ways, Counted, NEW r \in Req, End(r)
    PROVE  Counted'
<1>1. /\ At(r, "end") /\ scene' = scene
      /\ UNCHANGED <<busy, sessions, active, gate, load>>
      /\ slots' = IF Is(r, "poll") THEN slots ELSE slots + 1
  BY DEF End, limiter, workers
<1>2. /\ \A o \in Req \ {r} : pc'[o] = pc[o]
      /\ pc'[r].at = "over"
  BY DEF End, TypeOK
<1>3. /\ ~HasBusy(r) /\ ~HasBusy(r)'
      /\ ~HasSession(r) /\ ~HasSession(r)'
      /\ ~HasGate(r) /\ ~HasGate(r)'
      /\ (HasSlot(r) <=> ~Is(r, "poll")) /\ ~HasSlot(r)'
      /\ \A u \in User : ~HasUser(r, u)' /\ ~HasUser(r, u)
      /\ \A k : ~HasWorker(r, k) /\ ~HasWorker(r, k)'
  BY <1>1, <1>2 DEF HasBusy, HasSession, HasGate, HasUser, HasWorker, HasSlot,
           At, Is, Terminal, Free, UserOf, InRun, InSession, InGate
<1>4. /\ busy' = busy + Delta(HasBusy(r), HasBusy(r)')
      /\ sessions' = sessions + Delta(HasSession(r), HasSession(r)')
      /\ gate' = gate - Delta(HasGate(r), HasGate(r)')
      /\ slots' = slots - Delta(HasSlot(r), HasSlot(r)')
  BY <1>1, <1>3 DEF Delta, TypeOK
<1>5. \A u \in User : active'[u] = active[u] + Delta(HasUser(r, u), HasUser(r, u)')
  BY <1>1, <1>3 DEF Delta, TypeOK
<1>6. \A k \in Worker : load'[k] = load[k] + Delta(HasWorker(r, k), HasWorker(r, k)')
  BY <1>1, <1>3 DEF Delta, TypeOK
<1> QED
  BY <1>1, <1>2, <1>4, <1>5, <1>6, CountedAfter

\* A broken pool tells all who wait for it at once.
LEMMA BreakCounted ==
    ASSUME TypeOK, Ways, Counted, NEW g \in DOMAIN pool, Break(g)
    PROVE  Counted'
<1>1. /\ scene' = scene
      /\ UNCHANGED <<busy, sessions, gate, active, load, slots>>
  BY DEF Break, counts, limiter
<1>2. ASSUME NEW r \in Req PROVE SameCounts(r)
  <2>1. CASE At(r, "wait") /\ pc[r].pool = g
    <3>1. pc[r] \in Located /\ pc'[r] = [pc[r] EXCEPT !.at = "broken"]
      BY <2>1 DEF Break, Ways, At, InRun
    <3>2. pc'[r].at = "broken" /\ pc'[r].i = pc[r].i
      BY <3>1 DEF Located
    <3> QED
      BY <1>1, <2>1, <3>2 DEF SameCounts, HasBusy, HasSession, HasGate, HasUser, HasWorker,
         HasSlot, At, Is, Terminal, Free, UserOf, InRun, InSession, InGate
  <2>2. CASE ~(At(r, "wait") /\ pc[r].pool = g)
    <3>1. pc'[r] = pc[r]
      BY <2>2 DEF Break
    <3> QED
      BY <1>1, <3>1 DEF SameCounts, HasBusy, HasSession, HasGate, HasUser, HasWorker,
         HasSlot, At, Is, Terminal, Free, UserOf
  <2> QED
    BY <2>1, <2>2
<1> QED
  BY <1>1, <1>2, NothingCounted

\* The job that is finished is one somebody waits for, or nobody.
LEMMA FinishCounted ==
    ASSUME TypeOK, Ways, Counted, Jobs, NEW g \in DOMAIN pool, Finish(g)
    PROVE  Counted'
<1>1. scene' = scene /\ UNCHANGED <<busy, sessions, gate, active, load, slots>>
  BY DEF Finish, counts, limiter
<1> DEFINE r == Head(pool[g].jobs).of
<1>2. 1 \in DOMAIN pool[g].jobs /\ Head(pool[g].jobs) = pool[g].jobs[1]
      /\ pool[g].jobs[1] \in Job
  <2>1. pool[g].jobs \in Seq(Job) /\ pool[g].jobs # <<>>
    BY PoolType DEF Finish
  <2>2. /\ Len(pool[g].jobs) \in Nat /\ Len(pool[g].jobs) # 0
        /\ DOMAIN pool[g].jobs = 1 .. Len(pool[g].jobs)
    BY <2>1, LenProperties, EmptySeq
  <2> QED
    BY <2>1, <2>2, HeadTailProperties, ElementOfSeq
<1>3. CASE r = None
  <2>1. pc' = pc
    BY <1>3 DEF Finish
  <2>2. \A o \in Req : SameCounts(o)
    BY <1>1, <2>1 DEF SameCounts, HasBusy, HasSession, HasGate, HasUser, HasWorker,
         HasSlot, At, Is, Terminal, Free, UserOf
  <2> QED
    BY <1>1, <2>2, NothingCounted
<1>4. CASE r # None
  <2>1. r \in Req /\ At(r, "wait") /\ Go(r, "leave")
    BY <1>2, <1>4 DEF Finish, Jobs, JobIs, Job
  <2> HIDE DEF r
  <2> QED
    BY <1>1, <2>1, MoveCounted DEF Places, InRun, InSession, InGate
<1> QED
  BY <1>3, <1>4

LEMMA CountersKept ==
    TypeOK /\ Ways /\ Counted /\ Jobs /\ [Next]_vars => Counted'
<1> SUFFICES ASSUME TypeOK, Ways, Counted, Jobs, [Next]_vars PROVE Counted'
  OBVIOUS
<1>1. ASSUME scene' = scene, pc' = pc, UNCHANGED <<busy, sessions, gate, active, load, slots>>
      PROVE  Counted'
  <2>1. \A o \in Req : SameCounts(o)
    BY <1>1 DEF SameCounts, HasBusy, HasSession, HasGate, HasUser, HasWorker,
         HasSlot, At, Is, Terminal, Free, UserOf
  <2> QED
    BY <1>1, <2>1, NothingCounted
<1>2. ASSUME NEW r \in Req, Serving(r) PROVE Counted'
  <2>1. CASE Submit(r)
    BY <2>1, MoveCounted DEF Submit, counts, limiter, Places, InRun, InSession, InGate
  <2>2. CASE Replace(r)
    BY <2>2, MoveCounted DEF Replace, counts, limiter, Places, InRun, InSession, InGate
  <2>3. CASE GateTimeOut(r)
    BY <2>3, MoveCounted DEF GateTimeOut, counts, limiter, workers, Places, InRun, InSession, InGate
  <2>4. CASE Fork(r)
    BY <2>4, MoveCounted DEF Fork, counts, limiter, workers, Places, InRun, InSession, InGate
  <2>5. CASE Join(r)
    BY <2>5, MoveCounted DEF Join, counts, limiter, workers, Places, InRun, InSession, InGate
  <2> QED
    BY <1>2, <2>1, <2>2, <2>3, <2>4, <2>5, LimitCounted, EnterCounted, ExitCounted,
       ReleaseCounted, EndCounted, ChooseCounted, LeaveCounted, GateCounted, DequeueCounted,
       UngateCounted DEF Serving
<1>3. ASSUME NEW r \in Req, Start(r) PROVE Counted'
  BY <1>3, MoveCounted DEF Start, counts, limiter, workers, Places, InRun, InSession, InGate
<1>4. ASSUME NEW r \in Req, TimeOut(r) PROVE Counted'
  BY <1>4, MoveCounted DEF TimeOut, counts, limiter, workers, Places, InRun, InSession, InGate
<1>5. ASSUME NEW r \in Req, Child(r) \/ Crash(r) \/ Deafen(r) PROVE Counted'
  BY <1>1, <1>5 DEF Child, Started, Ended, Backstop, Crash, Deafen, counts, limiter, workers
<1>6. ASSUME NEW r \in Req, Pump(r) \/ Poll(r) \/ Gone(r) \/ Quiet(r) \/ Old(r) PROVE Counted'
  BY <1>1, <1>6 DEF Pump, Poll, Gone, Quiet, Old, counts, limiter, workers
<1>7. ASSUME Reap \/ Reaped PROVE Counted'
  BY <1>1, <1>7 DEF Reap, Reaped, counts, limiter, workers
<1>8. CASE UNCHANGED vars
  BY <1>1, <1>8 DEF vars, counts, limiter, workers
<1> QED
  BY <1>2, <1>3, <1>4, <1>5, <1>6, <1>7, <1>8, BeginCounted, BreakCounted, FinishCounted DEF Next

-----------------------------------------------------------------------------
(* Types *)

\* A counter is in its bounds because it counts something, or because of the
\* guard under which it grows.
CountersInBounds ==
    /\ active' \in [User -> Int] /\ load' \in [Worker -> Int]
    /\ recent' \in [User -> 0..scene.per_minute]
    /\ busy' <= scene.workers + scene.queue
    /\ sessions' <= scene.max_sessions
    /\ gate' >= 0
    /\ slots' >= 0

LEMMA CounterTypes ==
    ASSUME TypeOK, Counted', scene' = scene, CountersInBounds
    PROVE  /\ active' \in [User -> Nat] /\ recent' \in [User -> 0..scene'.per_minute]
           /\ busy' \in 0..(scene'.workers + scene'.queue)
           /\ sessions' \in 0..scene'.max_sessions
           /\ gate' \in 0..scene'.workers
           /\ slots' \in 0..scene'.connections
           /\ load' \in [Worker' -> Nat]
<1>1. \A S \in SUBSET Req : Cardinality(S) \in Nat
  BY RunnerAssumption, FS_Subset, FS_CardinalityType
<1>2. busy' \in Nat /\ sessions' \in Nat
  BY <1>1 DEF Counted
<1>3. gate' \in Int /\ gate' <= scene.workers
  <2>1. Cardinality({r \in Req : HasGate(r)'}) \in Nat
    BY <1>1
  <2>2. gate' = scene.workers - Cardinality({r \in Req : HasGate(r)'})
    BY DEF Counted
  <2> QED
    BY <2>1, <2>2, Scene
<1>4. slots' \in Int /\ slots' <= scene.connections
  <2>1. Cardinality({r \in Req : HasSlot(r)'}) \in Nat
    BY <1>1
  <2>2. slots' = scene.connections - Cardinality({r \in Req : HasSlot(r)'})
    BY DEF Counted
  <2> QED
    BY <2>1, <2>2, Scene
<1>5. ASSUME NEW u \in User PROVE active'[u] \in Nat
  <2>1. active'[u] = Cardinality({r \in Req : HasUser(r, u)'})
    BY DEF Counted
  <2> QED
    BY <1>1, <2>1
<1>6. Worker' = Worker
  BY DEF Worker
<1>7. ASSUME NEW i \in Worker PROVE load'[i] \in Nat
  <2>1. load'[i] = Cardinality({r \in Req : HasWorker(r, i)'})
    BY <1>6 DEF Counted
  <2> QED
    BY <1>1, <2>1
<1> QED
  BY <1>2, <1>3, <1>4, <1>5, <1>6, <1>7, Scene DEF CountersInBounds

LEMMA NextInBounds ==
    TypeOK /\ Ways /\ [Next]_vars => scene' = scene /\ CountersInBounds
<1> SUFFICES ASSUME TypeOK, Ways, [Next]_vars PROVE scene' = scene /\ CountersInBounds
  OBVIOUS
<1>0. /\ active \in [User -> Int] /\ load \in [Worker -> Int]
      /\ recent \in [User -> 0..scene.per_minute]
      /\ busy \in Int /\ busy <= scene.workers + scene.queue
      /\ sessions \in Int /\ sessions <= scene.max_sessions
      /\ gate \in Int /\ gate >= 0
      /\ slots \in Int /\ slots >= 0
      /\ scene.workers + scene.queue \in Int /\ scene.max_sessions \in Int
      /\ scene.per_minute \in Nat
  <2>1. /\ scene.workers \in Nat /\ scene.queue \in Nat /\ scene.max_sessions \in Nat
        /\ scene.per_minute \in Nat /\ scene.connections \in Nat
    BY Scene
  <2>2. /\ active \in [User -> Nat] /\ load \in [Worker -> Nat]
        /\ recent \in [User -> 0..scene.per_minute]
        /\ busy \in 0..(scene.workers + scene.queue) /\ sessions \in 0..scene.max_sessions
        /\ gate \in 0..scene.workers /\ slots \in 0..scene.connections
    BY DEF TypeOK
  <2> QED
    BY <2>1, <2>2
<1>1. ASSUME UNCHANGED <<scene, active, recent, busy, sessions, gate, slots, load>>
      PROVE  scene' = scene /\ CountersInBounds
  BY <1>0, <1>1 DEF CountersInBounds
<1> USE DEF CountersInBounds, limiter, counts, workers
<1>2. ASSUME NEW r \in Req, Serving(r) PROVE scene' = scene /\ CountersInBounds
  <2>0. UserOf(r) \in User
    BY Scene DEF UserOf
  <2>1. CASE Limit(r)
    BY <1>0, <2>0, <2>1 DEF Limit, Limited
  <2>2. CASE Enter(r)
    BY <1>0, <2>2 DEF Enter, TooBusy
  <2>3. CASE Exit(r)
    BY <1>0, <2>3 DEF Exit
  <2>4. CASE Release(r)
    BY <1>0, <2>0, <2>4 DEF Release
  <2>5. CASE End(r)
    BY <1>0, <2>5 DEF End
  <2>6. CASE Choose(r)
    <3>1. PICK i \in Worker : load' = [load EXCEPT ![i] = @ + 1]
      BY <2>6, ChosenWorker DEF Choose
    <3>2. load' \in [Worker -> Int]
      BY <1>0, <3>1
    <3> QED
      BY <1>0, <2>6, <3>2 DEF Choose
  <2>7. CASE Submit(r) \/ Replace(r)
    BY <1>0, <2>7 DEF Submit, Replace
  <2>8. CASE Leave(r)
    <3>1. pc[r].i \in Worker
      BY <2>8 DEF Leave, Ways, At, InRun, Located
    <3>2. load' \in [Worker -> Int]
      BY <1>0, <2>8, <3>1 DEF Leave
    <3> QED
      BY <1>0, <2>8, <3>2 DEF Leave
  <2>9. CASE Gate(r) \/ Dequeue(r) \/ GateTimeOut(r) \/ Ungate(r)
    BY <1>0, <2>9 DEF Gate, Dequeue, GateTimeOut, Ungate
  <2>10. CASE Fork(r) \/ Join(r)
    BY <1>0, <2>10 DEF Fork, Join
  <2> QED
    BY <1>2, <2>1, <2>2, <2>3, <2>4, <2>5, <2>6, <2>7, <2>8, <2>9, <2>10 DEF Serving
<1>3. ASSUME NEW r \in Req, Begin(r) PROVE scene' = scene /\ CountersInBounds
  BY <1>0, <1>3 DEF Begin
<1>4. ASSUME NEW r \in Req, Start(r) \/ Child(r) \/ TimeOut(r) \/ Crash(r) \/ Deafen(r)
      PROVE scene' = scene /\ CountersInBounds
  BY <1>1, <1>4 DEF Start, Child, Started, Ended, Backstop, TimeOut, Crash, Deafen
<1>5. ASSUME NEW r \in Req, Pump(r) \/ Poll(r) \/ Gone(r) \/ Quiet(r) \/ Old(r)
      PROVE scene' = scene /\ CountersInBounds
  BY <1>1, <1>5 DEF Pump, Poll, Gone, Quiet, Old
<1>6. ASSUME NEW g \in DOMAIN pool, Finish(g) \/ Break(g) PROVE scene' = scene /\ CountersInBounds
  BY <1>1, <1>6 DEF Finish, Break
<1>7. ASSUME Reap \/ Reaped PROVE scene' = scene /\ CountersInBounds
  BY <1>1, <1>7 DEF Reap, Reaped
<1>8. CASE UNCHANGED vars
  BY <1>1, <1>8 DEF vars
<1> QED
  BY <1>2, <1>3, <1>4, <1>5, <1>6, <1>7, <1>8 DEF Next

-----------------------------------------------------------------------------
(* The pools and their jobs *)

PoolRecord == [jobs : Seq(Job), broken : BOOLEAN]

\* One pool changes, ...
LEMMA PoolChanged ==
    ASSUME TypeOK, scene' = scene,
           NEW g \in DOMAIN pool, NEW e \in PoolRecord, pool' = [pool EXCEPT ![g] = e]
    PROVE  /\ pool' \in Seq(PoolRecord) /\ DOMAIN pool' = DOMAIN pool
           /\ Located' = Located
           /\ pool'[g] = e
           /\ \A h \in DOMAIN pool \ {g} : pool'[h] = pool[h]
<1>1. DOMAIN pool = 1 .. Len(pool) /\ pool \in Seq(PoolRecord)
  BY PoolType DEF TypeOK, PoolRecord
<1>2. /\ pool' \in Seq(PoolRecord)
      /\ Len(pool') = Len(pool)
      /\ \A h \in 1 .. Len(pool) : pool'[h] = IF h = g THEN e ELSE pool[h]
  BY <1>1, ExceptSeq
<1>3. DOMAIN pool' = DOMAIN pool
  BY <1>1, <1>2, LenProperties
<1>4. Located' = Located
  BY <1>3 DEF Located, Worker
<1> QED
  BY <1>1, <1>2, <1>3, <1>4

\* ... or one is new.
LEMMA PoolAdded ==
    ASSUME TypeOK, pool' = Append(pool, NewPool)
    PROVE  /\ pool' \in Seq(PoolRecord)
           /\ Len(pool) + 1 \in DOMAIN pool' /\ Len(pool) + 1 \notin DOMAIN pool
           /\ DOMAIN pool' = DOMAIN pool \cup {Len(pool) + 1}
           /\ pool'[Len(pool) + 1] = NewPool
           /\ \A h \in DOMAIN pool : pool'[h] = pool[h]
<1>1. DOMAIN pool = 1 .. Len(pool) /\ pool \in Seq(PoolRecord) /\ Len(pool) \in Nat
  BY LenProperties DEF TypeOK, PoolRecord
<1>2. NewPool \in PoolRecord
  BY EmptySeq DEF NewPool, PoolRecord
<1>3. /\ pool' \in Seq(PoolRecord) /\ Len(pool') = Len(pool) + 1
      /\ \A h \in 1 .. Len(pool) : pool'[h] = pool[h]
      /\ pool'[Len(pool) + 1] = NewPool
  BY <1>1, <1>2, AppendProperties
<1>4. DOMAIN pool' = 1 .. Len(pool) + 1
  BY <1>3, LenProperties
<1> QED
  BY <1>1, <1>3, <1>4

\* The jobs of a pool that does not change stay what they are.
LEMMA OtherJobs ==
    ASSUME TypeOK, Jobs, scene' = scene, NEW g \in DOMAIN pool, pool'[g] = pool[g],
           \A o \in Req : At(o, "wait") /\ pc[o].pool = g => pc'[o] = pc[o]
    PROVE  \A k \in DOMAIN pool'[g].jobs : JobIs(g, k)'
<1>1. ASSUME NEW k \in DOMAIN pool[g].jobs PROVE JobIs(g, k)'
  <2> DEFINE j == pool[g].jobs[k]
  <2>1. j \in Job
    BY PoolType, ElementOfSeq
  <2>2. JobIs(g, k)
    BY DEF Jobs
  <2>3. CASE j.of # None
    <3>1. j.of \in Req /\ At(j.of, "wait") /\ pc[j.of].pool = g
      BY <2>1, <2>2, <2>3 DEF JobIs, Job
    <3>2. pc'[j.of] = pc[j.of]
      BY <3>1
    <3> QED
      BY <2>2, <2>3, <3>1, <3>2 DEF JobIs, At, UserOf
  <2>4. CASE j.of = None
    BY <2>2, <2>4 DEF JobIs, May
  <2> QED
    BY <2>3, <2>4
<1> QED
  BY <1>1

\* The places of threads, the pools and the jobs in them.
PlacesAndPools ==
    /\ pc \in [Req -> [at : Places] \cup Located]
    /\ pool \in Seq(PoolRecord)
    /\ pools \in [Worker -> DOMAIN pool]
    /\ Ways /\ Jobs /\ NoOrphanPool

\* A thread that waits for no job moves, and no pool changes.
LEMMA ThreadMoves ==
    ASSUME TypeOK, Ways, Jobs, NoOrphanPool, scene' = scene, UNCHANGED <<pools, pool>>,
           NEW r \in Req, ~At(r, "wait"), pc' \in [Req -> [at : Places] \cup Located],
           \A o \in Req \ {r} : pc'[o] = pc[o],
           At(r, "broken")' => pool[pc'[r].pool].broken,
           ~At(r, "idle")' => scene.kind[r] \in Kinds,
           pc'[r].at \in InRun => Is(r, "run"),
           pc'[r].at \in InSession => Terminal(r),
           pc'[r].at \in InRun \ {"choose"} => pc'[r] \in Located
    PROVE  PlacesAndPools'
<1>1. Located' = Located /\ Worker' = Worker
  BY DEF Located, Worker
<1>2. Ways'
  <2>1. ASSUME NEW o \in Req
        PROVE  /\ ~At(o, "idle")' => scene'.kind[o] \in Kinds
               /\ pc'[o].at \in InRun => Is(o, "run")'
               /\ pc'[o].at \in InSession => Terminal(o)'
               /\ pc'[o].at \in InRun \ {"choose"} => pc'[o] \in Located'
    <3>1. CASE o = r
      BY <1>1, <3>1 DEF Is, Terminal
    <3>2. CASE o # r
      BY <1>1, <3>2 DEF Ways, At, Is, Terminal
    <3> QED
      BY <3>1, <3>2
  <2> QED
    BY <2>1 DEF Ways
<1>3. Jobs'
  <2>1. ASSUME NEW g \in DOMAIN pool PROVE \A k \in DOMAIN pool'[g].jobs : JobIs(g, k)'
    <3>1. \A o \in Req : At(o, "wait") /\ pc[o].pool = g => pc'[o] = pc[o]
      OBVIOUS
    <3> QED
      BY <3>1, OtherJobs
  <2>2. ASSUME NEW o \in Req, At(o, "broken")' PROVE pool[pc'[o].pool].broken
    BY <2>2 DEF Jobs, At
  <2> QED
    BY <2>1, <2>2 DEF Jobs
<1>4. NoOrphanPool'
  BY <1>1 DEF NoOrphanPool
<1> QED
  BY <1>1, <1>2, <1>3, <1>4 DEF PlacesAndPools, TypeOK, PoolRecord

LEMMA ThreadGoes ==
    ASSUME TypeOK, Ways, Jobs, NoOrphanPool, scene' = scene, UNCHANGED <<pools, pool>>,
           NEW r \in Req, ~At(r, "wait"), NEW b \in Places, Go(r, b),
           At(r, "idle") => scene.kind[r] \in Kinds,
           b = "broken" => pool[pc[r].pool].broken,
           b \in InRun => Is(r, "run"),
           b \in InSession => Terminal(r),
           b \in InRun \ {"choose"} => pc[r] \in Located
    PROVE  PlacesAndPools'
<1>1. /\ pc' \in [Req -> [at : Places] \cup Located]
      /\ \A o \in Req \ {r} : pc'[o] = pc[o]
      /\ pc'[r].at = b
      /\ pc[r] \in Located => pc'[r] \in Located /\ pc'[r].pool = pc[r].pool
  BY GoEffect DEF At
<1>2. scene.kind[r] \in Kinds
  BY DEF Ways
<1>3. At(r, "broken")' => pool[pc'[r].pool].broken
  BY <1>1 DEF At, InRun
<1> QED
  BY <1>1, <1>2, <1>3, ThreadMoves

\* What a thread of a run has, from submit() on.
LEMMA RunPlace ==
    ASSUME TypeOK, Ways, NEW r \in Req, pc[r].at \in InRun \ {"choose"}
    PROVE  /\ pc[r] \in Located /\ pc[r].i \in Worker /\ pc[r].pool \in DOMAIN pool
           /\ Is(r, "run") /\ scene.kind[r] \in Kinds
<1>1. pc[r] \in Located
  BY DEF Ways
<1>2. Is(r, "run") /\ scene.kind[r] \in Kinds
  BY DEF Ways, Is, Kinds
<1> QED
  BY <1>1, <1>2 DEF Located

\* A job is put at the end of a pool.
LEMMA SubmitPools ==
    ASSUME TypeOK, Ways, Jobs, NoOrphanPool, NEW r \in Req, Submit(r)
    PROVE  PlacesAndPools'
<1> DEFINE g == pc[r].pool
           job == [of |-> r, user |-> UserOf(r)]
           jobs == pool[g].jobs
           e == [pool[g] EXCEPT !.jobs = Append(jobs, job)]
<1>1. scene' = scene /\ pools' = pools /\ At(r, "submit") /\ r # None
  BY RunnerAssumption DEF Submit
<1>2. pc[r] \in Located /\ g \in DOMAIN pool /\ Is(r, "run") /\ scene.kind[r] \in Kinds
  BY <1>1, RunPlace DEF At, InRun
<1>3. CASE pool[g].broken
  <2>1. pool' = pool /\ Go(r, "broken")
    BY <1>3 DEF Submit
  <2> HIDE DEF g
  <2>2. pool[pc[r].pool].broken
    BY <1>3 DEF g
  <2> QED
    BY <1>1, <1>2, <2>1, <2>2, ThreadGoes DEF At, Places, InRun, InSession, InGate
<1>4. CASE ~pool[g].broken
  <2>1. pool' = [pool EXCEPT ![g] = e] /\ Go(r, "wait")
    BY <1>4 DEF Submit
  <2>2. /\ job \in Job /\ jobs \in Seq(Job) /\ pool[g] \in PoolRecord
        /\ DOMAIN jobs = 1 .. Len(jobs) /\ Len(jobs) \in Nat
    BY <1>2, PoolType, Scene DEF Job, UserOf, PoolRecord
  <2> HIDE DEF job, jobs
  <2>3. /\ Append(jobs, job) \in Seq(Job) /\ DOMAIN Append(jobs, job) = 1 .. Len(jobs) + 1
        /\ \A k \in 1 .. Len(jobs) : Append(jobs, job)[k] = jobs[k]
        /\ Append(jobs, job)[Len(jobs) + 1] = job
    BY <2>2, AppendProperties, LenProperties
  <2>4. e \in PoolRecord /\ e.jobs = Append(jobs, job) /\ e.broken = pool[g].broken
    BY <2>2, <2>3 DEF PoolRecord
  <2> HIDE DEF e
  <2>5. /\ pool' \in Seq(PoolRecord) /\ DOMAIN pool' = DOMAIN pool
        /\ Located' = Located
        /\ pool'[g] = e
        /\ \A h \in DOMAIN pool \ {g} : pool'[h] = pool[h]
    BY <1>1, <1>2, <2>1, <2>4, PoolChanged
  <2>6. /\ pc' \in [Req -> [at : Places] \cup Located]
        /\ \A o \in Req \ {r} : pc'[o] = pc[o]
        /\ pc'[r].at = "wait"
        /\ pc'[r] \in Located /\ pc'[r].pool = g
    BY <1>2, <2>1, GoEffect DEF At, Places, InRun
  <2>7. Worker' = Worker
    BY <1>1 DEF Worker
  <2>8. Ways'
    BY <1>1, <1>2, <2>5, <2>6 DEF Ways, At, Is, Terminal, InRun, InSession, InGate
  <2>9. NoOrphanPool'
    BY <1>1, <1>2, <2>4, <2>5, <2>7 DEF NoOrphanPool
  <2>10. ASSUME NEW h \in DOMAIN pool, NEW k \in DOMAIN pool'[h].jobs PROVE JobIs(h, k)'
    <3>1. CASE h # g
      <4>1. \A o \in Req : At(o, "wait") /\ pc[o].pool = h => pc'[o] = pc[o]
        BY <1>1, <2>6 DEF At
      <4> QED
        BY <1>1, <2>5, <2>10, <3>1, <4>1, OtherJobs
    <3>2. CASE h = g
      <4>0. pool'[h].jobs = Append(jobs, job)
        BY <2>4, <2>5, <3>2
      <4>1. ASSUME NEW l \in 1 .. Len(jobs), jobs[l].of # None
            PROVE  /\ jobs[l].of \in Req /\ jobs[l].of # r
                   /\ At(jobs[l].of, "wait") /\ pc[jobs[l].of].pool = g
                   /\ jobs[l].user = UserOf(jobs[l].of)
                   /\ \A m \in 1 .. Len(jobs) : jobs[m].of = jobs[l].of => m = l
        <5>1. jobs[l] \in Job
          BY <2>2, ElementOfSeq
        <5>2. JobIs(g, l)
          BY <1>2, <2>2 DEF Jobs, jobs
        <5> QED
          BY <1>1, <2>2, <4>1, <5>1, <5>2 DEF JobIs, jobs, Job, At
      <4>2. CASE k = Len(jobs) + 1
        <5>1. \A l \in 1 .. Len(jobs) : jobs[l].of # r
          BY <1>1, <4>1
        <5> QED
          BY <1>1, <2>2, <2>3, <2>6, <3>2, <4>0, <4>2, <5>1 DEF JobIs, At, UserOf, job
      <4>3. CASE k \in 1 .. Len(jobs)
        <5>1. Append(jobs, job)[k] = jobs[k]
          BY <2>3, <4>3
        <5>2. job.of = r
          BY DEF job
        <5>3. CASE jobs[k].of = None
          <6>1. JobIs(g, k)
            BY <1>2, <2>2, <4>3 DEF Jobs, jobs
          <6>2. May("slow")
            BY <5>3, <6>1 DEF JobIs, jobs
          <6> QED
            BY <1>1, <3>2, <4>0, <5>1, <5>3, <6>2 DEF JobIs, May
        <5>4. CASE jobs[k].of # None
          <6>1. pc'[jobs[k].of] = pc[jobs[k].of]
            BY <2>6, <4>1, <4>3, <5>4
          <6>2. \A l \in 1 .. Len(jobs) + 1 : Append(jobs, job)[l].of = jobs[k].of => l = k
            BY <2>2, <2>3, <4>1, <4>3, <5>2, <5>4
          <6> QED
            BY <1>1, <2>3, <3>2, <4>0, <4>1, <4>3, <5>1, <5>4, <6>1, <6>2 DEF JobIs, At, UserOf
        <5> QED
          BY <5>3, <5>4
      <4> QED
        BY <2>2, <2>3, <2>10, <4>0, <4>2, <4>3
    <3> QED
      BY <3>1, <3>2
  <2>11. ASSUME NEW o \in Req, At(o, "broken")' PROVE pool'[pc'[o].pool].broken
    <3>1. pc'[o] = pc[o] /\ At(o, "broken")
      BY <2>6, <2>11 DEF At
    <3>2. pool[pc[o].pool].broken /\ pc[o].pool \in DOMAIN pool
      BY <3>1, RunPlace DEF Jobs, At, InRun
    <3> QED
      BY <2>4, <2>5, <3>1, <3>2
  <2> QED
    BY <1>1, <2>5, <2>6, <2>7, <2>8, <2>9, <2>10, <2>11 DEF PlacesAndPools, Jobs, TypeOK
<1> QED
  BY <1>3, <1>4

\* A step that changes the jobs of one pool only, which is broken after it if it
\* was, and after which threads are where runs may be.
LEMMA OnePool ==
    ASSUME TypeOK, Ways, Jobs, NoOrphanPool, scene' = scene, pools' = pools,
           NEW g \in DOMAIN pool, NEW e \in PoolRecord, pool' = [pool EXCEPT ![g] = e],
           pool[g].broken => e.broken,
           \A k \in DOMAIN e.jobs : JobIs(g, k)',
           pc' \in [Req -> [at : Places] \cup Located],
           \A o \in Req : pc'[o] # pc[o] =>
                /\ At(o, "wait") /\ pc[o].pool = g
                /\ pc'[o] \in Located /\ pc'[o].pool = g
                /\ pc'[o].at \in {"leave", "broken"}
                /\ pc'[o].at = "broken" => e.broken
    PROVE  PlacesAndPools'
<1>1. /\ pool' \in Seq(PoolRecord) /\ DOMAIN pool' = DOMAIN pool
      /\ Located' = Located
      /\ pool'[g] = e
      /\ \A h \in DOMAIN pool \ {g} : pool'[h] = pool[h]
  BY PoolChanged
<1>2. Worker' = Worker
  BY DEF Worker
<1>3. Ways'
  <2>1. ASSUME NEW o \in Req
        PROVE  /\ ~At(o, "idle")' => scene'.kind[o] \in Kinds
               /\ pc'[o].at \in InRun => Is(o, "run")'
               /\ pc'[o].at \in InSession => Terminal(o)'
               /\ pc'[o].at \in InRun \ {"choose"} => pc'[o] \in Located'
    <3>1. CASE pc'[o] = pc[o]
      BY <1>1, <3>1 DEF Ways, At, Is, Terminal
    <3>2. CASE pc'[o] # pc[o]
      BY <1>1, <3>2, RunPlace DEF At, Is, InRun, InSession, InGate
    <3> QED
      BY <3>1, <3>2
  <2> QED
    BY <2>1 DEF Ways
<1>4. NoOrphanPool'
  BY <1>1, <1>2 DEF NoOrphanPool
<1>5. ASSUME NEW h \in DOMAIN pool PROVE \A k \in DOMAIN pool'[h].jobs : JobIs(h, k)'
  <2>1. CASE h = g
    BY <1>1, <2>1
  <2>2. CASE h # g
    <3>1. \A o \in Req : At(o, "wait") /\ pc[o].pool = h => pc'[o] = pc[o]
      BY <2>2
    <3> QED
      BY <1>1, <2>2, <3>1, OtherJobs
  <2> QED
    BY <2>1, <2>2
<1>6. ASSUME NEW o \in Req, At(o, "broken")' PROVE pool'[pc'[o].pool].broken
  <2>1. CASE pc'[o] = pc[o]
    <3>1. pool[pc[o].pool].broken /\ pc[o].pool \in DOMAIN pool
      BY <1>6, <2>1, RunPlace DEF Jobs, At, InRun
    <3> QED
      BY <1>1, <2>1, <3>1
  <2>2. CASE pc'[o] # pc[o]
    BY <1>1, <1>6, <2>2 DEF At
  <2> QED
    BY <2>1, <2>2
<1> QED
  BY <1>1, <1>2, <1>3, <1>4, <1>5, <1>6 DEF PlacesAndPools, Jobs, TypeOK

\* The first job of a pool is finished.
LEMMA FinishPools ==
    ASSUME TypeOK, Ways, Jobs, NoOrphanPool, NEW g \in DOMAIN pool, Finish(g)
    PROVE  PlacesAndPools'
<1> DEFINE jobs == pool[g].jobs
           e == [pool[g] EXCEPT !.jobs = Tail(jobs)]
           r == jobs[1].of
<1>1. /\ jobs \in Seq(Job) /\ jobs # <<>> /\ pool[g] \in PoolRecord
      /\ Len(jobs) \in Nat /\ DOMAIN jobs = 1 .. Len(jobs)
  BY PoolType DEF Finish, PoolRecord
<1> HIDE DEF jobs
<1>2. /\ Tail(jobs) \in Seq(Job) /\ Head(jobs) = jobs[1] /\ Len(jobs) > 0
      /\ Len(Tail(jobs)) = Len(jobs) - 1
      /\ \A k \in 1 .. Len(Tail(jobs)) : Tail(jobs)[k] = jobs[k + 1]
  BY <1>1, HeadTailProperties, EmptySeq
<1>3. /\ scene' = scene /\ pools' = pools
      /\ pool' = [pool EXCEPT ![g] = e]
      /\ IF r = None THEN pc' = pc ELSE Go(r, "leave")
  BY <1>2 DEF Finish, jobs
<1>4. e \in PoolRecord /\ e.broken = pool[g].broken /\ e.jobs = Tail(jobs)
  BY <1>1, <1>2 DEF PoolRecord
<1>5. ASSUME NEW k \in 1 .. Len(jobs)
      PROVE  /\ jobs[k] \in Job
             /\ jobs[k].of # None =>
                  /\ jobs[k].of \in Req
                  /\ At(jobs[k].of, "wait") /\ pc[jobs[k].of].pool = g
                  /\ jobs[k].user = UserOf(jobs[k].of)
                  /\ \A l \in 1 .. Len(jobs) : jobs[l].of = jobs[k].of => l = k
             /\ jobs[k].of = None => May("slow")
  <2>1. jobs[k] \in Job
    BY <1>1, ElementOfSeq
  <2>2. JobIs(g, k)
    BY <1>1 DEF Jobs, jobs
  <2>3. jobs[k].of # None => jobs[k].of \in Req
    BY <2>1 DEF Job
  <2> QED
    BY <1>1, <2>1, <2>2, <2>3 DEF JobIs, jobs
<1>6. /\ pc' \in [Req -> [at : Places] \cup Located]
      /\ \A o \in Req : o # r => pc'[o] = pc[o]
      /\ r # None => /\ r \in Req /\ At(r, "wait") /\ pc[r].pool = g
                     /\ pc'[r] \in Located /\ pc'[r].pool = g /\ pc'[r].at = "leave"
  <2>1. CASE r = None
    BY <1>3, <2>1 DEF TypeOK
  <2>2. CASE r # None
    <3>1. r \in Req /\ At(r, "wait") /\ pc[r].pool = g
      BY <1>2, <1>5, <2>2
    <3>2. pc[r] \in Located
      BY <3>1, RunPlace DEF At, InRun
    <3> HIDE DEF r
    <3> QED
      BY <1>3, <2>2, <3>1, <3>2, GoEffect DEF At, Places, InRun
  <2> QED
    BY <2>1, <2>2
<1> HIDE DEF r
<1>7. r = jobs[1].of
  BY DEF r
<1>8. pool'[g] = e
  BY <1>3, <1>4, PoolChanged
<1> HIDE DEF e
<1>9. ASSUME NEW k \in DOMAIN e.jobs PROVE JobIs(g, k)'
  <2>1. /\ k \in 1 .. Len(Tail(jobs)) /\ k + 1 \in 1 .. Len(jobs) /\ k + 1 # 1
        /\ pool'[g].jobs = Tail(jobs) /\ Tail(jobs)[k] = jobs[k + 1]
        /\ DOMAIN Tail(jobs) = 1 .. Len(Tail(jobs))
    BY <1>1, <1>2, <1>4, <1>8, <1>9, LenProperties
  <2>2. CASE jobs[k + 1].of = None
    BY <1>3, <1>5, <2>1, <2>2 DEF JobIs, May
  <2>3. CASE jobs[k + 1].of # None
    <3>1. jobs[k + 1].of # r
      BY <1>2, <1>5, <1>7, <2>1, <2>3
    <3>2. /\ jobs[k + 1].of \in Req /\ pc'[jobs[k + 1].of] = pc[jobs[k + 1].of]
          /\ At(jobs[k + 1].of, "wait") /\ pc[jobs[k + 1].of].pool = g
          /\ jobs[k + 1].user = UserOf(jobs[k + 1].of)
      BY <1>5, <1>6, <2>1, <2>3, <3>1
    <3>3. \A l \in 1 .. Len(Tail(jobs)) : Tail(jobs)[l].of = jobs[k + 1].of => l = k
      <4>1. \A l \in 1 .. Len(jobs) : jobs[l].of = jobs[k + 1].of => l = k + 1
        BY <1>5, <2>1, <2>3
      <4> QED
        BY <1>1, <1>2, <2>1, <4>1
    <3> QED
      BY <1>3, <2>1, <2>3, <3>2, <3>3 DEF JobIs, At, UserOf
  <2> QED
    BY <2>2, <2>3
<1>10. \A o \in Req : pc'[o] # pc[o] =>
                /\ At(o, "wait") /\ pc[o].pool = g
                /\ pc'[o] \in Located /\ pc'[o].pool = g
                /\ pc'[o].at \in {"leave", "broken"}
                /\ pc'[o].at = "broken" => e.broken
  BY <1>6, RunnerAssumption
<1> QED
  BY <1>3, <1>4, <1>6, <1>9, <1>10, OnePool

\* Nobody waits for the job of r any more.
LEMMA TimeOutPools ==
    ASSUME TypeOK, Ways, Jobs, NoOrphanPool, NEW r \in Req, TimeOut(r)
    PROVE  PlacesAndPools'
<1>1. /\ At(r, "wait") /\ Go(r, "leave") /\ May("slow") /\ r # None
      /\ scene' = scene /\ pools' = pools
  BY RunnerAssumption DEF TimeOut, Happens
<1>2. PICK g \in DOMAIN pool : g = pc[r].pool /\ pc[r] \in Located
  BY <1>1, RunPlace DEF At, InRun
<1> DEFINE jobs == pool[g].jobs
           after == [k \in DOMAIN jobs |-> IF jobs[k].of = r THEN [jobs[k] EXCEPT !.of = None] ELSE jobs[k]]
           e == [pool[g] EXCEPT !.jobs = after]
<1>3. /\ jobs \in Seq(Job) /\ pool[g] \in PoolRecord
      /\ Len(jobs) \in Nat /\ DOMAIN jobs = 1 .. Len(jobs)
  BY <1>2, PoolType DEF PoolRecord
<1>4. ASSUME NEW k \in 1 .. Len(jobs)
      PROVE  /\ jobs[k] \in Job
             /\ jobs[k].of # None =>
                  /\ jobs[k].of \in Req
                  /\ At(jobs[k].of, "wait") /\ pc[jobs[k].of].pool = g
                  /\ jobs[k].user = UserOf(jobs[k].of)
                  /\ \A l \in 1 .. Len(jobs) : jobs[l].of = jobs[k].of => l = k
  <2>1. jobs[k] \in Job
    BY <1>3, ElementOfSeq
  <2>2. JobIs(g, k)
    BY <1>2, <1>3 DEF Jobs
  <2>3. jobs[k].of # None => jobs[k].of \in Req
    BY <2>1 DEF Job
  <2> QED
    BY <1>3, <2>1, <2>2, <2>3 DEF JobIs
<1>5. pool' = [pool EXCEPT ![g] = e]
  BY <1>2 DEF TimeOut
<1> HIDE DEF jobs
<1>6. ASSUME NEW k \in 1 .. Len(jobs)
      PROVE  /\ after[k] \in Job
             /\ after[k].user = jobs[k].user
             /\ after[k].of = IF jobs[k].of = r THEN None ELSE jobs[k].of
  BY <1>3, <1>4 DEF Job
<1>7. /\ DOMAIN after = 1 .. Len(jobs)
      /\ after = [k \in 1 .. Len(jobs) |-> after[k]]
  BY <1>3
<1> HIDE DEF after
<1>8. after \in Seq(Job)
  BY <1>3, <1>6, <1>7, SeqDef
<1>9. e \in PoolRecord /\ e.broken = pool[g].broken /\ e.jobs = after
  BY <1>3, <1>8 DEF PoolRecord
<1> HIDE DEF e
<1>10. pool'[g] = e
  BY <1>1, <1>9, <1>5, PoolChanged
<1>11. /\ pc' \in [Req -> [at : Places] \cup Located]
       /\ \A o \in Req \ {r} : pc'[o] = pc[o]
       /\ pc'[r] \in Located /\ pc'[r].pool = g /\ pc'[r].at = "leave"
  BY <1>1, <1>2, GoEffect DEF At, Places, InRun
<1>12. ASSUME NEW k \in DOMAIN e.jobs PROVE JobIs(g, k)'
  <2>1. k \in 1 .. Len(jobs) /\ pool'[g].jobs = after /\ DOMAIN after = 1 .. Len(jobs)
    BY <1>7, <1>9, <1>10, <1>12
  <2>2. CASE after[k].of = None
    BY <1>1, <2>1, <2>2 DEF JobIs, May
  <2>3. CASE after[k].of # None
    <3>1. after[k].of = jobs[k].of /\ jobs[k].of # r
      BY <1>6, <2>1, <2>3
    <3>2. /\ jobs[k].of \in Req /\ pc'[jobs[k].of] = pc[jobs[k].of]
          /\ At(jobs[k].of, "wait") /\ pc[jobs[k].of].pool = g
          /\ after[k].user = UserOf(jobs[k].of)
      BY <1>4, <1>6, <1>11, <2>1, <2>3, <3>1
    <3>3. \A l \in 1 .. Len(jobs) : after[l].of = jobs[k].of => l = k
      BY <1>4, <1>6, <2>1, <2>3, <3>1
    <3> QED
      BY <1>1, <2>1, <2>3, <3>1, <3>2, <3>3 DEF JobIs, At, UserOf
  <2> QED
    BY <2>2, <2>3
<1>13. \A o \in Req : pc'[o] # pc[o] =>
                /\ At(o, "wait") /\ pc[o].pool = g
                /\ pc'[o] \in Located /\ pc'[o].pool = g
                /\ pc'[o].at \in {"leave", "broken"}
                /\ pc'[o].at = "broken" => e.broken
  BY <1>1, <1>2, <1>11
<1> QED
  BY <1>1, <1>9, <1>11, <1>12, <1>13, <1>5, OnePool

\* A pool breaks, and has no jobs any more.
LEMMA BreakPools ==
    ASSUME TypeOK, Ways, Jobs, NoOrphanPool, NEW g \in DOMAIN pool, Break(g)
    PROVE  PlacesAndPools'
<1> DEFINE e == [jobs |-> <<>>, broken |-> TRUE]
<1>1. scene' = scene /\ pools' = pools /\ pool' = [pool EXCEPT ![g] = e]
  BY DEF Break
<1>2. e \in PoolRecord /\ e.broken /\ DOMAIN e.jobs = {}
  BY EmptySeq DEF PoolRecord
<1>3. ASSUME NEW o \in Req
      PROVE  \/ pc'[o] = pc[o]
             \/ /\ At(o, "wait") /\ pc[o].pool = g
                /\ pc'[o] \in Located /\ pc'[o].pool = g /\ pc'[o].at = "broken"
  <2>1. CASE At(o, "wait") /\ pc[o].pool = g
    <3>1. pc[o] \in Located /\ pc'[o] = [pc[o] EXCEPT !.at = "broken"]
      BY <2>1 DEF Break, Ways, At, InRun
    <3> QED
      BY <2>1, <3>1 DEF Located, Places, InRun
  <2>2. CASE ~(At(o, "wait") /\ pc[o].pool = g)
    BY <2>2 DEF Break
  <2> QED
    BY <2>1, <2>2
<1>4. pc' \in [Req -> [at : Places] \cup Located]
  <2>1. pc' = [o \in Req |-> pc'[o]]
    BY DEF Break
  <2>2. \A o \in Req : pc'[o] \in [at : Places] \cup Located
    BY <1>3 DEF TypeOK
  <2> QED
    BY <2>1, <2>2
<1> HIDE DEF e
<1> QED
  BY <1>1, <1>2, <1>3, <1>4, OnePool

\* The first who finds a pool broken replaces it.
LEMMA ReplacePools ==
    ASSUME TypeOK, Ways, Jobs, NoOrphanPool, NEW r \in Req, Replace(r)
    PROVE  PlacesAndPools'
<1>1. scene' = scene /\ At(r, "broken") /\ Go(r, "leave")
  BY DEF Replace
<1>2. /\ pc[r] \in Located /\ pc[r].i \in Worker /\ pc[r].pool \in DOMAIN pool
      /\ Is(r, "run") /\ scene.kind[r] \in Kinds
  BY <1>1, RunPlace DEF At, InRun
<1>3. CASE pools[pc[r].i] # pc[r].pool
  <2>1. pool' = pool /\ pools' = pools
    BY <1>3 DEF Replace
  <2> QED
    BY <1>1, <1>2, <2>1, ThreadGoes DEF At, Places, InRun, InSession, InGate
<1>4. CASE pools[pc[r].i] = pc[r].pool
  <2>1. pool' = Append(pool, NewPool) /\ pools' = [pools EXCEPT ![pc[r].i] = Len(pool) + 1]
    BY <1>4 DEF Replace
  <2>2. /\ pool' \in Seq(PoolRecord)
        /\ Len(pool) + 1 \in DOMAIN pool' /\ Len(pool) + 1 \notin DOMAIN pool
        /\ DOMAIN pool' = DOMAIN pool \cup {Len(pool) + 1}
        /\ pool'[Len(pool) + 1] = NewPool
        /\ \A h \in DOMAIN pool : pool'[h] = pool[h]
    BY <2>1, PoolAdded
  <2>3. Worker' = Worker /\ Located \subseteq Located'
    BY <1>1, <2>2 DEF Worker, Located
  <2>4. /\ pc' \in [Req -> [at : Places] \cup Located]
        /\ \A o \in Req \ {r} : pc'[o] = pc[o]
        /\ pc'[r] \in Located /\ pc'[r].at = "leave"
    BY <1>1, <1>2, GoEffect DEF At, Places, InRun
  <2>5. pc' \in [Req -> [at : Places] \cup Located']
    BY <2>3, <2>4
  <2>6. pools' \in [Worker' -> DOMAIN pool']
    BY <1>2, <2>1, <2>2, <2>3 DEF TypeOK
  <2>7. Ways'
    <3>1. ASSUME NEW o \in Req
          PROVE  /\ ~At(o, "idle")' => scene'.kind[o] \in Kinds
                 /\ pc'[o].at \in InRun => Is(o, "run")'
                 /\ pc'[o].at \in InSession => Terminal(o)'
                 /\ pc'[o].at \in InRun \ {"choose"} => pc'[o] \in Located'
      <4>1. CASE o = r
        BY <1>1, <1>2, <2>3, <2>4, <4>1 DEF Is, InSession, InGate
      <4>2. CASE o # r
        BY <1>1, <2>3, <2>4, <4>2 DEF Ways, At, Is, Terminal
      <4> QED
        BY <4>1, <4>2
    <3> QED
      BY <3>1 DEF Ways
  <2>8. NoOrphanPool'
    <3>1. pool[pc[r].pool].broken
      BY <1>1 DEF Jobs
    <3>2. ASSUME NEW h \in DOMAIN pool, ~pool'[h].broken PROVE \E i \in Worker : pools'[i] = h
      <4>1. PICK i \in Worker : pools[i] = h
        BY <2>2, <3>2 DEF NoOrphanPool
      <4>2. i # pc[r].i
        BY <1>4, <2>2, <3>1, <3>2, <4>1
      <4> QED
        BY <2>1, <4>1, <4>2 DEF TypeOK
    <3>3. pools'[pc[r].i] = Len(pool) + 1
      BY <1>2, <2>1 DEF TypeOK
    <3> QED
      BY <1>2, <2>2, <2>3, <3>2, <3>3 DEF NoOrphanPool
  <2>9. ASSUME NEW h \in DOMAIN pool', NEW k \in DOMAIN pool'[h].jobs PROVE JobIs(h, k)'
    <3>1. h \in DOMAIN pool
      BY <2>2, <2>9, EmptySeq DEF NewPool
    <3>2. \A o \in Req : At(o, "wait") /\ pc[o].pool = h => pc'[o] = pc[o]
      BY <1>1, <2>4 DEF At
    <3> QED
      BY <1>1, <2>2, <2>9, <3>1, <3>2, OtherJobs
  <2>10. ASSUME NEW o \in Req, At(o, "broken")' PROVE pool'[pc'[o].pool].broken
    <3>1. pc'[o] = pc[o] /\ At(o, "broken")
      BY <2>4, <2>10 DEF At
    <3>2. pool[pc[o].pool].broken /\ pc[o].pool \in DOMAIN pool
      BY <3>1, RunPlace DEF Jobs, At, InRun
    <3> QED
      BY <2>2, <3>1, <3>2
  <2> QED
    BY <2>2, <2>5, <2>6, <2>7, <2>8, <2>9, <2>10 DEF PlacesAndPools, Jobs
<1> QED
  BY <1>3, <1>4

LEMMA PoolsKept ==
    TypeOK /\ Ways /\ Jobs /\ NoOrphanPool /\ [Next]_vars => PlacesAndPools'
<1> SUFFICES ASSUME TypeOK, Ways, Jobs, NoOrphanPool, [Next]_vars PROVE PlacesAndPools'
  OBVIOUS
<1>1. ASSUME UNCHANGED <<scene, pc, pools, pool>> PROVE PlacesAndPools'
  <2>1. Located' = Located /\ Worker' = Worker
    BY <1>1 DEF Located, Worker
  <2> QED
    BY <1>1, <2>1 DEF PlacesAndPools, TypeOK, PoolRecord, Ways, Jobs, JobIs, NoOrphanPool,
                     Is, At, Terminal, UserOf, May
<1>2. ASSUME NEW r \in Req, Serving(r) PROVE PlacesAndPools'
  <2>1. CASE Limit(r)
    <3>1. /\ scene' = scene /\ UNCHANGED <<pools, pool>> /\ At(r, "limit")
          /\ Go(r, "end") \/ Go(r, "enter")
      BY <2>1 DEF Limit, workers
    <3> QED
      BY <3>1, ThreadGoes DEF At, Places, InRun, InSession, InGate
  <2>2. CASE Enter(r)
    <3>1. /\ scene' = scene /\ UNCHANGED <<pools, pool>> /\ At(r, "enter")
          /\ \/ Go(r, "release")
             \/ Go(r, "choose") /\ Is(r, "run")
             \/ Go(r, "gate") /\ ~Is(r, "run")
      BY <2>2 DEF Enter, workers
    <3>2. Terminal(r) \/ Is(r, "run")
      BY <3>1 DEF Ways, At, Is, Terminal, Kinds
    <3> QED
      BY <3>1, <3>2, ThreadGoes DEF At, Places, InRun, InSession, InGate
  <2>3. CASE Exit(r) \/ Release(r)
    <3>1. /\ scene' = scene /\ UNCHANGED <<pools, pool>>
          /\ At(r, "exit") \/ At(r, "release")
          /\ Go(r, "release") \/ Go(r, "end")
      BY <2>3 DEF Exit, Release, workers
    <3> QED
      BY <3>1, ThreadGoes DEF At, Places, InRun, InSession, InGate
  <2>4. CASE End(r)
    <3>1. /\ scene' = scene /\ UNCHANGED <<pools, pool>> /\ At(r, "end")
          /\ pc' = [pc EXCEPT ![r] = [at |-> "over"]]
      BY <2>4 DEF End, workers
    <3>2. /\ pc' \in [Req -> [at : Places] \cup Located]
          /\ \A o \in Req \ {r} : pc'[o] = pc[o]
          /\ pc'[r].at = "over"
      BY <3>1 DEF TypeOK, Places
    <3> QED
      BY <3>1, <3>2, ThreadMoves DEF Ways, At, InRun, InSession, InGate
  <2>5. CASE Choose(r)
    <3>1. /\ scene' = scene /\ UNCHANGED <<pools, pool>> /\ At(r, "choose")
      BY <2>5 DEF Choose
    <3>2. PICK i \in Worker : pc' = [pc EXCEPT ![r] = [at |-> "submit", i |-> i, pool |-> pools[i]]]
      BY <2>5, ChosenWorker DEF Choose
    <3>3. [at |-> "submit", i |-> i, pool |-> pools[i]] \in Located
      BY DEF Located, Places, InRun, TypeOK
    <3>4. /\ pc' \in [Req -> [at : Places] \cup Located]
          /\ \A o \in Req \ {r} : pc'[o] = pc[o]
          /\ pc'[r] \in Located /\ pc'[r].at = "submit"
      BY <3>2, <3>3 DEF TypeOK
    <3>5. Is(r, "run") /\ scene.kind[r] \in Kinds
      BY <3>1 DEF Ways, At, Is, Kinds, InRun
    <3> QED
      BY <3>1, <3>4, <3>5, ThreadMoves DEF At, InRun, InSession, InGate
  <2>6. CASE Leave(r)
    <3>1. scene' = scene /\ UNCHANGED <<pools, pool>> /\ At(r, "leave") /\ Go(r, "exit")
      BY <2>6 DEF Leave
    <3> QED
      BY <3>1, ThreadGoes DEF At, Places, InRun, InSession, InGate
  <2>7. CASE Gate(r) \/ Dequeue(r) \/ GateTimeOut(r) \/ Fork(r) \/ Ungate(r) \/ Join(r)
    <3>1. /\ scene' = scene /\ UNCHANGED <<pools, pool>> /\ pc[r].at \in InSession
          /\ \/ Go(r, "fork") \/ Go(r, "exit") \/ Go(r, "queued")
             \/ Go(r, "compile") \/ Go(r, "join")
      BY <2>7 DEF Gate, Dequeue, GateTimeOut, Fork, Ungate, Join, workers, At, InSession, InGate
    <3>2. Terminal(r)
      BY <3>1 DEF Ways
    <3> QED
      BY <3>1, <3>2, ThreadGoes DEF At, Places, InRun, InSession, InGate
  <2> QED
    BY <1>2, <2>1, <2>2, <2>3, <2>4, <2>5, <2>6, <2>7, SubmitPools, ReplacePools DEF Serving
<1>3. ASSUME NEW r \in Req, Begin(r) \/ Start(r) PROVE PlacesAndPools'
  <2>1. /\ scene' = scene /\ UNCHANGED <<pools, pool>> /\ At(r, "idle") /\ Go(r, "limit")
        /\ scene.kind[r] \in Kinds
    BY <1>3 DEF Begin, Start, workers, Is, Kinds
  <2> QED
    BY <2>1, ThreadGoes DEF At, Places, InRun, InSession, InGate
<1>4. ASSUME NEW r \in Req, Child(r) \/ Crash(r) \/ Deafen(r) PROVE PlacesAndPools'
  BY <1>1, <1>4 DEF Child, Started, Ended, Backstop, Crash, Deafen, workers
<1>5. ASSUME NEW r \in Req, Pump(r) \/ Poll(r) \/ Gone(r) \/ Quiet(r) \/ Old(r) PROVE PlacesAndPools'
  BY <1>1, <1>5 DEF Pump, Poll, Gone, Quiet, Old, workers
<1>6. ASSUME Reap \/ Reaped PROVE PlacesAndPools'
  BY <1>1, <1>6 DEF Reap, Reaped, workers
<1>7. CASE UNCHANGED vars
  BY <1>1, <1>7 DEF vars, workers
<1> QED
  BY <1>2, <1>3, <1>4, <1>5, <1>6, <1>7, TimeOutPools, FinishPools, BreakPools DEF Next

-----------------------------------------------------------------------------
(* Children, socket pairs and browsers *)

Session == [last : BOOLEAN, done : BOOLEAN, quiet : BOOLEAN, old : BOOLEAN, shut : BOOLEAN]
Browser == [last : BOOLEAN, is : {"here", "told", "gone"}]

EndTypes ==
    /\ child \in [Req -> {"none", "compiling", "running", "deaf", "dead"}]
    /\ holds \in [Req -> SUBSET Req]
    /\ inner \in [Req -> BOOLEAN] /\ wire \in [Req -> 0..2]
    /\ poll_sessions \subseteq Req
    /\ poll_lock \in {None, "reaper"}
    /\ ps \in [Req -> Session]
    /\ web \in [Req -> Browser]

LEMMA SessionFields ==
    ASSUME NEW s \in Session
    PROVE  /\ [s EXCEPT !.last = TRUE] \in Session
           /\ [s EXCEPT !.done = TRUE] \in Session
           /\ [s EXCEPT !.quiet = TRUE] \in Session /\ [s EXCEPT !.quiet = FALSE] \in Session
           /\ [s EXCEPT !.old = TRUE] \in Session
           /\ [s EXCEPT !.shut = TRUE] \in Session
BY DEF Session

LEMMA EndTypesKept ==
    TypeOK /\ [Next]_vars => EndTypes'
<1> SUFFICES ASSUME TypeOK, [Next]_vars PROVE EndTypes'
  OBVIOUS
<1>0. EndTypes
  BY DEF TypeOK, EndTypes, Session, Browser
<1>1. ASSUME UNCHANGED <<child, holds, polls>> PROVE EndTypes'
  BY <1>0, <1>1 DEF EndTypes, polls
<1> USE DEF EndTypes, procs, polls
<1>2. ASSUME NEW r \in Req, Serving(r) PROVE EndTypes'
  <2>1. CASE Limit(r) \/ Enter(r) \/ GateTimeOut(r)
    <3>1. wire' = wire \/ wire' = [wire EXCEPT ![r] = 2]
      BY <2>1 DEF Limit, Enter, GateTimeOut, Refuse
    <3>2. UNCHANGED <<child, holds, inner, poll_sessions, poll_lock, ps, web>>
      BY <2>1 DEF Limit, Enter, GateTimeOut
    <3> QED
      BY <1>0, <3>1, <3>2
  <2>2. CASE End(r)
    BY <1>0, <2>2 DEF End
  <2>3. CASE Fork(r) \/ Join(r)
    BY <1>0, <2>3 DEF Fork, Join
  <2> QED
    BY <1>1, <1>2, <2>1, <2>2, <2>3
       DEF Serving, Exit, Release, Choose, Submit, Replace, Leave, Gate, Dequeue, Ungate
<1>3. ASSUME NEW r \in Req, Start(r) PROVE EndTypes'
  BY <1>0, <1>3 DEF Start
<1>4. ASSUME NEW r \in Req, Child(r) \/ Crash(r) \/ Deafen(r) PROVE EndTypes'
  <2>1. /\ \E c \in {"running", "dead", "deaf"} : child' = [child EXCEPT ![r] = c]
        /\ wire' = wire \/ wire' = [wire EXCEPT ![r] = 2]
        /\ UNCHANGED <<holds, inner, poll_sessions, poll_lock, ps, web>>
    BY <1>4 DEF Child, Started, Ended, Backstop, Crash, Deafen
  <2> QED
    BY <1>0, <2>1
<1>5. ASSUME NEW r \in Req, Pump(r) \/ Quiet(r) \/ Old(r) PROVE EndTypes'
  <2>1. /\ \/ ps' = [ps EXCEPT ![r] = [ps[r] EXCEPT !.last = TRUE]]
           \/ ps' = [ps EXCEPT ![r] = [ps[r] EXCEPT !.done = TRUE]]
           \/ ps' = [ps EXCEPT ![r] = [ps[r] EXCEPT !.quiet = TRUE]]
           \/ ps' = [ps EXCEPT ![r] = [ps[r] EXCEPT !.old = TRUE]]
        /\ wire' = wire \/ wire' = [wire EXCEPT ![r] = 1]
        /\ UNCHANGED <<child, holds, inner, poll_sessions, poll_lock, web>>
    BY <1>5 DEF Pump, Quiet, Old
  <2>2. ps[r] \in Session
    BY <1>0
  <2>3. /\ [ps[r] EXCEPT !.last = TRUE] \in Session
        /\ [ps[r] EXCEPT !.done = TRUE] \in Session
        /\ [ps[r] EXCEPT !.quiet = TRUE] \in Session
        /\ [ps[r] EXCEPT !.old = TRUE] \in Session
    BY <2>2, SessionFields
  <2>4. PICK e \in Session : ps' = [ps EXCEPT ![r] = e]
    BY <2>1, <2>3
  <2>5. ps' \in [Req -> Session]
    BY <1>0, <2>4
  <2> QED
    BY <1>0, <2>1, <2>5
<1>6. ASSUME NEW r \in Req, Poll(r) PROVE EndTypes'
  <2>1. Answered(r) \in Browser
    BY <1>0 DEF Answered, Browser, Session
  <2>2. ps' = [ps EXCEPT ![r] = [ps[r] EXCEPT !.quiet = FALSE]]
    BY <1>6 DEF Poll
  <2>3. ps' \in [Req -> Session]
    BY <1>0, <2>2, SessionFields
  <2>4. web' \in [Req -> Browser]
    BY <1>0, <1>6, <2>1 DEF Poll
  <2> QED
    BY <1>0, <1>6, <2>3, <2>4 DEF Poll
<1>7. ASSUME NEW r \in Req, Gone(r) PROVE EndTypes'
  <2>1. web' = [web EXCEPT ![r] = [web[r] EXCEPT !.is = "gone"]]
    BY <1>7 DEF Gone
  <2>2. [web[r] EXCEPT !.is = "gone"] \in Browser
    BY <1>0 DEF Browser
  <2>3. web' \in [Req -> Browser]
    BY <1>0, <2>1, <2>2
  <2> QED
    BY <1>0, <1>7, <2>3 DEF Gone
<1>8. ASSUME Reap \/ Reaped PROVE EndTypes'
  <2>1. Shut \in [Req -> Session]
    BY <1>0, SessionFields DEF Shut
  <2> QED
    BY <1>0, <1>8, <2>1 DEF Reap, Reaped
<1>9. CASE UNCHANGED vars
  BY <1>1, <1>9 DEF vars
<1>10. ASSUME NEW r \in Req, Begin(r) \/ TimeOut(r) PROVE EndTypes'
  BY <1>1, <1>10 DEF Begin, TimeOut
<1>11. ASSUME NEW g \in DOMAIN pool, Finish(g) \/ Break(g) PROVE EndTypes'
  BY <1>1, <1>11 DEF Finish, Break
<1> QED
  BY <1>2, <1>3, <1>4, <1>5, <1>6, <1>7, <1>8, <1>9, <1>10, <1>11 DEF Next

LEMMA TypeKept ==
    TypeOK /\ Ways /\ Counted /\ Jobs /\ NoOrphanPool /\ [Next]_vars => TypeOK'
<1> SUFFICES ASSUME TypeOK, Ways, Counted, Jobs, NoOrphanPool, [Next]_vars PROVE TypeOK'
  OBVIOUS
<1>1. Counted' /\ scene' = scene /\ CountersInBounds
  BY CountersKept, NextInBounds
<1>2. /\ active' \in [User -> Nat] /\ recent' \in [User -> 0..scene'.per_minute]
      /\ busy' \in 0..(scene'.workers + scene'.queue)
      /\ sessions' \in 0..scene'.max_sessions
      /\ gate' \in 0..scene'.workers
      /\ slots' \in 0..scene'.connections
      /\ load' \in [Worker' -> Nat]
  BY <1>1, CounterTypes
<1>3. PlacesAndPools'
  BY PoolsKept
<1>4. EndTypes'
  BY EndTypesKept
<1> QED
  BY <1>1, <1>2, <1>3, <1>4 DEF TypeOK, PlacesAndPools, EndTypes, PoolRecord, Session, Browser

-----------------------------------------------------------------------------
(* One run for each user *)

LEMMA OnePerUserKept ==
    TypeOK /\ OnePerUser /\ [Next]_vars => OnePerUser'
<1> SUFFICES ASSUME TypeOK, OnePerUser, [Next]_vars PROVE OnePerUser'
  OBVIOUS
<1>1. active \in [User -> Nat]
  BY DEF TypeOK
<1>2. ASSUME NEW r \in Req, Limit(r) PROVE OnePerUser'
  <2>1. \/ active' = active
        \/ active[UserOf(r)] < 1 /\ active' = [active EXCEPT ![UserOf(r)] = @ + 1]
    BY <1>1, <1>2, Scene DEF Limit, Limited, UserOf
  <2> QED
    BY <1>1, <2>1 DEF OnePerUser
<1>3. ASSUME NEW r \in Req, Release(r) PROVE OnePerUser'
  BY <1>1, <1>3 DEF Release, OnePerUser
<1>4. ASSUME active' = active PROVE OnePerUser'
  BY <1>4 DEF OnePerUser
<1>5. ASSUME NEW r \in Req, Serving(r) PROVE OnePerUser'
  BY <1>2, <1>3, <1>4, <1>5
     DEF Serving, Enter, Exit, End, Choose, Submit, Replace, Leave,
         Gate, Dequeue, GateTimeOut, Fork, Ungate, Join, limiter
<1>6. ASSUME NEW r \in Req, Begin(r) \/ Start(r) \/ Child(r) \/ TimeOut(r) \/ Crash(r) \/ Deafen(r)
      PROVE  OnePerUser'
  BY <1>4, <1>6 DEF Begin, Start, Child, Started, Ended, Backstop, TimeOut, Crash, Deafen, limiter
<1>7. ASSUME NEW r \in Req, Pump(r) \/ Poll(r) \/ Gone(r) \/ Quiet(r) \/ Old(r)
      PROVE  OnePerUser'
  BY <1>4, <1>7 DEF Pump, Poll, Gone, Quiet, Old, limiter
<1>8. ASSUME NEW g \in DOMAIN pool, Finish(g) \/ Break(g) PROVE OnePerUser'
  BY <1>4, <1>8 DEF Finish, Break, limiter
<1>9. ASSUME Reap \/ Reaped \/ UNCHANGED vars PROVE OnePerUser'
  BY <1>4, <1>9 DEF Reap, Reaped, vars, limiter
<1> QED
  BY <1>5, <1>6, <1>7, <1>8, <1>9 DEF Next

-----------------------------------------------------------------------------
(* Children and their threads *)

\* A thread that has no child moves.
LEMMA NoChildMoves ==
    ASSUME Children, scene' = scene, child' = child,
           \A o \in Req : pc'[o] # pc[o] => pc[o].at \notin {"compile", "join"}
    PROVE  Children'
BY DEF Children, At, May

\* The process that finishes a job tells the one who waits for it, if any.
LEMMA FinishMoves ==
    ASSUME TypeOK, Ways, Jobs, NEW g \in DOMAIN pool, Finish(g)
    PROVE  \/ pc' = pc
           \/ \E r \in Req : /\ At(r, "wait") /\ At(r, "leave")'
                             /\ \A o \in Req \ {r} : pc'[o] = pc[o]
<1> DEFINE r == Head(pool[g].jobs).of
<1>1. /\ pool[g].jobs \in Seq(Job) /\ pool[g].jobs # <<>>
      /\ Len(pool[g].jobs) \in Nat /\ DOMAIN pool[g].jobs = 1 .. Len(pool[g].jobs)
  BY PoolType DEF Finish
<1>2. 1 \in DOMAIN pool[g].jobs /\ Head(pool[g].jobs) = pool[g].jobs[1]
  BY <1>1, HeadTailProperties, EmptySeq
<1>3. pool[g].jobs[1] \in Job /\ JobIs(g, 1)
  BY <1>1, <1>2, ElementOfSeq DEF Jobs
<1>4. CASE r = None
  BY <1>4 DEF Finish
<1>5. CASE r # None
  <2>1. PICK q \in Req : q = r
    BY <1>2, <1>3, <1>5 DEF JobIs, Job
  <2>2. At(q, "wait") /\ Go(q, "leave")
    BY <1>2, <1>3, <1>5, <2>1 DEF Finish, JobIs
  <2>3. At(q, "leave")' /\ \A o \in Req \ {q} : pc'[o] = pc[o]
    BY <2>2, GoEffect DEF Places, InRun
  <2> QED
    BY <2>2, <2>3
<1> QED
  BY <1>4, <1>5

\* A pool that breaks tells those who wait for it.
LEMMA BreakMoves ==
    ASSUME TypeOK, Ways, NEW g \in DOMAIN pool, Break(g)
    PROVE  \A o \in Req : pc'[o] # pc[o] => At(o, "wait") /\ At(o, "broken")'
<1> SUFFICES ASSUME NEW o \in Req, pc'[o] # pc[o] PROVE At(o, "wait") /\ At(o, "broken")'
  OBVIOUS
<1>1. At(o, "wait") /\ pc'[o] = [pc[o] EXCEPT !.at = "broken"]
  BY DEF Break
<1>2. pc[o] \in Located
  BY <1>1, RunPlace DEF At, InRun
<1> QED
  BY <1>1, <1>2 DEF At, Located

LEMMA ChildrenKept ==
    TypeOK /\ Ways /\ Jobs /\ Children /\ [Next]_vars => Children'
<1> SUFFICES ASSUME TypeOK, Ways, Jobs, Children, [Next]_vars PROVE Children'
  OBVIOUS
<1>0. /\ child \in [Req -> {"none", "compiling", "running", "deaf", "dead"}]
      /\ pc \in [Req -> [at : Places] \cup Located]
  BY DEF TypeOK
<1>1. ASSUME UNCHANGED <<scene, pc, child>> PROVE Children'
  BY <1>1, NoChildMoves
<1>2. ASSUME NEW r \in Req, NEW b \in Places, Go(r, b)
      PROVE  At(r, b)' /\ \A o \in Req \ {r} : pc'[o] = pc[o]
  BY <1>2, GoEffect
<1>3. ASSUME NEW r \in Req, Serving(r) PROVE Children'
  <2>1. ASSUME scene' = scene, child' = child, \A o \in Req \ {r} : pc'[o] = pc[o],
               pc[r].at \notin {"compile", "join"}
        PROVE  Children'
    BY <2>1, NoChildMoves
  <2>2. CASE Limit(r) \/ Enter(r) \/ Exit(r) \/ Release(r)
    <3>1. /\ scene' = scene /\ child' = child /\ pc[r].at \in {"limit", "enter", "exit", "release"}
          /\ \E b \in Places : Go(r, b)
      BY <2>2 DEF Limit, Enter, Exit, Release, procs, At, Places, InRun, InSession, InGate
    <3> QED
      BY <1>2, <2>1, <3>1
  <2>3. CASE End(r) \/ Choose(r)
    <3>1. /\ scene' = scene /\ child' = child /\ pc[r].at \in {"end", "choose"}
          /\ \E e : pc' = [pc EXCEPT ![r] = e]
      BY <2>3 DEF End, Choose, procs, At
    <3> QED
      BY <1>0, <2>1, <3>1
  <2>4. CASE Submit(r) \/ Replace(r) \/ Leave(r)
    <3>1. /\ scene' = scene /\ child' = child /\ pc[r].at \in InRun
          /\ \E b \in Places : Go(r, b)
      BY <2>4 DEF Submit, Replace, Leave, procs, At, Places, InRun
    <3> QED
      BY <1>2, <2>1, <3>1 DEF InRun
  <2>5. CASE Gate(r) \/ Dequeue(r) \/ GateTimeOut(r)
    <3>1. /\ scene' = scene /\ child' = child /\ pc[r].at \in {"gate", "queued"}
          /\ \E b \in Places : Go(r, b)
      BY <2>5 DEF Gate, Dequeue, GateTimeOut, procs, At, Places, InSession, InGate
    <3> QED
      BY <1>2, <2>1, <3>1
  <2>6. CASE Fork(r)
    <3>1. /\ scene' = scene /\ child' = [child EXCEPT ![r] = "compiling"]
          /\ At(r, "compile")' /\ \A o \in Req \ {r} : pc'[o] = pc[o]
      BY <1>2, <2>6 DEF Fork, Places, InSession, InGate
    <3> QED
      BY <1>0, <3>1 DEF Children, At, May
  <2>7. CASE Ungate(r)
    <3>1. /\ scene' = scene /\ child' = child /\ (child[r] = "compiling" => May("slow_compile"))
          /\ At(r, "join")' /\ \A o \in Req \ {r} : pc'[o] = pc[o]
      BY <1>2, <2>7 DEF Ungate, Happens, procs, Places, InSession
    <3> QED
      BY <3>1 DEF Children, At, May
  <2>8. CASE Join(r)
    <3>1. /\ scene' = scene /\ child' = [child EXCEPT ![r] = "none"]
          /\ \A o \in Req \ {r} : pc'[o] = pc[o]
      BY <1>2, <2>8 DEF Join, Places
    <3> QED
      BY <1>0, <3>1 DEF Children, At, May
  <2> QED
    BY <1>3, <2>2, <2>3, <2>4, <2>5, <2>6, <2>7, <2>8 DEF Serving
<1>4. ASSUME NEW r \in Req, Child(r) \/ Crash(r) \/ Deafen(r) PROVE Children'
  <2>1. /\ scene' = scene /\ pc' = pc /\ child[r] # "none"
        /\ \E c \in {"running", "dead", "deaf"} : child' = [child EXCEPT ![r] = c]
    BY <1>4 DEF Child, Started, Ended, Backstop, Crash, Deafen, Alive
  <2>2. PICK c \in {"running", "dead", "deaf"} : child' = [child EXCEPT ![r] = c]
    BY <2>1
  <2>3. \A o \in Req : child'[o] = IF o = r THEN c ELSE child[o]
    BY <1>0, <2>2
  <2> QED
    BY <2>1, <2>3 DEF Children, At, May
<1>5. ASSUME NEW r \in Req, Begin(r) \/ Start(r) \/ TimeOut(r) PROVE Children'
  <2>1. /\ scene' = scene /\ child' = child /\ pc[r].at \in {"idle", "wait"}
    BY <1>5 DEF Begin, Start, TimeOut, procs, At
  <2>3. Go(r, "limit") \/ Go(r, "leave")
    BY <1>5 DEF Begin, Start, TimeOut
  <2>2. \A o \in Req \ {r} : pc'[o] = pc[o]
    BY <1>2, <2>3 DEF Places, InRun
  <2> QED
    BY <2>1, <2>2, NoChildMoves
<1>6. ASSUME NEW r \in Req, Pump(r) \/ Poll(r) \/ Gone(r) \/ Quiet(r) \/ Old(r) PROVE Children'
  BY <1>1, <1>6 DEF Pump, Poll, Gone, Quiet, Old, procs
<1>7. ASSUME NEW g \in DOMAIN pool, Finish(g) PROVE Children'
  <2>1. scene' = scene /\ child' = child
    BY <1>7 DEF Finish, procs
  <2>2. \A o \in Req : pc'[o] # pc[o] => At(o, "wait")
    BY <1>7, FinishMoves
  <2> QED
    BY <2>1, <2>2, NoChildMoves DEF At
<1>8. ASSUME NEW g \in DOMAIN pool, Break(g) PROVE Children'
  <2>1. scene' = scene /\ child' = child
    BY <1>8 DEF Break, procs
  <2>2. \A o \in Req : pc'[o] # pc[o] => At(o, "wait")
    BY <1>8 DEF Break
  <2> QED
    BY <2>1, <2>2, NoChildMoves DEF At
<1>9. ASSUME Reap \/ Reaped \/ UNCHANGED vars PROVE Children'
  BY <1>1, <1>9 DEF Reap, Reaped, vars, procs
<1> QED
  BY <1>3, <1>4, <1>5, <1>6, <1>7, <1>8, <1>9 DEF Next

-----------------------------------------------------------------------------
(* The table of the terminals over HTTP *)

LEMMA TableStep ==
    ASSUME Table, scene' = scene, poll_sessions' \subseteq poll_sessions, inner' = inner,
           poll_sessions \subseteq Req,
           \A o \in Req : pc'[o] # pc[o] => ~At(o, "over") /\ ~At(o, "idle")'
    PROVE  Table'
BY DEF Table, Is, At

LEMMA TableKept ==
    TypeOK /\ Ways /\ Jobs /\ Table /\ [Next]_vars => Table'
<1> SUFFICES ASSUME TypeOK, Ways, Jobs, Table, [Next]_vars PROVE Table'
  OBVIOUS
<1>0. /\ poll_sessions \subseteq Req /\ inner \in [Req -> BOOLEAN]
      /\ pc \in [Req -> [at : Places] \cup Located]
  BY DEF TypeOK
<1>1. ASSUME UNCHANGED <<scene, pc, inner>>, poll_sessions' \subseteq poll_sessions PROVE Table'
  BY <1>0, <1>1, TableStep
<1>2. ASSUME NEW r \in Req, NEW b \in Places \ {"idle"}, Go(r, b), ~At(r, "over"),
             UNCHANGED <<scene, inner, poll_sessions>>
      PROVE  Table'
  <2>1. At(r, b)' /\ \A o \in Req \ {r} : pc'[o] = pc[o]
    BY <1>2, GoEffect
  <2> QED
    BY <1>0, <1>2, <2>1, TableStep DEF At
<1>3. ASSUME NEW r \in Req, Serving(r) PROVE Table'
  <2>1. CASE Limit(r) \/ Enter(r) \/ Exit(r) \/ Release(r)
    <3>1. /\ UNCHANGED <<scene, inner, poll_sessions>> /\ ~At(r, "over")
          /\ \/ Go(r, "end") \/ Go(r, "enter") \/ Go(r, "release")
             \/ Go(r, "choose") \/ Go(r, "gate")
      BY <2>1 DEF Limit, Enter, Exit, Release, polls, At
    <3> QED
      BY <1>2, <3>1 DEF Places, InRun, InSession, InGate
  <2>2. CASE End(r)
    <3>1. /\ UNCHANGED <<scene, poll_sessions>> /\ At(r, "end")
          /\ At(r, "over")' /\ \A o \in Req \ {r} : pc'[o] = pc[o] /\ inner'[o] = inner[o]
      BY <1>0, <2>2 DEF End, At
    <3> QED
      BY <1>0, <3>1 DEF Table, Is, At
  <2>3. CASE Choose(r)
    <3>1. UNCHANGED <<scene, inner, poll_sessions>> /\ At(r, "choose")
      BY <2>3 DEF Choose, polls
    <3>2. At(r, "submit")' /\ \A o \in Req \ {r} : pc'[o] = pc[o]
      BY <1>0, <2>3 DEF Choose, At
    <3> QED
      BY <1>0, <3>1, <3>2, TableStep DEF At
  <2>4. CASE Submit(r) \/ Replace(r) \/ Leave(r)
    <3>1. /\ UNCHANGED <<scene, inner, poll_sessions>> /\ ~At(r, "over")
          /\ \/ Go(r, "broken") \/ Go(r, "wait") \/ Go(r, "leave") \/ Go(r, "exit")
      BY <2>4 DEF Submit, Replace, Leave, polls, At
    <3> QED
      BY <1>2, <3>1 DEF Places, InRun
  <2>5. CASE Gate(r) \/ Dequeue(r) \/ GateTimeOut(r) \/ Fork(r) \/ Ungate(r) \/ Join(r)
    <3>1. /\ UNCHANGED <<scene, inner, poll_sessions>> /\ ~At(r, "over")
          /\ \/ Go(r, "fork") \/ Go(r, "exit") \/ Go(r, "queued")
             \/ Go(r, "compile") \/ Go(r, "join")
      BY <2>5 DEF Gate, Dequeue, GateTimeOut, Fork, Ungate, Join, polls, At
    <3> QED
      BY <1>2, <3>1 DEF Places, InSession, InGate
  <2> QED
    BY <1>3, <2>1, <2>2, <2>3, <2>4, <2>5 DEF Serving
<1>4. ASSUME NEW r \in Req, Begin(r) \/ TimeOut(r) PROVE Table'
  <2>1. /\ UNCHANGED <<scene, inner, poll_sessions>> /\ ~At(r, "over")
        /\ Go(r, "limit") \/ Go(r, "leave")
    BY <1>4 DEF Begin, TimeOut, polls, At
  <2> QED
    BY <1>2, <2>1 DEF Places, InRun
<1>5. ASSUME NEW r \in Req, Start(r) PROVE Table'
  <2>1. /\ scene' = scene /\ poll_sessions' = poll_sessions \cup {r} /\ Is(r, "poll")
        /\ inner'[r] = TRUE /\ \A o \in Req \ {r} : inner'[o] = inner[o]
    BY <1>0, <1>5 DEF Start
  <2>2. At(r, "limit")' /\ \A o \in Req \ {r} : pc'[o] = pc[o]
    BY <1>5, GoEffect DEF Start, Places
  <2> QED
    BY <1>0, <2>1, <2>2 DEF Table, Is, At
<1>6. ASSUME NEW r \in Req, Child(r) \/ Crash(r) \/ Deafen(r) PROVE Table'
  BY <1>1, <1>6 DEF Child, Started, Ended, Backstop, Crash, Deafen, polls
<1>7. ASSUME NEW r \in Req, Pump(r) \/ Poll(r) \/ Gone(r) \/ Quiet(r) \/ Old(r) PROVE Table'
  BY <1>1, <1>7 DEF Pump, Poll, Gone, Quiet, Old
<1>8. ASSUME NEW g \in DOMAIN pool, Finish(g) PROVE Table'
  <2>1. UNCHANGED <<scene, inner, poll_sessions>>
    BY <1>8 DEF Finish, polls
  <2>2. \A o \in Req : pc'[o] # pc[o] => At(o, "wait") /\ At(o, "leave")'
    BY <1>8, FinishMoves
  <2> QED
    BY <1>0, <2>1, <2>2, TableStep DEF At
<1>9. ASSUME NEW g \in DOMAIN pool, Break(g) PROVE Table'
  <2>1. UNCHANGED <<scene, inner, poll_sessions>>
    BY <1>9 DEF Break, polls
  <2>2. \A o \in Req : pc'[o] # pc[o] => At(o, "wait") /\ At(o, "broken")'
    BY <1>9, BreakMoves
  <2> QED
    BY <1>0, <2>1, <2>2, TableStep DEF At
<1>10. ASSUME Reap \/ Reaped \/ UNCHANGED vars PROVE Table'
  BY <1>1, <1>10 DEF Reap, Reaped, vars, polls
<1> QED
  BY <1>3, <1>4, <1>5, <1>6, <1>7, <1>8, <1>9, <1>10 DEF Next

-----------------------------------------------------------------------------
(* The last message *)

\* Nothing happens to the message of r, and only a thread that has nothing to
\* say, or nobody to say it to, is past it without a word.
LEMMA NoMessage ==
    ASSUME NEW r \in Req, MessageOf(r), scene' = scene,
           wire'[r] = wire[r], ps'[r] = ps[r], web'[r] = web[r],
           Said(r) => Said(r)',
           Is(r, "poll") /\ web[r].is # "gone" /\ Said(r)' => Said(r)
    PROVE  MessageOf(r)'
BY DEF MessageOf, Is

\* The last message is sent.
LEMMA MessageSent ==
    ASSUME NEW r \in Req, MessageOf(r), ~Said(r), Said(r)', scene' = scene,
           Is(r, "poll"), wire'[r] = 2, ps'[r] = ps[r], web'[r] = web[r]
    PROVE  MessageOf(r)'
BY DEF MessageOf, Is

\* A thread that refuses has sent the last message.
LEMMA Refused ==
    ASSUME TypeOK, NEW r \in Req, MessageOf(r), ~Said(r), Said(r)', scene' = scene,
           Refuse(r), UNCHANGED <<ps, web>>
    PROVE  /\ MessageOf(r)'
           /\ \A o \in Req \ {r} : wire'[o] = wire[o]
<1>1. CASE Is(r, "poll")
  <2>1. wire' = [wire EXCEPT ![r] = 2]
    BY <1>1 DEF Refuse
  <2>2. wire'[r] = 2 /\ \A o \in Req \ {r} : wire'[o] = wire[o]
    BY <2>1 DEF TypeOK
  <2> QED
    BY <1>1, <2>2, MessageSent
<1>2. CASE ~Is(r, "poll")
  BY <1>2, NoMessage DEF Refuse
<1> QED
  BY <1>1, <1>2

Messages == \A r \in Req : MessageOf(r)

\* Nothing happens to any message.
LEMMA NoMessages ==
    ASSUME Messages, scene' = scene, UNCHANGED <<wire, ps, web>>,
           \A r \in Req : /\ Said(r) => Said(r)'
                          /\ Is(r, "poll") /\ web[r].is # "gone" /\ Said(r)' => Said(r)
    PROVE  Messages'
<1>1. \A r \in Req : MessageOf(r)'
  BY NoMessage DEF Messages
<1> QED
  BY <1>1 DEF Messages

\* A thread goes from a to b, and its child is as dead as before.
LEMMA SaysNothing ==
    ASSUME TypeOK, Messages, scene' = scene, UNCHANGED <<wire, ps, web>>,
           NEW r \in Req, \A o \in Req \ {r} : pc'[o] = pc[o] /\ child'[o] = child[o],
           Said(r) => Said(r)',
           Is(r, "poll") /\ web[r].is # "gone" /\ Said(r)' => Said(r)
    PROVE  Messages'
<1>1. \A o \in Req \ {r} : Said(o)' <=> Said(o)
  BY DEF Said, Past
<1> QED
  BY <1>1, NoMessages

LEMMA ServingSays ==
    ASSUME TypeOK, Ways, Children, Messages, NEW r \in Req, Serving(r)
    PROVE  Messages'
<1>0. /\ wire \in [Req -> 0..2]
      /\ child \in [Req -> {"none", "compiling", "running", "deaf", "dead"}]
      /\ pc \in [Req -> [at : Places] \cup Located]
      /\ MessageOf(r)
  BY DEF TypeOK, Messages
<1>1. ASSUME NEW b \in Places, Go(r, b)
      PROVE  /\ \A o \in Req \ {r} : pc'[o] = pc[o]
             /\ pc'[r].at = b
  BY <1>1, GoEffect DEF At
<1>2. ASSUME scene' = scene, UNCHANGED <<child, ps, web>>, Refuse(r),
             NEW b \in {"end", "release", "exit"}, Go(r, b), ~Said(r)
      PROVE  Messages'
  <2>1. Said(r)' /\ \A o \in Req \ {r} : pc'[o] = pc[o]
    BY <1>1, <1>2 DEF Said, Past, Places
  <2>2. MessageOf(r)' /\ \A o \in Req \ {r} : wire'[o] = wire[o]
    BY <1>0, <1>2, <2>1, Refused
  <2>3. ASSUME NEW o \in Req \ {r} PROVE MessageOf(o)'
    <3>1. Said(o)' <=> Said(o)
      BY <1>2, <2>1 DEF Said, Past
    <3> QED
      BY <1>2, <2>2, <3>1, NoMessage DEF Messages
  <2> QED
    BY <2>2, <2>3 DEF Messages
<1>3. CASE Limit(r)
  <2>1. /\ At(r, "limit") /\ scene' = scene /\ UNCHANGED <<child, ps, web>>
        /\ \/ Go(r, "end") /\ Refuse(r)
           \/ Go(r, "enter") /\ wire' = wire
    BY <1>3 DEF Limit, procs
  <2>2. ~Said(r)
    BY <2>1 DEF Said, Past, At, Children
  <2>3. CASE Go(r, "enter") /\ wire' = wire
    <3>1. ~Said(r)' /\ \A o \in Req \ {r} : pc'[o] = pc[o]
      BY <1>1, <2>1, <2>2, <2>3 DEF Said, Past, Places
    <3> QED
      BY <2>1, <2>2, <2>3, <3>1, SaysNothing
  <2> QED
    BY <1>2, <2>1, <2>2, <2>3
<1>4. CASE Enter(r)
  <2>1. /\ At(r, "enter") /\ scene' = scene /\ UNCHANGED <<child, ps, web>>
        /\ \/ Go(r, "release") /\ Refuse(r)
           \/ (Go(r, "choose") \/ Go(r, "gate")) /\ wire' = wire
    BY <1>4 DEF Enter, procs
  <2>2. ~Said(r)
    BY <2>1 DEF Said, Past, At, Children
  <2>3. CASE (Go(r, "choose") \/ Go(r, "gate")) /\ wire' = wire
    <3>1. ~Said(r)' /\ \A o \in Req \ {r} : pc'[o] = pc[o]
      BY <1>1, <2>1, <2>2, <2>3 DEF Said, Past, Places, InRun, InSession, InGate
    <3> QED
      BY <2>1, <2>2, <2>3, <3>1, SaysNothing
  <2> QED
    BY <1>2, <2>1, <2>2, <2>3
<1>5. CASE Exit(r) \/ Release(r) \/ End(r)
  <2>1. /\ scene' = scene /\ UNCHANGED <<child, wire, ps, web>> /\ Past(r)
        /\ pc'[r].at \in {"release", "end", "over"} /\ \A o \in Req \ {r} : pc'[o] = pc[o]
    BY <1>0, <1>1, <1>5 DEF Exit, Release, End, polls, procs, Past, At, Places
  <2> QED
    BY <2>1, SaysNothing DEF Said, Past
<1>6. CASE Choose(r) \/ Submit(r) \/ Replace(r) \/ Leave(r)
  <2>1. /\ scene' = scene /\ UNCHANGED <<child, wire, ps, web>> /\ pc[r].at \in InRun
        /\ \A o \in Req \ {r} : pc'[o] = pc[o]
    BY <1>0, <1>1, <1>6 DEF Choose, Submit, Replace, Leave, polls, procs, At, InRun, Places
  <2>2. ~Is(r, "poll") /\ ~Said(r)
    BY <2>1 DEF Ways, Is, Said, Past, InRun, Children
  <2> QED
    BY <2>1, <2>2, SaysNothing
<1>7. CASE Gate(r) \/ Dequeue(r)
  <2>1. /\ scene' = scene /\ UNCHANGED <<child, wire, ps, web>> /\ pc[r].at \in {"gate", "queued"}
        /\ \/ Go(r, "fork") \/ Go(r, "queued")
           \/ Go(r, "exit") /\ Deserted(r)
    BY <1>7 DEF Gate, Dequeue, polls, procs, At
  <2>2. ~Said(r)
    BY <2>1 DEF Said, Past, Children
  <2>3. /\ Said(r)' => web[r].is = "gone"
        /\ \A o \in Req \ {r} : pc'[o] = pc[o]
    BY <1>1, <2>1, <2>2 DEF Said, Past, Deserted, Places, InSession, InGate
  <2> QED
    BY <2>1, <2>2, <2>3, SaysNothing
<1>8. CASE GateTimeOut(r)
  <2>1. /\ At(r, "queued") /\ scene' = scene /\ UNCHANGED <<child, ps, web>>
        /\ Go(r, "exit") /\ Refuse(r)
    BY <1>8 DEF GateTimeOut, procs
  <2>2. ~Said(r)
    BY <2>1 DEF Said, Past, At, Children
  <2> QED
    BY <1>2, <2>1, <2>2
<1>9. CASE Fork(r)
  <2>1. /\ scene' = scene /\ UNCHANGED <<wire, ps, web>> /\ At(r, "fork")
        /\ child' = [child EXCEPT ![r] = "compiling"] /\ Go(r, "compile")
    BY <1>9 DEF Fork, polls
  <2>2. ~Said(r)
    BY <2>1 DEF Said, Past, At, Children
  <2>3. /\ ~Said(r)'
        /\ \A o \in Req \ {r} : pc'[o] = pc[o] /\ child'[o] = child[o]
    BY <1>0, <1>1, <2>1 DEF Said, Past, Places, InSession, InGate
  <2> QED
    BY <2>1, <2>2, <2>3, SaysNothing
<1>10. CASE Ungate(r)
  <2>1. /\ scene' = scene /\ UNCHANGED <<child, wire, ps, web>> /\ At(r, "compile")
        /\ Go(r, "join")
    BY <1>10 DEF Ungate, polls, procs
  <2>2. /\ Said(r)' <=> Said(r)
        /\ \A o \in Req \ {r} : pc'[o] = pc[o]
    BY <1>1, <2>1 DEF Said, Past, At, Places, InSession
  <2> QED
    BY <2>1, <2>2, SaysNothing
<1>11. CASE Join(r)
  <2>1. /\ scene' = scene /\ UNCHANGED <<wire, ps, web>> /\ child[r] = "dead"
        /\ child' = [child EXCEPT ![r] = "none"] /\ Go(r, "exit")
    BY <1>11 DEF Join, polls
  <2>2. /\ Said(r) /\ Said(r)'
        /\ \A o \in Req \ {r} : pc'[o] = pc[o] /\ child'[o] = child[o]
    BY <1>0, <1>1, <2>1 DEF Said, Past, Places
  <2> QED
    BY <2>1, <2>2, SaysNothing
<1> QED
  BY <1>3, <1>4, <1>5, <1>6, <1>7, <1>8, <1>9, <1>10, <1>11 DEF Serving

\* What one request does to its own message leaves those of the others alone.
LEMMA OneMessage ==
    ASSUME TypeOK, Messages, scene' = scene, pc' = pc, NEW r \in Req, MessageOf(r)',
           \A o \in Req \ {r} : /\ wire'[o] = wire[o] /\ ps'[o] = ps[o] /\ web'[o] = web[o]
                                /\ child'[o] = child[o]
    PROVE  Messages'
<1>1. ASSUME NEW o \in Req \ {r} PROVE MessageOf(o)'
  <2>1. Said(o)' <=> Said(o)
    BY DEF Said, Past
  <2> QED
    BY <2>1, NoMessage DEF Messages
<1> QED
  BY <1>1 DEF Messages

LEMMA PumpSays ==
    ASSUME TypeOK, Table, Messages, NEW r \in Req, Pump(r)
    PROVE  Messages'
<1>0. wire \in [Req -> 0..2] /\ ps \in [Req -> Session] /\ MessageOf(r)
  BY DEF TypeOK, Session, Messages
<1>1. /\ scene' = scene /\ pc' = pc /\ UNCHANGED <<child, web>> /\ r \in poll_sessions
      /\ ~ps[r].done
  BY DEF Pump, procs
<1>2. CASE wire[r] = 2
  <2>1. wire' = [wire EXCEPT ![r] = 1] /\ ps' = [ps EXCEPT ![r] = [ps[r] EXCEPT !.last = TRUE]]
    BY <1>2 DEF Pump
  <2>2. /\ wire'[r] = 1 /\ ps'[r] = [ps[r] EXCEPT !.last = TRUE]
        /\ \A o \in Req \ {r} : wire'[o] = wire[o] /\ ps'[o] = ps[o]
    BY <1>0, <2>1
  <2>3. /\ ps'[r].last = TRUE /\ ps'[r].done = ps[r].done
        /\ ps'[r].quiet = ps[r].quiet /\ ps'[r].shut = ps[r].shut
    BY <1>0, <2>2 DEF Session
  <2>4. Said(r) /\ Said(r)'
    BY <1>0, <1>1, <1>2 DEF MessageOf, Said, Past
  <2>5. MessageOf(r)'
    BY <1>0, <1>1, <2>2, <2>3, <2>4 DEF MessageOf, Is
  <2> QED
    BY <1>1, <2>2, <2>5, OneMessage
<1>3. CASE wire[r] # 2
  <2>1. /\ wire' = wire /\ ps' = [ps EXCEPT ![r] = [ps[r] EXCEPT !.done = TRUE]]
        /\ wire[r] = 1 \/ Hung(r)
    BY <1>3 DEF Pump
  <2>2. /\ ps'[r] = [ps[r] EXCEPT !.done = TRUE]
        /\ \A o \in Req \ {r} : ps'[o] = ps[o]
    BY <1>0, <2>1
  <2>3. /\ ps'[r].done = TRUE /\ ps'[r].last = ps[r].last
        /\ ps'[r].quiet = ps[r].quiet /\ ps'[r].shut = ps[r].shut
    BY <1>0, <2>2 DEF Session
  <2>4. web[r].is # "gone" => wire[r] = 1
    <3>1. CASE Hung(r) /\ web[r].is # "gone"
      <4>1. ~inner[r]
        BY <1>0, <3>1 DEF Hung, MessageOf
      <4>2. Is(r, "poll") /\ Said(r)
        BY <1>1, <4>1 DEF Table, Said, Past, At
      <4> QED
        BY <1>0, <1>3, <3>1, <4>2 DEF MessageOf
    <3> QED
      BY <2>1, <3>1
  <2>5. Said(r)' <=> Said(r)
    BY <1>1 DEF Said, Past
  <2>6. MessageOf(r)'
    BY <1>0, <1>1, <2>1, <2>3, <2>4, <2>5 DEF MessageOf, Is
  <2> QED
    BY <1>1, <2>1, <2>2, <2>6, OneMessage
<1> QED
  BY <1>2, <1>3

LEMMA PollSays ==
    ASSUME TypeOK, Messages, NEW r \in Req, Poll(r)
    PROVE  Messages'
<1>0. /\ ps \in [Req -> Session] /\ web \in [Req -> Browser] /\ MessageOf(r)
  BY DEF TypeOK, Session, Browser, Messages
<1>1. /\ scene' = scene /\ pc' = pc /\ UNCHANGED <<child, wire>> /\ web[r].is = "here"
      /\ ps' = [ps EXCEPT ![r] = [ps[r] EXCEPT !.quiet = FALSE]]
      /\ web' = web \/ web' = [web EXCEPT ![r] = Answered(r)]
  BY DEF Poll, procs
<1>2. /\ ps'[r] = [ps[r] EXCEPT !.quiet = FALSE]
      /\ \A o \in Req \ {r} : ps'[o] = ps[o] /\ web'[o] = web[o]
      /\ web'[r] = web[r] \/ web'[r] = Answered(r)
  BY <1>0, <1>1
<1>3. /\ ps'[r].quiet = FALSE /\ ps'[r].shut = ps[r].shut
      /\ ps'[r].last = ps[r].last /\ ps'[r].done = ps[r].done
  BY <1>0, <1>2 DEF Session
<1>4. Said(r)' <=> Said(r)
  BY <1>1 DEF Said, Past
<1>5. web'[r].is # "gone" /\ (web'[r].is = "told" => ps[r].done /\ web'[r].last)
  <2>1. CASE web'[r] = web[r]
    BY <1>1, <2>1
  <2>2. CASE web'[r] = Answered(r)
    <3>1. web'[r].last = ps[r].last /\ web'[r].is = IF ps[r].done THEN "told" ELSE "here"
      BY <2>2 DEF Answered
    <3>2. ps[r].done => ps[r].last
      BY <1>0, <1>1 DEF MessageOf
    <3> QED
      BY <3>1, <3>2
  <2> QED
    BY <1>2, <2>1, <2>2
<1>6. MessageOf(r)'
  BY <1>0, <1>1, <1>3, <1>4, <1>5 DEF MessageOf, Is
<1> QED
  BY <1>1, <1>2, <1>6, OneMessage

LEMMA TimeSays ==
    ASSUME TypeOK, Messages, Without({"nap", "crash"}),
           NEW r \in Req, Gone(r) \/ Quiet(r) \/ Old(r)
    PROVE  Messages'
<1>0. /\ ps \in [Req -> Session] /\ web \in [Req -> Browser] /\ MessageOf(r)
  BY DEF TypeOK, Session, Browser, Messages
<1>1. /\ scene' = scene /\ pc' = pc /\ UNCHANGED <<child, wire>> /\ (Said(r)' <=> Said(r))
  BY DEF Gone, Quiet, Old, procs, Said, Past
<1>2. CASE Gone(r)
  <2>1. /\ ps' = ps /\ web' = [web EXCEPT ![r] = [web[r] EXCEPT !.is = "gone"]]
    BY <1>2 DEF Gone
  <2>2. /\ web'[r].is = "gone"
        /\ \A o \in Req \ {r} : web'[o] = web[o]
    BY <1>0, <2>1 DEF Browser
  <2>3. MessageOf(r)'
    BY <1>0, <1>1, <2>1, <2>2 DEF MessageOf
  <2> QED
    BY <1>1, <2>1, <2>2, <2>3, OneMessage
<1>3. CASE Quiet(r)
  <2>1. /\ web' = web /\ ps' = [ps EXCEPT ![r] = [ps[r] EXCEPT !.quiet = TRUE]]
        /\ ~ps[r].done /\ web[r].is # "here"
    BY <1>3 DEF Quiet, Happens, May, Without
  <2>2. web[r].is = "gone"
    BY <1>0, <2>1 DEF MessageOf, Browser
  <2>3. /\ ps'[r].shut = ps[r].shut /\ ps'[r].last = ps[r].last /\ ps'[r].done = ps[r].done
        /\ \A o \in Req \ {r} : ps'[o] = ps[o]
    BY <1>0, <2>1 DEF Session
  <2>4. MessageOf(r)'
    BY <1>0, <1>1, <2>1, <2>2, <2>3 DEF MessageOf
  <2> QED
    BY <1>1, <2>1, <2>3, <2>4, OneMessage
<1>4. CASE Old(r)
  <2>1. /\ web' = web /\ ps' = [ps EXCEPT ![r] = [ps[r] EXCEPT !.old = TRUE]]
    BY <1>4 DEF Old
  <2>2. /\ ps'[r].quiet = ps[r].quiet /\ ps'[r].shut = ps[r].shut
        /\ ps'[r].last = ps[r].last /\ ps'[r].done = ps[r].done
        /\ \A o \in Req \ {r} : ps'[o] = ps[o]
    BY <1>0, <2>1 DEF Session
  <2>3. MessageOf(r)'
    BY <1>0, <1>1, <2>1, <2>2 DEF MessageOf, Is
  <2> QED
    BY <1>1, <2>1, <2>2, <2>3, OneMessage
<1> QED
  BY <1>2, <1>3, <1>4

\* Only sessions whose browser has gone are shut.
LEMMA ReaperSays ==
    ASSUME TypeOK, Messages, Reap \/ Reaped
    PROVE  Messages'
<1>0. ps \in [Req -> Session]
  BY DEF TypeOK, Session
<1>1. /\ scene' = scene /\ pc' = pc /\ UNCHANGED <<child, wire, web>>
      /\ ps' = ps \/ ps' = Shut
  BY DEF Reap, Reaped, procs
<1>2. ASSUME NEW r \in Req PROVE MessageOf(r)'
  <2>1. Said(r)' <=> Said(r)
    BY <1>1 DEF Said, Past
  <2>2. CASE ps'[r] = ps[r]
    BY <1>1, <2>1, <2>2, NoMessage DEF Messages
  <2>3. CASE ps'[r] # ps[r]
    <3>1. r \in Silent /\ ps'[r] = [ps[r] EXCEPT !.shut = TRUE]
      BY <1>1, <2>3 DEF Shut
    <3>2. /\ ps'[r].quiet = ps[r].quiet /\ ps'[r].done = ps[r].done /\ ps'[r].last = ps[r].last
          /\ ps[r].quiet
      BY <1>0, <3>1 DEF Session, Silent
    <3>3. MessageOf(r)
      BY DEF Messages
    <3> QED
      BY <1>1, <2>1, <3>2, <3>3 DEF MessageOf, Is
  <2> QED
    BY <2>2, <2>3
<1> QED
  BY <1>2 DEF Messages

LEMMA ChildSays ==
    ASSUME TypeOK, Children, Messages, Without({"nap", "crash"}),
           NEW r \in Req, Child(r) \/ Crash(r) \/ Deafen(r)
    PROVE  Messages'
<1>0. /\ child \in [Req -> {"none", "compiling", "running", "deaf", "dead"}]
      /\ wire \in [Req -> 0..2] /\ MessageOf(r)
  BY DEF TypeOK, Messages
<1>1. scene' = scene /\ pc' = pc /\ UNCHANGED <<ps, web>>
  BY DEF Child, Started, Ended, Backstop, Crash, Deafen, polls
<1>2. ~Crash(r)
  BY DEF Crash, Happens, May, Without
<1>3. CASE Started(r) \/ Backstop(r) \/ Deafen(r)
  <2>1. /\ wire' = wire /\ child[r] # "dead"
        /\ \E c \in {"running", "deaf"} : child' = [child EXCEPT ![r] = c]
    BY <1>3 DEF Started, Backstop, Deafen, polls
  <2>2. \A o \in Req : child'[o] = "dead" <=> child[o] = "dead"
    BY <1>0, <2>1
  <2>3. \A o \in Req : Said(o)' <=> Said(o)
    BY <1>1, <2>2 DEF Said, Past
  <2> QED
    BY <1>1, <2>1, <2>3, NoMessages
<1>4. CASE Ended(r)
  <2>1. /\ child[r] \in {"compiling", "running"} /\ child' = [child EXCEPT ![r] = "dead"]
        /\ wire' = IF Is(r, "poll") /\ ~ps[r].shut THEN [wire EXCEPT ![r] = 2] ELSE wire
    BY <1>4 DEF Ended
  <2>2. ~Said(r)
    BY <2>1 DEF Said, Past, Children
  <2>3. /\ Said(r)'
        /\ \A o \in Req \ {r} : child'[o] = child[o] /\ wire'[o] = wire[o]
    BY <1>0, <2>1 DEF Said
  <2>4. CASE Is(r, "poll") /\ ~ps[r].shut
    <3>1. wire'[r] = 2
      BY <1>0, <2>1, <2>4
    <3>2. MessageOf(r)'
      BY <1>0, <1>1, <2>2, <2>3, <2>4, <3>1, MessageSent
    <3> QED
      BY <1>1, <2>3, <3>2, OneMessage
  <2>5. CASE ~(Is(r, "poll") /\ ~ps[r].shut)
    <3>1. wire' = wire /\ ~(Is(r, "poll") /\ web[r].is # "gone")
      BY <1>0, <2>1, <2>5 DEF MessageOf
    <3>2. MessageOf(r)'
      BY <1>0, <1>1, <2>2, <2>3, <3>1, NoMessage
    <3> QED
      BY <1>1, <2>3, <3>2, OneMessage
  <2> QED
    BY <2>4, <2>5
<1> QED
  BY <1>2, <1>3, <1>4 DEF Child

LEMMA LastMessageKept ==
    TypeOK /\ Ways /\ Jobs /\ Children /\ Table /\ LastMessage /\ [Next]_vars => LastMessage'
<1> SUFFICES ASSUME TypeOK, Ways, Jobs, Children, Table, LastMessage, [Next]_vars,
                    Without({"nap", "crash"})'
             PROVE  Messages'
  BY DEF LastMessage, Messages
<1>1. Without({"nap", "crash"}) /\ Messages
  BY NextInBounds DEF Without, LastMessage, Messages
<1>2. ASSUME UNCHANGED <<scene, child, wire, ps, web>>,
             \A o \in Req : pc'[o] # pc[o] => ~Past(o) /\ ~Past(o)'
      PROVE  Messages'
  <2>1. \A o \in Req : Said(o)' <=> Said(o)
    BY <1>2 DEF Said, Past
  <2> QED
    BY <1>1, <1>2, <2>1, NoMessages
<1>3. ASSUME NEW r \in Req, Begin(r) \/ Start(r) \/ TimeOut(r) PROVE Messages'
  <2>1. /\ UNCHANGED <<scene, child, wire, ps, web>> /\ pc[r].at \in {"idle", "wait"}
        /\ Go(r, "limit") \/ Go(r, "leave")
    BY <1>3 DEF Begin, Start, TimeOut, procs, polls, At
  <2>2. pc'[r].at \in {"limit", "leave"} /\ \A o \in Req \ {r} : pc'[o] = pc[o]
    BY <2>1, GoEffect DEF At, Places, InRun
  <2> QED
    BY <1>2, <2>1, <2>2 DEF Past
<1>4. ASSUME NEW g \in DOMAIN pool, Finish(g) \/ Break(g) PROVE Messages'
  <2>1. UNCHANGED <<scene, child, wire, ps, web>>
    BY <1>4 DEF Finish, Break, procs, polls
  <2>2. \A o \in Req : pc'[o] # pc[o] => At(o, "wait") /\ (At(o, "leave")' \/ At(o, "broken")')
    BY <1>4, FinishMoves, BreakMoves
  <2> QED
    BY <1>2, <2>1, <2>2 DEF Past, At
<1>5. CASE UNCHANGED vars
  BY <1>2, <1>5 DEF vars, procs, polls
<1> QED
  BY <1>1, <1>3, <1>4, <1>5, ServingSays, PumpSays, PollSays, TimeSays, ReaperSays, ChildSays
     DEF Next

-----------------------------------------------------------------------------
(* The inductive invariant holds *)

LEMMA InitTypeOK ==
    Init => TypeOK
<1> SUFFICES ASSUME Init PROVE TypeOK
  OBVIOUS
<1>1. /\ scene \in Scenes /\ scene.workers \in Nat \ {0} /\ scene.max_sessions \in Nat
      /\ scene.per_minute \in Nat /\ scene.connections \in Nat /\ scene.queue \in Nat
  BY SceneAssumption DEF Init
<1>2. pool \in Seq(PoolRecord) /\ DOMAIN pool = Worker
  <2>1. NewPool \in PoolRecord
    BY EmptySeq DEF NewPool, PoolRecord
  <2>2. pool = [i \in 1 .. scene.workers |-> NewPool]
    BY DEF Init, Worker
  <2> QED
    BY <1>1, <2>1, <2>2, SeqDef DEF Worker
<1>3. /\ NoSession \in Session /\ NewWeb \in Browser
  BY DEF NoSession, NewWeb, Session, Browser
<1>4. /\ ps \in [Req -> Session] /\ web \in [Req -> Browser]
  BY <1>3 DEF Init
<1>5. pc \in [Req -> [at : Places] \cup Located]
  BY DEF Init, Places
<1>6. /\ active \in [User -> Nat] /\ recent \in [User -> 0..scene.per_minute]
      /\ busy \in 0..(scene.workers + scene.queue) /\ sessions \in 0..scene.max_sessions
      /\ gate \in 0..scene.workers /\ slots \in 0..scene.connections
      /\ load \in [Worker -> Nat]
  BY <1>1 DEF Init
<1>7. pools \in [Worker -> DOMAIN pool]
  BY <1>2 DEF Init
<1>8. /\ child \in [Req -> {"none", "compiling", "running", "deaf", "dead"}]
      /\ holds \in [Req -> SUBSET Req]
      /\ inner \in [Req -> BOOLEAN] /\ wire \in [Req -> 0..2]
      /\ poll_sessions \subseteq Req
      /\ poll_lock \in {None, "reaper"}
  BY DEF Init
<1> QED
  BY <1>1, <1>2, <1>4, <1>5, <1>6, <1>7, <1>8 DEF TypeOK, PoolRecord, Session, Browser

LEMMA InitIInv ==
    Init => IInv
<1> SUFFICES ASSUME Init PROVE IInv
  OBVIOUS
<1>1. TypeOK
  BY InitTypeOK
<1>2. \A r \in Req : pc[r].at = "idle" /\ child[r] = "none"
  BY DEF Init
<1>3. Counted
  <2>1. /\ {r \in Req : HasBusy(r)} = {} /\ {r \in Req : HasSession(r)} = {}
        /\ {r \in Req : HasGate(r)} = {} /\ {r \in Req : HasSlot(r)} = {}
        /\ \A u \in User : {r \in Req : HasUser(r, u)} = {}
        /\ \A i \in Worker : {r \in Req : HasWorker(r, i)} = {}
    BY <1>2 DEF HasBusy, HasSession, HasGate, HasSlot, HasUser, HasWorker, At, Free,
                InRun, InSession, InGate
  <2>2. Cardinality({}) = 0
    BY FS_EmptySet
  <2>3. /\ busy = 0 /\ sessions = 0 /\ gate = scene.workers /\ slots = scene.connections
        /\ \A u \in User : active[u] = 0
        /\ \A i \in Worker : load[i] = 0
    BY DEF Init
  <2>4. scene.workers - 0 = scene.workers /\ scene.connections - 0 = scene.connections
    BY <1>1, Scene
  <2> QED
    BY <2>1, <2>2, <2>3, <2>4 DEF Counted
<1>4. Ways /\ OnePerUser
  BY <1>2 DEF Init, Ways, OnePerUser, At, InRun, InSession, InGate
<1>5. Jobs /\ NoOrphanPool
  BY <1>2 DEF Init, Jobs, NoOrphanPool, NewPool, At
<1>6. Children /\ Table
  BY <1>2 DEF Init, Children, Table
<1>7. LastMessage
  BY <1>2 DEF Init, LastMessage, MessageOf, Said, Past, NoSession, NewWeb
<1> QED
  BY <1>1, <1>3, <1>4, <1>5, <1>6, <1>7 DEF IInv

LEMMA NextKeeps ==
    IInv /\ [Next]_vars => IInv'
BY TypeKept, CountersKept, PoolsKept, OnePerUserKept, ChildrenKept, TableKept, LastMessageKept
   DEF IInv, PlacesAndPools

\* The inductive invariant.
THEOREM Invariant ==
    Spec => []IInv
BY InitIInv, NextKeeps, PTL DEF Spec

-----------------------------------------------------------------------------
(* What it says *)

\* The types: busy, sessions, the gate and the slots never leave the bounds the
\* server was started with.
THEOREM TypeCorrect ==
    Spec => []TypeOK
<1>1. IInv => TypeOK
  BY DEF IInv
<1> QED
  BY <1>1, Invariant, PTL

\* Requests in one place or in another.
LEMMA AtPlaces ==
    ASSUME NEW S \in SUBSET Req, NEW T \in SUBSET Req, S \cap T = {}
    PROVE  Cardinality(S \cup T) = Cardinality(S) + Cardinality(T)
<1>1. IsFiniteSet(S) /\ IsFiniteSet(T)
  BY RunnerAssumption, FS_Subset
<1>2. Cardinality(S) \in Nat /\ Cardinality(T) \in Nat
  BY <1>1, FS_CardinalityType
<1>3. Cardinality(S \cup T) = Cardinality(S) + Cardinality(T) - Cardinality(S \cap T)
  BY <1>1, FS_Union
<1>4. Cardinality(S \cap T) = 0
  BY FS_EmptySet
<1> QED
  BY <1>2, <1>3, <1>4

LEMMA CountedIsAll ==
    TypeOK /\ Ways /\ Counted => NothingLeaks
<1> SUFFICES ASSUME TypeOK, Ways, Counted PROVE NothingLeaks
  OBVIOUS
<1>1. busy = AtAny(InRun) + Cardinality({r \in Req : Is(r, "run") /\ At(r, "exit")})
  <2> DEFINE S == {r \in Req : pc[r].at \in InRun}
             T == {r \in Req : Is(r, "run") /\ At(r, "exit")}
  <2>1. {r \in Req : HasBusy(r)} = S \cup T /\ S \cap T = {}
    BY DEF HasBusy, At, InRun
  <2> HIDE DEF S, T
  <2>2. Cardinality(S \cup T) = Cardinality(S) + Cardinality(T)
    BY <2>1, AtPlaces DEF S, T
  <2> QED
    BY <2>1, <2>2 DEF Counted, AtAny, S, T
<1>2. sessions = AtAny(InSession) + Cardinality({r \in Req : Terminal(r) /\ At(r, "exit")})
  <2> DEFINE S == {r \in Req : pc[r].at \in InSession}
             T == {r \in Req : Terminal(r) /\ At(r, "exit")}
  <2>1. {r \in Req : HasSession(r)} = S \cup T /\ S \cap T = {}
    BY DEF HasSession, At, InSession, InGate
  <2> HIDE DEF S, T
  <2>2. Cardinality(S \cup T) = Cardinality(S) + Cardinality(T)
    BY <2>1, AtPlaces DEF S, T
  <2> QED
    BY <2>1, <2>2 DEF Counted, AtAny, S, T
<1> QED
  BY <1>1, <1>2 DEF Counted, NothingLeaks, AtAny, HasGate, HasUser, HasWorker, HasSlot

\* Whichever way a request ends, it gives back what it has taken: each counter,
\* semaphore and limit of the runner says how many requests are within it.
THEOREM NothingIsLeaked ==
    Spec => []NothingLeaks
<1>1. IInv => NothingLeaks
  BY CountedIsAll DEF IInv
<1> QED
  BY <1>1, Invariant, PTL

\* A pool that is not broken is the pool of a worker: however many threads are
\* told that a pool has broken, one replaces it.
THEOREM NoPoolIsOrphaned ==
    Spec => []NoOrphanPool
<1>1. IInv => NoOrphanPool
  BY DEF IInv
<1> QED
  BY <1>1, Invariant, PTL

\* A compiler runs behind the gate: there are never more than workers, unless one
\* takes longer than the gate waits.
THEOREM GateIsKept ==
    Spec => []GateHolds
<1>1. ASSUME IInv, Without({"slow_compile"})
      PROVE  Cardinality({r \in Req : child[r] = "compiling"}) <= scene.workers
  <2> DEFINE S == {r \in Req : child[r] = "compiling"}
             T == {r \in Req : HasGate(r)}
  <2>1. ASSUME NEW r \in Req, child[r] = "compiling" PROVE HasGate(r)
    BY <1>1, <2>1 DEF IInv, Children, HasGate, At, May, Without, InGate
  <2>2. S \subseteq T /\ IsFiniteSet(T)
    BY <2>1, RunnerAssumption, FS_Subset
  <2>3. /\ Cardinality(S) <= Cardinality(T)
        /\ Cardinality(S) \in Nat /\ Cardinality(T) \in Nat
    BY <2>2, FS_Subset, FS_CardinalityType
  <2>4. gate = scene.workers - Cardinality(T) /\ gate \in Nat /\ scene.workers \in Nat
    BY <1>1, Scene DEF IInv, Counted, TypeOK
  <2> HIDE DEF S, T
  <2>5. Cardinality(S) <= scene.workers
    BY <2>3, <2>4
  <2> QED
    BY <2>5 DEF S
<1>2. IInv => GateHolds
  BY <1>1 DEF GateHolds
<1> QED
  BY <1>2, Invariant, PTL

\* A browser that is told that all is over has had the last message, and its
\* program runs no more.
THEOREM ToldAll ==
    Spec => []ToldHasAll
<1>1. ASSUME IInv, Without({"nap", "crash"}), NEW r \in Req, web[r].is = "told"
      PROVE  web[r].last /\ ~Alive(r)
  <2>1. MessageOf(r)
    BY <1>1 DEF IInv, LastMessage
  <2>2. web[r].last /\ Said(r)
    BY <1>1, <2>1 DEF MessageOf
  <2>3. ~Alive(r)
    BY <1>1, <2>2 DEF Said, Past, Alive, IInv, Children
  <2> QED
    BY <2>2, <2>3
<1>2. IInv => ToldHasAll
  BY <1>1 DEF ToldHasAll
<1> QED
  BY <1>2, Invariant, PTL

LEMMA AtMostOne ==
    ASSUME NEW S, \A x, y \in S : x = y
    PROVE  Cardinality(S) \in {0, 1} /\ (S = {} => Cardinality(S) = 0)
<1>1. CASE S = {}
  BY <1>1, FS_EmptySet
<1>2. CASE S # {}
  <2>1. PICK x \in S : S = {x}
    BY <1>2
  <2> QED
    BY <1>2, <2>1, FS_Singleton
<1> QED
  BY <1>1, <1>2

\* The requests of a user that are within the limits: one, or none.
LEMMA OneWithinLimits ==
    ASSUME TypeOK, Counted, OnePerUser, NEW u \in User,
           NEW r \in Req, HasUser(r, u), NEW o \in Req, HasUser(o, u)
    PROVE  r = o
<1> DEFINE S == {q \in Req : HasUser(q, u)}
<1>1. IsFiniteSet(S) /\ r \in S /\ o \in S
  BY RunnerAssumption, FS_Subset
<1>2. Cardinality(S) <= 1 /\ Cardinality(S) \in Nat
  BY <1>1, FS_CardinalityType DEF Counted, OnePerUser
<1>3. Cardinality(S \ {r}) = Cardinality(S) - 1 /\ Cardinality(S \ {r}) \in Nat
      /\ IsFiniteSet(S \ {r})
  BY <1>1, FS_RemoveElement, FS_CardinalityType
<1>4. S \ {r} = {}
  BY <1>2, <1>3, FS_EmptySet
<1> QED
  BY <1>1, <1>4

\* A user has one program under way, in a pool or in a terminal, as long as no
\* run is given up that goes on.
THEOREM OneRun ==
    Spec => []OneRunPerUser
<1>1. ASSUME IInv, Without({"slow"}), NEW u \in User
      PROVE  Cardinality(JobsOf(u)) + Cardinality({r \in Req : Alive(r) /\ UserOf(r) = u}) <= 1
  <2> DEFINE alive == {r \in Req : Alive(r) /\ UserOf(r) = u}
  <2>1. ASSUME NEW j \in JobsOf(u)
        PROVE  \E r \in Req, g \in DOMAIN pool, k \in 1 .. Cardinality(Req) :
                  /\ j = <<g, k>> /\ HasUser(r, u) /\ At(r, "wait") /\ pc[r].pool = g
                  /\ k \in DOMAIN pool[g].jobs /\ pool[g].jobs[k].of = r
                  /\ \A l \in DOMAIN pool[g].jobs : pool[g].jobs[l].of = r => l = k
    <3>1. PICK g \in DOMAIN pool, k \in 1 .. Cardinality(Req) :
              /\ j = <<g, k>> /\ k \in DOMAIN pool[g].jobs /\ pool[g].jobs[k].user = u
      BY <2>1 DEF JobsOf
    <3>2. JobIs(g, k) /\ pool[g].jobs[k] \in Job
      BY <1>1, <3>1, PoolType, ElementOfSeq DEF IInv, Jobs
    <3>3. PICK r \in Req : r = pool[g].jobs[k].of
      BY <1>1, <3>2 DEF JobIs, Job, May, Without
    <3>4. /\ At(r, "wait") /\ pc[r].pool = g /\ UserOf(r) = u
          /\ \A l \in DOMAIN pool[g].jobs : pool[g].jobs[l].of = r => l = k
      BY <3>1, <3>2, <3>3, RunnerAssumption DEF JobIs
    <3> QED
      BY <3>1, <3>3, <3>4 DEF HasUser, At
  <2>2. ASSUME NEW r \in alive PROVE HasUser(r, u) /\ ~At(r, "wait")
    BY <1>1, <2>2 DEF IInv, Children, Alive, HasUser, At
  <2>3. ASSUME NEW j \in JobsOf(u), NEW i \in JobsOf(u) PROVE j = i
    <3>1. PICK r \in Req, g \in DOMAIN pool, k \in 1 .. Cardinality(Req) :
              /\ j = <<g, k>> /\ HasUser(r, u) /\ pc[r].pool = g
              /\ \A l \in DOMAIN pool[g].jobs : pool[g].jobs[l].of = r => l = k
      BY <2>1
    <3>2. PICK o \in Req, h \in DOMAIN pool, l \in 1 .. Cardinality(Req) :
              /\ i = <<h, l>> /\ HasUser(o, u) /\ pc[o].pool = h
              /\ l \in DOMAIN pool[h].jobs /\ pool[h].jobs[l].of = o
      BY <2>1
    <3>3. r = o
      BY <1>1, <3>1, <3>2, OneWithinLimits DEF IInv
    <3> QED
      BY <3>1, <3>2, <3>3
  <2>4. ASSUME NEW r \in alive, NEW o \in alive PROVE r = o
    BY <1>1, <2>2, OneWithinLimits DEF IInv
  <2>5. JobsOf(u) = {} \/ alive = {}
    BY <1>1, <2>1, <2>2, OneWithinLimits DEF IInv
  <2>6. Cardinality(JobsOf(u)) \in {0, 1} /\ (JobsOf(u) = {} => Cardinality(JobsOf(u)) = 0)
    BY <2>3, AtMostOne
  <2>7. Cardinality(alive) \in {0, 1} /\ (alive = {} => Cardinality(alive) = 0)
    BY <2>4, AtMostOne
  <2> QED
    BY <2>5, <2>6, <2>7
<1>2. IInv => OneRunPerUser
  BY <1>1 DEF OneRunPerUser
<1> QED
  BY <1>2, Invariant, PTL
=============================================================================
