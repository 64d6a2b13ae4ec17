------------------------------- MODULE Runner -------------------------------
(***************************************************************************)
(* The code runner: runner/server.py and the child of runner_session.py.   *)
(*                                                                         *)
(* Every request is a thread.  A run ("run") waits for a worker process; a *)
(* terminal over WebSocket ("ws"), or over plain HTTP ("poll"), for a      *)
(* process of its own.  Each passes the same gates: a slot of the server,  *)
(* the limits of its user, a counter; a run then a pool, a terminal the    *)
(* gate of the compilers.  A terminal over HTTP is a row of poll_sessions  *)
(* which two more threads and a socket pair keep alive, which the browser  *)
(* reads, and which the reaper removes.                                    *)
(*                                                                         *)
(* pc[r] is what the thread of r does next; the steps of the finally       *)
(* clauses are steps of pc.  Times are what may happen: 90 seconds         *)
(* (TimeOut), 120 (GateTimeOut), 60 (Ungate), 45 and 60 (Quiet, Old).      *)
(***************************************************************************)
EXTENDS Integers, Sequences, FiniteSets

CONSTANTS
    Req,        \* requests, each of which comes once; a user may make several
    User,
    Scenes,     \* the servers to look at, see SceneAssumption
    None

Kinds == {"run", "ws", "poll"}

\* "die": a worker process dies; "slow": a run takes more than 90 seconds;
\* "slow_compile": a compiler more than 60; "crash": a child ends without a
\* word; "gone": browsers go away; "nap": a browser does not poll for a while;
\* "deaf": a program does not read its input.
Hazards == {"die", "slow", "slow_compile", "crash", "gone", "nap", "deaf"}

ASSUME SceneAssumption ==
    \A s \in Scenes :
        /\ s.kind \in [Req -> Kinds \cup {None}] /\ s.user \in [Req -> User]
        /\ {s.workers, s.max_sessions, s.per_minute, s.connections} \subseteq Nat \ {0}
        /\ {s.queue, s.max_events} \subseteq Nat  \* max_events: the bound of env
        /\ s.env \subseteq Hazards

ASSUME RunnerAssumption ==
    /\ IsFiniteSet(Req)
    /\ None \notin Req \cup Kinds

VARIABLES
    scene,     \* the server looked at: chosen at the start, never changed
    pc,        \* pc[r]: the next step of the thread of r
    active,    \* Limiter.active
    recent,    \* recent[u]: the length of Limiter.history
    busy, sessions,  \* the counters of the server
    gate,      \* compile_gate: how many may still compile
    slots,     \* how many connections may still come
    pools,     \* WorkerSet.pools: the number of the pool of each worker
    load,      \* WorkerSet.busy
    pool,      \* every pool ever made: its jobs in order, and whether it is broken
    child,     \* the process of a terminal
    holds,     \* holds[r]: the inner ends of socket pairs that were open when r's child was forked
    inner,     \* inner[r]: the server has r's inner end open
    wire,      \* wire[r]: what is under way to the pump: 2, the last message and a close; 1, a close
    poll_sessions, poll_lock,  \* the lock: None, "reaper", or free again at once
    ps,        \* ps[r]: the PollSession of r, see NoSession
    web,       \* web[r]: the browser of r: whether it has the last message, and what it does
    events

counts == <<busy, sessions, gate, slots>>
limiter == <<active, recent>>
workers == <<pools, load, pool>>
procs == <<child, holds>>
polls == <<inner, wire, poll_sessions, poll_lock, ps, web>>
vars == <<scene, pc, limiter, counts, workers, procs, polls, events>>

Worker == 1..scene.workers
May(e) == e \in scene.env
Without(E) == E \cap scene.env = {}
UserOf(r) == scene.user[r]
Is(r, kind) == scene.kind[r] = kind
Terminal(r) == Is(r, "ws") \/ Is(r, "poll")
At(r, at) == pc[r].at = at
Free(r) == pc[r].at \in {"idle", "over"}
Go(r, at) == pc' = [pc EXCEPT ![r].at = at]

NewPool == [jobs |-> <<>>, broken |-> FALSE]
NoSession == [last |-> FALSE, done |-> FALSE, quiet |-> FALSE, old |-> FALSE, shut |-> FALSE]
NewWeb == [last |-> FALSE, is |-> "here"]

\* main()
Init ==
    /\ scene \in Scenes
    /\ pc = [r \in Req |-> [at |-> "idle"]]
    /\ active = [u \in User |-> 0] /\ recent = [u \in User |-> 0]
    /\ busy = 0 /\ sessions = 0
    /\ gate = scene.workers /\ slots = scene.connections
    /\ pools = [i \in Worker |-> i]
    /\ load = [i \in Worker |-> 0]
    /\ pool = [i \in Worker |-> NewPool]
    /\ child = [r \in Req |-> "none"] /\ holds = [r \in Req |-> {}]
    /\ inner = [r \in Req |-> FALSE] /\ wire = [r \in Req |-> 0]
    /\ poll_sessions = {} /\ poll_lock = None
    /\ ps = [r \in Req |-> NoSession] /\ web = [r \in Req |-> NewWeb]
    /\ events = 0

Happens(e) == May(e) /\ events < scene.max_events /\ events' = events + 1

-----------------------------------------------------------------------------
(* What every request does *)

\* BoundedServer.process_request(); without a slot the connection is dropped.
Begin(r) ==
    /\ At(r, "idle")
    /\ Is(r, "run") \/ Is(r, "ws")
    /\ slots > 0
    /\ slots' = slots - 1
    /\ Go(r, "limit")
    /\ UNCHANGED <<scene, limiter, busy, sessions, gate, workers, procs, polls, events>>

\* An answer that refuses: a terminal over HTTP gets a message and a close.
Refuse(r) ==
    wire' = IF Is(r, "poll") THEN [wire EXCEPT ![r] = 2] ELSE wire

\* Mutant: a user may have two.
Limited_OffByOne(u, left) == active[u] > 1 \/ left >= scene.per_minute

\* One at a time, and so many a minute.
Limited(u, left) == active[u] >= 1 \/ left >= scene.per_minute

\* Limiter.acquire(): the entries of more than 60 seconds leave the history,
\* unless the first limit is met before they are looked at.
Limit(r) ==
    LET u == UserOf(r) IN
    /\ At(r, "limit")
    /\ \E left \in 0..recent[u] :
          /\ active[u] >= 1 => left = recent[u]
          /\ IF Limited(u, left)
             THEN /\ recent' = [recent EXCEPT ![u] = left]
                  /\ Go(r, "end") /\ Refuse(r) /\ UNCHANGED active
             ELSE /\ active' = [active EXCEPT ![u] = @ + 1]
                  /\ recent' = [recent EXCEPT ![u] = left + 1]
                  /\ Go(r, "enter") /\ UNCHANGED wire
    /\ UNCHANGED <<scene, counts, workers, procs, inner, poll_sessions, poll_lock, ps, web, events>>

\* Mutant: one too many.
TooBusy_OffByOne(r) ==
    IF Is(r, "run") THEN busy > scene.workers + scene.queue ELSE sessions > scene.max_sessions

TooBusy(r) ==
    IF Is(r, "run") THEN busy >= scene.workers + scene.queue ELSE sessions >= scene.max_sessions

\* Mutant: a server that is too busy does not give the user back.
Enter_NoFinally(r) ==
    /\ At(r, "enter")
    /\ IF TooBusy(r) THEN Go(r, "end") /\ Refuse(r) /\ UNCHANGED <<busy, sessions>>
       ELSE /\ IF Is(r, "run") THEN Go(r, "choose") /\ busy' = busy + 1 /\ UNCHANGED sessions
                                ELSE Go(r, "gate") /\ sessions' = sessions + 1 /\ UNCHANGED busy
            /\ UNCHANGED wire
    /\ UNCHANGED <<scene, limiter, gate, slots, workers, procs, inner, poll_sessions, poll_lock,
                   ps, web, events>>

\* The counters of runs and of terminals have one lock.
Enter(r) ==
    /\ At(r, "enter")
    /\ IF TooBusy(r) THEN Go(r, "release") /\ Refuse(r) /\ UNCHANGED <<busy, sessions>>
       ELSE /\ IF Is(r, "run") THEN Go(r, "choose") /\ busy' = busy + 1 /\ UNCHANGED sessions
                                ELSE Go(r, "gate") /\ sessions' = sessions + 1 /\ UNCHANGED busy
            /\ UNCHANGED wire
    /\ UNCHANGED <<scene, limiter, gate, slots, workers, procs, inner, poll_sessions, poll_lock,
                   ps, web, events>>

\* The finally clauses, from the inside out: the counter,
Exit(r) ==
    /\ At(r, "exit")
    /\ IF Is(r, "run") THEN busy' = busy - 1 /\ UNCHANGED sessions
                       ELSE sessions' = sessions - 1 /\ UNCHANGED busy
    /\ Go(r, "release")
    /\ UNCHANGED <<scene, limiter, gate, slots, workers, procs, polls, events>>

\* Limiter.release(),
Release(r) ==
    /\ At(r, "release")
    /\ active' = [active EXCEPT ![UserOf(r)] = @ - 1]
    /\ Go(r, "end")
    /\ UNCHANGED <<scene, recent, counts, workers, procs, polls, events>>

\* and the slot, or the inner end of the socket pair.
End(r) ==
    /\ At(r, "end")
    /\ pc' = [pc EXCEPT ![r] = [at |-> "over"]]
    /\ IF Is(r, "poll") THEN inner' = [inner EXCEPT ![r] = FALSE] /\ UNCHANGED slots
                        ELSE slots' = slots + 1 /\ UNCHANGED inner
    /\ UNCHANGED <<scene, limiter, busy, sessions, gate, workers, procs, wire, poll_sessions,
                   poll_lock, ps, web, events>>

-----------------------------------------------------------------------------
(* Runs: WorkerSet.run() *)

\* The worker whose cache may have the program, whichever that is, unless it is
\* clearly busier than the first of the least busy.
Chosen(preferred) ==
    LET least == CHOOSE i \in Worker :
                    \A j \in Worker : load[i] < load[j] \/ (load[i] = load[j] /\ i <= j)
    IN  IF load[preferred] <= load[least] + 1 THEN preferred ELSE least

Choose(r) ==
    /\ At(r, "choose")
    /\ \E preferred \in Worker :
          LET i == Chosen(preferred) IN
          /\ load' = [load EXCEPT ![i] = @ + 1]
          /\ pc' = [pc EXCEPT ![r] = [at |-> "submit", i |-> i, pool |-> pools[i]]]
    /\ UNCHANGED <<scene, limiter, counts, pools, pool, procs, polls, events>>

\* submit() raises when the pool has broken in the meantime.
Submit(r) ==
    LET g == pc[r].pool IN
    /\ At(r, "submit")
    /\ IF pool[g].broken
       THEN Go(r, "broken") /\ UNCHANGED pool
       ELSE /\ pool' = [pool EXCEPT ![g].jobs = Append(@, [of |-> r, user |-> UserOf(r)])]
            /\ Go(r, "wait")
    /\ UNCHANGED <<scene, limiter, counts, pools, load, procs, polls, events>>

\* The process of a pool finishes its first job: run_job().
Finish(g) ==
    /\ pool[g].jobs # <<>>
    /\ pool' = [pool EXCEPT ![g].jobs = Tail(@)]
    /\ LET r == Head(pool[g].jobs).of IN IF r = None THEN UNCHANGED pc ELSE Go(r, "leave")
    /\ UNCHANGED <<scene, limiter, counts, pools, load, procs, polls, events>>

\* The process dies: everybody who waits for the pool is told.
Break(g) ==
    /\ ~pool[g].broken /\ pool[g].jobs # <<>>
    /\ Happens("die")
    /\ pool' = [pool EXCEPT ![g] = [jobs |-> <<>>, broken |-> TRUE]]
    /\ pc' = [r \in Req |-> IF At(r, "wait") /\ pc[r].pool = g THEN [pc[r] EXCEPT !.at = "broken"] ELSE pc[r]]
    /\ UNCHANGED <<scene, limiter, counts, pools, load, procs, polls>>

\* result(timeout=90): nobody waits for the job any more, and it goes on.
TimeOut(r) ==
    /\ At(r, "wait")
    /\ Happens("slow")
    /\ Go(r, "leave")
    /\ pool' = [pool EXCEPT ![pc[r].pool].jobs =
                  [k \in DOMAIN @ |-> IF @[k].of = r THEN [@[k] EXCEPT !.of = None] ELSE @[k]]]
    /\ UNCHANGED <<scene, limiter, counts, pools, load, procs, polls>>

\* Mutant: everybody who is told makes a new pool.
Replace_Always(r) ==
    /\ At(r, "broken")
    /\ pools' = [pools EXCEPT ![pc[r].i] = Len(pool) + 1]
    /\ pool' = Append(pool, NewPool)
    /\ Go(r, "leave")
    /\ UNCHANGED <<scene, limiter, counts, load, procs, polls, events>>

\* The first who is told makes a new pool.
Replace(r) ==
    /\ At(r, "broken")
    /\ IF pools[pc[r].i] = pc[r].pool
       THEN pools' = [pools EXCEPT ![pc[r].i] = Len(pool) + 1] /\ pool' = Append(pool, NewPool)
       ELSE UNCHANGED <<pools, pool>>
    /\ Go(r, "leave")
    /\ UNCHANGED <<scene, limiter, counts, load, procs, polls, events>>

Leave(r) ==
    /\ At(r, "leave")
    /\ load' = [load EXCEPT ![pc[r].i] = @ - 1]
    /\ Go(r, "exit")
    /\ UNCHANGED <<scene, limiter, counts, pools, pool, procs, polls, events>>

-----------------------------------------------------------------------------
(* Terminals: serve_session() *)

Alive(r) == child[r] \in {"compiling", "running", "deaf"}

\* The browser of r cannot be written to.
Deserted(r) == web[r].is = "gone" /\ (Is(r, "ws") \/ ps[r].shut)

\* The gate at once, or "queued", which may fail with the connection.
Gate(r) ==
    /\ At(r, "gate")
    /\ IF gate > 0 THEN gate' = gate - 1 /\ Go(r, "fork")
       ELSE UNCHANGED gate /\ Go(r, IF Deserted(r) THEN "exit" ELSE "queued")
    /\ UNCHANGED <<scene, limiter, busy, sessions, slots, workers, procs, polls, events>>

Dequeue(r) ==
    /\ At(r, "queued")
    /\ gate > 0
    /\ gate' = gate - 1
    /\ Go(r, "fork")
    /\ UNCHANGED <<scene, limiter, busy, sessions, slots, workers, procs, polls, events>>

GateTimeOut(r) ==
    /\ At(r, "queued")
    /\ Refuse(r)
    /\ Go(r, "exit")
    /\ UNCHANGED <<scene, limiter, counts, workers, procs, inner, poll_sessions, poll_lock, ps, web, events>>

\* A child has a copy of every descriptor that is open.
Fork(r) ==
    /\ At(r, "fork")
    /\ child' = [child EXCEPT ![r] = "compiling"]
    /\ holds' = [holds EXCEPT ![r] = {o \in Req : inner[o]}]
    /\ Go(r, "compile")
    /\ UNCHANGED <<scene, limiter, counts, workers, polls, events>>

\* Mutant: the gate is left at once.
Ungate_Early(r) ==
    /\ At(r, "compile")
    /\ gate' = gate + 1
    /\ Go(r, "join")
    /\ UNCHANGED <<scene, limiter, busy, sessions, slots, workers, procs, polls, events>>

\* Mutant: only the compiler is waited for, and without end.
Ungate_Waits(r) ==
    /\ At(r, "compile")
    /\ child[r] \in {"running", "deaf"}
    /\ gate' = gate + 1
    /\ Go(r, "join")
    /\ UNCHANGED <<scene, limiter, busy, sessions, slots, workers, procs, polls, events>>

\* The program is compiled, the child has died, or 60 seconds have passed.
Ungate(r) ==
    /\ At(r, "compile")
    /\ \/ child[r] # "compiling" /\ UNCHANGED events
       \/ child[r] = "compiling" /\ Happens("slow_compile")
    /\ gate' = gate + 1
    /\ Go(r, "join")
    /\ UNCHANGED <<scene, limiter, busy, sessions, slots, workers, procs, polls>>

Join(r) ==
    /\ At(r, "join")
    /\ child[r] = "dead"
    /\ child' = [child EXCEPT ![r] = "none"] /\ holds' = [holds EXCEPT ![r] = {}]
    /\ Go(r, "exit")
    /\ UNCHANGED <<scene, limiter, counts, workers, polls, events>>

-----------------------------------------------------------------------------
(* The child: run_session().  Of what it writes only the last message is    *)
(* modelled, and the close after it.                                       *)

\* The program has been compiled.
Started(r) ==
    /\ child[r] = "compiling"
    /\ ~Deserted(r)
    /\ child' = [child EXCEPT ![r] = "running"]
    /\ UNCHANGED <<scene, pc, limiter, counts, workers, holds, polls, events>>

\* It cannot be compiled, has ended, or has reached a limit.  Nobody may be
\* there to be told.
Ended(r) ==
    /\ child[r] \in {"compiling", "running"}
    /\ child' = [child EXCEPT ![r] = "dead"]
    /\ wire' = IF Is(r, "poll") /\ ~ps[r].shut THEN [wire EXCEPT ![r] = 2] ELSE wire
    /\ UNCHANGED <<scene, pc, limiter, counts, workers, holds, inner, poll_sessions, poll_lock, ps,
                   web, events>>

\* The process dies, or join() has waited long enough and kills it.
Crash(r) ==
    /\ Alive(r)
    /\ Happens("crash")
    /\ child' = [child EXCEPT ![r] = "dead"]
    /\ UNCHANGED <<scene, pc, limiter, counts, workers, holds, polls>>

\* handle_client() blocks in a write to a program that does not read, and the
\* socket pair fills up with what the browser sends ...
Deafen(r) ==
    /\ child[r] = "running" /\ Is(r, "poll") /\ web[r].is = "here"
    /\ Happens("deaf")
    /\ child' = [child EXCEPT ![r] = "deaf"]
    /\ UNCHANGED <<scene, pc, limiter, counts, workers, holds, polls>>

\* ... until the backstop of launch() stops the program.
Backstop(r) ==
    /\ child[r] = "deaf"
    /\ child' = [child EXCEPT ![r] = "running"]
    /\ UNCHANGED <<scene, pc, limiter, counts, workers, holds, polls, events>>

-----------------------------------------------------------------------------
(* Terminals over HTTP: PollSession and the reaper *)

\* handle_poll_start(), with a start message that fits into the socket pair: it
\* is written before anybody reads, and under the lock.
Start(r) ==
    /\ Is(r, "poll") /\ At(r, "idle")
    /\ slots > 0
    /\ poll_lock = None
    /\ Cardinality(poll_sessions) < 2 * scene.max_sessions
    /\ Go(r, "limit")
    /\ inner' = [inner EXCEPT ![r] = TRUE]
    /\ poll_sessions' = poll_sessions \cup {r}
    /\ UNCHANGED <<scene, limiter, counts, workers, procs, wire, poll_lock, ps, web, events>>

\* Nobody has the inner end of r any more, or the reaper has shut the outer.
Hung(r) == ps[r].shut \/ (~inner[r] /\ \A o \in Req : Alive(o) => r \notin holds[o])

\* _pump(): the next message, or the end.
Pump(r) ==
    /\ r \in poll_sessions /\ ~ps[r].done
    /\ IF wire[r] = 2
       THEN /\ wire' = [wire EXCEPT ![r] = 1]
            /\ ps' = [ps EXCEPT ![r].last = TRUE]
       ELSE /\ (wire[r] = 1 \/ Hung(r))
            /\ ps' = [ps EXCEPT ![r].done = TRUE]
            /\ UNCHANGED wire
    /\ UNCHANGED <<scene, pc, limiter, counts, workers, procs, inner, poll_sessions, poll_lock, web, events>>

\* Mutant: a browser is told of the end with the messages it asked for before.
Answered_Early(r) == [last |-> web[r].last, is |-> IF ps[r].done THEN "told" ELSE "here"]

\* poll(): the messages after those the browser has, and whether that is all.
Answered(r) == [last |-> ps[r].last, is |-> IF ps[r].done THEN "told" ELSE "here"]

\* handle_poll(); the answer may be lost, and is asked for again.
Poll(r) ==
    /\ r \in poll_sessions /\ web[r].is = "here"
    /\ slots > 0
    /\ poll_lock = None
    /\ ps' = [ps EXCEPT ![r].quiet = FALSE]
    /\ web' \in {web, [web EXCEPT ![r] = Answered(r)]}
    /\ UNCHANGED <<scene, pc, limiter, counts, workers, procs, inner, wire, poll_sessions, poll_lock, events>>

\* The page is closed.
Gone(r) ==
    /\ Happens("gone")
    /\ web[r].is = "here"
    /\ ~Free(r) \/ r \in poll_sessions
    /\ web' = [web EXCEPT ![r].is = "gone"]
    /\ UNCHANGED <<scene, pc, limiter, counts, workers, procs, inner, wire, poll_sessions, poll_lock, ps>>

\* Nobody has polled for 45 seconds.
Quiet(r) ==
    /\ r \in poll_sessions /\ ~ps[r].done /\ ~ps[r].quiet
    /\ \/ web[r].is # "here" /\ UNCHANGED events
       \/ web[r].is = "here" /\ Happens("nap")
    /\ ps' = [ps EXCEPT ![r].quiet = TRUE]
    /\ UNCHANGED <<scene, pc, limiter, counts, workers, procs, inner, wire, poll_sessions, poll_lock, web>>

\* The session has been over for 60 seconds.
Old(r) ==
    /\ r \in poll_sessions /\ ps[r].done /\ ~ps[r].old
    /\ ps' = [ps EXCEPT ![r].old = TRUE]
    /\ UNCHANGED <<scene, pc, limiter, counts, workers, procs, inner, wire, poll_sessions, poll_lock, web, events>>

\* The sessions the reaper finds silent, and those it finds long over.
Silent == {r \in poll_sessions : ~ps[r].done /\ ps[r].quiet}
Expired == {r \in poll_sessions : ps[r].old}

\* reap_poll_sessions() takes the lock, and sends "kill" under it, ...
Reap ==
    /\ poll_lock = None
    /\ (Expired # {} \/ \E r \in Silent : ~ps[r].shut)
    /\ poll_lock' = "reaper"
    /\ UNCHANGED <<scene, pc, limiter, counts, workers, procs, inner, wire, poll_sessions, ps, web, events>>

\* Mutant: only what is long over is looked at.
Shut_Never == [r \in Req |-> ps[r]]
\* The sockets of those who are silent are shut.
Shut == [r \in Req |-> IF r \in Silent THEN [ps[r] EXCEPT !.shut = TRUE] ELSE ps[r]]

\* ... which waits until the child reads.
Reaped ==
    /\ poll_lock = "reaper"
    /\ \A r \in Silent : child[r] # "deaf"
    /\ ps' = Shut
    /\ poll_sessions' = poll_sessions \ Expired
    /\ poll_lock' = None
    /\ UNCHANGED <<scene, pc, limiter, counts, workers, procs, inner, wire, web, events>>

-----------------------------------------------------------------------------
Serving(r) ==
    \/ Limit(r) \/ Enter(r) \/ Exit(r) \/ Release(r) \/ End(r)
    \/ Choose(r) \/ Submit(r) \/ Replace(r) \/ Leave(r)
    \/ Gate(r) \/ Dequeue(r) \/ GateTimeOut(r) \/ Fork(r) \/ Ungate(r) \/ Join(r)

Child(r) == Started(r) \/ Ended(r) \/ Backstop(r)

Next ==
    \/ \E r \in Req :
          \/ Begin(r) \/ Start(r) \/ Serving(r) \/ Child(r)
          \/ TimeOut(r) \/ Crash(r) \/ Deafen(r)
          \/ Pump(r) \/ Poll(r) \/ Gone(r) \/ Quiet(r) \/ Old(r)
    \/ \E g \in DOMAIN pool : Finish(g) \/ Break(g)
    \/ Reap \/ Reaped

Spec == Init /\ [][Next]_vars

\* Nobody is asked to come, to leave, or to fail, but what has begun goes on:
\* some thread that can run runs, jobs and children end (both have limits of
\* time), time passes, and a browser that is there gets an answer now and then.
\* There is a finite number of requests, so that this is enough.
Going ==
    \/ \E r \in Req :
          \/ Serving(r) \/ Child(r) \/ Pump(r) \/ Quiet(r) \/ Old(r)
          \/ Poll(r) /\ web' # web
    \/ \E g \in DOMAIN pool : Finish(g)
    \/ Reap \/ Reaped

FairSpec == Spec /\ WF_vars(Going)

-----------------------------------------------------------------------------
(* Properties *)

InRun == {"choose", "submit", "wait", "broken", "leave"}
InGate == {"fork", "compile"}
InSession == {"gate", "queued", "join"} \cup InGate
Places == {"idle", "limit", "enter", "exit", "release", "end", "over"} \cup InRun \cup InSession

\* Where a thread is; from submit() on it has a worker and a pool.
Located == [at : Places, i : Worker, pool : DOMAIN pool]
Job == [of : Req \cup {None}, user : User]

TypeOK ==
    /\ scene \in Scenes
    /\ pc \in [Req -> [at : Places] \cup Located]
    /\ active \in [User -> Nat] /\ recent \in [User -> 0..scene.per_minute]
    /\ busy \in 0..(scene.workers + scene.queue)
    /\ sessions \in 0..scene.max_sessions
    /\ gate \in 0..scene.workers
    /\ slots \in 0..scene.connections
    /\ pool \in Seq([jobs : Seq(Job), broken : BOOLEAN])
    /\ pools \in [Worker -> DOMAIN pool] /\ load \in [Worker -> Nat]
    /\ child \in [Req -> {"none", "compiling", "running", "deaf", "dead"}]
    /\ holds \in [Req -> SUBSET Req]
    /\ inner \in [Req -> BOOLEAN] /\ wire \in [Req -> 0..2]
    /\ poll_sessions \subseteq Req
    /\ poll_lock \in {None, "reaper"}
    /\ ps \in [Req -> [last : BOOLEAN, done : BOOLEAN,
                        quiet : BOOLEAN, old : BOOLEAN, shut : BOOLEAN]]
    /\ web \in [Req -> [last : BOOLEAN, is : {"here", "told", "gone"}]]

AtAny(places) == Cardinality({r \in Req : pc[r].at \in places})

\* Nothing is taken and not given back, whichever way a request ends: each
\* counter, semaphore and limit says how many requests are within it.
NothingLeaks ==
    /\ busy = AtAny(InRun) + Cardinality({r \in Req : Is(r, "run") /\ At(r, "exit")})
    /\ sessions = AtAny(InSession) + Cardinality({r \in Req : Terminal(r) /\ At(r, "exit")})
    /\ gate = scene.workers - AtAny(InGate)
    /\ \A u \in User :
          active[u] = Cardinality({r \in Req : UserOf(r) = u /\ pc[r].at \notin {"idle", "over", "limit", "end"}})
    /\ \A i \in Worker :
          load[i] = Cardinality({r \in Req : pc[r].at \in InRun \ {"choose"} /\ pc[r].i = i})
    /\ slots = scene.connections - Cardinality({r \in Req : ~Is(r, "poll") /\ ~Free(r)})

\* There are never more processes for runs than workers: a pool that is not
\* broken is never replaced, however many are told of the death of one.
NoOrphanPool == \A g \in DOMAIN pool : ~pool[g].broken => \E i \in Worker : pools[i] = g

\* The jobs of a user in the pools, waited for or not, as pairs of pool and place.
JobsOf(u) ==
    {j \in (DOMAIN pool) \X (1..Cardinality(Req)) :
        j[2] \in DOMAIN pool[j[1]].jobs /\ pool[j[1]].jobs[j[2]].user = u}

\* A user has one program under way, in a pool or in a terminal.
OneRunPerUser ==
    Without({"slow"}) =>
        \A u \in User :
            Cardinality(JobsOf(u)) + Cardinality({r \in Req : Alive(r) /\ UserOf(r) = u}) <= 1

\* At most as many terminals compile as there are workers.
GateHolds ==
    Without({"slow_compile"}) => Cardinality({r \in Req : child[r] = "compiling"}) <= scene.workers

\* A browser that is told that all is over has had the last message, be it the
\* verdict or the reason why there is none, and nothing goes on behind it.
ToldHasAll ==
    Without({"nap", "crash"}) =>
        \A r \in Req : web[r].is = "told" =>
            web[r].last /\ ~Alive(r)

\* Every request comes to its end: nobody waits for ever at a gate, for a pool
\* that has died, or for the lock of the sessions.
EveryRequestEnds ==
    \A r \in Req : ~Free(r) ~> Free(r)

\* A session whose browser has gone, or has been told, leaves the table; and
\* one whose child has died without a word is over for the browser too.
SessionsAreReaped ==
    \A r \in Req : r \in poll_sessions /\ (web[r].is # "here" \/ Free(r)) ~> r \notin poll_sessions
=============================================================================
