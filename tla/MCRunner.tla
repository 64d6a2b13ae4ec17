------------------------------ MODULE MCRunner ------------------------------
(***************************************************************************)
(* Runner for TLC: three requests, and one server per question.            *)
(***************************************************************************)
EXTENDS Runner

CONSTANTS r1, r2, r3, u1, u2, u3

Kind(k1, k2, k3) == [r \in Req |-> CASE r = r1 -> k1 [] r = r2 -> k2 [] r = r3 -> k3]
Own == [r \in Req |-> CASE r = r1 -> u1 [] r = r2 -> u2 [] r = r3 -> u3]
Shared == [r \in Req |-> IF r = r3 THEN u2 ELSE u1]

Server(kind, user, w, q, max, minute, conn, env, n) ==
    [kind |-> kind, user |-> user, workers |-> w, queue |-> q, max_sessions |-> max,
     per_minute |-> minute, connections |-> conn, env |-> env, max_events |-> n]

AllRuns == Kind("run", "run", "run")
AllTerminals == Kind("ws", "ws", "ws")

\* Three runs: one too many, for one worker that dies and for two.
OneWorker == Server(AllRuns, Own, 1, 1, 1, 1, 3, {"die"}, 1)
TwoWorkers == Server(AllRuns, Own, 2, 0, 1, 1, 3, {"die"}, 1)
\* A run of the same user comes back while the one before goes on.
SameUser == Server(AllRuns, Shared, 1, 1, 1, 2, 2, {"slow"}, 1)
\* One user has a run and a terminal, and another a terminal.
Mixed == Server(Kind("run", "ws", "ws"), Shared, 1, 0, 2, 2, 3, {}, 1)
\* Terminals wait for the gate; one is too many.
Terminals == Server(AllTerminals, Own, 1, 0, 2, 1, 3, {"gone", "crash"}, 1)
SlowCompiler == Server(AllTerminals, Own, 1, 0, 3, 1, 3, {"slow_compile"}, 1)
\* Terminals over HTTP: pages that are closed, children that die, a program
\* that does not read, and a browser that sleeps.
Web == Server(Kind("poll", "ws", None), Own, 1, 0, 1, 1, 2, {"gone"}, 1)
Crashing == Server(Kind("poll", "poll", None), Own, 2, 0, 2, 1, 2, {"crash"}, 1)
Deaf == Server(Kind("poll", "ws", None), Own, 1, 0, 2, 1, 2, {"deaf", "gone"}, 2)
Napping == Server(Kind("poll", "ws", None), Own, 1, 0, 2, 1, 2, {"nap"}, 1)

MCScenes == {OneWorker, TwoWorkers, SameUser, Mixed, Terminals, SlowCompiler, Web, Crashing, Deaf, Napping}
=============================================================================
