------------------------------ MODULE BridgeProofs ------------------------------
(***************************************************************************)
(* What TLAPS proves of Bridge: every step is one of the dispatcher or     *)
(* none, the rows keep their types, an unfinished submission is in         *)
(* somebody's hands, a stored result counts every case and a final status  *)
(* stays until somebody asks to judge the submission again.                *)
(***************************************************************************)
EXTENDS Bridge, JudgeListProofs

-----------------------------------------------------------------------------
(* Types *)

\* A judge in the middle of a grading has reported every row there is.
Reported == \A s \in Sub : phase[s] = "begun" => cases[s] <= graded[s]

BTypeInv == IInv /\ BTypeOK /\ Reported

\* The work of a web worker and of a handler, by what it is about.
LEMMA WorkParts ==
    ASSUME NEW w \in Work
    PROVE  /\ w.op \in {"none", "update", "delete", "request", "terminate", "mark"}
           /\ w.op \in {"update", "delete", "request"} => w.req \in Requests /\ w.req.id \in Sub
           /\ w.op \in {"terminate", "mark"} => w.sub \in Sub
           /\ w.op = "none" => w = NoWork
BY ConstantsAssumption DEF Work, NoWork, Request

LEMMA TodoParts ==
    ASSUME NEW t \in Todo
    PROVE  /\ t.op \in {"none", "read", "D", "CE", "IE", "AB"}
           /\ t.op # "none" => t.sub \in Sub
           /\ t.op = "none" => t = Rest
           /\ t.op = "D" => t.n \in 0 .. NCases
BY DEF Todo, Rest

\* Every step of the bridge is a step of the dispatcher, or leaves it alone.
LEMMA StepsOfTheDispatcher == BTypeOK /\ [BNext]_bvars => [Next]_vars
<1> SUFFICES ASSUME BTypeOK, [BNext]_bvars PROVE Next \/ UNCHANGED vars
  OBVIOUS
<1>1. CASE Admin
  BY <1>1, Zenon DEF Admin, Next, Locked
<1>2. CASE HolderThread
  BY <1>2 DEF HolderThread, Next, Locked
<1>3. ASSUME NEW c \in Conn, HandlerThread(c) \/ JudgeSide(c) PROVE Next
  <2>1. Kind \in SUBSET Kind
    OBVIOUS
  <2> QED
    BY <1>3, <2>1, Zenon DEF HandlerThread, JudgeSide, Next, Locked, Unlocked
<1>4. ASSUME NEW c \in Conn, Packets(c) PROVE Next \/ UNCHANGED vars
  <2>1. ASSUME NEW s \in Sub, Ack(c, s) PROVE Next \/ UNCHANGED vars
    BY <2>1 DEF Ack, Next, Unlocked
  <2>2. ASSUME NEW s \in Sub, Begin(c, s) \/ TestCase(c, s) PROVE UNCHANGED vars
    BY <2>2 DEF Begin, TestCase
  <2>3. ASSUME NEW s \in Sub, NEW op, Ends(c, s, op) PROVE Next
    BY <2>3, Zenon DEF Ends, Next, Locked
  <2> QED
    BY <1>4, <2>1, <2>2, <2>3 DEF Packets, GradingEnd, CompileError, InternalError, Terminated
<1>5. ASSUME NEW c \in Conn, Handler(c) PROVE Next \/ UNCHANGED vars
  BY <1>5 DEF Handler, ReadCases, Store, Leave, LeaveMark, Next, Locked
<1>6. ASSUME NEW p \in Site, Starts(p) PROVE UNCHANGED vars
  BY <1>6 DEF Starts, StartJudge, StartAbort, SiteKilled
<1>7. ASSUME NEW p \in Site, Worker(p) PROVE Next \/ UNCHANGED vars
  <2>1. site[p] \in Work
    BY DEF BTypeOK
  <2>2. CASE SiteUpdate(p) \/ SiteDelete(p) \/ SiteMark(p)
    BY <2>2 DEF SiteUpdate, SiteDelete, SiteMark
  <2>3. CASE SiteRequest(p)
    <3>1. site[p].req \in Requests
      BY <2>1, <2>3, WorkParts DEF SiteRequest
    <3>2. Judge(site[p].req) \/ UNCHANGED vars
      BY <2>3 DEF SiteRequest
    <3> QED
      BY <3>1, <3>2, Zenon DEF Next, Locked
  <2>4. CASE SiteTerminate(p)
    <3>1. site[p].sub \in Sub
      BY <2>1, <2>4, WorkParts DEF SiteTerminate
    <3>2. Abort(site[p].sub) \/ UNCHANGED vars
      BY <2>4 DEF SiteTerminate
    <3> QED
      BY <3>1, <3>2, Zenon DEF Next, Locked
  <2> QED
    BY <1>7, <2>2, <2>3, <2>4 DEF Worker
<1>8. CASE Process
  <2>1. CASE Crash
    BY <2>1 DEF Crash, Next
  <2>2. CASE Boot \/ Listen
    BY <2>2 DEF Boot, Listen
  <2>3. CASE BootJudge
    <3>1. PICK s \in pending : Judge(Recovered(s))
      BY <2>3 DEF BootJudge
    <3>2. Recovered(s) \in Requests
      BY SiteAssumption DEF BTypeOK
    <3> QED
      BY <3>1, <3>2, Zenon DEF Next, Locked
  <2> QED
    BY <1>8, <2>1, <2>2, <2>3 DEF Process
<1>9. CASE UNCHANGED bvars
  BY <1>9 DEF bvars
<1> QED
  BY <1>1, <1>2, <1>3, <1>4, <1>5, <1>6, <1>7, <1>8, <1>9 DEF BNext

\* What a judge that has a submission has reported of it.
LEMMA DeliverTypes ==
    ASSUME BTypeOK, Reported, Deliver, UNCHANGED cases
    PROVE  /\ phase' \in [Sub -> {"none", "sent", "acked", "begun"}]
           /\ graded' \in [Sub -> 0 .. NCases]
           /\ told' \subseteq Sub
           /\ Reported'
<1> DEFINE here == {s \in Sub : \E c \in Conn : s \in held[c]}
           there == {s \in Sub : \E c \in Conn : s \in held'[c]}
<1>1. /\ phase' = [s \in Sub |-> IF s \in here \cap there THEN phase[s]
                                 ELSE IF s \in there THEN "sent" ELSE "none"]
      /\ graded' = [s \in Sub |-> IF s \in here \cap there THEN graded[s] ELSE 0]
      /\ told' = told \cap here \cap there
  BY Zenon DEF Deliver
<1> HIDE DEF here, there
<1>2. 0 \in 0 .. NCases
  BY SiteAssumption
<1>3. ASSUME NEW s \in Sub, phase'[s] = "begun" PROVE cases'[s] <= graded'[s]
  BY <1>1, <1>3 DEF Reported
<1> QED
  BY <1>1, <1>2, <1>3 DEF BTypeOK, Reported

LEMMA InitBTypeInv == BInit => BTypeInv
<1> SUFFICES ASSUME BInit PROVE BTypeInv
  OBVIOUS
<1>1. IInv
  BY InitIInv DEF BInit
<1>2. BTypeOK
  BY SiteAssumption DEF BInit, BTypeOK, Work, Todo
<1>3. Reported
  BY DEF BInit, Reported
<1> QED
  BY <1>1, <1>2, <1>3 DEF BTypeInv

\* The steps of the dispatcher that reach no row.
LEMMA DispatcherKeepsTypes ==
    ASSUME BTypeOK, Reported, Deliver, UNCHANGED <<dbvars, site, todo, gone, bridge, pending>>
    PROVE  BTypeOK' /\ Reported'
<1>1. /\ phase' \in [Sub -> {"none", "sent", "acked", "begun"}]
      /\ graded' \in [Sub -> 0 .. NCases]
      /\ told' \subseteq Sub
      /\ Reported'
  BY DeliverTypes DEF dbvars
<1> QED
  BY <1>1 DEF BTypeOK, dbvars

LEMMA PacketsKeepTypes ==
    ASSUME BTypeOK, Reported, TypeOK, NEW c \in Conn, Packets(c)
    PROVE  BTypeOK' /\ Reported'
<1>1. ASSUME NEW s \in Sub, Ack(c, s) PROVE BTypeOK' /\ Reported'
  <2>1. phase' = [phase EXCEPT ![s] = "acked"]
    BY <1>1 DEF Ack
  <2>2. status' \in [Sub -> {"none"} \cup InProgress \cup Final]
    BY <1>1 DEF Ack, BTypeOK, InProgress, Final
  <2>3. UNCHANGED <<cases, score, site, graded, told, procvars>>
    BY <1>1 DEF Ack
  <2> QED
    BY <2>1, <2>2, <2>3 DEF BTypeOK, Reported, procvars
<1>2. ASSUME NEW s \in Sub, Begin(c, s) PROVE BTypeOK' /\ Reported'
  <2>1. 0 \in 0 .. NCases
    BY SiteAssumption
  <2>2. BTypeOK'
    BY <1>2, <2>1 DEF Begin, BTypeOK, procvars, InProgress
  <2>3. Reported'
    BY <1>2 DEF Begin, BTypeOK, Reported
  <2> QED
    BY <2>2, <2>3
<1>3. ASSUME NEW s \in Sub, TestCase(c, s) PROVE BTypeOK' /\ Reported'
  <2>1. /\ graded' = [graded EXCEPT ![s] = @ + 1] /\ cases' = [cases EXCEPT ![s] = @ + 1]
        /\ phase[s] = "begun" /\ graded[s] < NCases
        /\ UNCHANGED <<status, score, site, phase, told, procvars>>
    BY <1>3 DEF TestCase
  <2>2. cases[s] <= graded[s] /\ NCases \in Nat
    BY <2>1, SiteAssumption DEF Reported
  <2>3. graded[s] + 1 \in 0 .. NCases /\ cases[s] + 1 \in 0 .. NCases
    BY <2>1, <2>2 DEF BTypeOK
  <2>4. BTypeOK'
    BY <2>1, <2>3 DEF BTypeOK, procvars
  <2>5. Reported'
    BY <2>1, <2>2 DEF BTypeOK, Reported
  <2> QED
    BY <2>4, <2>5
<1>4. ASSUME NEW s \in Sub, NEW op \in {"read", "CE", "IE", "AB"}, Ends(c, s, op)
      PROVE  BTypeOK' /\ Reported'
  <2>1. Deliver /\ UNCHANGED <<dbvars, site, gone, bridge, pending>>
    BY <1>4 DEF Ends
  <2>2. todo' = [todo EXCEPT ![c] = Rest] \/ todo' = [todo EXCEPT ![c] = [op |-> op, sub |-> s]]
    BY <1>4 DEF Ends
  <2>3. Rest \in Todo /\ [op |-> op, sub |-> s] \in Todo
    BY DEF Todo
  <2>4. /\ phase' \in [Sub -> {"none", "sent", "acked", "begun"}]
        /\ graded' \in [Sub -> 0 .. NCases]
        /\ told' \subseteq Sub
        /\ Reported'
    BY <2>1, DeliverTypes DEF dbvars
  <2>5. todo' \in [Conn -> Todo]
    BY <2>2, <2>3, Zenon DEF BTypeOK
  <2> QED
    BY <2>1, <2>4, <2>5 DEF BTypeOK, dbvars
<1> QED
  BY <1>1, <1>2, <1>3, <1>4 DEF Packets, GradingEnd, CompileError, InternalError, Terminated

LEMMA HandlerKeepsTypes ==
    ASSUME BTypeOK, Reported, TypeOK, NEW c \in Conn, Handler(c)
    PROVE  BTypeOK' /\ Reported'
<1>0. todo[c] \in Todo
  BY DEF BTypeOK
<1>1. CASE ReadCases(c)
  <2>1. todo[c].sub \in Sub
    BY <1>0, <1>1, TodoParts DEF ReadCases
  <2>2. [op |-> "D", sub |-> todo[c].sub, n |-> cases[todo[c].sub]] \in Todo
    BY <2>1 DEF Todo, BTypeOK
  <2>3. todo' = [todo EXCEPT ![c] = [op |-> "D", sub |-> todo[c].sub, n |-> cases[todo[c].sub]]]
    BY <1>1 DEF ReadCases
  <2>4. todo' \in [Conn -> Todo]
    BY <2>2, <2>3, Zenon DEF BTypeOK
  <2> QED
    BY <1>1, <2>4 DEF ReadCases, BTypeOK, Reported, dbvars, judgevars
<1>2. CASE Store(c)
  <2> DEFINE t == todo[c]
  <2>1. t.op \in {"D", "CE", "IE", "AB"} /\ t.sub \in Sub /\ (t.op = "D" => t.n \in 0 .. NCases)
    BY <1>0, <1>2, TodoParts DEF Store
  <2>2. /\ status' = [status EXCEPT ![t.sub] = t.op]
        /\ score' = [score EXCEPT ![t.sub] = CASE t.op = "D" -> t.n [] t.op = "AB" -> 0 [] OTHER -> @]
        /\ todo' = [todo EXCEPT ![c] = Rest]
        /\ UNCHANGED <<cases, site, judgevars, gone, bridge, pending>>
    BY <1>2 DEF Store
  <2>3. todo' \in [Conn -> Todo]
    <3>1. Rest \in Todo
      BY DEF Todo
    <3> QED
      BY <2>2, <3>1, Zenon DEF BTypeOK
  <2> HIDE DEF t
  <2>4. status' \in [Sub -> {"none"} \cup InProgress \cup Final]
    BY <2>1, <2>2 DEF BTypeOK, Final
  <2>5. score' \in [Sub -> 0 .. NCases \cup {None}]
    BY <2>1, <2>2, SiteAssumption DEF BTypeOK
  <2> QED
    BY <2>2, <2>3, <2>4, <2>5 DEF BTypeOK, Reported, judgevars
<1>3. CASE Leave(c)
  <2>1. Deliver /\ gone' = [gone EXCEPT ![c] = working[c]]
        /\ UNCHANGED <<dbvars, site, todo, bridge, pending>>
    BY <1>3 DEF Leave
  <2>2. /\ phase' \in [Sub -> {"none", "sent", "acked", "begun"}]
        /\ graded' \in [Sub -> 0 .. NCases]
        /\ told' \subseteq Sub
        /\ Reported'
    BY <2>1, DeliverTypes DEF dbvars
  <2>3. gone' \in [Conn -> Sub \cup {None}]
    BY <2>1 DEF TypeOK, BTypeOK
  <2> QED
    BY <2>1, <2>2, <2>3 DEF BTypeOK, dbvars
<1>4. CASE LeaveMark(c)
  BY <1>4 DEF LeaveMark, BTypeOK, Reported, Final, judgevars
<1> QED
  BY <1>1, <1>2, <1>3, <1>4 DEF Handler

LEMMA SiteKeepsTypes ==
    ASSUME BTypeOK, Reported, NEW p \in Site, Starts(p) \/ Worker(p)
    PROVE  BTypeOK' /\ Reported'
<1>0. site[p] \in Work /\ NoWork \in Work
  BY DEF BTypeOK, Work
<1> DEFINE work == site'[p]
<1>1. ASSUME site' \in [Site -> Work], status' \in [Sub -> {"none"} \cup InProgress \cup Final],
             UNCHANGED <<cases, score, judgevars, procvars>>
      PROVE  BTypeOK' /\ Reported'
  BY <1>1 DEF BTypeOK, Reported, judgevars, procvars
<1>2. ASSUME NEW w \in Work, Does(p, w) PROVE site' \in [Site -> Work]
  BY <1>2 DEF Does, BTypeOK
<1>3. ASSUME NEW r \in Requests, StartJudge(p, r) PROVE BTypeOK' /\ Reported'
  <2>1. [op |-> "update", req |-> r] \in Work
    BY DEF Work
  <2>2. Does(p, [op |-> "update", req |-> r])
        /\ (status' = [status EXCEPT ![r.id] = "QU"] \/ UNCHANGED status)
        /\ UNCHANGED <<cases, score, judgevars, procvars>>
    BY <1>3 DEF StartJudge
  <2>3. status' \in [Sub -> {"none"} \cup InProgress \cup Final]
    BY <2>2 DEF BTypeOK, InProgress
  <2> QED
    BY <1>1, <1>2, <2>1, <2>2, <2>3
<1>4. ASSUME NEW s \in Sub, StartAbort(p, s) PROVE BTypeOK' /\ Reported'
  <2>1. [op |-> "terminate", sub |-> s] \in Work
    BY DEF Work
  <2>2. Does(p, [op |-> "terminate", sub |-> s]) /\ UNCHANGED <<dbvars, judgevars, procvars>>
    BY <1>4 DEF StartAbort
  <2> QED
    BY <1>1, <1>2, <2>1, <2>2 DEF dbvars, BTypeOK
<1>5. CASE SiteKilled(p)
  BY <1>0, <1>1, <1>2, <1>5 DEF SiteKilled, dbvars, BTypeOK
<1>6. CASE SiteUpdate(p)
  <2> DEFINE r == site[p].req
  <2>1. r \in Requests /\ r.id \in Sub
    BY <1>0, <1>6, WorkParts DEF SiteUpdate
  <2>2. \/ Does(p, NoWork) /\ UNCHANGED <<status, score>>
        \/ /\ status' = [status EXCEPT ![r.id] = "QU"]
           /\ score' = [score EXCEPT ![r.id] = None]
           /\ Does(p, [op |-> "delete", req |-> r])
    BY <1>6 DEF SiteUpdate
  <2>3. UNCHANGED <<cases, judgevars, procvars>>
    BY <1>6 DEF SiteUpdate
  <2> HIDE DEF r
  <2>4. [op |-> "delete", req |-> r] \in Work
    BY <2>1 DEF Work
  <2>5. site' \in [Site -> Work]
    BY <1>0, <1>2, <2>2, <2>4
  <2>6. status' \in [Sub -> {"none"} \cup InProgress \cup Final]
        /\ score' \in [Sub -> 0 .. NCases \cup {None}]
    BY <2>2 DEF BTypeOK, InProgress
  <2> QED
    BY <2>3, <2>5, <2>6 DEF BTypeOK, Reported, judgevars, procvars
<1>7. CASE SiteDelete(p)
  <2> DEFINE r == site[p].req
  <2>1. r \in Requests /\ r.id \in Sub
    BY <1>0, <1>7, WorkParts DEF SiteDelete
  <2>2. /\ cases' = [cases EXCEPT ![r.id] = 0]
        /\ Does(p, [op |-> "request", req |-> r])
        /\ UNCHANGED <<status, score, judgevars, procvars>>
    BY <1>7 DEF SiteDelete
  <2> HIDE DEF r
  <2>3. [op |-> "request", req |-> r] \in Work
    BY <2>1 DEF Work
  <2>4. site' \in [Site -> Work]
    BY <1>2, <2>2, <2>3
  <2>5. cases' \in [Sub -> 0 .. NCases]
    <3>1. 0 \in 0 .. NCases
      BY SiteAssumption
    <3> QED
      BY <2>2, <3>1 DEF BTypeOK
  <2>6. Reported'
    <3> SUFFICES ASSUME NEW s \in Sub, phase[s] = "begun" PROVE cases'[s] <= graded[s]
      BY <2>2 DEF Reported, judgevars
    <3> QED
      BY <2>1, <2>2 DEF BTypeOK, Reported
  <2> QED
    BY <2>2, <2>4, <2>5, <2>6 DEF BTypeOK, judgevars, procvars
<1>8. CASE SiteRequest(p)
  <2> DEFINE r == site[p].req
  <2>1. r \in Requests /\ r.id \in Sub
    BY <1>0, <1>8, WorkParts DEF SiteRequest
  <2>2. /\ (Deliver /\ UNCHANGED status) \/ (UNCHANGED judgevars /\ UNCHANGED status)
           \/ (UNCHANGED judgevars /\ status' = [status EXCEPT ![r.id] = "IE"])
        /\ Does(p, NoWork)
        /\ UNCHANGED <<cases, score, procvars>>
    BY <1>8 DEF SiteRequest
  <2> HIDE DEF r
  <2>3. site' \in [Site -> Work] /\ status' \in [Sub -> {"none"} \cup InProgress \cup Final]
    BY <1>0, <1>2, <2>1, <2>2 DEF BTypeOK, Final
  <2>4. CASE Deliver
    <3>1. /\ phase' \in [Sub -> {"none", "sent", "acked", "begun"}]
          /\ graded' \in [Sub -> 0 .. NCases]
          /\ told' \subseteq Sub
          /\ Reported'
      BY <2>2, <2>4, DeliverTypes
    <3> QED
      BY <2>2, <2>3, <3>1 DEF BTypeOK, procvars
  <2>5. CASE UNCHANGED judgevars
    BY <1>1, <2>2, <2>3, <2>5
  <2> QED
    BY <2>2, <2>4, <2>5
<1>9. CASE SiteTerminate(p)
  <2> DEFINE s == site[p].sub
  <2>1. s \in Sub
    BY <1>0, <1>9, WorkParts DEF SiteTerminate
  <2>2. /\ Does(p, NoWork) \/ Does(p, [op |-> "mark", sub |-> s])
        /\ told' \in {told, told \cup {s}}
        /\ UNCHANGED <<phase, graded, dbvars, procvars>>
    BY <1>9 DEF SiteTerminate, judgevars
  <2> HIDE DEF s
  <2>3. [op |-> "mark", sub |-> s] \in Work
    BY <2>1 DEF Work
  <2>4. site' \in [Site -> Work]
    BY <1>0, <1>2, <2>2, <2>3
  <2> QED
    BY <2>1, <2>2, <2>4 DEF BTypeOK, Reported, dbvars, procvars
<1>10. CASE SiteMark(p)
  <2> DEFINE s == site[p].sub
  <2>1. s \in Sub
    BY <1>0, <1>10, WorkParts DEF SiteMark
  <2>2. /\ status' = [status EXCEPT ![s] = "AB"] /\ score' = [score EXCEPT ![s] = 0]
        /\ Does(p, NoWork) /\ UNCHANGED <<cases, judgevars, procvars>>
    BY <1>10 DEF SiteMark
  <2> HIDE DEF s
  <2>3. site' \in [Site -> Work]
    BY <1>0, <1>2, <2>2
  <2>4. status' \in [Sub -> {"none"} \cup InProgress \cup Final]
        /\ score' \in [Sub -> 0 .. NCases \cup {None}]
    BY <2>1, <2>2, SiteAssumption DEF BTypeOK, Final
  <2> QED
    BY <2>2, <2>3, <2>4 DEF BTypeOK, Reported, judgevars, procvars
<1> QED
  BY <1>3, <1>4, <1>5, <1>6, <1>7, <1>8, <1>9, <1>10 DEF Starts, Worker

LEMMA ProcessKeepsTypes ==
    ASSUME BTypeOK, Reported, Process PROVE BTypeOK' /\ Reported'
<1>1. CASE Crash
  <2>1. /\ phase' \in [Sub -> {"none", "sent", "acked", "begun"}]
        /\ graded' \in [Sub -> 0 .. NCases]
        /\ told' \subseteq Sub
        /\ Reported'
    BY <1>1, DeliverTypes DEF Crash, dbvars
  <2> QED
    BY <1>1, <2>1 DEF Crash, BTypeOK, dbvars, Todo
<1>2. CASE Boot
  BY <1>2 DEF Boot, BTypeOK, Reported, judgevars, InProgress
<1>3. CASE BootJudge
  <2>1. Deliver /\ UNCHANGED <<dbvars, site, todo, gone, bridge>> /\ pending' \subseteq Sub
    BY <1>3 DEF BootJudge, BTypeOK
  <2>2. /\ phase' \in [Sub -> {"none", "sent", "acked", "begun"}]
        /\ graded' \in [Sub -> 0 .. NCases]
        /\ told' \subseteq Sub
        /\ Reported'
    BY <2>1, DeliverTypes DEF dbvars
  <2> QED
    BY <2>1, <2>2 DEF BTypeOK, dbvars
<1>4. CASE Listen
  BY <1>4 DEF Listen, BTypeOK, Reported, dbvars, judgevars
<1> QED
  BY <1>1, <1>2, <1>3, <1>4, Zenon DEF Process

LEMMA BNextKeepsTypes == BTypeInv /\ [BNext]_bvars => BTypeInv'
<1> SUFFICES ASSUME BTypeInv, [BNext]_bvars PROVE BTypeInv'
  OBVIOUS
<1>1. BTypeOK /\ Reported /\ TypeOK
  BY DEF BTypeInv, IInv
<1>2. IInv'
  BY <1>1, StepsOfTheDispatcher, NextKeeps DEF BTypeInv
<1>3. ASSUME OnlyDispatcher PROVE BTypeOK' /\ Reported'
  BY <1>1, <1>3, DispatcherKeepsTypes DEF OnlyDispatcher, procvars
<1>4. BTypeOK' /\ Reported'
  <2>1. CASE Admin
    BY <1>3, <2>1 DEF Admin
  <2>2. CASE HolderThread
    BY <1>3, <2>2 DEF HolderThread
  <2>3. ASSUME NEW c \in Conn, HandlerThread(c) \/ JudgeSide(c) PROVE BTypeOK' /\ Reported'
    BY <1>3, <2>3 DEF HandlerThread, JudgeSide
  <2>4. CASE UNCHANGED bvars
    BY <1>1, <2>4 DEF bvars, dbvars, judgevars, procvars, BTypeOK, Reported
  <2> QED
    BY <1>1, <2>1, <2>2, <2>3, <2>4, PacketsKeepTypes, HandlerKeepsTypes, SiteKeepsTypes,
       ProcessKeepsTypes, Zenon DEF BNext
<1> QED
  BY <1>2, <1>4 DEF BTypeInv

\* What the types rest on, at every step of the bridge.
THEOREM BInvariant == BSpec => []BTypeInv
BY InitBTypeInv, BNextKeepsTypes, PTL DEF BSpec

\* The rows, the workers and the packets keep their types: in particular a
\* grading never leaves more rows of test cases than the problem has, although
\* the site deletes them and judges add them without a lock.
THEOREM BTypeCorrect == BSpec => []BTypeOK
<1>1. BTypeInv => BTypeOK
  BY DEF BTypeInv
<1> QED
  BY <1>1, BInvariant, PTL

\* Whatever web workers, packets and crashes surround it, the dispatcher makes
\* the steps of JudgeList: what is proved of JudgeList holds in the bridge.
THEOREM DispatcherInBridge == BSpec => Spec
<1>1. BInit => Init
  BY DEF BInit
<1>2. BTypeInv /\ [BNext]_bvars => [Next]_vars
  BY StepsOfTheDispatcher DEF BTypeInv
<1> QED
  BY <1>1, <1>2, BInvariant, PTL DEF BSpec, Spec

\* So the dispatcher keeps its promises in the bridge: one node and one judge for
\* a submission, books that agree, no idle judge, no overtaking, a reserve, and
\* nothing lost -- whatever web workers, judges' packets and restarts surround it.
THEOREM PromisesInBridge ==
    BSpec => /\ [](QueuedOnce /\ NoDoubleGrading /\ MinTierCurrent /\ OneAtATime /\ WorkConserving)
             /\ NoLoss /\ NoOvertaking /\ KeepsAReserve
BY DispatcherInBridge, OneNode, OneJudge, TierIsCurrent, BooksAgree, JudgesAreBusy,
   NoneLost, NobodyIsOvertaken, ReserveIsKept, PTL

-----------------------------------------------------------------------------
(* What the dispatcher drops *)

\* No submission leaves the queue but into a judge's hands, and no judge loses
\* one.
NothingDropped ==
    /\ \A s \in Sub : Queued(s) => Queued(s)' \/ \E c \in Conn : s \in held'[c]
    /\ \A c \in Conn : held[c] \subseteq held'[c]

LEMMA ServingDropsNothing ==
    ASSUME IInv, NEW c \in Conn,
           NEW m, MapType(m), NEW w, WorkingType(w), NEW h, HeldType(h), HandleFree(c, m, w, h)
    PROVE  /\ \A s \in Sub : Queued(s) => Queued(s)' \/ s \in held'[c]
           /\ \A d \in Conn : h[d] \subseteq held'[d]
<1>1. QueueType /\ QueuedOnce /\ judges \subseteq Conn
  BY TypeParts DEF IInv
<1>2. held' = h \/ \E s : held' = [h EXCEPT ![c] = @ \cup {s}]
  BY DEF HandleFree, Submit
<1>3. \A d \in Conn : h[d] \subseteq held'[d]
  BY <1>2 DEF HeldType
<1> QED
  BY <1>1, <1>3, HandleFreeEffect

LEMMA ServingNowDropsNothing ==
    ASSUME IInv, NEW c \in Conn, HandleFreeNow(c) PROVE NothingDropped
<1>1. MapType(submission_map) /\ WorkingType(working) /\ HeldType(held)
  BY TypeParts DEF IInv
<1>2. /\ \A s \in Sub : Queued(s) => Queued(s)' \/ s \in held'[c]
      /\ \A d \in Conn : held[d] \subseteq held'[d]
  BY <1>1, ServingDropsNothing DEF HandleFreeNow
<1> QED
  BY <1>2 DEF NothingDropped

LEMMA RestingDropsNothing ==
    ASSUME UNCHANGED <<queue, held>> PROVE NothingDropped
BY SameQueue DEF NothingDropped

LEMMA JudgeDropsNothing ==
    ASSUME IInv, NEW r \in Requests, Judge(r)
    PROVE  /\ NothingDropped
           /\ Without(Raising) => Queued(r.id)' \/ \E c \in Conn : r.id \in held'[c]
<1> DEFINE e == [id |-> r.id, judge_id |-> r.judge_id]
<1>1. QueueType /\ QueuedOnce /\ judges \subseteq Conn /\ HeldType(held) /\ r.id \in Sub
  BY TypeParts, ConstantsAssumption DEF IInv, Request
<1>2. CASE queue' = [queue EXCEPT ![r.priority] = Append(@, e)] /\ held' = held
  <2>1. r.priority \in Priorities /\ e \in Entry /\ e.id = r.id /\ ~Queued(r.id)
    BY ConstantsAssumption DEF Request, Entry, Judge
  <2> HIDE DEF e
  <2>2. \A u : Queued(u)' <=> Queued(u) \/ u = e.id
    BY <1>1, <1>2, <2>1, AppendNodeEffect
  <2> QED
    BY <1>2, <2>1, <2>2 DEF NothingDropped
<1>3. ASSUME NEW j \in Conn, NEW outcome \in Outcome(j), UNCHANGED queue,
             Submit(j, r.id, outcome, submission_map, working, held)
      PROVE  /\ NothingDropped
             /\ Without(Raising) => r.id \in held'[j]
  <2>1. held' = IF outcome = "ok" THEN [held EXCEPT ![j] = @ \cup {r.id}] ELSE held
    BY <1>3 DEF Submit
  <2>2. \A c \in Conn : held[c] \subseteq held'[c]
    BY <1>1, <2>1 DEF HeldType
  <2>3. Without(Raising) => outcome = "ok"
    BY <1>3, NothingClosed, OutcomeOk
  <2>4. Without(Raising) => r.id \in held'[j]
    BY <1>1, <2>1, <2>3 DEF HeldType
  <2>5. \A s \in Sub : Queued(s)' <=> Queued(s)
    BY <1>3, SameQueue
  <2> QED
    BY <2>2, <2>4, <2>5 DEF NothingDropped
<1>4. current_tier_judges \subseteq Conn
  BY <1>1 DEF current_tier_judges, TierJudges
<1>5. \/ queue' = [queue EXCEPT ![r.priority] = Append(@, e)] /\ held' = held
      \/ \E j \in Conn : \E outcome \in Outcome(j) :
            UNCHANGED queue /\ Submit(j, r.id, outcome, submission_map, working, held)
  BY <1>4 DEF Judge
<1> QED
  BY <1>2, <1>3, <1>5

\* The steps of the dispatcher that answer, remove or abort nothing.
LEMMA DispatcherDropsNothing ==
    ASSUME IInv, Admin \/ HolderThread \/ \E c \in Conn : HandlerThread(c) \/ JudgeSide(c)
    PROVE  NothingDropped /\ OnlyDispatcher
<1>1. CASE Admin
  BY <1>1, RestingDropsNothing DEF Admin, UpdateDisable, Disconnect, RemoveStranger
<1>2. CASE HolderThread
  BY <1>2, RestingDropsNothing, ServingNowDropsNothing DEF HolderThread, Finish
<1>3. ASSUME NEW c \in Conn, HandlerThread(c) PROVE NothingDropped /\ OnlyDispatcher
  <2>1. OnlyDispatcher /\ (UNCHANGED <<queue, held>> \/ HandleFreeNow(c))
    BY <1>3 DEF HandlerThread, Connected, UpdateProblems, Sweep
  <2> QED
    BY <2>1, RestingDropsNothing, ServingNowDropsNothing
<1>4. ASSUME NEW c \in Conn, JudgeSide(c) PROVE NothingDropped /\ OnlyDispatcher
  BY <1>4, RestingDropsNothing DEF JudgeSide, Register, SupportedProblems, Close
<1> QED
  BY <1>1, <1>2, <1>3, <1>4

\* A packet that ends s takes it from its judge, and nothing else from anybody.
LEMMA AnswerDropsOne ==
    ASSUME IInv, NEW c \in Conn, NEW s \in Sub, OnJudgeFree(c, s)
    PROVE  /\ \A u \in Sub : Queued(u) => Queued(u)' \/ \E d \in Conn : u \in held'[d]
           /\ \A d \in Conn : held[d] \ {s} \subseteq held'[d]
<1> DEFINE m == [submission_map EXCEPT ![s] = None]
           w == [working EXCEPT ![c] = None]
           h == [held EXCEPT ![c] = @ \ {s}]
<1>1. MapType(submission_map) /\ WorkingType(working) /\ HeldType(held)
  BY TypeParts DEF IInv
<1>2. MapType(m) /\ WorkingType(w) /\ HeldType(h)
  BY <1>1 DEF MapType, WorkingType, HeldType
<1>3. \A d \in Conn : held[d] \ {s} \subseteq h[d]
  BY <1>1 DEF HeldType
<1>4. \/ held' = h /\ queue' = queue
      \/ HandleFree(c, m, w, h)
  BY DEF OnJudgeFree
<1> HIDE DEF m, w, h
<1>5. CASE held' = h /\ queue' = queue
  BY <1>3, <1>5, SameQueue
<1>6. CASE HandleFree(c, m, w, h)
  <2>1. /\ \A u \in Sub : Queued(u) => Queued(u)' \/ u \in held'[c]
        /\ \A d \in Conn : h[d] \subseteq held'[d]
    BY <1>2, <1>6, ServingDropsNothing
  <2> QED
    BY <1>3, <2>1
<1> QED
  BY <1>4, <1>5, <1>6

LEMMA AbortDropsOne ==
    ASSUME IInv, NEW s \in Sub, Abort(s)
    PROVE  held' = held /\ \A u \in Sub : Queued(u) => Queued(u)' \/ u = s
<1>1. QueueType /\ QueuedOnce
  BY TypeParts DEF IInv
<1>2. PICK n \in Nodes : NodeValue(n).id = s /\ queue' = RemoveNode(n[1], n[2])
  BY DEF Abort
<1> QED
  BY <1>1, <1>2, RemoveNodeEffect DEF Abort

-----------------------------------------------------------------------------
(* Nobody is forgotten *)

\* Every judge with a thread is known and enabled, so that there is a minimum
\* tier and a packet's handler runs to its end.
Present == \A c \in Conn : stage[c] # "off" => c \in judges /\ ~is_disabled[c]

LEMMA NextKeepsPresent ==
    ASSUME BookInv, Calm, "disable" \notin Env, Present, [Next]_vars
    PROVE  Present'
<1>1. /\ TypeOK /\ QueueType /\ judges \subseteq Conn /\ closed = {} /\ Without(Raising)
      /\ "late_disable" \notin Env
  BY CalmState, CalmParts
<1>2. ASSUME UNCHANGED <<stage, judges, is_disabled>> PROVE Present'
  BY <1>2 DEF Present
<1>3. ASSUME NEW c \in Conn, NEW m, NEW w, NEW h, HandleFree(c, m, w, h) PROVE judges' = judges
  BY <1>1, <1>3, HandleFreeOk
<1>4. ASSUME NEW c \in Conn, HandleFreeNow(c) PROVE judges' = judges
  BY <1>3, <1>4 DEF HandleFreeNow
<1>5. CASE Locked
  <2>1. ASSUME NEW c \in Conn, NEW ps \in SUBSET Kind, Register(c, ps) PROVE Present'
    BY <1>1, <2>1 DEF Register, Present, TypeOK
  <2>2. ASSUME NEW c \in Conn, Remove(c) PROVE Present'
    BY <1>1, <2>2 DEF Remove, Present, TypeOK
  <2>3. ASSUME NEW n \in JudgeName, Disconnect(n) PROVE Present'
    BY <1>2, <2>3 DEF Disconnect
  <2>4. ASSUME RemoveStranger PROVE Present'
    BY <1>2, <2>4 DEF RemoveStranger
  <2>5. ASSUME NEW n \in JudgeName, NEW b \in BOOLEAN, UpdateDisable(n, b) PROVE Present'
    <3>1. b = FALSE
      BY <2>5 DEF UpdateDisable
    <3>2. /\ is_disabled' = [c \in Conn |-> IF c \in judges /\ Name[c] = n THEN b ELSE is_disabled[c]]
          /\ judges' = judges /\ stage' = stage
      BY <2>5 DEF UpdateDisable
    <3> QED
      BY <3>1, <3>2 DEF Present
  <2>6. ASSUME NEW j \in Conn, Sweep(j) PROVE Present'
    BY <1>2, <1>4, <2>6 DEF Sweep
  <2>7. ASSUME Finish PROVE Present'
    BY <1>2, <1>4, <2>7 DEF Finish
  <2>8. ASSUME NEW c \in Conn, NEW s \in Sub, OnJudgeFree(c, s) PROVE Present'
    BY <1>2, <1>3, <2>8 DEF OnJudgeFree
  <2>9. ASSUME NEW s \in Sub, Abort(s) PROVE Present'
    BY <1>2, <2>9 DEF Abort
  <2>10. ASSUME NEW r \in Requests, Judge(r) PROVE Present'
    <3>1. current_tier_judges \subseteq Conn
      BY <1>1 DEF current_tier_judges, TierJudges
    <3>2. \/ judges' = judges
          \/ \E j \in Conn : \E outcome \in Outcome(j) :
                Submit(j, r.id, outcome, submission_map, working, held)
      BY <2>10, <3>1 DEF Judge
    <3>3. judges' = judges
      BY <1>1, <3>2, OutcomeOk DEF Submit
    <3> QED
      BY <1>2, <2>10, <3>3 DEF Judge
  <2> QED
    BY <1>5, <2>1, <2>2, <2>3, <2>4, <2>5, <2>6, <2>7, <2>8, <2>9, <2>10 DEF Locked
<1>6. CASE Unlocked
  <2>1. ASSUME NEW c \in Conn, Connected(c) PROVE Present'
    <3>1. is_disabled' = [is_disabled EXCEPT ![c] = is_disabled[c]]
          /\ stage[c] = "registered" /\ stage' = [stage EXCEPT ![c] = "connected"] /\ judges' = judges
      BY <1>1, <2>1 DEF Connected
    <3> QED
      BY <1>1, <3>1 DEF Present, TypeOK
  <2>2. ASSUME NEW c \in Conn, NEW ps \in SUBSET Kind, SupportedProblems(c, ps) PROVE Present'
    <3>1. stage[c] = "connected" /\ stage' \in {stage, [stage EXCEPT ![c] = "kicking"]}
          /\ UNCHANGED <<judges, is_disabled>>
      BY <1>1, <2>2 DEF SupportedProblems, TypeOK
    <3> QED
      BY <1>1, <3>1 DEF Present, TypeOK
  <2>3. ASSUME NEW c \in Conn, UpdateProblems(c) PROVE Present'
    <3>1. stage[c] = "kicking" /\ stage' = [stage EXCEPT ![c] = "connected"]
          /\ UNCHANGED <<judges, is_disabled>>
      BY <1>4, <2>3 DEF UpdateProblems
    <3> QED
      BY <1>1, <3>1 DEF Present, TypeOK
  <2>4. ASSUME NEW c \in Conn, Close(c) PROVE Present'
    BY <1>2, <2>4 DEF Close
  <2> QED
    BY <1>6, <2>1, <2>2, <2>3, <2>4 DEF Unlocked
<1>7. CASE Restart
  BY <1>7 DEF Restart, Present
<1>8. CASE UNCHANGED vars
  BY <1>2, <1>8 DEF vars
<1> QED
  BY <1>5, <1>6, <1>7, <1>8 DEF Next

Steady == Calm /\ "disable" \notin Env /\ "killed" \notin SiteEnv

\* A judge or its handler has s, or is just about to write what became of it.
AtHandler(s) == \E c \in Conn : s \in held[c] \/ todo[c].sub = s \/ gone[c] = s

\* The worker p will ask the dispatcher for s, or mark s aborted.
WillSettle(p, s) ==
    \/ site[p].op \in {"update", "delete", "request"} /\ site[p].req.id = s
    \/ site[p].op = "mark" /\ site[p].sub = s

\* A worker that only terminates s does not count: it may go away and do
\* nothing.  Nor does one that asks for a submission being graded: it gives up.
Attended(s) == s \in pending \/ Queued(s) \/ AtHandler(s) \/ \E p \in Site : WillSettle(p, s)

LookedAfter(s) ==
    bridge # "down" =>
        /\ status[s] \in InProgress => Attended(s)
        /\ status[s] \in {"P", "G"} => AtHandler(s)

Attention ==
    /\ \A s \in Sub : LookedAfter(s)
    /\ bridge = "up" => pending = {}

AttInv ==
    /\ BTypeInv
    /\ BookInv
    /\ Steady => Present /\ Attention

LEMMA InitAttInv == BInit => AttInv
<1> SUFFICES ASSUME BInit PROVE AttInv
  OBVIOUS
<1>1. BTypeInv /\ BookInv
  BY InitBTypeInv, InitBookInv DEF BInit
<1>2. Present
  BY DEF BInit, Init, Present
<1>3. Attention
  BY DEF BInit, Attention, LookedAfter, InProgress
<1> QED
  BY <1>1, <1>2, <1>3 DEF AttInv

\* What the steps below start from.
LEMMA SteadyState ==
    ASSUME AttInv, Steady
    PROVE  /\ IInv /\ TypeOK /\ BTypeOK /\ BookInv /\ Calm /\ Present /\ Attention
           /\ Exact(submission_map, working, held) /\ Threads /\ Without(Raising)
           /\ min_tier = MinTier(judges, is_disabled) /\ closed = {} /\ judges \subseteq Conn
           /\ "killed" \notin SiteEnv
BY CalmState DEF AttInv, Steady, BTypeInv

\* A judge that holds a submission is known, so the handler of the packet that
\* ends it goes on to the rows.
LEMMA HandlerGoesOn ==
    ASSUME AttInv, Steady, NEW c \in Conn, NEW s \in Sub, NEW op, Ends(c, s, op)
    PROVE  todo' = [todo EXCEPT ![c] = [op |-> op, sub |-> s]]
<1>1. /\ Exact(submission_map, working, held) /\ Present /\ judges \subseteq Conn
      /\ min_tier = MinTier(judges, is_disabled)
  BY SteadyState
<1>2. s \in held[c] /\ stage[c] = "connected"
  BY DEF Ends, Reads
<1>3. submission_map[s] = c /\ c # None
  BY <1>1, <1>2, ConstantsAssumption DEF Exact
<1>4. c \in judges /\ ~is_disabled[c]
  BY <1>1, <1>2 DEF Present
<1>5. min_tier \in Nat
  BY <1>1, <1>4, MinTierIsMinimum
<1> QED
  BY <1>3, <1>4, <1>5, TierAssumption DEF Ends

\* A step that leaves the rows, the workers and the handlers' threads alone.
LEMMA NothingDroppedKeepsAttention ==
    ASSUME Attention, NothingDropped,
           UNCHANGED <<dbvars, site, todo, gone, bridge, pending>>
    PROVE  Attention'
<1>1. ASSUME NEW u \in Sub PROVE LookedAfter(u)'
  <2>1. AtHandler(u) => AtHandler(u)'
    BY DEF AtHandler, NothingDropped
  <2>2. Queued(u) => Queued(u)' \/ AtHandler(u)'
    BY DEF AtHandler, NothingDropped
  <2>3. \A p \in Site : WillSettle(p, u)' <=> WillSettle(p, u)
    BY DEF WillSettle
  <2>4. Attended(u) => Attended(u)'
    BY <2>1, <2>2, <2>3 DEF Attended
  <2> QED
    BY <2>1, <2>4 DEF Attention, LookedAfter, dbvars
<1> QED
  BY <1>1 DEF Attention

LEMMA PacketsKeepAttention ==
    ASSUME AttInv, Steady, NEW c \in Conn, Packets(c)
    PROVE  Attention'
<1>0. IInv /\ BTypeOK /\ Attention
  BY SteadyState
<1>1. ASSUME NEW s \in Sub, Ack(c, s) PROVE Attention'
  <2>1. /\ s \in held[c]
        /\ status' \in [Sub -> {"none"} \cup InProgress \cup Final]
        /\ \A u \in Sub : u # s => status'[u] \in {status[u], "IE"}
        /\ UNCHANGED <<site, procvars, queue, held>>
    BY <1>0, <1>1 DEF Ack, Reads, BTypeOK, vars, Close, InProgress, Final
  <2>2. ASSUME NEW u \in Sub PROVE LookedAfter(u)'
    <3>1. /\ AtHandler(u)' <=> AtHandler(u)
          /\ Queued(u)' <=> Queued(u)
          /\ \A p \in Site : WillSettle(p, u)' <=> WillSettle(p, u)
          /\ u \in pending' <=> u \in pending
      BY <2>1, SameQueue DEF AtHandler, WillSettle, procvars
    <3>2. u = s => AtHandler(u)
      BY <2>1 DEF AtHandler
    <3> QED
      BY <1>0, <2>1, <3>1, <3>2 DEF Attention, LookedAfter, Attended, InProgress, procvars
  <2> QED
    BY <1>0, <2>1, <2>2 DEF Attention, procvars
<1>2. ASSUME NEW s \in Sub, Begin(c, s) PROVE Attention'
  <2>1. /\ s \in held[c] /\ status' = [status EXCEPT ![s] = "G"]
        /\ UNCHANGED <<site, procvars, queue, held>>
    BY <1>2 DEF Begin, Reads, vars
  <2>2. ASSUME NEW u \in Sub PROVE LookedAfter(u)'
    <3>1. /\ AtHandler(u)' <=> AtHandler(u)
          /\ Queued(u)' <=> Queued(u)
          /\ \A p \in Site : WillSettle(p, u)' <=> WillSettle(p, u)
          /\ u \in pending' <=> u \in pending
      BY <2>1, SameQueue DEF AtHandler, WillSettle, procvars
    <3>2. u = s => AtHandler(u)
      BY <2>1 DEF AtHandler
    <3>3. u # s => status'[u] = status[u]
      BY <1>0, <2>1 DEF BTypeOK
    <3> QED
      BY <1>0, <2>1, <3>1, <3>2, <3>3 DEF Attention, LookedAfter, Attended, procvars
  <2> QED
    BY <1>0, <2>1, <2>2 DEF Attention, procvars
<1>3. ASSUME NEW s \in Sub, TestCase(c, s) PROVE Attention'
  <2>1. UNCHANGED <<status, site, procvars, queue, held>>
    BY <1>3 DEF TestCase, vars
  <2>2. ASSUME NEW u \in Sub PROVE LookedAfter(u)'
    <3>1. /\ AtHandler(u)' <=> AtHandler(u)
          /\ Queued(u)' <=> Queued(u)
          /\ \A p \in Site : WillSettle(p, u)' <=> WillSettle(p, u)
          /\ u \in pending' <=> u \in pending
      BY <2>1, SameQueue DEF AtHandler, WillSettle, procvars
    <3> QED
      BY <1>0, <2>1, <3>1 DEF Attention, LookedAfter, Attended, procvars
  <2> QED
    BY <1>0, <2>1, <2>2 DEF Attention, procvars
<1>4. ASSUME NEW s \in Sub, NEW op, Ends(c, s, op) PROVE Attention'
  <2>1. /\ OnJudgeFree(c, s) /\ todo[c] = Rest
        /\ UNCHANGED <<dbvars, site, gone, bridge, pending>>
    BY <1>4 DEF Ends, Reads
  <2>2. todo' = [todo EXCEPT ![c] = [op |-> op, sub |-> s]]
    BY <1>4, HandlerGoesOn
  <2>3. /\ \A u \in Sub : Queued(u) => Queued(u)' \/ \E d \in Conn : u \in held'[d]
        /\ \A d \in Conn : held[d] \ {s} \subseteq held'[d]
    BY <1>0, <2>1, AnswerDropsOne
  <2>4. todo'[c].sub = s /\ \A d \in Conn \ {c} : todo'[d] = todo[d]
    BY <1>0, <2>2 DEF BTypeOK
  <2>5. \A u \in Sub : todo[c].sub # u
    BY <2>1, ConstantsAssumption DEF Rest
  <2>6. ASSUME NEW u \in Sub PROVE LookedAfter(u)'
    <3>1. AtHandler(u) => AtHandler(u)'
      BY <2>1, <2>3, <2>4, <2>5 DEF AtHandler
    <3>2. Queued(u) => Queued(u)' \/ AtHandler(u)'
      BY <2>3 DEF AtHandler
    <3>3. \A p \in Site : WillSettle(p, u)' <=> WillSettle(p, u)
      BY <2>1 DEF WillSettle
    <3>4. Attended(u) => Attended(u)'
      BY <2>1, <3>1, <3>2, <3>3 DEF Attended
    <3> QED
      BY <1>0, <2>1, <3>1, <3>4 DEF Attention, LookedAfter, dbvars
  <2> QED
    BY <1>0, <2>1, <2>6 DEF Attention
<1> QED
  BY <1>1, <1>2, <1>3, <1>4 DEF Packets, GradingEnd, CompileError, InternalError, Terminated

LEMMA HandlerKeepsAttention ==
    ASSUME AttInv, Steady, NEW c \in Conn, Handler(c)
    PROVE  Attention'
<1>0. IInv /\ TypeOK /\ BTypeOK /\ Attention /\ Exact(submission_map, working, held)
  BY SteadyState
<1>1. CASE ReadCases(c)
  <2>1. /\ \A d \in Conn : todo'[d].sub = todo[d].sub
        /\ UNCHANGED <<status, site, gone, bridge, pending, queue, held>>
    BY <1>0, <1>1 DEF ReadCases, BTypeOK, dbvars, vars
  <2>2. ASSUME NEW u \in Sub PROVE LookedAfter(u)'
    <3>1. /\ AtHandler(u)' <=> AtHandler(u)
          /\ Queued(u)' <=> Queued(u)
          /\ \A p \in Site : WillSettle(p, u)' <=> WillSettle(p, u)
      BY <2>1, SameQueue DEF AtHandler, WillSettle
    <3> QED
      BY <1>0, <2>1, <3>1 DEF Attention, LookedAfter, Attended
  <2> QED
    BY <1>0, <2>1, <2>2 DEF Attention
<1>2. CASE Store(c)
  <2>1. PICK s : s = todo[c].sub
    OBVIOUS
  <2>2. /\ s \in Sub /\ status'[s] \in Final
        /\ \A u \in Sub : u # s => status'[u] = status[u]
    <3>1. todo[c].op \in {"D", "CE", "IE", "AB"} /\ todo[c] \in Todo
      BY <1>0, <1>2 DEF Store, BTypeOK
    <3>2. s \in Sub
      BY <2>1, <3>1, TodoParts
    <3>3. status' = [status EXCEPT ![s] = todo[c].op]
      BY <1>2, <2>1 DEF Store
    <3> QED
      BY <1>0, <3>1, <3>2, <3>3 DEF BTypeOK, Final
  <2>3. /\ todo' = [todo EXCEPT ![c] = Rest]
        /\ UNCHANGED <<site, gone, bridge, pending, queue, held>>
    BY <1>2 DEF Store, vars
  <2>4. ASSUME NEW u \in Sub PROVE LookedAfter(u)'
    <3>1. CASE u = s
      BY <2>2, <3>1 DEF LookedAfter, InProgress, Final
    <3>2. CASE u # s
      <4>1. \A d \in Conn : todo[d].sub = u => todo'[d].sub = u
        BY <1>0, <2>1, <2>3, <3>2 DEF BTypeOK
      <4>2. /\ AtHandler(u) => AtHandler(u)'
            /\ Queued(u)' <=> Queued(u)
            /\ \A p \in Site : WillSettle(p, u)' <=> WillSettle(p, u)
        BY <2>3, <4>1, SameQueue DEF AtHandler, WillSettle
      <4> QED
        BY <1>0, <2>2, <2>3, <3>2, <4>2 DEF Attention, LookedAfter, Attended
    <3> QED
      BY <3>1, <3>2
  <2> QED
    BY <1>0, <2>3, <2>4 DEF Attention
<1>3. CASE Leave(c)
  <2>1. /\ gone[c] = None
        /\ gone' = [gone EXCEPT ![c] = working[c]]
        /\ held' = [held EXCEPT ![c] = {}]
        /\ queue' = queue
        /\ UNCHANGED <<dbvars, site, todo, bridge, pending>>
    BY <1>3 DEF Leave, Remove
  <2>2. ASSUME NEW u \in Sub PROVE LookedAfter(u)'
    <3>1. u \in held[c] => gone'[c] = u
      BY <1>0, <2>1 DEF Exact, BTypeOK
    <3>2. \A d \in Conn \ {c} : gone'[d] = gone[d] /\ held'[d] = held[d]
      BY <1>0, <2>1 DEF TypeOK, BTypeOK
    <3>3. gone[c] # u
      BY <2>1, ConstantsAssumption
    <3>4. AtHandler(u) => AtHandler(u)'
      BY <2>1, <3>1, <3>2, <3>3 DEF AtHandler
    <3>5. /\ Queued(u)' <=> Queued(u)
          /\ \A p \in Site : WillSettle(p, u)' <=> WillSettle(p, u)
      BY <2>1, SameQueue DEF WillSettle
    <3> QED
      BY <1>0, <2>1, <3>4, <3>5 DEF Attention, LookedAfter, Attended, dbvars
  <2> QED
    BY <1>0, <2>1, <2>2 DEF Attention
<1>4. CASE LeaveMark(c)
  <2>1. PICK s \in Sub : s = gone[c]
    BY <1>0, <1>4 DEF LeaveMark, BTypeOK
  <2>2. /\ status' = [status EXCEPT ![s] = "IE"]
        /\ gone' = [gone EXCEPT ![c] = None]
        /\ UNCHANGED <<site, todo, bridge, pending, queue, held>>
    BY <1>4, <2>1 DEF LeaveMark, vars
  <2>3. ASSUME NEW u \in Sub PROVE LookedAfter(u)'
    <3>1. CASE u = s
      BY <1>0, <2>2, <3>1 DEF LookedAfter, InProgress, BTypeOK
    <3>2. CASE u # s
      <4>1. \A d \in Conn : gone[d] = u => gone'[d] = u
        BY <1>0, <2>1, <2>2, <3>2 DEF BTypeOK
      <4>2. /\ AtHandler(u) => AtHandler(u)'
            /\ Queued(u)' <=> Queued(u)
            /\ \A p \in Site : WillSettle(p, u)' <=> WillSettle(p, u)
            /\ status'[u] = status[u]
        BY <1>0, <2>2, <3>2, <4>1, SameQueue DEF AtHandler, WillSettle, BTypeOK
      <4> QED
        BY <1>0, <2>2, <4>2 DEF Attention, LookedAfter, Attended
    <3> QED
      BY <3>1, <3>2
  <2> QED
    BY <1>0, <2>2, <2>3 DEF Attention
<1> QED
  BY <1>1, <1>2, <1>3, <1>4 DEF Handler

\* A step of the worker p about r, which nobody but r misses.
LEMMA SiteStep ==
    ASSUME Attention, BTypeOK, NEW p \in Site, NEW r \in Sub, NEW w, Does(p, w),
           UNCHANGED <<todo, gone, bridge, pending>>,
           \A u \in Sub : u # r => status'[u] = status[u] /\ ~WillSettle(p, u),
           \A u \in Sub : u # r => (Queued(u) => Queued(u)' \/ \E c \in Conn : u \in held'[c]),
           \A c \in Conn : held[c] \subseteq held'[c],
           LookedAfter(r)'
    PROVE  Attention'
<1>1. ASSUME NEW u \in Sub PROVE LookedAfter(u)'
  <2>1. CASE u = r
    BY <2>1
  <2>2. CASE u # r
    <3>1. \A q \in Site : WillSettle(q, u) => WillSettle(q, u)'
      <4> SUFFICES ASSUME NEW q \in Site, WillSettle(q, u) PROVE WillSettle(q, u)'
        OBVIOUS
      <4>1. q # p
        BY <2>2
      <4>2. site'[q] = site[q]
        BY <4>1 DEF Does, BTypeOK
      <4> QED
        BY <4>2 DEF WillSettle
    <3>2. AtHandler(u) => AtHandler(u)'
      BY DEF AtHandler
    <3>3. Queued(u) => Queued(u)' \/ AtHandler(u)'
      BY <2>2 DEF AtHandler
    <3>4. Attended(u) => Attended(u)'
      BY <3>1, <3>2, <3>3 DEF Attended
    <3> QED
      BY <2>2, <3>2, <3>4 DEF Attention, LookedAfter
  <2> QED
    BY <2>1, <2>2
<1> QED
  BY <1>1 DEF Attention

\* What p will do afterwards settles r.
LEMMA SettledByWorker ==
    ASSUME BTypeOK, NEW p \in Site, NEW r, NEW w, Does(p, w),
           \/ w.op \in {"update", "delete", "request"} /\ w.req.id = r
           \/ w.op = "mark" /\ w.sub = r
    PROVE  Attended(r)'
<1>1. site'[p] = w
  BY DEF Does, BTypeOK
<1>2. WillSettle(p, r)'
  BY <1>1 DEF WillSettle
<1> QED
  BY <1>2 DEF Attended

LEMMA StartsKeepAttention ==
    ASSUME AttInv, Steady, NEW p \in Site, Starts(p)
    PROVE  Attention'
<1>0. BTypeOK /\ Attention /\ "killed" \notin SiteEnv
  BY SteadyState
<1>1. ASSUME NEW r \in Requests, StartJudge(p, r) PROVE Attention'
  <2>1. r.id \in Sub
    BY ConstantsAssumption DEF Request
  <2>2. /\ site[p] = NoWork
        /\ status' = [status EXCEPT ![r.id] = "QU"] \/ status' = status
        /\ Does(p, [op |-> "update", req |-> r])
        /\ UNCHANGED <<vars, judgevars, procvars>>
    BY <1>1 DEF StartJudge
  <2>3. Attended(r.id)'
    BY <1>0, <2>2, SettledByWorker
  <2>4. status'[r.id] \in {"P", "G"} => status'[r.id] = status[r.id]
    BY <1>0, <2>1, <2>2 DEF BTypeOK
  <2>5. AtHandler(r.id)' <=> AtHandler(r.id)
    BY <2>2 DEF AtHandler, procvars, vars
  <2>6. LookedAfter(r.id)'
    BY <1>0, <2>1, <2>2, <2>3, <2>4, <2>5 DEF Attention, LookedAfter, procvars
  <2>7. \A u \in Sub : u # r.id => status'[u] = status[u] /\ ~WillSettle(p, u)
    BY <1>0, <2>2 DEF BTypeOK, WillSettle, NoWork
  <2>8. UNCHANGED <<queue, held, todo, gone, bridge, pending>>
    BY <2>2 DEF vars, procvars
  <2> QED
    BY <1>0, <2>1, <2>2, <2>6, <2>7, <2>8, SameQueue, SiteStep
<1>2. ASSUME NEW s \in Sub, StartAbort(p, s) PROVE Attention'
  <2>1. /\ site[p] = NoWork /\ Does(p, [op |-> "terminate", sub |-> s])
        /\ UNCHANGED <<status, queue, held, todo, gone, bridge, pending>>
    BY <1>2 DEF StartAbort, vars, dbvars, procvars
  <2>2. \A u \in Sub : ~WillSettle(p, u)
    BY <2>1 DEF WillSettle, NoWork
  <2>3. LookedAfter(s)'
    <3>1. \A q \in Site : WillSettle(q, s) => WillSettle(q, s)'
      <4> SUFFICES ASSUME NEW q \in Site, WillSettle(q, s) PROVE WillSettle(q, s)'
        OBVIOUS
      <4>1. site'[q] = site[q]
        BY <1>0, <2>1, <2>2 DEF Does, BTypeOK
      <4> QED
        BY <4>1 DEF WillSettle
    <3>2. (AtHandler(s)' <=> AtHandler(s)) /\ (Queued(s)' <=> Queued(s))
      BY <2>1, SameQueue DEF AtHandler
    <3> QED
      BY <1>0, <2>1, <3>1, <3>2 DEF Attention, LookedAfter, Attended
  <2> QED
    BY <1>0, <2>1, <2>2, <2>3, SameQueue, SiteStep
<1> QED
  BY <1>0, <1>1, <1>2 DEF Starts, SiteKilled

LEMMA WorkerKeepsAttention ==
    ASSUME AttInv, Steady, NEW p \in Site, Worker(p)
    PROVE  Attention'
<1>0. /\ IInv /\ TypeOK /\ BTypeOK /\ Attention /\ Without(Raising)
      /\ Exact(submission_map, working, held) /\ site[p] \in Work
  BY SteadyState DEF BTypeOK
<1>1. CASE SiteUpdate(p)
  <2>1. PICK r \in Requests : r = site[p].req /\ r.id \in Sub
    BY <1>0, <1>1, WorkParts DEF SiteUpdate
  <2>2. /\ site[p].op = "update"
        /\ \/ Does(p, NoWork) /\ status[r.id] \in {"P", "G"} /\ UNCHANGED status
           \/ status' = [status EXCEPT ![r.id] = "QU"] /\ Does(p, [op |-> "delete", req |-> r])
        /\ UNCHANGED <<queue, held, todo, gone, bridge, pending>>
    BY <1>1, <2>1 DEF SiteUpdate, vars, procvars
  <2>3. \A u \in Sub : u # r.id => status'[u] = status[u] /\ ~WillSettle(p, u)
    BY <1>0, <2>1, <2>2 DEF BTypeOK, WillSettle
  <2>4. AtHandler(r.id)' <=> AtHandler(r.id)
    BY <2>2 DEF AtHandler
  <2>5. CASE Does(p, NoWork) /\ status[r.id] \in {"P", "G"} /\ UNCHANGED status
    <3>1. LookedAfter(r.id)'
      BY <1>0, <2>1, <2>2, <2>4, <2>5 DEF Attention, LookedAfter, Attended
    <3> QED
      BY <1>0, <2>1, <2>2, <2>3, <2>5, <3>1, SameQueue, SiteStep
  <2>6. CASE status' = [status EXCEPT ![r.id] = "QU"] /\ Does(p, [op |-> "delete", req |-> r])
    <3>1. Attended(r.id)'
      BY <1>0, <2>6, SettledByWorker
    <3>2. LookedAfter(r.id)'
      BY <1>0, <2>1, <2>6, <3>1 DEF LookedAfter, BTypeOK
    <3> QED
      BY <1>0, <2>1, <2>2, <2>3, <2>6, <3>2, SameQueue, SiteStep
  <2> QED
    BY <2>2, <2>5, <2>6
<1>2. CASE SiteDelete(p)
  <2>1. PICK r \in Requests : r = site[p].req /\ r.id \in Sub
    BY <1>0, <1>2, WorkParts DEF SiteDelete
  <2>2. /\ site[p].op = "delete" /\ Does(p, [op |-> "request", req |-> r])
        /\ UNCHANGED <<status, queue, held, todo, gone, bridge, pending>>
    BY <1>2, <2>1 DEF SiteDelete, vars, procvars
  <2>3. \A u \in Sub : u # r.id => ~WillSettle(p, u)
    BY <2>1, <2>2 DEF WillSettle
  <2>4. Attended(r.id)' /\ (AtHandler(r.id)' <=> AtHandler(r.id))
    BY <1>0, <2>2, SettledByWorker DEF AtHandler
  <2>5. LookedAfter(r.id)'
    BY <1>0, <2>1, <2>2, <2>4 DEF Attention, LookedAfter
  <2> QED
    BY <1>0, <2>1, <2>2, <2>3, <2>5, SameQueue, SiteStep
<1>3. CASE SiteRequest(p)
  <2>1. PICK r \in Requests : r = site[p].req /\ r.id \in Sub
    BY <1>0, <1>3, WorkParts DEF SiteRequest
  <2>2. /\ site[p].op = "request" /\ Does(p, NoWork)
        /\ UNCHANGED <<todo, gone, bridge, pending>>
    BY <1>3 DEF SiteRequest, procvars
  <2>3. \A u \in Sub : u # r.id => ~WillSettle(p, u)
    BY <2>1, <2>2 DEF WillSettle
  <2>4. CASE UNCHANGED status /\ Judge(r)
    <3>1. NothingDropped /\ (Queued(r.id)' \/ \E c \in Conn : r.id \in held'[c])
      BY <1>0, <2>4, JudgeDropsNothing
    <3>2. Attended(r.id)' /\ (AtHandler(r.id) => AtHandler(r.id)')
      BY <2>2, <3>1 DEF Attended, AtHandler, NothingDropped
    <3>3. LookedAfter(r.id)'
      BY <1>0, <2>1, <2>2, <2>4, <3>2 DEF Attention, LookedAfter
    <3> QED
      BY <1>0, <2>1, <2>2, <2>3, <2>4, <3>1, <3>3, SiteStep DEF NothingDropped
  <2>5. CASE UNCHANGED status /\ UNCHANGED vars /\ ~(submission_map[r.id] = None /\ ~Queued(r.id))
    <3>1. UNCHANGED <<queue, held>>
      BY <2>5 DEF vars
    <3>2. Queued(r.id) \/ \E c \in Conn : r.id \in held[c]
      <4>1. submission_map[r.id] \in Conn \cup {None}
        BY <1>0, <2>1 DEF TypeOK
      <4> QED
        BY <1>0, <2>1, <2>5, <4>1 DEF Exact
    <3>3. Attended(r.id)' /\ (AtHandler(r.id) => AtHandler(r.id)')
      BY <2>2, <3>1, <3>2, SameQueue DEF Attended, AtHandler
    <3>4. LookedAfter(r.id)'
      BY <1>0, <2>1, <2>2, <2>5, <3>3 DEF Attention, LookedAfter
    <3> QED
      BY <1>0, <2>1, <2>2, <2>3, <2>5, <3>1, <3>4, SameQueue, SiteStep
  <2>6. CASE status' = [status EXCEPT ![r.id] = "IE"] /\ UNCHANGED vars
    <3>1. UNCHANGED <<queue, held>>
      BY <2>6 DEF vars
    <3>2. LookedAfter(r.id)'
      BY <1>0, <2>1, <2>6 DEF LookedAfter, InProgress, BTypeOK
    <3>3. \A u \in Sub : u # r.id => status'[u] = status[u]
      BY <1>0, <2>6 DEF BTypeOK
    <3> QED
      BY <1>0, <2>1, <2>2, <2>3, <3>1, <3>2, <3>3, SameQueue, SiteStep
  <2> QED
    BY <1>3, <2>1, <2>4, <2>5, <2>6 DEF SiteRequest
<1>4. CASE SiteTerminate(p)
  <2>1. PICK s \in Sub : s = site[p].sub
    BY <1>0, <1>4, WorkParts DEF SiteTerminate
  <2>2. /\ site[p].op = "terminate"
        /\ UNCHANGED <<status, todo, gone, bridge, pending>>
        /\ \/ Does(p, NoWork) /\ UNCHANGED vars
           \/ Does(p, [op |-> "mark", sub |-> s]) /\ (Abort(s) \/ UNCHANGED vars)
    BY <1>4, <2>1 DEF SiteTerminate, dbvars, procvars
  <2>3. \A u \in Sub : ~WillSettle(p, u)
    BY <2>2 DEF WillSettle
  <2>4. /\ held' = held
        /\ \A u \in Sub : u # s => (Queued(u) => Queued(u)')
        /\ Does(p, NoWork) => (Queued(s) => Queued(s)') \/ Attended(s)'
    <3>1. CASE UNCHANGED vars
      BY <3>1, SameQueue DEF vars
    <3>2. CASE Does(p, [op |-> "mark", sub |-> s]) /\ Abort(s)
      BY <1>0, <3>2, AbortDropsOne, SettledByWorker
    <3> QED
      BY <2>2, <3>1, <3>2
  <2>5. LookedAfter(s)'
    <3>1. AtHandler(s)' <=> AtHandler(s)
      BY <2>2, <2>4 DEF AtHandler
    <3>2. Attended(s) => Attended(s)'
      <4>1. CASE Does(p, [op |-> "mark", sub |-> s])
        BY <1>0, <4>1, SettledByWorker
      <4>2. CASE Does(p, NoWork)
        <5>1. \A q \in Site : WillSettle(q, s) => WillSettle(q, s)'
          <6> SUFFICES ASSUME NEW q \in Site, WillSettle(q, s) PROVE WillSettle(q, s)'
            OBVIOUS
          <6>1. site'[q] = site[q]
            BY <1>0, <2>3, <4>2 DEF Does, BTypeOK
          <6> QED
            BY <6>1 DEF WillSettle
        <5> QED
          BY <2>2, <2>4, <3>1, <4>2, <5>1 DEF Attended
      <4> QED
        BY <2>2, <4>1, <4>2
    <3> QED
      BY <1>0, <2>2, <3>1, <3>2 DEF Attention, LookedAfter
  <2> QED
    BY <1>0, <2>2, <2>3, <2>4, <2>5, SiteStep
<1>5. CASE SiteMark(p)
  <2>1. PICK s \in Sub : s = site[p].sub
    BY <1>0, <1>5, WorkParts DEF SiteMark
  <2>2. /\ site[p].op = "mark" /\ status' = [status EXCEPT ![s] = "AB"] /\ Does(p, NoWork)
        /\ UNCHANGED <<queue, held, todo, gone, bridge, pending>>
    BY <1>5, <2>1 DEF SiteMark, vars, procvars
  <2>3. \A u \in Sub : u # s => status'[u] = status[u] /\ ~WillSettle(p, u)
    BY <1>0, <2>1, <2>2 DEF BTypeOK, WillSettle
  <2>4. LookedAfter(s)'
    BY <1>0, <2>2 DEF LookedAfter, InProgress, BTypeOK
  <2> QED
    BY <1>0, <2>2, <2>3, <2>4, SameQueue, SiteStep
<1> QED
  BY <1>1, <1>2, <1>3, <1>4, <1>5 DEF Worker

LEMMA ProcessKeepsAttention ==
    ASSUME AttInv, Steady, Process
    PROVE  Attention'
<1>0. IInv /\ BTypeOK /\ Attention /\ Without(Raising)
  BY SteadyState
<1>1. CASE Crash
  BY <1>1 DEF Crash, Attention, LookedAfter
<1>2. CASE Boot
  <2>1. /\ bridge' = "booting"
        /\ pending' = {s \in Sub : status[s] \in InProgress}
        /\ status' = [s \in Sub |-> IF status[s] \in InProgress THEN "QU" ELSE status[s]]
    BY <1>2 DEF Boot
  <2>2. ASSUME NEW u \in Sub PROVE LookedAfter(u)'
    BY <2>1 DEF LookedAfter, Attended, InProgress
  <2> QED
    BY <2>1, <2>2 DEF Attention
<1>3. CASE BootJudge
  <2>1. PICK s \in Sub : pending' = pending \ {s} /\ Judge(Recovered(s))
    BY <1>0, <1>3 DEF BootJudge, BTypeOK
  <2>2. bridge' = "booting" /\ UNCHANGED <<dbvars, site, todo, gone, bridge>>
    BY <1>3 DEF BootJudge
  <2>3. Recovered(s) \in Requests /\ Recovered(s).id = s
    BY SiteAssumption DEF Recovered
  <2>4. NothingDropped /\ (Queued(s)' \/ \E c \in Conn : s \in held'[c])
    BY <1>0, <2>1, <2>3, JudgeDropsNothing
  <2>5. ASSUME NEW u \in Sub PROVE LookedAfter(u)'
    <3>1. AtHandler(u) => AtHandler(u)'
      BY <2>2, <2>4 DEF AtHandler, NothingDropped
    <3>2. Queued(u) => Queued(u)' \/ AtHandler(u)'
      BY <2>4 DEF AtHandler, NothingDropped
    <3>3. u \in pending => u \in pending' \/ Queued(u)' \/ AtHandler(u)'
      BY <2>1, <2>4 DEF AtHandler
    <3>4. \A p \in Site : WillSettle(p, u)' <=> WillSettle(p, u)
      BY <2>2 DEF WillSettle
    <3>5. Attended(u) => Attended(u)'
      BY <3>1, <3>2, <3>3, <3>4 DEF Attended
    <3> QED
      BY <1>0, <2>2, <3>1, <3>5 DEF Attention, LookedAfter, dbvars
  <2> QED
    BY <2>2, <2>5 DEF Attention
<1>4. CASE Listen
  <2>1. /\ pending = {} /\ bridge = "booting"
        /\ UNCHANGED <<status, site, todo, gone, pending, queue, held>>
    BY <1>4 DEF Listen, dbvars, vars
  <2>2. ASSUME NEW u \in Sub PROVE LookedAfter(u)'
    <3>1. /\ AtHandler(u)' <=> AtHandler(u)
          /\ Queued(u)' <=> Queued(u)
          /\ \A p \in Site : WillSettle(p, u)' <=> WillSettle(p, u)
      BY <2>1, SameQueue DEF AtHandler, WillSettle
    <3> QED
      BY <1>0, <2>1, <3>1 DEF Attention, LookedAfter, Attended
  <2> QED
    BY <2>1, <2>2 DEF Attention
<1> QED
  BY <1>1, <1>2, <1>3, <1>4, Zenon DEF Process

LEMMA BNextKeepsAttInv == AttInv /\ [BNext]_bvars => AttInv'
<1> SUFFICES ASSUME AttInv, [BNext]_bvars PROVE AttInv'
  OBVIOUS
<1>1. BTypeInv /\ BookInv /\ [Next]_vars
  BY StepsOfTheDispatcher DEF AttInv, BTypeInv
<1>2. BTypeInv' /\ BookInv'
  BY <1>1, BNextKeepsTypes, NextKeepsBookInv
<1>3. SUFFICES ASSUME Steady PROVE Present' /\ Attention'
  BY <1>2 DEF AttInv, Steady, Calm, Without
<1>4. IInv /\ BookInv /\ Calm /\ Present /\ Attention /\ "disable" \notin Env
  BY <1>3, SteadyState DEF Steady
<1>5. Present'
  BY <1>1, <1>4, NextKeepsPresent
<1>6. ASSUME Admin \/ HolderThread \/ \E c \in Conn : HandlerThread(c) \/ JudgeSide(c)
      PROVE  Attention'
  BY <1>4, <1>6, DispatcherDropsNothing, NothingDroppedKeepsAttention DEF OnlyDispatcher, procvars
<1>7. CASE UNCHANGED bvars
  <2>1. NothingDropped
    BY <1>7, RestingDropsNothing DEF bvars, vars
  <2>2. UNCHANGED <<dbvars, site, todo, gone, bridge, pending>>
    BY <1>7 DEF bvars, procvars
  <2> QED
    BY <1>4, <1>5, <2>1, <2>2, NothingDroppedKeepsAttention
<1> QED
  BY <1>3, <1>5, <1>6, <1>7, PacketsKeepAttention, HandlerKeepsAttention, StartsKeepAttention,
     WorkerKeepsAttention, ProcessKeepsAttention, Zenon DEF BNext

\* An unfinished submission is always in somebody's hands: whatever judges
\* leave, whatever is aborted or judged again meanwhile, and whenever the bridge
\* dies between any two of these steps.
THEOREM NoneForgotten == BSpec => []NobodyIsForgotten
<1>1. BSpec => []AttInv
  BY InitAttInv, BNextKeepsAttInv, PTL DEF BSpec
<1>2. AttInv => NobodyIsForgotten
  <2> SUFFICES ASSUME AttInv,
                      Without(Raising \cup {"stale_kick", "late_disable", "disable"}),
                      "killed" \notin SiteEnv,
                      NEW s \in Sub, status[s] \in InProgress
               PROVE  Accounted(s)
    BY DEF NobodyIsForgotten
  <2>1. Steady
    BY DEF Steady, Calm, Without
  <2>2. Attention /\ bridge \in {"up", "down", "booting"}
    BY <2>1, SteadyState DEF BTypeOK
  <2>3. CASE bridge = "up"
    <3>1. Attended(s) /\ pending = {}
      BY <2>2, <2>3 DEF Attention, LookedAfter
    <3> QED
      BY <3>1 DEF Attended, AtHandler, WillSettle, Accounted, IsFor
  <2> QED
    BY <2>2, <2>3 DEF Accounted
<1> QED
  BY <1>1, <1>2, PTL

-----------------------------------------------------------------------------
(* Results are complete, and final until somebody asks again *)

Sole == Without(Raising \cup {"stale_kick", "restart"}) /\ "eager" \notin SiteEnv

AtDispatcher(s) == submission_map[s] # None \/ Queued(s)

\* The worker p is on its way to the dispatcher with s.
Asks(p, s) == site[p].op \in {"update", "delete", "request"} /\ site[p].req.id = s

\* The dispatcher, one handler or one worker is busy with s.
OneOwner(s) ==
    /\ \A c \in Conn :
        /\ AtDispatcher(s) => todo[c].sub # s /\ gone[c] # s
        /\ \A d \in Conn : todo[c].sub = s => gone[d] # s
        /\ \A d \in Conn : todo[c].sub = s /\ todo[d].sub = s => c = d
        /\ \A d \in Conn : gone[c] = s /\ gone[d] = s => c = d
    /\ \A p \in Site : Asks(p, s) =>
        /\ ~AtDispatcher(s)
        /\ \A c \in Conn : todo[c].sub # s /\ gone[c] # s
        /\ \A q \in Site : Asks(q, s) => p = q

NoOwner(s) ==
    /\ ~AtDispatcher(s)
    /\ \A c \in Conn : todo[c].sub # s /\ gone[c] # s
    /\ \A p \in Site : ~Asks(p, s)

\* The rows of test cases and the progress of the judge that has a submission.
Rows ==
    /\ \A s \in Sub : phase[s] # "none" <=> \E c \in Conn : s \in held[c]
    /\ \A s \in Sub : phase[s] # "begun" => graded[s] = 0
    /\ \A s \in Sub : phase[s] = "begun" => cases[s] = graded[s]

\* What a handler has read, or is about to read.
Sums ==
    /\ \A c \in Conn : todo[c].op = "read" => cases[todo[c].sub] = NCases
    /\ \A c \in Conn : todo[c].op = "D" => todo[c].n = NCases

\* s is past the update that makes it "QU".
Started(s) ==
    \/ AtDispatcher(s)
    \/ \E c \in Conn : todo[c].sub = s \/ gone[c] = s
    \/ \E p \in Site : site[p].op \in {"delete", "request"} /\ site[p].req.id = s

UnderWay ==
    /\ \A s \in Sub : Started(s) => status[s] \in InProgress
    /\ \A p \in Site : site[p].op \notin {"terminate", "mark"}

Orderly ==
    /\ bridge = "up"
    /\ \A s \in Sub : OneOwner(s)
    /\ \A s \in Sub : status[s] = "none" => NoOwner(s)
    /\ \A s \in Sub : status[s] = "D" => score[s] = NCases
    /\ Rows
    /\ Sums
    /\ SiteEnv \subseteq {"killed"} => UnderWay

FinalInv == BTypeInv /\ (Sole => Orderly)

LEMMA InitFinalInv == BInit => FinalInv
<1> SUFFICES ASSUME BInit PROVE FinalInv
  OBVIOUS
<1>1. BTypeInv
  BY InitBTypeInv
<1>2. \A s \in Sub : NoOwner(s)
  BY ConstantsAssumption DEF BInit, Init, NoOwner, AtDispatcher, Queued, Asks, Rest, NoWork
<1>3. \A s \in Sub : OneOwner(s) /\ ~Started(s)
  BY <1>2 DEF OneOwner, NoOwner, Started, Asks
<1>4. Rows /\ Sums
  BY DEF BInit, Init, Rows, Sums, Rest
<1>5. \A p \in Site : site[p].op \notin {"terminate", "mark"}
  BY DEF BInit, NoWork
<1> QED
  BY <1>1, <1>2, <1>3, <1>4, <1>5 DEF BInit, FinalInv, Orderly, UnderWay

\* What the steps below start from.
LEMMA SoleState ==
    ASSUME FinalInv, Sole
    PROVE  /\ IInv /\ TypeOK /\ BTypeOK /\ Orderly /\ Without(Raising) /\ closed = {}
           /\ QueueType /\ QueuedOnce /\ judges \subseteq Conn
           /\ MapType(submission_map) /\ WorkingType(working) /\ HeldType(held)
           /\ Owned(submission_map, working, held)
           /\ "restart" \notin Env /\ "close" \notin Env /\ "eager" \notin SiteEnv
<1>1. IInv /\ BTypeOK /\ Orderly
  BY DEF FinalInv, BTypeInv
<1>2. Without(Raising) /\ Without(LateRaising) /\ "restart" \notin Env /\ "close" \notin Env
  BY DEF Sole, Without, Raising, LateRaising
<1>3. closed = {}
  BY <1>1, <1>2, NothingClosed
<1>4. Owned(submission_map, working, held)
  BY <1>1, <1>2, <1>3 DEF IInv, OwnedEarly
<1> QED
  BY <1>1, <1>2, <1>3, <1>4, TypeParts DEF IInv, Sole

\* What a step does to u: nobody new is busy with it and its row stays ...
Undisturbed(u) ==
    /\ status'[u] = status[u] /\ score'[u] = score[u]
    /\ AtDispatcher(u)' => AtDispatcher(u)
    /\ \A c \in Conn : todo'[c].sub = u => todo[c].sub = u
    /\ \A c \in Conn : gone'[c] = u => gone[c] = u
    /\ \A p \in Site : Asks(p, u)' => site'[p] = site[p]

\* ... or it changes hands, or its row changes, as it should.
Handled(u) ==
    /\ OneOwner(u)'
    /\ status'[u] # "none"
    /\ status'[u] = "D" => score'[u] = NCases
    /\ SiteEnv \subseteq {"killed"} =>
        /\ Started(u)' => status'[u] \in InProgress
        /\ status[u] \in Final => status'[u] \in {status[u], "QU"}

Proper == \A u \in Sub : Undisturbed(u) \/ Handled(u)

LEMMA ProperStep ==
    ASSUME Orderly, Proper, Rows', Sums', bridge' = "up",
           SiteEnv \subseteq {"killed"} => \A p \in Site : site'[p].op \notin {"terminate", "mark"}
    PROVE  /\ Orderly'
           /\ SiteEnv \subseteq {"killed"} =>
                \A u \in Sub : status[u] \in Final => status'[u] \in {status[u], "QU"}
<1>1. ASSUME NEW u \in Sub
      PROVE  /\ OneOwner(u)'
             /\ status'[u] = "none" => NoOwner(u)'
             /\ status'[u] = "D" => score'[u] = NCases
             /\ SiteEnv \subseteq {"killed"} =>
                  /\ Started(u)' => status'[u] \in InProgress
                  /\ status[u] \in Final => status'[u] \in {status[u], "QU"}
  <2>1. CASE Undisturbed(u)
    <3>1. OneOwner(u) /\ (status[u] = "none" => NoOwner(u)) /\ (status[u] = "D" => score[u] = NCases)
      BY DEF Orderly
    <3>2. \A p \in Site : Asks(p, u)' => Asks(p, u)
      BY <2>1 DEF Undisturbed, Asks
    <3>3. OneOwner(u)'
      BY <2>1, <3>1, <3>2 DEF OneOwner, Undisturbed
    <3>4. NoOwner(u) => NoOwner(u)'
      BY <2>1, <3>2 DEF NoOwner, Undisturbed
    <3>5. Started(u)' => Started(u)
      <4>1. ASSUME NEW p \in Site, site'[p].op \in {"delete", "request"} /\ site'[p].req.id = u
            PROVE  site[p].op \in {"delete", "request"} /\ site[p].req.id = u
        <5>1. Asks(p, u)'
          BY <4>1 DEF Asks
        <5> QED
          BY <2>1, <4>1, <5>1 DEF Undisturbed
      <4> QED
        BY <2>1, <4>1 DEF Started, Undisturbed
    <3>6. SiteEnv \subseteq {"killed"} => (Started(u) => status[u] \in InProgress)
      BY DEF Orderly, UnderWay
    <3> QED
      BY <2>1, <3>1, <3>3, <3>4, <3>5, <3>6 DEF Undisturbed
  <2>2. CASE Handled(u)
    BY <2>2 DEF Handled
  <2> QED
    BY <2>1, <2>2 DEF Proper
<1> QED
  BY <1>1 DEF Orderly, UnderWay

\* A judge is served only from the queue.
LEMMA ServingTakesNothing ==
    ASSUME FinalInv, Sole, NEW c \in Conn,
           NEW m, MapType(m), NEW w, WorkingType(w), NEW h, HeldType(h), HandleFree(c, m, w, h)
    PROVE  \A u \in Sub : submission_map'[u] # None \/ Queued(u)' => m[u] # None \/ Queued(u)
<1>1. /\ Without(Raising) /\ closed = {} /\ QueueType /\ QueuedOnce /\ judges \subseteq Conn
  BY SoleState
<1>2. \A u \in Sub : Queued(u)' => Queued(u)
  BY <1>1, HandleFreeEffect
<1>3. \/ submission_map' = m
      \/ \E s \in Sub : Queued(s) /\ submission_map' = [m EXCEPT ![s] = c]
  BY <1>1, HandleFreeOk DEF Submit
<1> QED
  BY <1>2, <1>3 DEF MapType

LEMMA ServingNowTakesNothing ==
    ASSUME FinalInv, Sole, NEW c \in Conn, HandleFreeNow(c)
    PROVE  \A u \in Sub : AtDispatcher(u)' => AtDispatcher(u)
BY SoleState, ServingTakesNothing DEF HandleFreeNow, AtDispatcher

LEMMA RestingTakesNothing ==
    ASSUME UNCHANGED <<queue, submission_map>>
    PROVE  \A u \in Sub : AtDispatcher(u)' <=> AtDispatcher(u)
BY SameQueue DEF AtDispatcher

\* The steps of the dispatcher that concern no row and no worker.
LEMMA DispatcherTakesNothing ==
    ASSUME FinalInv, Sole,
           Admin \/ HolderThread \/ \E c \in Conn : HandlerThread(c) \/ JudgeSide(c)
    PROVE  /\ OnlyDispatcher
           /\ \A u \in Sub : AtDispatcher(u)' => AtDispatcher(u)
<1>1. CASE Admin
  BY <1>1, RestingTakesNothing DEF Admin, UpdateDisable, Disconnect, RemoveStranger
<1>2. CASE HolderThread
  BY <1>2, RestingTakesNothing, ServingNowTakesNothing DEF HolderThread, Finish
<1>3. ASSUME NEW c \in Conn, HandlerThread(c)
      PROVE  /\ OnlyDispatcher
             /\ \A u \in Sub : AtDispatcher(u)' => AtDispatcher(u)
  <2>1. OnlyDispatcher /\ (UNCHANGED <<queue, submission_map>> \/ HandleFreeNow(c))
    BY <1>3 DEF HandlerThread, Connected, UpdateProblems, Sweep
  <2> QED
    BY <2>1, RestingTakesNothing, ServingNowTakesNothing
<1>4. ASSUME NEW c \in Conn, JudgeSide(c)
      PROVE  /\ OnlyDispatcher
             /\ \A u \in Sub : AtDispatcher(u)' => AtDispatcher(u)
  BY <1>4, RestingTakesNothing DEF JudgeSide, Register, SupportedProblems, Close
<1> QED
  BY <1>1, <1>2, <1>3, <1>4

\* What a judge has reported of a submission it keeps stays.
LEMMA DeliverKeepsRows ==
    ASSUME Rows, BTypeOK, Deliver, UNCHANGED cases
    PROVE  Rows'
<1> DEFINE here == {s \in Sub : \E c \in Conn : s \in held[c]}
           there == {s \in Sub : \E c \in Conn : s \in held'[c]}
<1>1. /\ phase' = [s \in Sub |-> IF s \in here \cap there THEN phase[s]
                                 ELSE IF s \in there THEN "sent" ELSE "none"]
      /\ graded' = [s \in Sub |-> IF s \in here \cap there THEN graded[s] ELSE 0]
  BY Zenon DEF Deliver
<1>2. /\ \A s \in Sub : s \in here <=> \E c \in Conn : s \in held[c]
      /\ \A s \in Sub : s \in there <=> \E c \in Conn : s \in held'[c]
  OBVIOUS
<1> HIDE DEF here, there
<1>3. ASSUME NEW s \in Sub
      PROVE  /\ phase'[s] # "none" <=> s \in there
             /\ phase'[s] # "begun" => graded'[s] = 0
             /\ phase'[s] = "begun" => cases'[s] = graded'[s]
  <2>1. /\ phase[s] # "none" <=> s \in here
        /\ phase[s] # "begun" => graded[s] = 0
        /\ phase[s] = "begun" => cases[s] = graded[s]
    BY <1>2 DEF Rows
  <2>2. /\ phase'[s] = IF s \in here \cap there THEN phase[s]
                       ELSE IF s \in there THEN "sent" ELSE "none"
        /\ graded'[s] = IF s \in here \cap there THEN graded[s] ELSE 0
    BY <1>1
  <2> QED
    BY <2>1, <2>2
<1> QED
  BY <1>2, <1>3 DEF Rows

LEMMA DispatcherIsProper ==
    ASSUME FinalInv, Sole, OnlyDispatcher, \A u \in Sub : AtDispatcher(u)' => AtDispatcher(u)
    PROVE  Proper /\ Rows' /\ Sums'
<1>1. /\ Deliver /\ UNCHANGED <<status, cases, score, site, todo, gone>>
  BY DEF OnlyDispatcher, dbvars, procvars
<1>2. Proper
  BY <1>1 DEF Proper, Undisturbed
<1>3. Rows'
  BY <1>1, SoleState, DeliverKeepsRows DEF Orderly
<1>4. Sums'
  BY <1>1, SoleState DEF Orderly, Sums
<1> QED
  BY <1>2, <1>3, <1>4

\* A submission a judge holds is the dispatcher's.
LEMMA HeldIsDispatchers ==
    ASSUME FinalInv, Sole, NEW c \in Conn, NEW s \in Sub, s \in held[c]
    PROVE  /\ submission_map[s] = c /\ ~Queued(s) /\ AtDispatcher(s) /\ Started(s)
           /\ \A d \in Conn : todo[d].sub # s /\ gone[d] # s
           /\ \A p \in Site : ~Asks(p, s)
           /\ status[s] # "none"
<1>1. submission_map[s] = c /\ ~Queued(s) /\ c # None
  BY SoleState, ConstantsAssumption DEF Owned
<1>2. AtDispatcher(s)
  BY <1>1 DEF AtDispatcher
<1>3. OneOwner(s) /\ (status[s] = "none" => NoOwner(s))
  BY SoleState DEF Orderly
<1> QED
  BY <1>1, <1>2, <1>3 DEF OneOwner, NoOwner, Started

\* The row of s is written by the handler of the judge that has s.
LEMMA HolderWrites ==
    ASSUME FinalInv, Sole, NEW c \in Conn, NEW s \in Sub, s \in held[c],
           UNCHANGED <<queue, submission_map, site, todo, gone, score>>,
           status' = [status EXCEPT ![s] = "P"] \/ status' = [status EXCEPT ![s] = "G"]
    PROVE  Proper
<1>0. BTypeOK /\ OneOwner(s)
  BY SoleState DEF Orderly
<1>1. ASSUME NEW u \in Sub, u # s PROVE Undisturbed(u)
  BY <1>0, <1>1, RestingTakesNothing DEF Undisturbed, BTypeOK
<1>2. Handled(s)
  <2>1. status'[s] \in {"P", "G"}
    BY <1>0 DEF BTypeOK
  <2>2. OneOwner(s)'
    BY <1>0, RestingTakesNothing DEF OneOwner, Asks
  <2>3. SiteEnv \subseteq {"killed"} => status[s] \in InProgress
    BY HeldIsDispatchers, SoleState DEF Orderly, UnderWay
  <2> QED
    BY <2>1, <2>2, <2>3 DEF Handled, InProgress, Final
<1> QED
  BY <1>1, <1>2 DEF Proper

LEMMA PacketsAreProper ==
    ASSUME FinalInv, Sole, NEW c \in Conn, Packets(c)
    PROVE  Proper /\ Rows' /\ Sums' /\ UNCHANGED <<site, bridge>>
<1>0. BTypeOK /\ Rows /\ Sums /\ "close" \notin Env
  BY SoleState DEF Orderly
<1>1. ASSUME NEW s \in Sub, Ack(c, s)
      PROVE  Proper /\ Rows' /\ Sums' /\ UNCHANGED <<site, bridge>>
  <2>1. /\ s \in held[c] /\ phase[s] = "sent" /\ phase' = [phase EXCEPT ![s] = "acked"]
        /\ status' = [status EXCEPT ![s] = "P"]
        /\ UNCHANGED <<queue, submission_map, held, cases, score, site, graded, todo, gone, bridge>>
    BY <1>0, <1>1 DEF Ack, Reads, Close, vars, procvars
  <2>2. Proper
    BY <2>1, HolderWrites
  <2>3. \A u \in Sub : phase'[u] = IF u = s THEN "acked" ELSE phase[u]
    BY <1>0, <2>1 DEF BTypeOK
  <2>4. Rows'
    BY <1>0, <2>1, <2>3 DEF Rows
  <2>5. Sums'
    BY <1>0, <2>1 DEF Sums
  <2> QED
    BY <2>1, <2>2, <2>4, <2>5
<1>2. ASSUME NEW s \in Sub, Begin(c, s)
      PROVE  Proper /\ Rows' /\ Sums' /\ UNCHANGED <<site, bridge>>
  <2>1. /\ s \in held[c] /\ phase[s] = "acked" /\ phase' = [phase EXCEPT ![s] = "begun"]
        /\ status' = [status EXCEPT ![s] = "G"] /\ cases' = [cases EXCEPT ![s] = 0]
        /\ UNCHANGED <<queue, submission_map, held, score, site, graded, todo, gone, bridge>>
    BY <1>2 DEF Begin, Reads, vars, procvars
  <2>2. Proper
    BY <2>1, HolderWrites
  <2>3. /\ \A u \in Sub : phase'[u] = IF u = s THEN "begun" ELSE phase[u]
        /\ \A u \in Sub : cases'[u] = IF u = s THEN 0 ELSE cases[u]
    BY <1>0, <2>1 DEF BTypeOK
  <2>4. Rows'
    BY <1>0, <2>1, <2>3 DEF Rows
  <2>5. \A d \in Conn : todo[d].op = "read" => todo[d].sub \in Sub /\ todo[d].sub # s
    BY <1>0, <2>1, HeldIsDispatchers, TodoParts DEF BTypeOK
  <2>6. Sums'
    BY <1>0, <2>1, <2>3, <2>5 DEF Sums
  <2> QED
    BY <2>1, <2>2, <2>4, <2>6
<1>3. ASSUME NEW s \in Sub, TestCase(c, s)
      PROVE  Proper /\ Rows' /\ Sums' /\ UNCHANGED <<site, bridge>>
  <2>1. /\ s \in held[c] /\ phase[s] = "begun" /\ phase' = phase
        /\ graded' = [graded EXCEPT ![s] = @ + 1] /\ cases' = [cases EXCEPT ![s] = @ + 1]
        /\ UNCHANGED <<queue, submission_map, held, status, score, site, todo, gone, bridge>>
    BY <1>3 DEF TestCase, Reads, vars, procvars
  <2>2. Proper
    BY <2>1, RestingTakesNothing DEF Proper, Undisturbed
  <2>3. /\ \A u \in Sub : graded'[u] = IF u = s THEN graded[u] + 1 ELSE graded[u]
        /\ \A u \in Sub : cases'[u] = IF u = s THEN cases[u] + 1 ELSE cases[u]
    BY <1>0, <2>1 DEF BTypeOK
  <2>4. Rows'
    BY <1>0, <2>1, <2>3 DEF Rows
  <2>5. \A d \in Conn : todo[d].op = "read" => todo[d].sub \in Sub /\ todo[d].sub # s
    BY <1>0, <2>1, HeldIsDispatchers, TodoParts DEF BTypeOK
  <2>6. Sums'
    BY <1>0, <2>1, <2>3, <2>5 DEF Sums
  <2> QED
    BY <2>1, <2>2, <2>4, <2>6
<1>4. ASSUME NEW s \in Sub, NEW op \in {"read", "CE", "IE", "AB"}, Ends(c, s, op),
             op = "read" => cases[s] = NCases
      PROVE  Proper /\ Rows' /\ Sums' /\ UNCHANGED <<site, bridge>>
  <2> DEFINE m == [submission_map EXCEPT ![s] = None]
             w == [working EXCEPT ![c] = None]
             h == [held EXCEPT ![c] = @ \ {s}]
  <2>1. /\ s \in held[c] /\ todo[c] = Rest /\ OnJudgeFree(c, s) /\ Deliver
        /\ todo' = [todo EXCEPT ![c] = Rest] \/ todo' = [todo EXCEPT ![c] = [op |-> op, sub |-> s]]
        /\ UNCHANGED <<status, cases, score, site, gone, bridge>>
    BY <1>4 DEF Ends, Reads, dbvars
  <2>2. /\ submission_map[s] # None /\ ~Queued(s) /\ status[s] # "none" /\ AtDispatcher(s) /\ Started(s)
        /\ \A d \in Conn : todo[d].sub # s /\ gone[d] # s
        /\ \A p \in Site : ~Asks(p, s)
    BY <2>1, HeldIsDispatchers, ConstantsAssumption
  <2>3. MapType(m) /\ WorkingType(w) /\ HeldType(h)
    BY SoleState DEF MapType, WorkingType, HeldType
  <2>4. \A u \in Sub : m[u] = IF u = s THEN None ELSE submission_map[u]
    BY SoleState DEF MapType
  <2>5. HandleFree(c, m, w, h)
    BY <2>1, <2>2 DEF OnJudgeFree
  <2> HIDE DEF m, w, h
  <2>6. \A u \in Sub : submission_map'[u] # None \/ Queued(u)' => m[u] # None \/ Queued(u)
    BY <2>3, <2>5, ServingTakesNothing
  <2>7. /\ ~AtDispatcher(s)'
        /\ \A u \in Sub : u # s => (AtDispatcher(u)' => AtDispatcher(u))
    BY <2>2, <2>4, <2>6 DEF AtDispatcher
  <2>8. /\ \A d \in Conn : d # c => todo'[d] = todo[d]
        /\ todo'[c] = Rest \/ todo'[c] = [op |-> op, sub |-> s]
    BY <1>0, <2>1 DEF BTypeOK
  <2>9. ASSUME NEW u \in Sub, u # s PROVE Undisturbed(u)
    BY <2>1, <2>7, <2>8, <2>9, ConstantsAssumption DEF Undisturbed, Rest
  <2>10. Handled(s)
    <3>1. OneOwner(s)'
      BY <2>1, <2>2, <2>7, <2>8 DEF OneOwner, Asks
    <3>2. status[s] = "D" => score[s] = NCases
      BY SoleState DEF Orderly
    <3>3. SiteEnv \subseteq {"killed"} => status[s] \in InProgress
      BY <2>2, SoleState DEF Orderly, UnderWay
    <3> QED
      BY <2>1, <2>2, <3>1, <3>2, <3>3 DEF Handled
  <2>11. Rows'
    BY <1>0, <2>1, DeliverKeepsRows
  <2>12. Sums'
    BY <1>0, <1>4, <2>1, <2>8 DEF Sums, Rest
  <2> QED
    BY <2>1, <2>9, <2>10, <2>11, <2>12 DEF Proper
<1>5. ASSUME NEW s \in Sub, GradingEnd(c, s) PROVE Ends(c, s, "read") /\ cases[s] = NCases
  BY <1>0, <1>5 DEF GradingEnd, Rows
<1> QED
  BY <1>1, <1>2, <1>3, <1>4, <1>5 DEF Packets, CompileError, InternalError, Terminated

\* Whose handler has s in hand.
LEMMA InHandlersHands ==
    ASSUME FinalInv, Sole, NEW c \in Conn, NEW s \in Sub, todo[c].sub = s \/ gone[c] = s
    PROVE  /\ ~AtDispatcher(s) /\ Started(s) /\ status[s] # "none"
           /\ \A p \in Site : ~Asks(p, s)
           /\ \A d \in Conn : d # c => todo[d].sub # s /\ gone[d] # s
           /\ todo[c].sub = s => gone[c] # s
           /\ SiteEnv \subseteq {"killed"} => status[s] \in InProgress
<1>1. OneOwner(s) /\ (status[s] = "none" => NoOwner(s)) /\ (SiteEnv \subseteq {"killed"} => UnderWay)
  BY SoleState DEF Orderly
<1>2. Started(s)
  BY DEF Started
<1> QED
  BY <1>1, <1>2 DEF OneOwner, NoOwner, UnderWay

LEMMA HandlerIsProper ==
    ASSUME FinalInv, Sole, NEW c \in Conn, Handler(c)
    PROVE  Proper /\ Rows' /\ Sums' /\ UNCHANGED <<site, bridge>>
<1>0. BTypeOK /\ TypeOK /\ Rows /\ Sums /\ Owned(submission_map, working, held)
  BY SoleState DEF Orderly
<1>1. CASE ReadCases(c)
  <2>1. PICK s : s = todo[c].sub
    OBVIOUS
  <2>2. /\ todo[c].op = "read" /\ cases[s] = NCases
        /\ todo' = [todo EXCEPT ![c] = [op |-> "D", sub |-> s, n |-> cases[s]]]
        /\ UNCHANGED <<queue, submission_map, held, status, cases, score, site, phase, graded, gone, bridge>>
    BY <1>0, <1>1, <2>1 DEF ReadCases, Sums, vars, dbvars, judgevars
  <2>3. /\ \A d \in Conn : d # c => todo'[d] = todo[d]
        /\ todo'[c] = [op |-> "D", sub |-> s, n |-> cases[s]]
    BY <1>0, <2>2 DEF BTypeOK
  <2>4. Proper
    BY <2>1, <2>2, <2>3, RestingTakesNothing DEF Proper, Undisturbed
  <2>5. Rows'
    BY <1>0, <2>2 DEF Rows
  <2>6. Sums'
    BY <1>0, <2>2, <2>3 DEF Sums
  <2> QED
    BY <2>2, <2>4, <2>5, <2>6
<1>2. CASE Store(c)
  <2>1. todo[c] \in Todo /\ todo[c].op \in {"D", "CE", "IE", "AB"}
    BY <1>0, <1>2 DEF Store, BTypeOK
  <2>2. PICK s \in Sub : s = todo[c].sub
    BY <2>1, TodoParts
  <2>3. /\ status' = [status EXCEPT ![s] = todo[c].op]
        /\ score' = [score EXCEPT ![s] = CASE todo[c].op = "D" -> todo[c].n
                                           [] todo[c].op = "AB" -> 0
                                           [] OTHER -> score[s]]
        /\ todo' = [todo EXCEPT ![c] = Rest]
        /\ UNCHANGED <<queue, submission_map, held, cases, site, phase, graded, gone, bridge>>
    BY <1>2, <2>2 DEF Store, vars, judgevars
  <2>4. /\ \A d \in Conn : d # c => todo'[d] = todo[d]
        /\ todo'[c] = Rest
    BY <1>0, <2>3 DEF BTypeOK
  <2>5. ASSUME NEW u \in Sub, u # s PROVE Undisturbed(u)
    BY <1>0, <2>3, <2>4, <2>5, RestingTakesNothing, ConstantsAssumption DEF Undisturbed, BTypeOK, Rest
  <2>6. Handled(s)
    <3>1. /\ ~AtDispatcher(s)
          /\ \A p \in Site : ~Asks(p, s)
          /\ \A d \in Conn : d # c => todo[d].sub # s
          /\ \A d \in Conn : gone[d] # s
          /\ SiteEnv \subseteq {"killed"} => status[s] \in InProgress
      BY <2>2, InHandlersHands
    <3>2. /\ ~AtDispatcher(s)'
          /\ \A p \in Site : ~Asks(p, s)'
          /\ \A d \in Conn : todo'[d].sub # s /\ gone'[d] # s
      BY <2>3, <2>4, <3>1, RestingTakesNothing, ConstantsAssumption DEF Asks, Rest
    <3>3. OneOwner(s)' /\ ~Started(s)'
      BY <3>2 DEF OneOwner, Started, Asks
    <3>4. status'[s] = todo[c].op /\ (todo[c].op = "D" => score'[s] = todo[c].n)
      BY <1>0, <2>3 DEF BTypeOK
    <3>5. todo[c].op = "D" => todo[c].n = NCases
      BY <1>0 DEF Sums
    <3> QED
      BY <2>1, <3>1, <3>3, <3>4, <3>5 DEF Handled, InProgress, Final
  <2>7. Rows'
    BY <1>0, <2>3 DEF Rows
  <2>8. Sums'
    BY <1>0, <2>3, <2>4 DEF Sums, Rest
  <2> QED
    BY <2>3, <2>5, <2>6, <2>7, <2>8 DEF Proper
<1>3. CASE Leave(c)
  <2>1. /\ gone[c] = None
        /\ gone' = [gone EXCEPT ![c] = working[c]]
        /\ submission_map' = IF working[c] = None THEN submission_map
                             ELSE [submission_map EXCEPT ![working[c]] = None]
        /\ queue' = queue
        /\ Deliver
        /\ UNCHANGED <<status, cases, score, site, todo, bridge>>
    BY <1>3 DEF Leave, Remove, dbvars
  <2>2. /\ \A d \in Conn : d # c => gone'[d] = gone[d]
        /\ gone'[c] = working[c]
        /\ \A u \in Sub : submission_map'[u] = IF u = working[c] THEN None ELSE submission_map[u]
    BY <1>0, <2>1, ConstantsAssumption DEF BTypeOK, TypeOK
  <2>3. ASSUME NEW u \in Sub, u # working[c] PROVE Undisturbed(u)
    BY <2>1, <2>2, <2>3, SameQueue DEF Undisturbed, AtDispatcher
  <2>4. ASSUME NEW u \in Sub, u = working[c] PROVE Handled(u)
    <3>1. u \in held[c]
      BY <1>0, <2>4 DEF Owned
    <3>2. /\ ~Queued(u) /\ status[u] # "none" /\ Started(u)
          /\ \A d \in Conn : todo[d].sub # u /\ gone[d] # u
          /\ \A p \in Site : ~Asks(p, u)
      BY <3>1, HeldIsDispatchers
    <3>3. ~AtDispatcher(u)'
      BY <2>1, <2>2, <2>4, <3>2, SameQueue DEF AtDispatcher
    <3>4. OneOwner(u)'
      BY <2>1, <2>2, <3>2, <3>3 DEF OneOwner, Asks
    <3>5. status[u] = "D" => score[u] = NCases
      BY SoleState DEF Orderly
    <3>6. SiteEnv \subseteq {"killed"} => status[u] \in InProgress
      BY <3>2, SoleState DEF Orderly, UnderWay
    <3> QED
      BY <2>1, <3>2, <3>4, <3>5, <3>6 DEF Handled
  <2>5. Rows'
    BY <1>0, <2>1, DeliverKeepsRows
  <2>6. Sums'
    BY <1>0, <2>1 DEF Sums
  <2> QED
    BY <2>1, <2>3, <2>4, <2>5, <2>6 DEF Proper
<1>4. CASE LeaveMark(c)
  <2>1. PICK s \in Sub : s = gone[c]
    BY <1>0, <1>4 DEF LeaveMark, BTypeOK
  <2>2. /\ status' = [status EXCEPT ![s] = "IE"]
        /\ gone' = [gone EXCEPT ![c] = None]
        /\ UNCHANGED <<queue, submission_map, held, cases, score, site, phase, graded, todo, bridge>>
    BY <1>4, <2>1 DEF LeaveMark, vars, judgevars
  <2>3. /\ \A d \in Conn : d # c => gone'[d] = gone[d]
        /\ gone'[c] = None
    BY <1>0, <2>2 DEF BTypeOK
  <2>4. ASSUME NEW u \in Sub, u # s PROVE Undisturbed(u)
    BY <1>0, <2>2, <2>3, <2>4, RestingTakesNothing, ConstantsAssumption DEF Undisturbed, BTypeOK
  <2>5. Handled(s)
    <3>1. /\ ~AtDispatcher(s)
          /\ \A p \in Site : ~Asks(p, s)
          /\ \A d \in Conn : todo[d].sub # s
          /\ \A d \in Conn : d # c => gone[d] # s
          /\ SiteEnv \subseteq {"killed"} => status[s] \in InProgress
      BY <2>1, InHandlersHands
    <3>2. /\ ~AtDispatcher(s)'
          /\ \A p \in Site : ~Asks(p, s)'
          /\ \A d \in Conn : todo'[d].sub # s /\ gone'[d] # s
      BY <2>2, <2>3, <3>1, RestingTakesNothing, ConstantsAssumption DEF Asks
    <3>3. OneOwner(s)' /\ ~Started(s)'
      BY <3>2 DEF OneOwner, Started, Asks
    <3>4. status'[s] = "IE"
      BY <1>0, <2>2 DEF BTypeOK
    <3> QED
      BY <3>1, <3>3, <3>4 DEF Handled, InProgress, Final
  <2>6. Rows'
    BY <1>0, <2>2 DEF Rows
  <2>7. Sums'
    BY <1>0, <2>2 DEF Sums
  <2> QED
    BY <2>2, <2>4, <2>5, <2>6, <2>7 DEF Proper
<1> QED
  BY <1>1, <1>2, <1>3, <1>4 DEF Handler

\* A step of the worker p about s.
LEMMA WorkerIsProper ==
    ASSUME BTypeOK, NEW p \in Site, NEW w, Does(p, w), NEW s \in Sub,
           UNCHANGED <<todo, gone>>,
           w.op \in {"update", "delete", "request"} => w.req.id = s,
           \A u \in Sub : u # s => /\ status'[u] = status[u] /\ score'[u] = score[u]
                                   /\ AtDispatcher(u)' => AtDispatcher(u),
           Undisturbed(s) \/ Handled(s)
    PROVE  Proper
<1>1. site'[p] = w /\ \A q \in Site : q # p => site'[q] = site[q]
  BY DEF Does, BTypeOK
<1>2. ASSUME NEW u \in Sub, u # s PROVE Undisturbed(u)
  BY <1>1, <1>2 DEF Undisturbed, Asks
<1> QED
  BY <1>2 DEF Proper

\* The submission the worker p asks for is nobody else's.
LEMMA InWorkersHands ==
    ASSUME FinalInv, Sole, NEW p \in Site, NEW s \in Sub, Asks(p, s)
    PROVE  /\ ~AtDispatcher(s) /\ status[s] # "none"
           /\ \A c \in Conn : todo[c].sub # s /\ gone[c] # s
           /\ \A q \in Site : q # p => ~Asks(q, s)
           /\ \A c \in Conn : s \notin held[c]
           /\ site[p].op # "update" /\ SiteEnv \subseteq {"killed"} => status[s] \in InProgress
<1>1. OneOwner(s) /\ (status[s] = "none" => NoOwner(s)) /\ (SiteEnv \subseteq {"killed"} => UnderWay)
  BY SoleState DEF Orderly
<1>2. site[p].op # "update" => Started(s)
  BY DEF Asks, Started
<1>3. \A c \in Conn : s \notin held[c]
  BY HeldIsDispatchers
<1> QED
  BY <1>1, <1>2, <1>3 DEF OneOwner, NoOwner, UnderWay

LEMMA StartsAreProper ==
    ASSUME FinalInv, Sole, NEW p \in Site, Starts(p)
    PROVE  /\ Proper /\ Rows' /\ Sums' /\ bridge' = bridge
           /\ SiteEnv \subseteq {"killed"} => \A q \in Site : site'[q].op \notin {"terminate", "mark"}
<1>0. /\ BTypeOK /\ Rows /\ Sums /\ "eager" \notin SiteEnv
      /\ SiteEnv \subseteq {"killed"} => \A q \in Site : site[q].op \notin {"terminate", "mark"}
  BY SoleState DEF Orderly, UnderWay
<1>1. ASSUME NEW r \in Requests, StartJudge(p, r)
      PROVE  /\ Proper /\ Rows' /\ Sums' /\ bridge' = bridge
             /\ SiteEnv \subseteq {"killed"} => \A q \in Site : site'[q].op \notin {"terminate", "mark"}
  <2>1. PICK s \in Sub : s = r.id
    BY ConstantsAssumption DEF Request
  <2>2. PICK w : w = [op |-> "update", req |-> r]
    OBVIOUS
  <2>3. /\ Does(p, w)
        /\ status' = [status EXCEPT ![s] = "QU"] \/ (status' = status /\ status[s] # "none")
        /\ NoOwner(s)
        /\ UNCHANGED <<queue, submission_map, held, cases, score, phase, graded, todo, gone, bridge>>
    <3>1. status[s] = "none" => NoOwner(s)
      BY SoleState DEF Orderly
    <3>2. Unattended(s) => NoOwner(s)
      BY DEF Unattended, NoOwner, AtDispatcher, IsFor, Asks
    <3> QED
      BY <1>0, <1>1, <2>1, <2>2, <3>1, <3>2 DEF StartJudge, vars, judgevars, procvars
  <2>4. site'[p] = w /\ \A q \in Site : q # p => site'[q] = site[q]
    BY <1>0, <2>3 DEF Does, BTypeOK
  <2>5. Handled(s)
    <3>1. /\ ~AtDispatcher(s)'
          /\ \A c \in Conn : todo'[c].sub # s /\ gone'[c] # s
          /\ \A q \in Site : q # p => ~Asks(q, s)'
      BY <2>3, <2>4, RestingTakesNothing DEF NoOwner, Asks
    <3>2. OneOwner(s)' /\ ~Started(s)'
      BY <2>2, <2>4, <3>1 DEF OneOwner, Started, Asks
    <3>3. status[s] = "D" => score[s] = NCases
      BY SoleState DEF Orderly
    <3>4. status'[s] = "QU" \/ (status'[s] = status[s] /\ status[s] # "none")
      BY <1>0, <2>3 DEF BTypeOK
    <3> QED
      BY <2>3, <3>2, <3>3, <3>4 DEF Handled
  <2>6. \A u \in Sub : u # s => /\ status'[u] = status[u] /\ score'[u] = score[u]
                                /\ AtDispatcher(u)' => AtDispatcher(u)
    BY <1>0, <2>3, RestingTakesNothing DEF BTypeOK
  <2>7. Proper
    BY <1>0, <2>1, <2>2, <2>3, <2>5, <2>6, WorkerIsProper
  <2> QED
    BY <1>0, <2>2, <2>3, <2>4, <2>7 DEF Rows, Sums
<1>2. ASSUME NEW w, Does(p, w), w.op \notin {"update", "delete", "request"},
             "abort" \in SiteEnv \/ w.op \notin {"terminate", "mark"},
             UNCHANGED <<vars, dbvars, judgevars, procvars>>
      PROVE  /\ Proper /\ Rows' /\ Sums' /\ bridge' = bridge
             /\ SiteEnv \subseteq {"killed"} => \A q \in Site : site'[q].op \notin {"terminate", "mark"}
  <2>1. site'[p] = w /\ \A q \in Site : q # p => site'[q] = site[q]
    BY <1>0, <1>2 DEF Does, BTypeOK
  <2>2. UNCHANGED <<queue, submission_map, held, status, cases, score, phase, graded, todo, gone, bridge>>
    BY <1>2 DEF vars, dbvars, judgevars, procvars
  <2>3. Proper
    BY <1>2, <2>1, <2>2, RestingTakesNothing DEF Proper, Undisturbed, Asks
  <2>4. Rows' /\ Sums'
    BY <1>0, <2>2 DEF Rows, Sums
  <2> QED
    BY <1>0, <1>2, <2>1, <2>2, <2>3, <2>4
<1>3. ASSUME NEW s \in Sub, StartAbort(p, s)
      PROVE  \E w : /\ Does(p, w) /\ w.op \notin {"update", "delete", "request"}
                    /\ "abort" \in SiteEnv
                    /\ UNCHANGED <<vars, dbvars, judgevars, procvars>>
  <2>1. [op |-> "terminate", sub |-> s].op \notin {"update", "delete", "request"}
    OBVIOUS
  <2> QED
    BY <1>3, <2>1, Zenon DEF StartAbort
<1>4. CASE SiteKilled(p)
  BY <1>2, <1>4 DEF SiteKilled, NoWork
<1> QED
  BY <1>1, <1>2, <1>3, <1>4 DEF Starts

\* judge() takes only the submission it is called for.
LEMMA JudgeTakesOne ==
    ASSUME FinalInv, Sole, NEW r \in Requests, Judge(r)
    PROVE  \A u \in Sub : u # r.id => (AtDispatcher(u)' => AtDispatcher(u))
<1> DEFINE e == [id |-> r.id, judge_id |-> r.judge_id]
<1>1. /\ QueueType /\ QueuedOnce /\ judges \subseteq Conn /\ MapType(submission_map) /\ r.id \in Sub
  BY SoleState, ConstantsAssumption DEF Request
<1>2. \/ queue' = [queue EXCEPT ![r.priority] = Append(@, e)] /\ submission_map' = submission_map
      \/ /\ queue' = queue
         /\ \E j : submission_map' = [submission_map EXCEPT ![r.id] = j]
  BY DEF Judge, Submit
<1>3. r.priority \in Priorities /\ e \in Entry /\ e.id = r.id /\ ~Queued(r.id)
  BY ConstantsAssumption DEF Request, Entry, Judge
<1> HIDE DEF e
<1>4. CASE queue' = [queue EXCEPT ![r.priority] = Append(@, e)] /\ submission_map' = submission_map
  <2>1. \A u : Queued(u)' <=> Queued(u) \/ u = e.id
    BY <1>1, <1>3, <1>4, AppendNodeEffect
  <2> QED
    BY <1>3, <1>4, <2>1 DEF AtDispatcher
<1>5. CASE queue' = queue /\ \E j : submission_map' = [submission_map EXCEPT ![r.id] = j]
  BY <1>1, <1>5, SameQueue DEF AtDispatcher, MapType
<1> QED
  BY <1>2, <1>4, <1>5

LEMMA WorkersAreProper ==
    ASSUME FinalInv, Sole, NEW p \in Site, Worker(p)
    PROVE  /\ Proper /\ Rows' /\ Sums' /\ bridge' = bridge
           /\ SiteEnv \subseteq {"killed"} => \A q \in Site : site'[q].op \notin {"terminate", "mark"}
<1>0. /\ BTypeOK /\ TypeOK /\ Rows /\ Sums /\ bridge = "up" /\ site[p] \in Work
      /\ QueueType /\ QueuedOnce
      /\ SiteEnv \subseteq {"killed"} => \A q \in Site : site[q].op \notin {"terminate", "mark"}
  BY SoleState DEF Orderly, UnderWay, BTypeOK
<1>1. ASSUME NEW w, Does(p, w)
      PROVE  site'[p] = w /\ \A q \in Site : q # p => site'[q] = site[q]
  BY <1>0, <1>1 DEF Does, BTypeOK
<1>2. ASSUME NEW w, Does(p, w), w.op \notin {"terminate", "mark"}
      PROVE  SiteEnv \subseteq {"killed"} => \A q \in Site : site'[q].op \notin {"terminate", "mark"}
  BY <1>0, <1>1, <1>2
<1>3. NoWork.op = "none"
  BY DEF NoWork
<1>4. CASE SiteUpdate(p)
  <2>1. PICK s \in Sub, r \in Requests : r = site[p].req /\ s = r.id
    BY <1>0, <1>4, WorkParts DEF SiteUpdate
  <2>2. PICK w : w = [op |-> "delete", req |-> r]
    OBVIOUS
  <2>3. /\ site[p].op = "update"
        /\ \/ Does(p, NoWork) /\ UNCHANGED <<status, score>>
           \/ /\ status' = [status EXCEPT ![s] = "QU"] /\ score' = [score EXCEPT ![s] = None]
              /\ Does(p, w)
        /\ UNCHANGED <<queue, submission_map, held, cases, phase, graded, todo, gone, bridge>>
    BY <1>4, <2>1, <2>2 DEF SiteUpdate, vars, judgevars, procvars
  <2>4. Rows' /\ Sums'
    BY <1>0, <2>3 DEF Rows, Sums
  <2>5. CASE Does(p, NoWork) /\ UNCHANGED <<status, score>>
    <3>1. \A u \in Sub : Undisturbed(u)
      BY <1>1, <1>3, <2>3, <2>5, RestingTakesNothing DEF Undisturbed, Asks
    <3> QED
      BY <1>2, <1>3, <2>3, <2>4, <2>5, <3>1 DEF Proper
  <2>6. CASE /\ status' = [status EXCEPT ![s] = "QU"] /\ score' = [score EXCEPT ![s] = None]
             /\ Does(p, w)
    <3>1. site'[p] = w /\ \A q \in Site : q # p => site'[q] = site[q]
      BY <1>1, <2>6
    <3>2. Asks(p, s)
      BY <2>1, <2>3 DEF Asks
    <3>3. /\ ~AtDispatcher(s)'
          /\ \A c \in Conn : todo'[c].sub # s /\ gone'[c] # s
          /\ \A q \in Site : q # p => ~Asks(q, s)'
      BY <2>3, <3>1, <3>2, InWorkersHands, RestingTakesNothing DEF Asks
    <3>4. OneOwner(s)'
      BY <3>3 DEF OneOwner
    <3>5. status'[s] = "QU"
      BY <1>0, <2>6 DEF BTypeOK
    <3>6. Handled(s)
      BY <3>4, <3>5 DEF Handled, InProgress
    <3>7. \A u \in Sub : u # s => /\ status'[u] = status[u] /\ score'[u] = score[u]
                                  /\ AtDispatcher(u)' => AtDispatcher(u)
      BY <1>0, <2>3, <2>6, RestingTakesNothing DEF BTypeOK
    <3>8. Proper
      BY <1>0, <2>1, <2>2, <2>3, <2>6, <3>6, <3>7, WorkerIsProper
    <3> QED
      BY <1>2, <2>2, <2>3, <2>4, <2>6, <3>8
  <2> QED
    BY <2>3, <2>5, <2>6
<1>5. CASE SiteDelete(p)
  <2>1. PICK s \in Sub, r \in Requests : r = site[p].req /\ s = r.id
    BY <1>0, <1>5, WorkParts DEF SiteDelete
  <2>2. PICK w : w = [op |-> "request", req |-> r]
    OBVIOUS
  <2>3. /\ site[p].op = "delete" /\ Does(p, w)
        /\ cases' = [cases EXCEPT ![s] = 0]
        /\ UNCHANGED <<queue, submission_map, held, status, score, phase, graded, todo, gone, bridge>>
    BY <1>5, <2>1, <2>2 DEF SiteDelete, vars, judgevars, procvars
  <2>4. site'[p] = w /\ \A q \in Site : q # p => site'[q] = site[q]
    BY <1>1, <2>3
  <2>5. Asks(p, s)
    BY <2>1, <2>3 DEF Asks
  <2>6. Rows' /\ Sums'
    <3>1. phase[s] = "none" /\ \A c \in Conn : todo[c].sub # s
      BY <1>0, <2>5, InWorkersHands DEF Rows
    <3>2. \A u \in Sub : u # s => cases'[u] = cases[u]
      BY <1>0, <2>3 DEF BTypeOK
    <3>3. \A c \in Conn : todo[c].op = "read" => todo[c].sub \in Sub
      BY <1>0, TodoParts DEF BTypeOK
    <3> QED
      BY <1>0, <2>3, <3>1, <3>2, <3>3 DEF Rows, Sums
  <2>7. Handled(s)
    <3>1. /\ ~AtDispatcher(s)'
          /\ \A c \in Conn : todo'[c].sub # s /\ gone'[c] # s
          /\ \A q \in Site : q # p => ~Asks(q, s)'
      BY <2>3, <2>4, <2>5, InWorkersHands, RestingTakesNothing DEF Asks
    <3>2. OneOwner(s)'
      BY <3>1 DEF OneOwner
    <3>3. /\ status[s] # "none"
          /\ SiteEnv \subseteq {"killed"} => status[s] \in InProgress
      BY <2>3, <2>5, InWorkersHands
    <3>4. status[s] = "D" => score[s] = NCases
      BY SoleState DEF Orderly
    <3> QED
      BY <2>3, <3>2, <3>3, <3>4 DEF Handled
  <2>8. \A u \in Sub : u # s => /\ status'[u] = status[u] /\ score'[u] = score[u]
                                /\ AtDispatcher(u)' => AtDispatcher(u)
    BY <2>3, RestingTakesNothing
  <2>9. Proper
    BY <1>0, <2>1, <2>2, <2>3, <2>7, <2>8, WorkerIsProper
  <2> QED
    BY <1>2, <2>2, <2>3, <2>6, <2>9
<1>6. CASE SiteRequest(p)
  <2>1. PICK s \in Sub, r \in Requests : r = site[p].req /\ s = r.id
    BY <1>0, <1>6, WorkParts DEF SiteRequest
  <2>2. /\ site[p].op = "request" /\ Does(p, NoWork)
        /\ (Judge(r) /\ Deliver) \/ UNCHANGED <<vars, judgevars>>
        /\ UNCHANGED <<status, cases, score, todo, gone, bridge>>
    BY <1>0, <1>6, <2>1 DEF SiteRequest, procvars
  <2>3. site'[p] = NoWork /\ \A q \in Site : q # p => site'[q] = site[q]
    BY <1>1, <2>2
  <2>4. Asks(p, s)
    BY <2>1, <2>2 DEF Asks
  <2>5. Rows'
    <3>1. CASE Deliver
      BY <1>0, <2>2, <3>1, DeliverKeepsRows
    <3>2. CASE UNCHANGED <<vars, judgevars>>
      BY <1>0, <2>2, <3>2 DEF Rows, vars, judgevars
    <3> QED
      BY <2>2, <3>1, <3>2
  <2>6. Sums'
    BY <1>0, <2>2 DEF Sums
  <2>7. Handled(s)
    <3>1. \A q \in Site : ~Asks(q, s)'
      <4>1. \A q \in Site : q # p => ~Asks(q, s)
        BY <2>4, InWorkersHands
      <4> QED
        BY <1>3, <2>3, <4>1 DEF Asks
    <3>2. \A c \in Conn : todo'[c].sub # s /\ gone'[c] # s
      BY <2>2, <2>4, InWorkersHands
    <3>3. OneOwner(s)'
      BY <3>1, <3>2 DEF OneOwner
    <3>4. /\ status[s] # "none"
          /\ SiteEnv \subseteq {"killed"} => status[s] \in InProgress
      BY <2>2, <2>4, InWorkersHands
    <3>5. status[s] = "D" => score[s] = NCases
      BY SoleState DEF Orderly
    <3> QED
      BY <2>2, <3>3, <3>4, <3>5 DEF Handled
  <2>8. \A u \in Sub : u # s => (AtDispatcher(u)' => AtDispatcher(u))
    <3>1. CASE Judge(r)
      BY <2>1, <3>1, JudgeTakesOne
    <3>2. CASE UNCHANGED vars
      BY <3>2, RestingTakesNothing DEF vars
    <3> QED
      BY <2>2, <3>1, <3>2
  <2>9. Proper
    BY <1>0, <1>3, <2>2, <2>7, <2>8, WorkerIsProper
  <2> QED
    BY <1>2, <1>3, <2>2, <2>5, <2>6, <2>9
<1>7. CASE SiteTerminate(p)
  <2>1. PICK s \in Sub : s = site[p].sub
    BY <1>0, <1>7, WorkParts DEF SiteTerminate
  <2>2. /\ site[p].op = "terminate"
        /\ \E w : Does(p, w) /\ w.op \notin {"update", "delete", "request"}
        /\ Abort(s) \/ UNCHANGED vars
        /\ UNCHANGED <<status, cases, score, phase, graded, todo, gone, bridge>>
    <3>1. [op |-> "mark", sub |-> s].op \notin {"update", "delete", "request"}
      OBVIOUS
    <3> QED
      BY <1>3, <1>7, <2>1, <3>1 DEF SiteTerminate, dbvars, judgevars, procvars
  <2>3. ~(SiteEnv \subseteq {"killed"})
    BY <1>0, <2>2
  <2>4. held' = held /\ \A u \in Sub : AtDispatcher(u)' => AtDispatcher(u)
    <3>1. CASE Abort(s)
      <4>1. PICK n \in Nodes : queue' = RemoveNode(n[1], n[2])
        BY <3>1 DEF Abort
      <4>2. \A u : Queued(u)' => Queued(u)
        BY <1>0, <4>1, RemoveNodeEffect
      <4> QED
        BY <3>1, <4>2 DEF Abort, AtDispatcher
    <3>2. CASE UNCHANGED vars
      BY <3>2, RestingTakesNothing DEF vars
    <3> QED
      BY <2>2, <3>1, <3>2
  <2>5. Rows' /\ Sums'
    BY <1>0, <2>2, <2>4 DEF Rows, Sums
  <2>6. PICK w : Does(p, w) /\ w.op \notin {"update", "delete", "request"}
    BY <2>2
  <2>7. site'[p] = w /\ \A q \in Site : q # p => site'[q] = site[q]
    BY <1>1, <2>6
  <2>8. Proper
    BY <2>2, <2>4, <2>6, <2>7 DEF Proper, Undisturbed, Asks
  <2> QED
    BY <2>2, <2>3, <2>5, <2>8
<1>8. CASE SiteMark(p)
  <2>1. PICK s \in Sub : s = site[p].sub
    BY <1>0, <1>8, WorkParts DEF SiteMark
  <2>2. /\ site[p].op = "mark" /\ Does(p, NoWork)
        /\ status' = [status EXCEPT ![s] = "AB"] /\ score' = [score EXCEPT ![s] = 0]
        /\ UNCHANGED <<queue, submission_map, held, cases, phase, graded, todo, gone, bridge>>
    BY <1>8, <2>1 DEF SiteMark, vars, judgevars, procvars
  <2>3. site'[p] = NoWork /\ \A q \in Site : q # p => site'[q] = site[q]
    BY <1>1, <2>2
  <2>4. ~(SiteEnv \subseteq {"killed"})
    BY <1>0, <2>2
  <2>5. Rows' /\ Sums'
    BY <1>0, <2>2 DEF Rows, Sums
  <2>6. Handled(s)
    <3>1. OneOwner(s)
      BY SoleState DEF Orderly
    <3>2. \A q \in Site : Asks(q, s)' => Asks(q, s)
      BY <1>3, <2>3 DEF Asks
    <3>3. OneOwner(s)'
      BY <2>2, <3>1, <3>2, RestingTakesNothing DEF OneOwner
    <3>4. status'[s] = "AB"
      BY <1>0, <2>2 DEF BTypeOK
    <3> QED
      BY <2>4, <3>3, <3>4 DEF Handled
  <2>7. \A u \in Sub : u # s => /\ status'[u] = status[u] /\ score'[u] = score[u]
                                /\ AtDispatcher(u)' => AtDispatcher(u)
    BY <1>0, <2>2, RestingTakesNothing DEF BTypeOK
  <2>8. Proper
    BY <1>0, <1>3, <2>2, <2>6, <2>7, WorkerIsProper
  <2> QED
    BY <2>2, <2>4, <2>5, <2>8
<1> QED
  BY <1>4, <1>5, <1>6, <1>7, <1>8 DEF Worker

LEMMA BNextIsProper ==
    ASSUME FinalInv, Sole, [BNext]_bvars
    PROVE  /\ Proper /\ Rows' /\ Sums' /\ bridge' = "up"
           /\ SiteEnv \subseteq {"killed"} => \A p \in Site : site'[p].op \notin {"terminate", "mark"}
<1>0. /\ bridge = "up" /\ Rows /\ Sums /\ "restart" \notin Env
      /\ SiteEnv \subseteq {"killed"} => \A p \in Site : site[p].op \notin {"terminate", "mark"}
  BY SoleState DEF Orderly, UnderWay
<1>1. ASSUME Admin \/ HolderThread \/ \E c \in Conn : HandlerThread(c) \/ JudgeSide(c)
      PROVE  Proper /\ Rows' /\ Sums' /\ UNCHANGED <<site, bridge>>
  <2>1. OnlyDispatcher /\ \A u \in Sub : AtDispatcher(u)' => AtDispatcher(u)
    BY <1>1, DispatcherTakesNothing
  <2> QED
    BY <2>1, DispatcherIsProper DEF OnlyDispatcher, procvars
<1>2. CASE UNCHANGED bvars
  <2>1. UNCHANGED <<queue, submission_map, held, status, cases, score, site, phase, graded, todo, gone, bridge>>
    BY <1>2 DEF bvars, vars, dbvars, judgevars, procvars
  <2>2. Proper
    BY <2>1, RestingTakesNothing DEF Proper, Undisturbed
  <2> QED
    BY <1>0, <2>1, <2>2 DEF Rows, Sums
<1>3. CASE Process
  BY <1>0, <1>3 DEF Process, Crash, Restart, Boot, BootJudge, Listen
<1> QED
  BY <1>0, <1>1, <1>2, <1>3, PacketsAreProper, HandlerIsProper, StartsAreProper, WorkersAreProper,
     Zenon DEF BNext

LEMMA BNextKeepsFinalInv == FinalInv /\ [BNext]_bvars => FinalInv'
<1> SUFFICES ASSUME FinalInv, [BNext]_bvars PROVE FinalInv'
  OBVIOUS
<1>1. BTypeInv'
  BY BNextKeepsTypes DEF FinalInv
<1>2. Sole => Orderly'
  BY BNextIsProper, ProperStep DEF FinalInv
<1> QED
  BY <1>1, <1>2 DEF FinalInv, Sole, Without

\* The points of a graded submission count every one of its cases, however the
\* packets of its judges, rejudges, aborts and dying web workers interleave:
\* nobody deletes or adds rows between the last packet and the sum.
THEOREM ScoreCountsAll == BSpec => []ResultComplete
<1>1. BSpec => []FinalInv
  BY InitFinalInv, BNextKeepsFinalInv, PTL DEF BSpec
<1>2. FinalInv => ResultComplete
  BY DEF FinalInv, Orderly, ResultComplete, Sole
<1> QED
  BY <1>1, <1>2, PTL

\* No late packet, leaving judge or dying worker takes back a verdict: only
\* judge_submission moves a final status, and only to "QU".
THEOREM VerdictStays == BSpec => FinalUntilRejudge
<1>1. BSpec => []FinalInv
  BY InitFinalInv, BNextKeepsFinalInv, PTL DEF BSpec
<1>2. FinalInv /\ [BNext]_bvars =>
        [Without(Raising \cup {"stale_kick", "restart"}) /\ SiteEnv \subseteq {"killed"} =>
            \A s \in Sub : status[s] \in Final => status'[s] \in {status[s], "QU"}]_bvars
  <2> SUFFICES ASSUME FinalInv, [BNext]_bvars,
                      Without(Raising \cup {"stale_kick", "restart"}), SiteEnv \subseteq {"killed"}
               PROVE  \A s \in Sub : status[s] \in Final => status'[s] \in {status[s], "QU"}
    OBVIOUS
  <2>1. Sole
    BY DEF Sole
  <2>2. Orderly
    BY <2>1 DEF FinalInv
  <2> QED
    BY <2>1, <2>2, BNextIsProper, ProperStep
<1> QED
  BY <1>1, <1>2, PTL DEF BSpec, FinalUntilRejudge
=============================================================================
