--------------------------- MODULE GuardLintProofs ---------------------------
(***************************************************************************)
(* Theorems about GuardLint for any number of checks.                      *)
(***************************************************************************)
EXTENDS GuardLint, TLAPS, FiniteSetTheorems, SequenceTheorems

(* The arithmetic of the bound on the steps.                                *)
LEMMA LessStage ==
  ASSUME NEW c \in Int, NEW x \in Int, NEW s \in Int, NEW t \in Int,
         NEW w, w = 67 * (c - x) + 9 * s, NEW w1, w1 = 67 * (c - x) + 9 * t, t < s
  PROVE  w1 <= w - 9
OBVIOUS

LEMMA OneMoreCheck ==
  ASSUME NEW c \in Int, NEW x \in Int, NEW s \in Int, s <= 6,
         NEW w, w = 67 * (c - x) + 9 * 0, NEW w1, w1 = 67 * (c - (x + 1)) + 9 * s
  PROVE  w1 <= w - 13
OBVIOUS

(* What a step does to the caller's part c, the messages q, the server's    *)
(* part v, the solver's z, the lines' o and the ends' e: a new check, a step *)
(* of the caller; a query taken, an end, a line, an answer; the death of Z3 *)
(* and its notice; an end told.                                             *)
Trade(c, q, v, z, o, e, c1, q1, v1, z1, o1, e1) ==
  \/ c1 <= c - 13 /\ q1 = 0 /\ v1 <= 2 /\ z1 <= 10 /\ o1 = 0 /\ e1 = e
  \/ c1 <= c - 9 /\ q1 <= q + 1 /\ v1 = v /\ z1 = z /\ o1 = o /\ e1 = e
  \/ c1 = c /\ q1 = q - 1 /\ v1 = v + 1 /\ z1 = z /\ o1 <= o + 6 /\ e1 = e
  \/ c1 = c /\ q1 = 0 /\ v1 = v - 2 /\ z1 <= z /\ o1 = o /\ e1 <= e + 1
  \/ c1 = c /\ q1 = q /\ v1 = v /\ z1 = z /\ o1 = o - 1 /\ e1 = e
  \/ c1 = c /\ q1 <= q /\ v1 = v - 1 /\ z1 = z /\ o1 <= o /\ e1 = e
  \/ c1 = c /\ q1 = q /\ v1 = v /\ z1 = z - 1 /\ o1 = o /\ e1 = e
  \/ c1 = c /\ q1 = q + 1 /\ v1 = v /\ z1 = z - 9 /\ o1 = o /\ e1 = e
  \/ c1 <= c /\ q1 = q /\ v1 = v /\ z1 = z /\ o1 = o /\ e1 = e - 1

LEMMA EachTradeLoses ==
  ASSUME NEW c \in Int, NEW q \in Nat, NEW v \in Nat, NEW z \in Nat,
         NEW o \in Nat, NEW e \in Int, NEW c1 \in Int, NEW q1 \in Int,
         NEW v1 \in Int, NEW z1 \in Int, NEW o1 \in Int, NEW e1 \in Int,
         Trade(c, q, v, z, o, e, c1, q1, v1, z1, o1, e1)
  PROVE  c1 + 8 * q1 + v1 + z1 + o1 + e1 < c + 8 * q + v + z + o + e
BY DEF Trade

USE ChecksAssumption, TruthAssumption

(* The elaborator's call and stop each have one monitor, set while the      *)
(* server is alive.                                                         *)
Monitored ==
  /\ pc = "off" \/ pc = "killed" \/ (current \in Names /\ trap = TRUE)
  /\ awaits = "reply" <=> pc = "calling"
  /\ awaits = "down" <=> pc = "stopping"
  /\ awaits = "no" => news = "no"
  /\ awaits = "down" => news \in {"no", "down"}
  /\ news = "down" => ~Alive

(* A server that is alive is the last one started, and the elaborator is in *)
(* the check that started it; those to come have sent nothing.              *)
LastStarted ==
  /\ Alive => current \in Names /\ dying[current] = "no"
              /\ current \notin exits /\ current \notin seen
  /\ Alive => pc \in {"query", "calling", "stop", "stopping"}
  /\ \A k \in Names : k > current =>
       dying[k] = "no" /\ k \notin exits /\ k \notin seen

(* A server whose end was seen has nothing more to send, and its exit       *)
(* message is gone after the drain.                                         *)
Witnessed ==
  \A k \in seen :
    /\ dying[k] = "no"
    /\ pc \in {"restore", "off", "killed"} \/ k < current => k \notin exits

(* What the server reads, replies and the elaborator holds is about its own *)
(* question.                                                                *)
Owed(k) == {Truth[k], "unknown"}

OwnAnswer ==
  /\ server = "busy" => text \in Outputs(current)
  /\ news \in Verdicts => news = Truth[current]
  /\ pc \notin {"off", "killed"} => held \in Owed(current)

Inv == TypeOK /\ Monitored /\ LastStarted /\ Witnessed /\ OwnAnswer

-----------------------------------------------------------------------------
(* A reply is a class, and when it is a verdict it is the one owed.         *)
LEMMA ReplyOwed ==
  ASSUME NEW k \in Names, NEW lines \in Outputs(k), NEW n \in Nat,
         lines[n + 1] = "end"
  PROVE  /\ Classify([i \in 1..n |-> lines[i]]) \in Classes
         /\ Classify([i \in 1..n |-> lines[i]]) \in Verdicts =>
              Classify([i \in 1..n |-> lines[i]]) = Truth[k]
<1> DEFINE out == [i \in 1..n |-> lines[i]]
<1>1. lines[1] \in {Truth[k], "unknown", "error"}
  BY DEF Outputs, Names
<1>2. Truth[k] \in Verdicts
  BY DEF Names, Verdicts
<1>3. n >= 1
  BY <1>1, <1>2 DEF Verdicts
<1>4. out[1] = lines[1]
  BY <1>3
<1>5. Classify(out) \in {Truth[k], "unknown", "error"}
  BY <1>1, <1>4 DEF Classify
<1> QED
  BY <1>2, <1>5 DEF Classes, Verdicts

LEMMA ShortSeqs ==
  ASSUME NEW S, NEW a \in S, NEW b \in S, NEW c \in S
  PROVE  <<a, b>> \in Seq(S) /\ <<a, b, c>> \in Seq(S)
OBVIOUS

LEMMA OutputsTyped ==
  ASSUME NEW k \in Names
  PROVE  Outputs(k) \subseteq Seq(Printed)
<1>1. {Truth[k], "unknown", "error", "end", "sat", "unsat"} \subseteq Printed
  BY DEF Names, Verdicts, Classes, Printed
<1>2. \A v \in {Truth[k], "unknown"} : <<v, "end">> \in Seq(Printed)
  BY <1>1, ShortSeqs
<1>3. \A v \in Verdicts : <<"error", v, "end">> \in Seq(Printed)
  BY <1>1, ShortSeqs DEF Verdicts
<1> QED
  BY <1>2, <1>3 DEF Outputs

LEMMA InboxGrows ==
  ASSUME NEW q \in Seq(Messages), NEW m \in Messages
  PROVE  Append(q, m) \in Seq(Messages)
OBVIOUS

THEOREM InvInit == Init => Inv
<1> SUFFICES ASSUME Init PROVE Inv
  OBVIOUS
<1> USE DEF Init
<1>1. TypeOK
  BY DEF TypeOK, Names, Answers, Verdicts, Classes, Reasons
<1>2. Monitored /\ LastStarted /\ Witnessed
  BY DEF Monitored, LastStarted, Witnessed, Alive, Names
<1>3. OwnAnswer
  BY DEF OwnAnswer, Verdicts
<1> QED
  BY <1>1, <1>2, <1>3 DEF Inv

-----------------------------------------------------------------------------
(* The steps of the elaborator.                                             *)
LEMMA CallerKeeps ==
  ASSUME Inv, CallerStep
  PROVE  Inv'
<1> USE DEF Inv, Verdicts
<1>1. CASE Start
  <2> USE <1>1 DEF Start, StartServer, told
  <2>1. TypeOK'
    <3>1. current' \in 0..Checks
      BY DEF TypeOK
    <3>2. inbox' \in Seq(Messages) /\ text' \in Seq(Printed)
      OBVIOUS
    <3>3. written' \in Nat /\ read' \in 0..written'
      OBVIOUS
    <3>4. server' \in {"idle", "gone"} /\ closed' \in BOOLEAN
          /\ solver' \in {"up", "none"} /\ pc' \in {"query", "restore"}
          /\ trap' \in BOOLEAN /\ prior' \in BOOLEAN /\ held' \in Answers
      BY DEF TypeOK, Answers
    <3> QED
      BY <3>1, <3>2, <3>3, <3>4 DEF TypeOK, signals
  <2>2. current' \in Names /\ current' = current + 1 /\ current \in Nat
    BY DEF TypeOK, Names
  <2>3. Monitored'
    BY <2>2 DEF Monitored, Alive, TypeOK
  <2>4. LastStarted'
    BY <2>2 DEF LastStarted, Alive, TypeOK, signals, Names
  <2>5. Witnessed'
    BY <2>2 DEF Witnessed, TypeOK, signals, Names, LastStarted
  <2>6. OwnAnswer'
    BY DEF OwnAnswer, Monitored, Owed, TypeOK
  <2> QED
    BY <2>1, <2>3, <2>4, <2>5, <2>6
<1>2. CASE Query
  <2> USE <1>2 DEF Query, Ask, process, flags, signals, z3
  <2>0. Append(inbox, "query") \in Seq(Messages)
    BY InboxGrows DEF TypeOK, Messages
  <2>1. TypeOK'
    BY <2>0 DEF TypeOK
  <2>2. Monitored' /\ LastStarted' /\ Witnessed' /\ OwnAnswer'
    BY DEF Monitored, LastStarted, Witnessed, OwnAnswer, Alive, TypeOK
  <2> QED
    BY <2>1, <2>2
<1>3. CASE TakeReply
  <2> USE <1>3 DEF TakeReply, process, flags, signals, z3
  <2>1. TypeOK'
    BY DEF TypeOK, Answers
  <2>2. Monitored' /\ LastStarted' /\ Witnessed'
    BY DEF Monitored, LastStarted, Witnessed, Alive, TypeOK
  <2>3. OwnAnswer'
    BY DEF OwnAnswer, Owed
  <2> QED
    BY <2>1, <2>2, <2>3
<1>4. CASE CallTimeout
  <2> USE <1>4 DEF CallTimeout, process, flags, signals, z3
  <2>1. TypeOK'
    BY DEF TypeOK
  <2>2. Monitored' /\ LastStarted' /\ Witnessed' /\ OwnAnswer'
    BY DEF Monitored, LastStarted, Witnessed, OwnAnswer, Alive, TypeOK
  <2> QED
    BY <2>1, <2>2
<1>5. CASE Stop
  <2> USE <1>5 DEF Stop, Ask, process, flags, signals, z3
  <2>0. Append(inbox, "stop") \in Seq(Messages)
    BY InboxGrows DEF TypeOK, Messages
  <2>1. TypeOK'
    BY <2>0 DEF TypeOK
  <2>2. Monitored' /\ LastStarted' /\ Witnessed' /\ OwnAnswer'
    BY DEF Monitored, LastStarted, Witnessed, OwnAnswer, Alive, TypeOK
  <2> QED
    BY <2>1, <2>2
<1>6. CASE Stopped
  <2> USE <1>6 DEF Stopped, process, flags, signals, z3
  <2>1. TypeOK'
    BY DEF TypeOK
  <2>2. Monitored' /\ LastStarted' /\ Witnessed' /\ OwnAnswer'
    BY DEF Monitored, LastStarted, Witnessed, OwnAnswer, Alive, TypeOK
  <2> QED
    BY <2>1, <2>2
<1>7. CASE Drain
  <2> USE <1>7 DEF Drain, pvars, client, told, z3, flags
  <2>1. TypeOK'
    BY DEF TypeOK
  <2>2. ~Alive
    BY DEF LastStarted
  <2>3. Monitored' /\ LastStarted' /\ OwnAnswer'
    BY <2>2 DEF Monitored, LastStarted, OwnAnswer, Alive, TypeOK
  <2>4. \A k \in seen : k <= current
    BY DEF LastStarted, TypeOK, Names
  <2>5. Witnessed'
    BY <2>4 DEF Witnessed, TypeOK, Names
  <2> QED
    BY <2>1, <2>3, <2>5
<1>8. CASE Restore
  <2> USE <1>8 DEF Restore, pvars, client, told, z3, signals
  <2>1. TypeOK'
    BY DEF TypeOK, Monitored
  <2>2. Monitored' /\ LastStarted' /\ Witnessed' /\ OwnAnswer'
    BY DEF Monitored, LastStarted, Witnessed, OwnAnswer, Alive, TypeOK
  <2> QED
    BY <2>1, <2>2
<1> QED
  BY <1>1, <1>2, <1>3, <1>4, <1>5, <1>6, <1>7, <1>8 DEF CallerStep

-----------------------------------------------------------------------------
(* The steps of the server.  The end of the server is common to three.      *)
LEMMA EndKeeps ==
  ASSUME Inv, Alive, UNCHANGED caller, NEW r \in Reasons, EndServer(r)
  PROVE  Inv'
<1> USE DEF Inv, EndServer, caller, flags, signals, client, z3
<1>1. TypeOK'
  <2>1. <<>> \in Seq(Messages)
    OBVIOUS
  <2>2. dying' \in [Names -> Reasons \cup {"no"}]
    BY DEF TypeOK
  <2> QED
    BY <2>1, <2>2 DEF TypeOK
<1>2. Monitored'
  BY DEF Monitored, Alive
<1>3. LastStarted' /\ Witnessed'
  BY DEF LastStarted, Witnessed, Alive, TypeOK, Names
<1>4. OwnAnswer'
  BY DEF OwnAnswer
<1> QED
  BY <1>1, <1>2, <1>3, <1>4

LEMMA TailTyped ==
  ASSUME NEW q \in Seq(Messages), q # <<>>
  PROVE  Tail(q) \in Seq(Messages)
OBVIOUS

LEMMA CutTyped ==
  ASSUME NEW q \in Seq(Messages), NEW i \in 1..Len(q)
  PROVE  SubSeq(q, 1, i - 1) \o SubSeq(q, i + 1, Len(q)) \in Seq(Messages)
<1>1. SubSeq(q, 1, i - 1) \in Seq(Messages)
  OBVIOUS
<1>2. SubSeq(q, i + 1, Len(q)) \in Seq(Messages)
  OBVIOUS
<1> QED
  BY <1>1, <1>2

LEMMA ServerKeeps ==
  ASSUME Inv, ServerStep, UNCHANGED caller
  PROVE  Inv'
<1> USE DEF Inv, caller, flags, signals, client, z3, told
<1>1. CASE HandleQuery
  <2> USE <1>1 DEF HandleQuery
  <2>1. current \in Names
    BY DEF LastStarted, Alive
  <2>2. Tail(inbox) \in Seq(Messages) /\ text' \in Seq(Printed)
    BY <2>1, TailTyped, OutputsTyped DEF TypeOK
  <2>3. TypeOK'
    BY <2>2 DEF TypeOK
  <2>4. Monitored' /\ LastStarted' /\ Witnessed' /\ OwnAnswer'
    BY DEF Monitored, LastStarted, Witnessed, OwnAnswer, Alive
  <2> QED
    BY <2>3, <2>4
<1>2. CASE QueryFails \/ UnhandledExit \/ HandleStop
  BY <1>2, EndKeeps DEF QueryFails, UnhandledExit, HandleStop, Reasons, Alive
<1>3. CASE CollectLine \/ IgnoreLine
  <2> USE <1>3 DEF CollectLine, IgnoreLine
  <2>1. TypeOK'
    BY DEF TypeOK
  <2>2. Monitored' /\ LastStarted' /\ Witnessed' /\ OwnAnswer'
    BY DEF Monitored, LastStarted, Witnessed, OwnAnswer, Alive
  <2> QED
    BY <2>1, <2>2
<1>4. CASE CollectEnd
  <2> USE <1>4 DEF CollectEnd, Reply
  <2>1. current \in Names /\ text \in Outputs(current)
    BY DEF LastStarted, Alive, OwnAnswer
  <2>2. read \in Nat
    BY DEF TypeOK
  <2>3. /\ Classify(Output) \in Classes
        /\ Classify(Output) \in Verdicts => Classify(Output) = Truth[current]
    BY <2>1, <2>2, ReplyOwed DEF Output
  <2>4. TypeOK'
    BY <2>3 DEF TypeOK
  <2>5. Classes \cap {"no", "down"} = {}
    BY DEF Classes, Verdicts
  <2>6. Monitored'
    BY <2>3, <2>5 DEF Monitored, Alive
  <2>7. LastStarted' /\ Witnessed'
    BY DEF LastStarted, Witnessed, Alive
  <2>8. OwnAnswer'
    BY <2>3 DEF OwnAnswer
  <2> QED
    BY <2>4, <2>6, <2>7, <2>8
<1>5. CASE SolverExited \/ GiveUp
  <2> USE <1>5 DEF Reply
  <2>1. server = "busy" /\ server' = "idle" /\ Reply("error")
        /\ UNCHANGED <<client, closed, z3, read, dying>>
    BY DEF SolverExited, GiveUp
  <2>2. inbox' \in Seq(Messages)
    BY CutTyped DEF SolverExited, GiveUp, TypeOK
  <2>3. TypeOK'
    BY <2>1, <2>2 DEF TypeOK, Classes
  <2>4. Monitored' /\ LastStarted' /\ Witnessed' /\ OwnAnswer'
    BY <2>1 DEF Monitored, LastStarted, Witnessed, OwnAnswer, Alive, Verdicts
  <2> QED
    BY <2>3, <2>4
<1> QED
  BY <1>1, <1>2, <1>3, <1>4, <1>5 DEF ServerStep

(* The steps of Z3 and its port.                                            *)
LEMMA SolverKeeps ==
  ASSUME Inv, SolverStep, UNCHANGED caller
  PROVE  Inv'
<1> USE DEF Inv, caller, flags, signals, client, z3, told
<1>1. TypeOK'
  <2>1. Append(inbox, "exit_status") \in Seq(Messages)
    BY InboxGrows DEF TypeOK, Messages
  <2>2. CASE PrintLine
    BY <2>2 DEF PrintLine, TypeOK
  <2>3. CASE SolverDies
    BY <2>3 DEF SolverDies, TypeOK
  <2>4. CASE PortNotices
    BY <2>1, <2>4 DEF PortNotices, TypeOK
  <2> QED
    BY <2>2, <2>3, <2>4 DEF SolverStep
<1>2. UNCHANGED <<server, text, dying, news, current, awaits>>
  BY DEF SolverStep, PrintLine, SolverDies, PortNotices
<1>3. Monitored' /\ LastStarted' /\ Witnessed' /\ OwnAnswer'
  BY <1>2 DEF Monitored, LastStarted, Witnessed, OwnAnswer, Alive
<1> QED
  BY <1>1, <1>3

(* The end of a server reaches the elaborator.                              *)
LEMMA SignalKeeps ==
  ASSUME Inv, NEW k \in Names, SignalEnd(k)
  PROVE  Inv'
<1> USE DEF Inv, SignalEnd, Watched, client, z3, flags
<1>1. k <= current /\ (Alive => k # current) /\ k \notin seen
  BY DEF LastStarted, Witnessed, TypeOK, Names
<1>2. TypeOK'
  <2>1. dying' \in [Names -> Reasons \cup {"no"}]
    BY DEF TypeOK
  <2>2. exits' \subseteq Names /\ seen' \subseteq Names
    BY DEF TypeOK, signals
  <2>3. pc' \in {pc, "killed"} /\ news' \in {news, "down"}
    OBVIOUS
  <2> QED
    BY <2>1, <2>2, <2>3 DEF TypeOK
<1>3. pc' = pc \/ (pc \in {"off", "killed"} /\ pc' = "killed")
  BY DEF Monitored
<1>4. Monitored'
  BY <1>1, <1>3 DEF Monitored, Alive, TypeOK
<1>5. LastStarted'
  BY <1>1, <1>3 DEF LastStarted, Alive, TypeOK, Names
<1>6. Witnessed'
  <2> SUFFICES ASSUME NEW j \in seen'
               PROVE  /\ dying'[j] = "no"
                      /\ pc' \in {"restore", "off", "killed"} \/ j < current
                           => j \notin exits'
    BY DEF Witnessed
  <2>1. CASE j = k
    <3>1. k = current /\ awaits # "no"
      BY <1>1, <2>1
    <3>2. pc \in {"calling", "stopping"}
      BY <3>1 DEF Monitored, TypeOK
    <3> QED
      BY <1>3, <2>1, <3>1, <3>2 DEF TypeOK, Names
  <2>2. CASE j # k
    <3>1. j \in seen /\ dying'[j] = dying[j]
      BY <2>2 DEF TypeOK, Names
    <3>2. j \in exits' => j \in exits
      BY <2>2
    <3> QED
      BY <1>3, <3>1, <3>2 DEF Witnessed
  <2> QED
    BY <2>1, <2>2
<1>7. OwnAnswer'
  BY <1>3 DEF OwnAnswer, Verdicts
<1> QED
  BY <1>2, <1>4, <1>5, <1>6, <1>7

THEOREM InvNext == Inv /\ [Next]_vars => Inv'
<1> SUFFICES ASSUME Inv, [Next]_vars PROVE Inv'
  OBVIOUS
<1>1. CASE CallerStep
  BY <1>1, CallerKeeps
<1>2. CASE ServerStep /\ UNCHANGED caller
  BY <1>2, ServerKeeps
<1>3. CASE SolverStep /\ UNCHANGED caller
  BY <1>3, SolverKeeps
<1>4. CASE \E k \in Names : SignalEnd(k)
  BY <1>4, SignalKeeps
<1>5. CASE UNCHANGED vars
  BY <1>5 DEF vars, pvars, client, told, z3, caller, flags, signals, Inv, TypeOK,
              Monitored, LastStarted, Witnessed, OwnAnswer, Alive
<1> QED
  BY <1>1, <1>2, <1>3, <1>4, <1>5 DEF Next

-----------------------------------------------------------------------------
LEMMA Invariance == Spec => []Inv
BY InvInit, InvNext, PTL DEF Spec

(* Every state of the server, its mailbox, Z3 and the elaborator is one the *)
(* code can describe.                                                       *)
THEOREM TypeCorrect == Spec => []TypeOK
<1>1. Inv => TypeOK
  BY DEF Inv
<1> QED
  BY <1>1, Invariance, PTL

(* No check returns before its server has ended: GenServer.stop outlasts    *)
(* the query, the timeouts and the death of Z3.                             *)
THEOREM ServersEnd == Spec => []ServerEnds
<1>1. Inv => ServerEnds
  BY DEF Inv, LastStarted, ServerEnds
<1> QED
  BY <1>1, Invariance, PTL

(* The exit signal of a server whose end was seen is taken out by its own   *)
(* check.                                                                   *)
THEOREM NothingLeaks == Spec => []ExitsDrained
<1>1. Inv => ExitsDrained
  BY DEF Inv, Witnessed, ExitsDrained
<1> QED
  BY <1>1, Invariance, PTL

(* The lint refines the oracle: truth or "unknown", once for each question, *)
(* whatever Z3 does and whenever the timers fire.                           *)
THEOREM AnswersAreOwed == Spec => AnswersOracle
<1>1. Init => Oracle!Init
  BY DEF Init, Oracle!Init, Over, Names
<1>2. Inv /\ [Next]_vars => [Oracle!Next]_(Oracle!ovars)
  <2> SUFFICES ASSUME Inv, [Next]_vars
               PROVE  Oracle!Next \/ UNCHANGED Oracle!ovars
    OBVIOUS
  <2> USE DEF Inv, Over, Oracle!ovars
  <2>1. CASE Start
    <3>1. UNCHANGED Over /\ UNCHANGED answers
      BY <2>1 DEF Start, StartServer, TypeOK
    <3> QED
      BY <3>1
  <2>2. CASE Query \/ TakeReply \/ CallTimeout \/ Stop \/ Stopped \/ Drain
    <3>1. /\ pc \notin {"off", "killed"} /\ pc' \notin {"off", "killed"}
          /\ UNCHANGED <<current, answers>>
      BY <2>2 DEF Query, Ask, TakeReply, CallTimeout, Stop, Stopped, Drain,
                  pvars, client
    <3> QED
      BY <3>1
  <2>3. CASE Restore
    <3>1. current \in 1..Checks /\ held \in {Truth[current], "unknown"}
      BY <2>3 DEF Restore, Monitored, OwnAnswer, Owed, Names
    <3>2. Over = current - 1 /\ Over' = current
      BY <2>3 DEF Restore, pvars, client
    <3>3. answers' = [answers EXCEPT ![current] = held]
      BY <2>3 DEF Restore
    <3>4. Oracle!Answer(current)
      BY <3>1, <3>2, <3>3 DEF Oracle!Answer
    <3> QED
      BY <3>1, <3>4 DEF Oracle!Next
  <2>4. CASE (ServerStep \/ SolverStep) /\ UNCHANGED caller
    <3>1. UNCHANGED current
      BY <2>4 DEF ServerStep, HandleQuery, QueryFails, CollectLine, CollectEnd,
                  SolverExited, GiveUp, IgnoreLine, UnhandledExit, HandleStop,
                  EndServer, SolverStep, PrintLine, SolverDies, PortNotices, client
    <3> QED
      BY <2>4, <3>1 DEF caller
  <2>5. CASE \E k \in Names : SignalEnd(k)
    <3>1. PICK k \in Names : SignalEnd(k)
      BY <2>5
    <3>2. UNCHANGED <<current, answers>>
      BY <3>1 DEF SignalEnd, client
    <3>3. pc' = pc \/ (pc = "off" /\ pc' = "killed")
      BY <3>1 DEF SignalEnd, Monitored
    <3> QED
      BY <3>2, <3>3
  <2>6. CASE UNCHANGED vars
    BY <2>6 DEF vars, pvars, client, caller
  <2> QED
    BY <2>1, <2>2, <2>3, <2>4, <2>5, <2>6 DEF Next, CallerStep
<1> QED
  BY <1>1, <1>2, Invariance, PTL DEF Spec, AnswersOracle, Oracle!Spec

-----------------------------------------------------------------------------
(* Nobody is forgotten, and nothing repeats.                                *)
Queued(m) == \E i \in 1..Len(inbox) : inbox[i] = m

Once(m) == \A i, j \in 1..Len(inbox) : inbox[i] = m /\ inbox[j] = m => i = j

(* The query is asked once, of a server that has printed nothing.           *)
AskedOnce ==
  /\ written <= Len(text)
  /\ pc = "query" \/ Queued("query") => text = <<>>
  /\ pc = "query" => ~Queued("query")
  /\ Once("query")

(* Whoever waits has its request in the mailbox or in the works, or an end  *)
(* is under way to it.                                                      *)
Attended ==
  /\ pc = "calling" /\ news = "no" =>
       \/ server = "busy" \/ (server = "idle" /\ Queued("query"))
       \/ dying[current] # "no"
  /\ pc = "stopping" /\ news = "no" =>
       (Alive /\ Queued("stop")) \/ dying[current] # "no"

WaitInv == Inv /\ AskedOnce /\ Attended

(* An empty mailbox.                                                        *)
LEMMA Emptied ==
  ASSUME inbox' = <<>>
  PROVE  Len(inbox') = 0 /\ \A m : ~Queued(m)' /\ Once(m)'
<1>1. Len(inbox') = 0
  OBVIOUS
<1>2. 1..0 = {}
  OBVIOUS
<1> QED
  BY <1>1, <1>2 DEF Queued, Once

(* A message more.                                                          *)
LEMMA Appended ==
  ASSUME NEW q \in Seq(Messages), NEW m \in Messages
  PROVE  /\ Len(q) \in Nat /\ Len(Append(q, m)) = Len(q) + 1
         /\ Append(q, m)[Len(q) + 1] = m
         /\ \A i \in 1..Len(q) : Append(q, m)[i] = q[i]
OBVIOUS

LEMMA Sent ==
  ASSUME TypeOK, NEW m \in Messages, inbox' = Append(inbox, m)
  PROVE  /\ Len(inbox') = Len(inbox) + 1
         /\ Queued(m)' /\ \A k : Queued(k) => Queued(k)'
         /\ \A k : Queued(k)' => Queued(k) \/ k = m
         /\ \A k : Once(k) /\ (k # m \/ ~Queued(k)) => Once(k)'
<1>1. /\ Len(inbox) \in Nat /\ Len(inbox') = Len(inbox) + 1
      /\ inbox'[Len(inbox) + 1] = m
      /\ \A i \in 1..Len(inbox) : inbox'[i] = inbox[i]
  BY Appended DEF TypeOK
<1>2. 1..Len(inbox') = 1..Len(inbox) \cup {Len(inbox) + 1}
  BY <1>1
<1>3. \A k : Queued(k)' <=> Queued(k) \/ k = m
  BY <1>1, <1>2 DEF Queued
<1>4. ASSUME NEW k, Once(k), k # m \/ ~Queued(k) PROVE Once(k)'
  <2>1. ASSUME NEW i \in 1..Len(inbox'), NEW j \in 1..Len(inbox'),
               inbox'[i] = k, inbox'[j] = k
        PROVE  i = j
    BY <1>1, <1>2, <1>4, <2>1 DEF Once, Queued
  <2> QED
    BY <2>1 DEF Once
<1> QED
  BY <1>1, <1>3, <1>4

(* One message less, wherever it is.                                        *)
Without(q, i) == SubSeq(q, 1, i - 1) \o SubSeq(q, i + 1, Len(q))

LEMMA Joined ==
  ASSUME NEW a \in Seq(Messages), NEW b \in Seq(Messages)
  PROVE  /\ Len(a \o b) = Len(a) + Len(b)
         /\ \A j \in 1..(Len(a) + Len(b)) :
              (a \o b)[j] = IF j <= Len(a) THEN a[j] ELSE b[j - Len(a)]
BY ConcatProperties, Zenon

LEMMA Before ==
  ASSUME NEW q \in Seq(Messages), NEW i \in 1..Len(q)
  PROVE  LET a == SubSeq(q, 1, i - 1)
         IN  a \in Seq(Messages) /\ Len(a) = i - 1 /\ \A j \in 1..(i - 1) : a[j] = q[j]
OBVIOUS

LEMMA After ==
  ASSUME NEW q \in Seq(Messages), NEW i \in 1..Len(q)
  PROVE  LET b == SubSeq(q, i + 1, Len(q))
         IN  /\ b \in Seq(Messages) /\ Len(b) = Len(q) - i
             /\ \A j \in 1..(Len(q) - i) : b[j] = q[i + j]
OBVIOUS

LEMMA Picked ==
  ASSUME NEW q \in Seq(Messages), NEW i \in 1..Len(q)
  PROVE  /\ Len(q) \in Nat /\ Len(Without(q, i)) = Len(q) - 1
         /\ \A j \in 1..Len(Without(q, i)) :
              Without(q, i)[j] = IF j < i THEN q[j] ELSE q[j + 1]
<1>1. Len(q) \in Nat /\ i \in Int
  OBVIOUS
<1>2. PICK a \in Seq(Messages) :
        a = SubSeq(q, 1, i - 1) /\ Len(a) = i - 1 /\ \A j \in 1..(i - 1) : a[j] = q[j]
  BY Before, Zenon
<1>3. PICK b \in Seq(Messages) :
        /\ b = SubSeq(q, i + 1, Len(q)) /\ Len(b) = Len(q) - i
        /\ \A j \in 1..(Len(q) - i) : b[j] = q[i + j]
  BY After, Zenon
<1>4. PICK r : r = a \o b
  OBVIOUS
<1>5. Len(a) = i - 1 /\ Len(b) = Len(q) - i
  BY <1>2, <1>3, Zenon
<1>6. /\ Len(r) = Len(a) + Len(b)
      /\ \A j \in 1..(Len(a) + Len(b)) :
           r[j] = IF j <= Len(a) THEN a[j] ELSE b[j - Len(a)]
  BY <1>4, Joined, Zenon
<1>7. Len(r) = Len(q) - 1
  BY <1>1, <1>5, <1>6
<1>8. ASSUME NEW j \in 1..Len(r) PROVE r[j] = IF j < i THEN q[j] ELSE q[j + 1]
  <2>1. j \in Int /\ j \in 1..(Len(a) + Len(b))
    BY <1>1, <1>5, <1>6
  <2>2. r[j] = IF j <= Len(a) THEN a[j] ELSE b[j - Len(a)]
    BY <1>6, <2>1, Zenon
  <2>3. \A n \in 1..(i - 1) : a[n] = q[n]
    BY <1>2, Zenon
  <2>4. \A n \in 1..(Len(q) - i) : b[n] = q[i + n]
    BY <1>3, Zenon
  <2>5. CASE j < i
    BY <1>1, <1>5, <2>1, <2>2, <2>3, <2>5
  <2>6. CASE ~(j < i)
    <3>1. j - (i - 1) \in 1..(Len(q) - i) /\ i + (j - (i - 1)) = j + 1
      BY <1>1, <1>5, <2>1, <2>6
    <3>2. r[j] = b[j - (i - 1)]
      BY <1>1, <1>5, <2>1, <2>2, <2>6
    <3> QED
      BY <2>4, <2>6, <3>1, <3>2
  <2> QED
    BY <2>5, <2>6
<1>9. Without(q, i) = r
  BY <1>2, <1>3, <1>4, Zenon DEF Without
<1> QED
  BY <1>1, <1>7, <1>8, <1>9, Zenon

LEMMA Taken ==
  ASSUME inbox \in Seq(Messages), NEW p \in 1..Len(inbox), NEW m, m = inbox[p],
         Len(inbox') = Len(inbox) - 1,
         \A j \in 1..Len(inbox') :
           inbox'[j] = IF j < p THEN inbox[j] ELSE inbox[j + 1]
  PROVE  /\ \A k : Queued(k)' => Queued(k)
         /\ \A k : Queued(k) /\ k # m => Queued(k)'
         /\ \A k : Once(k) => Once(k)'
         /\ Once(m) => ~Queued(m)'
<1> DEFINE from(j) == IF j < p THEN j ELSE j + 1
<1>1. Len(inbox) \in Nat
  OBVIOUS
<1>2. \A j \in 1..Len(inbox') :
        from(j) \in 1..Len(inbox) /\ from(j) # p /\ inbox'[j] = inbox[from(j)]
  BY <1>1
<1>3. \A i, j \in 1..Len(inbox') : from(i) = from(j) => i = j
  BY <1>1
<1>4. ASSUME NEW i \in 1..Len(inbox), i # p
      PROVE  \E j \in 1..Len(inbox') : inbox'[j] = inbox[i]
  <2>1. CASE i < p
    BY <1>1, <2>1
  <2>2. CASE i > p
    <3>1. i - 1 \in 1..Len(inbox') /\ ~(i - 1 < p) /\ (i - 1) + 1 = i
      BY <1>1, <2>2
    <3>2. inbox'[i - 1] = inbox[i]
      BY <3>1
    <3> QED
      BY <3>1, <3>2
  <2> QED
    BY <1>1, <1>4, <2>1, <2>2
<1> HIDE DEF from
<1>5. \A k : Queued(k)' => Queued(k)
  BY <1>2 DEF Queued
<1>6. \A k : Queued(k) /\ k # m => Queued(k)'
  BY <1>4 DEF Queued
<1>7. ASSUME NEW k, Once(k) PROVE Once(k)'
  BY <1>2, <1>3, <1>7 DEF Once
<1>8. Once(m) => ~Queued(m)'
  BY <1>2 DEF Once, Queued
<1> QED
  BY <1>5, <1>6, <1>7, <1>8, Zenon

(* The server takes the first message, or one of its choice.                *)
LEMMA FirstTaken ==
  ASSUME TypeOK, inbox # <<>>, NEW m, m = Head(inbox), inbox' = Tail(inbox)
  PROVE  /\ Len(inbox) \in Nat /\ Len(inbox') = Len(inbox) - 1
         /\ Queued(m)
         /\ \A k : Queued(k)' => Queued(k)
         /\ \A k : Queued(k) /\ k # m => Queued(k)'
         /\ \A k : Once(k) => Once(k)'
         /\ Once(m) => ~Queued(m)'
<1>1. inbox \in Seq(Messages)
  BY DEF TypeOK
<1>2. /\ Len(inbox) \in Nat /\ Len(inbox) > 0 /\ m = inbox[1]
      /\ Len(inbox') = Len(inbox) - 1
      /\ \A j \in 1..Len(inbox') : inbox'[j] = inbox[j + 1]
  BY <1>1
<1>3. 1 \in 1..Len(inbox) /\ Queued(m)
  BY <1>2 DEF Queued
<1>4. \A j \in 1..Len(inbox') :
        inbox'[j] = IF j < 1 THEN inbox[j] ELSE inbox[j + 1]
  BY <1>2
<1>5. m = inbox[1] /\ Len(inbox') = Len(inbox) - 1
  BY <1>2, Zenon
<1> QED
  BY <1>1, <1>2, <1>3, <1>4, <1>5, Taken, Zenon

LEMMA OneTaken ==
  ASSUME TypeOK, NEW p \in 1..Len(inbox), inbox' = Without(inbox, p)
  PROVE  /\ Len(inbox) \in Nat /\ Len(inbox') = Len(inbox) - 1
         /\ \A k : Queued(k)' => Queued(k)
         /\ \A k : Queued(k) /\ k # inbox[p] => Queued(k)'
         /\ \A k : Once(k) => Once(k)'
<1>1. inbox \in Seq(Messages)
  BY DEF TypeOK
<1>2. /\ Len(inbox) \in Nat /\ Len(inbox') = Len(inbox) - 1
      /\ \A j \in 1..Len(inbox') :
           inbox'[j] = IF j < p THEN inbox[j] ELSE inbox[j + 1]
  BY <1>1, Picked, Zenon
<1>3. Len(inbox') = Len(inbox) - 1
  BY <1>2, Zenon
<1> QED
  BY <1>1, <1>2, <1>3, Taken, Zenon

-----------------------------------------------------------------------------
THEOREM WaitInvInit == Init => WaitInv
<1> SUFFICES ASSUME Init PROVE WaitInv
  OBVIOUS
<1>1. AskedOnce
  <2>1. inbox = <<>> /\ Len(inbox) = 0 /\ text = <<>> /\ Len(text) = 0
        /\ written = 0 /\ pc = "off"
    BY DEF Init
  <2> QED
    BY <2>1 DEF AskedOnce, Queued, Once
<1>2. Attended
  BY DEF Init, Attended
<1> QED
  BY <1>1, <1>2, InvInit DEF WaitInv

LEMMA CallerAttends ==
  ASSUME WaitInv, CallerStep
  PROVE  AskedOnce' /\ Attended'
<1> USE DEF WaitInv, Inv
<1>1. CASE Start
  <2>1. /\ text' = <<>> /\ Len(text') = 0 /\ written' = 0
        /\ inbox' = <<>> /\ pc' \in {"query", "restore"}
    BY <1>1 DEF Start, StartServer
  <2> QED
    BY <2>1, Emptied DEF AskedOnce, Attended
<1>2. CASE Query
  <2>0. pc = "query" /\ awaits = "no" /\ news = "no"
    BY <1>2 DEF Query, Monitored, TypeOK
  <2>1. UNCHANGED <<server, text, written, dying, news, current>>
    BY <1>2 DEF Query, process, z3
  <2>2. CASE Alive
    <3>1. inbox' = Append(inbox, "query") /\ pc' = "calling"
      BY <1>2, <2>2 DEF Query, Ask
    <3>2. Queued("query")' /\ Once("query")'
      BY <2>0, <3>1, Sent DEF AskedOnce, Messages
    <3> QED
      BY <2>0, <2>1, <2>2, <3>1, <3>2 DEF AskedOnce, Attended, Alive
  <2>3. CASE ~Alive
    <3>1. UNCHANGED inbox /\ pc' = "stop"
      BY <1>2, <2>3 DEF Query, Ask
    <3> QED
      BY <2>0, <2>1, <3>1 DEF AskedOnce, Attended, Queued, Once
  <2> QED
    BY <2>2, <2>3
<1>3. CASE Stop
  <2>1. pc = "stop" /\ UNCHANGED <<server, text, written, dying, news, current>>
    BY <1>3 DEF Stop, process, z3
  <2>2. CASE Alive
    <3>1. inbox' = Append(inbox, "stop") /\ pc' = "stopping"
      BY <1>3, <2>2 DEF Stop, Ask
    <3>2. /\ Queued("stop")' /\ Once("query")'
          /\ Queued("query")' => Queued("query")
      BY <3>1, Sent DEF AskedOnce, Messages
    <3> QED
      BY <2>1, <2>2, <3>1, <3>2 DEF AskedOnce, Attended, Alive
  <2>3. CASE ~Alive
    <3>1. UNCHANGED inbox /\ pc' = "drain"
      BY <1>3, <2>3 DEF Stop, Ask
    <3> QED
      BY <2>1, <3>1 DEF AskedOnce, Attended, Queued, Once
  <2> QED
    BY <2>2, <2>3
<1>4. CASE TakeReply \/ CallTimeout \/ Stopped \/ Drain \/ Restore
  <2>1. UNCHANGED <<inbox, text, written>>
        /\ pc' \in {"stop", "drain", "restore", "off"}
    BY <1>4 DEF TakeReply, CallTimeout, Stopped, Drain, Restore, process, z3, pvars
  <2> QED
    BY <2>1 DEF AskedOnce, Attended, Queued, Once
<1> QED
  BY <1>1, <1>2, <1>3, <1>4 DEF CallerStep

(* A class is an answer: whoever called for one has it.                     *)
LEMMA Replied ==
  ASSUME Inv, NEW c \in Classes, Reply(c), pc' = pc
  PROVE  /\ pc' = "calling" => news' # "no"
         /\ pc' = "stopping" => news' = news
<1>1. "no" \notin Classes
  BY DEF Classes, Verdicts
<1> QED
  BY <1>1 DEF Inv, Monitored, Reply

LEMMA ServerAttends ==
  ASSUME WaitInv, ServerStep, UNCHANGED caller
  PROVE  AskedOnce' /\ Attended'
<1> USE DEF WaitInv, Inv
<1>0. TypeOK /\ UNCHANGED pc
  BY DEF caller
<1>1. CASE HandleQuery
  <2>1. /\ server = "idle" /\ inbox # <<>> /\ Head(inbox) = "query"
        /\ inbox' = Tail(inbox) /\ server' = "busy" /\ text' \in Outputs(current)
        /\ UNCHANGED <<written, dying, news, current>>
    BY <1>1 DEF HandleQuery, z3, told, client
  <2>2. Queued("query") /\ ~Queued("query")' /\ Once("query")'
        /\ (Queued("stop") => Queued("stop")')
    <3>1. "stop" # "query" /\ Once("query") /\ "query" = Head(inbox)
      BY <2>1 DEF AskedOnce
    <3> QED
      BY <1>0, <2>1, <3>1, FirstTaken, Zenon
  <2>3. text = <<>> /\ written = 0 /\ pc # "query"
    BY <2>2 DEF AskedOnce, TypeOK
  <2>4. Len(text') \in Nat
    <3>1. current \in Names
      BY <2>1 DEF LastStarted, Alive
    <3>2. text' \in Seq(Printed)
      BY <2>1, <3>1, OutputsTyped
    <3> QED
      BY <3>2
  <2> QED
    BY <1>0, <2>1, <2>2, <2>3, <2>4 DEF AskedOnce, Attended, Alive
<1>2. CASE QueryFails \/ UnhandledExit \/ HandleStop
  <2>1. PICK r \in Reasons : EndServer(r)
    BY <1>2 DEF QueryFails, UnhandledExit, HandleStop, Reasons
  <2>2. current \in Names
    BY <1>2 DEF QueryFails, UnhandledExit, HandleStop, LastStarted, Alive
  <2>3. /\ inbox' = <<>> /\ dying' = [dying EXCEPT ![current] = r]
        /\ UNCHANGED <<text, written, current>>
    BY <2>1 DEF EndServer, z3, client
  <2>4. dying'[current'] # "no"
    BY <2>2, <2>3 DEF TypeOK, Reasons
  <2> QED
    BY <1>0, <2>3, <2>4, Emptied DEF AskedOnce, Attended
<1>3. CASE CollectLine \/ IgnoreLine
  BY <1>0, <1>3 DEF CollectLine, IgnoreLine, AskedOnce, Attended, Queued, Once,
                    client, z3, told, Alive
<1>4. CASE CollectEnd
  <2>1. /\ server = "busy" /\ server' = "idle"
        /\ UNCHANGED <<inbox, text, written, dying, current>>
        /\ Reply(Classify(Output))
    BY <1>4 DEF CollectEnd, z3, client
  <2>2. Classify(Output) \in Classes
    <3>1. current \in Names /\ text \in Outputs(current) /\ read \in Nat
      BY <2>1 DEF LastStarted, Alive, OwnAnswer, TypeOK
    <3> QED
      BY <1>4, <3>1, ReplyOwed DEF Output, CollectEnd
  <2>3. (pc' = "calling" => news' # "no") /\ (pc' = "stopping" => news' = news)
    BY <1>0, <2>1, <2>2, Replied
  <2> QED
    BY <1>0, <2>1, <2>3 DEF AskedOnce, Attended, Queued, Once, Alive
<1>5. CASE SolverExited \/ GiveUp
  <2>1. /\ server = "busy" /\ server' = "idle"
        /\ UNCHANGED <<text, written, dying, current>>
        /\ Reply("error")
    BY <1>5 DEF SolverExited, GiveUp, z3, client
  <2>2. (pc' = "calling" => news' # "no") /\ (pc' = "stopping" => news' = news)
    BY <1>0, <2>1, Replied DEF Classes
  <2>3. /\ Queued("query")' => Queued("query")
        /\ Queued("stop") => Queued("stop")'
        /\ Once("query")'
    <3>1. CASE SolverExited
      <4>1. PICK p \in 1..Len(inbox) :
              /\ inbox[p] = "exit_status"
              /\ inbox' = Without(inbox, p)
        BY <3>1 DEF SolverExited, ExitStatusAt, Without
      <4> QED
        BY <1>0, <4>1, OneTaken DEF AskedOnce
    <3>2. CASE GiveUp
      BY <3>2 DEF GiveUp, AskedOnce, Queued, Once
    <3> QED
      BY <1>5, <3>1, <3>2
  <2> QED
    BY <1>0, <2>1, <2>2, <2>3 DEF AskedOnce, Attended, Alive
<1> QED
  BY <1>1, <1>2, <1>3, <1>4, <1>5 DEF ServerStep

LEMMA SolverAttends ==
  ASSUME WaitInv, SolverStep, UNCHANGED caller
  PROVE  AskedOnce' /\ Attended'
<1> USE DEF WaitInv, Inv
<1>0. TypeOK /\ UNCHANGED <<pc, server, text, dying, news, current>>
  BY DEF caller, SolverStep, PrintLine, SolverDies, PortNotices, z3, told, client
<1>1. CASE PrintLine \/ SolverDies
  <2>1. UNCHANGED inbox /\ written' <= Len(text')
    BY <1>0, <1>1 DEF PrintLine, SolverDies, AskedOnce, TypeOK
  <2> QED
    BY <1>0, <2>1 DEF AskedOnce, Attended, Queued, Once, Alive
<1>2. CASE PortNotices
  <2>1. inbox' = Append(inbox, "exit_status") /\ UNCHANGED written
    BY <1>2 DEF PortNotices, z3
  <2>2. /\ Queued("query")' <=> Queued("query")
        /\ Queued("stop")  => Queued("stop")'
        /\ Once("query")'
    BY <1>0, <2>1, Sent DEF AskedOnce, Messages
  <2> QED
    BY <1>0, <2>1, <2>2 DEF AskedOnce, Attended, Alive
<1> QED
  BY <1>1, <1>2 DEF SolverStep

LEMMA SignalAttends ==
  ASSUME WaitInv, NEW k \in Names, SignalEnd(k)
  PROVE  AskedOnce' /\ Attended'
<1> USE DEF WaitInv, Inv
<1>1. /\ UNCHANGED <<inbox, server, text, written, current, awaits>>
      /\ dying' = [dying EXCEPT ![k] = "no"] /\ pc' \in {pc, "killed"}
      /\ news' \in {news, "down"}
  BY DEF SignalEnd, z3, client
<1>2. AskedOnce'
  BY <1>1 DEF AskedOnce, Queued, Once
<1>3. CASE k # current
  <2>1. pc \in {"calling", "stopping"} => dying'[current] = dying[current]
    BY <1>1, <1>3 DEF Monitored, TypeOK
  <2> QED
    BY <1>1, <1>2, <2>1 DEF Attended, Queued, Alive
<1>4. CASE k = current
  <2>1. (pc' = "calling" => news' # "no") /\ (pc' = "stopping" => news' # "no")
    BY <1>1, <1>4 DEF Monitored, SignalEnd, Watched
  <2> QED
    BY <1>2, <2>1, Zenon DEF Attended
<1> QED
  BY <1>3, <1>4

THEOREM WaitInvNext == WaitInv /\ [Next]_vars => WaitInv'
<1> SUFFICES ASSUME WaitInv, [Next]_vars PROVE WaitInv'
  OBVIOUS
<1>1. Inv'
  BY InvNext DEF WaitInv
<1>2. CASE CallerStep
  BY <1>1, <1>2, CallerAttends DEF WaitInv
<1>3. CASE (ServerStep \/ SolverStep) /\ UNCHANGED caller
  BY <1>1, <1>3, ServerAttends, SolverAttends DEF WaitInv
<1>4. CASE \E k \in Names : SignalEnd(k)
  BY <1>1, <1>4, SignalAttends DEF WaitInv
<1>5. CASE UNCHANGED vars
  <2>1. UNCHANGED <<inbox, server, text, written, dying, current, pc, news>>
    BY <1>5 DEF vars, pvars, caller, client, told, z3
  <2> QED
    BY <1>1, <2>1 DEF WaitInv, AskedOnce, Attended, Queued, Once, Alive
<1> QED
  BY <1>2, <1>3, <1>4, <1>5 DEF Next

LEMMA Waiting == Spec => []WaitInv
BY WaitInvInit, WaitInvNext, PTL DEF Spec

(* Whoever waits is waited for: a call or a stop that has no answer yet has *)
(* a server that can take a step, or an end on its way.                     *)
THEOREM NobodyIsForgotten == Spec => []NobodyForgotten
<1>1. WaitInv => NobodyForgotten
  <2> SUFFICES ASSUME WaitInv, pc \in {"calling", "stopping"}, news = "no",
                      dying[current] = "no"
               PROVE  ServerHasStep
    BY DEF NobodyForgotten
  <2>1. server = "busy" \/ (server = "idle" /\ \E m : Queued(m))
    BY DEF WaitInv, Attended, Alive
  <2>2. (\E m : Queued(m)) => inbox # <<>>
    BY DEF Queued
  <2> QED
    BY <2>1, <2>2 DEF ServerHasStep
<1> QED
  BY <1>1, Waiting, PTL

-----------------------------------------------------------------------------
(* The parts of StepsLeft are numbers, and each step gives up more than it  *)
(* adds.                                                                    *)
LEMMA EndsCounted == IsFiniteSet(EndsToTell) /\ Cardinality(EndsToTell) \in Nat
<1>1. IsFiniteSet(Names)
  BY ChecksAssumption, FS_Interval DEF Names
<1>2. IsFiniteSet(EndsToTell)
  BY <1>1, FS_Subset DEF EndsToTell
<1> QED
  BY <1>2, FS_CardinalityType

LEMMA EndTold ==
  ASSUME NEW k \in Names, TypeOK, dying[k] # "no",
         dying' = [dying EXCEPT ![k] = "no"]
  PROVE  Cardinality(EndsToTell') = Cardinality(EndsToTell) - 1
<1>1. EndsToTell' = EndsToTell \ {k} /\ k \in EndsToTell
  BY DEF EndsToTell, TypeOK
<1> QED
  BY <1>1, EndsCounted, FS_RemoveElement

LEMMA EndToTell ==
  ASSUME NEW k \in Names, TypeOK, NEW r \in Reasons,
         dying' = [dying EXCEPT ![k] = r]
  PROVE  Cardinality(EndsToTell') <= Cardinality(EndsToTell) + 1
<1>1. EndsToTell' = EndsToTell \cup {k}
  BY DEF EndsToTell, TypeOK, Reasons
<1>2. Cardinality(EndsToTell \cup {k}) =
        IF k \in EndsToTell THEN Cardinality(EndsToTell) ELSE Cardinality(EndsToTell) + 1
  BY EndsCounted, FS_AddElement, Zenon
<1> QED
  BY <1>1, <1>2, EndsCounted

(* The parts of the bound are numbers, before and after a step.             *)
Counted ==
  /\ current \in Int /\ current <= Checks /\ Checks \in Int /\ Stage \in 0..6
  /\ Len(text) \in Nat /\ written \in Nat /\ read \in Nat
  /\ written <= Len(text) /\ read <= written
  /\ CallerWork \in Nat /\ Len(inbox) \in Nat
  /\ ServerWork \in 0..3 /\ SolverWork \in 0..10
  /\ OutputWork \in Nat /\ Cardinality(EndsToTell) \in Nat

LEMMA WorkCounted == WaitInv => Counted
<1> HAVE WaitInv
<1> USE DEF WaitInv, Inv
<1>1. TypeOK /\ inbox \in Seq(Messages) /\ text \in Seq(Printed)
  BY DEF TypeOK
<1>2. Len(inbox) \in Nat /\ Len(text) \in Nat
  BY <1>1
<1>3. Stage \in 0..6 /\ ServerWork \in 0..3 /\ SolverWork \in 0..10
  BY DEF Stage, ServerWork, SolverWork
<1>4. current \in Int /\ current <= Checks /\ Checks \in Int
      /\ written \in Nat /\ read \in Nat /\ read <= written
  BY <1>1, ChecksAssumption DEF TypeOK
<1>5. written <= Len(text)
  BY DEF AskedOnce
<1>6. CallerWork \in Nat
  BY <1>3, <1>4 DEF CallerWork
<1>7. OutputWork \in Nat
  <2>1. Len(text) - written \in Nat /\ written - read \in Nat
    BY <1>2, <1>4, <1>5
  <2> QED
    BY <2>1 DEF OutputWork
<1> QED
  BY <1>2, <1>3, <1>4, <1>5, <1>6, <1>7, EndsCounted DEF Counted

LEMMA WorkCountedNext == WaitInv' => Counted'
BY WorkCounted, PTL

LEMMA StepsCounted == Counted => StepsLeft \in Nat
BY DEF Counted, StepsLeft

LEMMA StepsCountedNext == Counted' => (StepsLeft \in Nat)'
BY StepsCounted, PTL

(* How the elaborator's part follows its stage.                             *)
LEMMA StageSpends ==
  ASSUME Counted, Counted', current' = current
  PROVE  /\ Stage' = Stage => CallerWork' = CallerWork
         /\ Stage' < Stage => CallerWork' <= CallerWork - 9
<1>1. current \in Int /\ Checks \in Int /\ Stage \in Int /\ Stage' \in Int
  BY DEF Counted
<1>2. CallerWork' = 67 * (Checks - current) + 9 * Stage'
  BY Zenon DEF CallerWork
<1>3. CallerWork = 67 * (Checks - current) + 9 * Stage
  BY Zenon DEF CallerWork
<1>4. ASSUME Stage' < Stage PROVE CallerWork' <= CallerWork - 9
  BY <1>1, <1>2, <1>3, <1>4, LessStage, Zenon
<1>5. ASSUME Stage' = Stage PROVE CallerWork' = CallerWork
  BY <1>2, <1>3, <1>5, Zenon
<1> QED
  BY <1>4, <1>5, Zenon

Bargain == Trade(CallerWork, Len(inbox), ServerWork, SolverWork, OutputWork,
                 Cardinality(EndsToTell),
                 CallerWork', Len(inbox'), ServerWork', SolverWork', OutputWork',
                 Cardinality(EndsToTell'))

LEMMA BargainSpends ==
  ASSUME Counted, Counted', Bargain
  PROVE  StepsLeft' < StepsLeft
<1>1. /\ CallerWork \in Int /\ Len(inbox) \in Nat /\ ServerWork \in Nat
      /\ SolverWork \in Nat /\ OutputWork \in Nat /\ Cardinality(EndsToTell) \in Int
  BY DEF Counted
<1>2. /\ CallerWork' \in Int /\ Len(inbox') \in Int /\ ServerWork' \in Int
      /\ SolverWork' \in Int /\ OutputWork' \in Int /\ Cardinality(EndsToTell') \in Int
  <2>1. /\ CallerWork' \in Nat /\ Len(inbox') \in Nat /\ ServerWork' \in 0 .. 3
        /\ SolverWork' \in 0 .. 10 /\ OutputWork' \in Nat /\ Cardinality(EndsToTell') \in Nat
    BY Zenon DEF Counted
  <2>2. \A n \in Nat : n \in Int
    OBVIOUS
  <2>3. \A n \in 0 .. 10 : n \in Int
    OBVIOUS
  <2>4. \A n \in 0 .. 3 : n \in Int
    OBVIOUS
  <2> QED BY <2>1, <2>2, <2>3, <2>4, Zenon
<1> QED
  BY <1>1, <1>2, EachTradeLoses, Zenon DEF Bargain, StepsLeft

LEMMA CallerSpends ==
  ASSUME WaitInv, Counted, Counted', CallerStep
  PROVE  Bargain
<1>0. TypeOK
  BY DEF WaitInv, Inv
<1>1. CASE Start
  <2>1. /\ current' = current + 1 /\ Len(inbox') = 0 /\ Len(text') = 0
        /\ written' = 0 /\ read' = 0 /\ pc = "off" /\ UNCHANGED dying
    BY <1>1 DEF Start, StartServer, told
  <2>2. EndsToTell' = EndsToTell
    BY <2>1 DEF EndsToTell
  <2>3. ServerWork' <= 2
    BY <1>1 DEF Start, StartServer, ServerWork
  <2>4. CallerWork' <= CallerWork - 13
    <3>1. Stage = 0 /\ Stage' <= 6
      BY <2>1 DEF Stage, Counted
    <3>2. current \in Int /\ Checks \in Int /\ Stage' \in Int
      BY DEF Counted
    <3>3. CallerWork' = 67 * (Checks - (current + 1)) + 9 * Stage'
      BY <2>1, Zenon DEF CallerWork
    <3>4. CallerWork = 67 * (Checks - current) + 9 * 0
      BY <3>1, Zenon DEF CallerWork
    <3> QED
      BY <3>1, <3>2, <3>3, <3>4, OneMoreCheck, Zenon
  <2>5. OutputWork' = 0
    BY <2>1 DEF OutputWork
  <2> QED
    BY <2>1, <2>2, <2>3, <2>4, <2>5 DEF Bargain, Trade, Counted
<1>2. CASE ~Start
  <2>1. UNCHANGED <<current, server, closed, solver, text, written, read, dying>>
    BY <1>2 DEF CallerStep, Query, TakeReply, CallTimeout, Stop, Stopped, Drain,
                Restore, process, pvars, client, told, z3
  <2>2. UNCHANGED <<EndsToTell, ServerWork, SolverWork, OutputWork>>
    BY <2>1 DEF EndsToTell, ServerWork, SolverWork, OutputWork
  <2>3. Stage' < Stage /\ (Len(inbox') = Len(inbox) \/ Len(inbox') = Len(inbox) + 1)
    BY <1>0, <1>2, Sent
    DEF CallerStep, Query, Ask, TakeReply, CallTimeout, Stop, Stopped, Drain,
        Restore, pvars, Stage, Messages
  <2>4. CallerWork' <= CallerWork - 9
    BY <2>1, <2>3, StageSpends
  <2> QED
    BY <2>2, <2>3, <2>4 DEF Bargain, Trade, Counted
<1> QED
  BY <1>1, <1>2

LEMMA ServerSpends ==
  ASSUME WaitInv, Counted, Counted', ServerStep, UNCHANGED caller
  PROVE  Bargain
<1>0. TypeOK /\ UNCHANGED <<current, CallerWork>>
  <2>1. UNCHANGED current
    BY DEF ServerStep, HandleQuery, QueryFails, CollectLine, CollectEnd, SolverExited,
           GiveUp, IgnoreLine, UnhandledExit, HandleStop, EndServer, client
  <2> QED
    BY <2>1 DEF caller, Stage, CallerWork, WaitInv, Inv
<1>1. CASE HandleQuery
  <2>1. /\ server = "idle" /\ inbox # <<>> /\ "query" = Head(inbox)
        /\ inbox' = Tail(inbox) /\ server' = "busy" /\ text' \in Outputs(current)
        /\ UNCHANGED <<closed, solver, written, read, dying>>
    BY <1>1 DEF HandleQuery, z3, told, client
  <2>2. Queued("query") /\ Len(inbox') = Len(inbox) - 1
    BY <1>0, <2>1, FirstTaken, Zenon
  <2>3. text = <<>> /\ Len(text) = 0
    BY <2>2 DEF AskedOnce, WaitInv
  <2>4. Len(text') <= 3
    <3>1. ASSUME NEW a, NEW b, NEW c PROVE Len(<<a, b>>) = 2 /\ Len(<<a, b, c>>) = 3
      OBVIOUS
    <3>2. Len(text') \in {2, 3}
      BY <2>1, <3>1 DEF Outputs
    <3> QED
      BY <3>2, 2 <= 3, 3 <= 3
  <2>5. UNCHANGED <<EndsToTell, SolverWork>> /\ ServerWork = 2 /\ ServerWork' = 3
    BY <2>1 DEF EndsToTell, SolverWork, ServerWork
  <2>6. OutputWork' <= OutputWork + 6
    BY <2>1, <2>3, <2>4 DEF OutputWork, Counted
  <2> QED
    BY <1>0, <2>2, <2>5, <2>6 DEF Bargain, Trade, Counted
<1>2. CASE QueryFails \/ UnhandledExit \/ HandleStop
  <2>1. PICK r \in Reasons : EndServer(r)
    BY <1>2 DEF QueryFails, UnhandledExit, HandleStop, Reasons
  <2>2. server = "idle" /\ current \in Names
    BY <1>2 DEF QueryFails, UnhandledExit, HandleStop, LastStarted, Alive,
                WaitInv, Inv
  <2>3. /\ server' = "gone" /\ closed' = TRUE /\ Len(inbox') = 0
        /\ dying' = [dying EXCEPT ![current] = r]
        /\ UNCHANGED <<solver, text, written, read>>
    BY <2>1 DEF EndServer, z3, client
  <2>4. Cardinality(EndsToTell') <= Cardinality(EndsToTell) + 1
    BY <1>0, <2>2, <2>3, EndToTell
  <2>5. /\ ServerWork = 2 /\ ServerWork' = 0 /\ SolverWork' <= SolverWork
        /\ UNCHANGED OutputWork
    BY <2>2, <2>3 DEF ServerWork, SolverWork, OutputWork
  <2> QED
    BY <1>0, <2>3, <2>4, <2>5 DEF Bargain, Trade, Counted
<1>3. CASE CollectLine \/ IgnoreLine
  <2>1. /\ read' = read + 1
        /\ UNCHANGED <<server, inbox, closed, solver, text, written, dying>>
    BY <1>3 DEF CollectLine, IgnoreLine, client, z3, told
  <2>2. UNCHANGED <<EndsToTell, SolverWork, ServerWork>>
    BY <2>1 DEF EndsToTell, SolverWork, ServerWork
  <2>3. OutputWork' = OutputWork - 1
    BY <2>1 DEF OutputWork, Counted
  <2> QED
    BY <1>0, <2>1, <2>2, <2>3 DEF Bargain, Trade, Counted
<1>4. CASE CollectEnd \/ GiveUp \/ SolverExited
  <2>1. /\ server = "busy" /\ server' = "idle" /\ read' \in {read, read + 1}
        /\ UNCHANGED <<closed, solver, text, written, dying>>
    BY <1>4 DEF CollectEnd, GiveUp, SolverExited, client, z3
  <2>2. /\ UNCHANGED <<EndsToTell, SolverWork>>
        /\ ServerWork = 3 /\ ServerWork' = 2
    BY <2>1 DEF EndsToTell, SolverWork, ServerWork
  <2>3. OutputWork' <= OutputWork
    <3>1. read' = read => OutputWork' = OutputWork
      BY <2>1 DEF OutputWork
    <3>2. read' = read + 1 => OutputWork' = OutputWork - 1
      BY <2>1 DEF OutputWork, Counted
    <3>3. OutputWork \in Int
      BY DEF Counted
    <3> QED
      BY <2>1, <3>1, <3>2, <3>3
  <2>4. Len(inbox') <= Len(inbox)
    <3>1. CASE CollectEnd \/ GiveUp
      BY <3>1 DEF CollectEnd, GiveUp, Counted
    <3>2. CASE SolverExited
      <4>1. PICK p \in 1..Len(inbox) : inbox' = Without(inbox, p)
        BY <3>2 DEF SolverExited, Without
      <4>2. Len(inbox') = Len(inbox) - 1 /\ Len(inbox) \in Nat
        BY <1>0, <4>1, OneTaken, Zenon
      <4> QED
        BY <4>2
    <3> QED
      BY <1>4, <3>1, <3>2
  <2> QED
    BY <1>0, <2>2, <2>3, <2>4 DEF Bargain, Trade, Counted
<1> QED
  BY <1>1, <1>2, <1>3, <1>4 DEF ServerStep

LEMMA SolverSpends ==
  ASSUME WaitInv, Counted, Counted', SolverStep, UNCHANGED caller
  PROVE  Bargain
<1>0. /\ TypeOK /\ UNCHANGED <<pc, current, server, text, read, dying>>
  BY DEF caller, SolverStep, PrintLine, SolverDies, PortNotices, z3, told, client,
         WaitInv, Inv
<1>1. UNCHANGED <<EndsToTell, ServerWork, CallerWork>>
  BY <1>0 DEF EndsToTell, ServerWork, CallerWork, Stage
<1>2. CASE PrintLine
  <2>1. written' = written + 1 /\ UNCHANGED <<inbox, SolverWork>>
    BY <1>2 DEF PrintLine, SolverWork
  <2>2. OutputWork' = OutputWork - 1
    BY <1>0, <2>1 DEF OutputWork, Counted
  <2> QED
    BY <1>1, <2>1, <2>2 DEF Bargain, Trade, Counted
<1>3. CASE SolverDies
  <2>1. SolverWork' = SolverWork - 1 /\ UNCHANGED <<inbox, OutputWork>>
    BY <1>3 DEF SolverDies, SolverWork, OutputWork
  <2> QED
    BY <1>1, <2>1 DEF Bargain, Trade, Counted
<1>4. CASE PortNotices
  <2>1. SolverWork' = SolverWork - 9 /\ UNCHANGED OutputWork
    BY <1>4 DEF PortNotices, SolverWork, z3, OutputWork
  <2>2. Len(inbox') = Len(inbox) + 1
    BY <1>0, <1>4, Sent DEF PortNotices, Messages
  <2> QED
    BY <1>1, <2>1, <2>2 DEF Bargain, Trade, Counted
<1> QED
  BY <1>2, <1>3, <1>4 DEF SolverStep

LEMMA SignalSpends ==
  ASSUME WaitInv, Counted, Counted', NEW k \in Names, SignalEnd(k)
  PROVE  Bargain
<1>0. TypeOK
  BY DEF WaitInv, Inv
<1>1. /\ UNCHANGED <<current, server, inbox, closed, solver, text, written, read>>
      /\ dying[k] # "no" /\ dying' = [dying EXCEPT ![k] = "no"]
      /\ pc' \in {pc, "killed"}
  BY DEF SignalEnd, z3, client
<1>2. /\ Stage' = Stage \/ Stage' < Stage
      /\ UNCHANGED <<ServerWork, SolverWork, OutputWork>>
  BY <1>0, <1>1 DEF Stage, ServerWork, SolverWork, OutputWork, TypeOK
<1>3. CallerWork' <= CallerWork
  <2>1. CallerWork \in Int /\ CallerWork' \in Int
    BY DEF Counted
  <2> QED
    BY <1>1, <1>2, <2>1, StageSpends
<1>4. Cardinality(EndsToTell') = Cardinality(EndsToTell) - 1
  BY <1>0, <1>1, EndTold
<1> QED
  BY <1>1, <1>2, <1>3, <1>4 DEF Bargain, Trade, Counted

(* Nothing repeats: each step of a check, its server, Z3 and the runtime    *)
(* lowers a number that began finite, for any number of checks.             *)
THEOREM StepsRunOut == Spec => Settles
<1>1. WaitInv /\ WaitInv' /\ [Next]_vars =>
        [StepsLeft' < StepsLeft /\ StepsLeft' \in Nat]_vars
  <2> SUFFICES ASSUME WaitInv, WaitInv', Next
               PROVE  StepsLeft' < StepsLeft /\ StepsLeft' \in Nat
    OBVIOUS
  <2>0. Counted /\ Counted'
    BY WorkCounted, WorkCountedNext
  <2>1. StepsLeft' \in Nat
    BY <2>0, StepsCountedNext
  <2>2. StepsLeft' < StepsLeft
    BY <2>0, BargainSpends, CallerSpends, ServerSpends, SolverSpends, SignalSpends DEF Next
  <2> QED
    BY <2>1, <2>2
<1> QED
  BY <1>1, Waiting, PTL DEF Spec, Settles
=============================================================================
