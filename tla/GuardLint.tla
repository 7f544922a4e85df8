------------------------------ MODULE GuardLint ------------------------------
(***************************************************************************)
(* Cure.Elab.GuardLint.run_isolated: the elaborator asks the solver about  *)
(* a guard.  It traps exits, starts a server, queries it for at most ten   *)
(* seconds, stops it, takes the server's exit message out of its mailbox   *)
(* and puts the trap_exit flag back.  The comment above it: the lint "must *)
(* never crash an elaboration".                                            *)
(***************************************************************************)
EXTENDS SmtProcess, FiniteSets

VARIABLES
  pc,       \* where the elaborator is in run_isolated, "off" or "killed"
  trap,     \* its trap_exit flag
  prior,    \* the flag it found
  held,     \* what the check will return
  answers,  \* question -> what its check returned, or "none"
  exits,    \* the servers whose exit signal has come and was not taken out
  seen      \* the servers whose end one of the elaborator's monitors reported

process == <<server, closed, z3, read, dying>>
flags == <<trap, prior>>
signals == <<exits, seen>>
caller == <<pc, flags, held, answers, signals>>
vars == <<pvars, caller>>

Answers == Verdicts \cup {"unknown"}

(* How many checks have returned.                                           *)
Over == IF pc \in {"off", "killed"} THEN current ELSE current - 1

Init ==
  /\ current = 0
  /\ server = "none" /\ inbox = <<>> /\ closed = TRUE
  /\ solver = "none" /\ text = <<>> /\ written = 0 /\ read = 0
  /\ dying = [k \in Names |-> "no"]
  /\ awaits = "no" /\ news = "no"
  /\ pc = "off" /\ trap \in BOOLEAN /\ prior = trap
  /\ held = "unknown"
  /\ answers = [k \in Names |-> "none"]
  /\ exits = {} /\ seen = {}

-----------------------------------------------------------------------------
(* Process.flag(:trap_exit, true) and start_link.  One that fails takes the *)
(* exit message of its own failure and leaves nothing to query or stop.     *)
Start ==
  /\ pc = "off"
  /\ prior' = trap
  /\ trap' = TRUE
  /\ StartServer
  /\ pc' = IF server' = "idle" THEN "query" ELSE "restore"
  /\ held' = "unknown"
  /\ UNCHANGED <<told, awaits, answers, signals>>

(* A request of the elaborator: monitor the server and send, or hear at     *)
(* once that there is no such process.                                      *)
Ask(request, waits, waiting, without) ==
  IF Alive
  THEN /\ inbox' = Append(inbox, request)
       /\ awaits' = waits
       /\ pc' = waiting
  ELSE /\ pc' = without
       /\ UNCHANGED <<inbox, awaits>>

Query ==
  /\ pc = "query"
  /\ Ask("query", "reply", "calling", "stop")
  /\ UNCHANGED <<process, current, news, flags, held, answers, signals>>

SlipTakeReply ==
  /\ pc = "calling" /\ news # "no"
  /\ held' = IF news = "down" THEN "unknown" ELSE news
  /\ awaits' = "no" /\ news' = "no"
  /\ pc' = "stop"
  /\ UNCHANGED <<process, current, inbox, flags, answers, signals>>

(* The reply, or the end of the server, which is caught.                    *)
TakeReply ==
  /\ pc = "calling" /\ news # "no"
  /\ held' = IF news \in Verdicts THEN news ELSE "unknown"
  /\ awaits' = "no" /\ news' = "no"
  /\ pc' = "stop"
  /\ UNCHANGED <<process, current, inbox, flags, answers, signals>>

SlipCallTimeout ==
  /\ pc = "calling" /\ news = "no"
  /\ awaits' = "no"
  /\ pc' = "query"
  /\ UNCHANGED <<process, current, inbox, news, flags, held, answers, signals>>

(* Ten seconds without either; a later reply is dropped.                    *)
CallTimeout ==
  /\ pc = "calling" /\ news = "no"
  /\ awaits' = "no"
  /\ pc' = "stop"
  /\ UNCHANGED <<process, current, inbox, news, flags, held, answers, signals>>

Stop ==
  /\ pc = "stop"
  /\ Ask("stop", "down", "stopping", "drain")
  /\ UNCHANGED <<process, current, news, flags, held, answers, signals>>

SlipStopped ==
  /\ pc = "stopping"
  /\ awaits' = "no" /\ news' = "no"
  /\ pc' = "drain"
  /\ UNCHANGED <<process, current, inbox, flags, held, answers, signals>>

(* GenServer.stop waits without a limit.                                    *)
Stopped ==
  /\ pc = "stopping" /\ news = "down"
  /\ awaits' = "no" /\ news' = "no"
  /\ pc' = "drain"
  /\ UNCHANGED <<process, current, inbox, flags, held, answers, signals>>

SlipDrain ==
  /\ pc = "drain"
  /\ pc' = "restore"
  /\ UNCHANGED <<pvars, flags, held, answers, signals>>

(* receive {:EXIT, ^pid, _} after 0.                                        *)
Drain ==
  /\ pc = "drain"
  /\ exits' = exits \ {current}
  /\ pc' = "restore"
  /\ UNCHANGED <<pvars, flags, held, answers, seen>>

Restore ==
  /\ pc = "restore"
  /\ trap' = prior
  /\ answers' = [answers EXCEPT ![current] = held]
  /\ pc' = "off"
  /\ UNCHANGED <<pvars, prior, held, signals>>

CallerStep == \/ Start \/ Query \/ TakeReply \/ CallTimeout
              \/ Stop \/ Stopped \/ Drain \/ Restore

-----------------------------------------------------------------------------
(* The runtime tells of the end of server k: first the linked elaborator,   *)
(* whom an abnormal reason kills unless it traps exits, then the monitor.   *)
Watched(k) == k = current /\ awaits # "no"

SignalEnd(k) ==
  /\ dying[k] # "no"
  /\ dying' = [dying EXCEPT ![k] = "no"]
  /\ IF trap
     THEN exits' = exits \cup {k} /\ pc' = pc
     ELSE IF dying[k] = "crash" /\ pc # "killed"
          THEN exits' = exits \cup {k} /\ pc' = "killed"
          ELSE UNCHANGED <<exits, pc>>
  /\ IF Watched(k)
     THEN seen' = seen \cup {k} /\ news' = IF news = "no" THEN "down" ELSE news
     ELSE UNCHANGED <<seen, news>>
  /\ UNCHANGED <<client, server, inbox, closed, z3, read, flags, held, answers>>

Next == \/ CallerStep
        \/ (ServerStep \/ SolverStep) /\ UNCHANGED caller
        \/ \E k \in Names : SignalEnd(k)

(* The scheduler runs the elaborator, the server and the exit signals, and  *)
(* timers fire.  Nothing is owed by Z3, nor by a start_link yet to come.    *)
Fairness ==
  /\ WF_vars(ServerStep /\ UNCHANGED caller)
  /\ WF_vars(Query \/ TakeReply \/ Stop \/ Stopped \/ Drain \/ Restore)
  /\ \A k \in Names : WF_vars(SignalEnd(k))

Spec == Init /\ [][Next]_vars /\ Fairness

-----------------------------------------------------------------------------
TypeOK ==
  /\ current \in 0..Checks
  /\ server \in {"none", "idle", "busy", "gone"}
  /\ inbox \in Seq(Messages)
  /\ closed \in BOOLEAN
  /\ solver \in {"none", "up", "dead"}
  /\ text \in Seq(Printed)
  /\ written \in Nat /\ read \in 0..written
  /\ dying \in [Names -> Reasons \cup {"no"}]
  /\ awaits \in {"no", "reply", "down"}
  /\ news \in Classes \cup {"no", "down"}
  /\ pc \in {"off", "query", "calling", "stop", "stopping", "drain",
             "restore", "killed"}
  /\ trap \in BOOLEAN /\ prior \in BOOLEAN
  /\ held \in Answers
  /\ answers \in [Names -> Answers \cup {"none"}]
  /\ exits \subseteq Names /\ seen \subseteq Names

(* A check returns only when its server has left the process table, however *)
(* late Z3 is and whichever timeout came first (guard_lint.ex, the stop in  *)
(* the `after`).                                                            *)
ServerEnds == pc \in {"restore", "off", "killed"} => ~Alive

(* "so it never leaks into the caller's own mailbox": when the query or the *)
(* stop saw the server end, the exit signal of that server neither outlives *)
(* the check in the mailbox nor kills the elaborator after it.  When both   *)
(* only found no process the signal may still be under way, and does.       *)
ExitsDrained ==
  \A k \in seen : pc \in {"restore", "off", "killed"} \/ k < current
                    => k \notin exits /\ dying[k] = "no"

(* Each check returns the verdict Z3 owes its own question, or "unknown":   *)
(* never one that belongs to another question, to a rejected query or to an *)
(* output cut short, and never twice.                                       *)
Oracle == INSTANCE SolverOracle WITH asked <- Over
AnswersOracle == Oracle!Spec

(* "must never crash an elaboration", as far as waiting goes: a check that  *)
(* began returns, even when Z3 hangs with the query half answered.          *)
ChecksReturn == pc \notin {"off", "killed"} ~> pc = "off"

(* Whoever waits is waited for: the server has a step, or its end is still  *)
(* to be told.  GenServer.stop has no timeout that would help it out.       *)
ServerHasStep == server = "busy" \/ (server = "idle" /\ inbox # <<>>)

NobodyForgotten ==
  pc \in {"calling", "stopping"} =>
    news # "no" \/ ServerHasStep \/ dying[current] # "no"

(* How many steps are left at most: those of the elaborator in this check   *)
(* and in the ones to come, a message that makes the server print and read  *)
(* an output, the lines themselves, one exit of Z3, and the ends to tell.   *)
Stage ==
  CASE pc = "query" -> 6    [] pc = "calling" -> 5 [] pc = "stop" -> 4
    [] pc = "stopping" -> 3 [] pc = "drain" -> 2   [] pc = "restore" -> 1
    [] OTHER -> 0

ServerWork == CASE server = "busy" -> 3 [] server = "idle" -> 2 [] OTHER -> 0

SolverWork == (IF closed THEN 0 ELSE 9) + (IF solver = "up" THEN 1 ELSE 0)

EndsToTell == {k \in Names : dying[k] # "no"}

CallerWork == 67 * (Checks - current) + 9 * Stage

OutputWork == 2 * (Len(text) - written) + (written - read)

StepsLeft == CallerWork + 8 * Len(inbox) + ServerWork + SolverWork + OutputWork
             + Cardinality(EndsToTell)

(* Nothing repeats: every step of a check, of its server, of Z3 and of the  *)
(* runtime brings the end closer, so that no check goes on for ever and no  *)
(* server outlives the last one, even if nothing is scheduled fairly.       *)
Settles == [][StepsLeft' < StepsLeft /\ StepsLeft' \in Nat]_vars
=============================================================================
