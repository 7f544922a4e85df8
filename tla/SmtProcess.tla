----------------------------- MODULE SmtProcess -----------------------------
(***************************************************************************)
(* Cure.SMT.Process: a GenServer that owns a port to a Z3 process.  A      *)
(* client starts one server per question.  The server writes the query and *)
(* an (echo sentinel) to the port, then reads lines until the sentinel,    *)
(* the solver's exit or a silence of its timeout.  Z3 may be slow, silent  *)
(* or die at any point.  When the server ends, the processes linked to it  *)
(* and those that monitor it hear of it in a later step.                   *)
(***************************************************************************)
EXTENDS Integers, Sequences

CONSTANTS Checks,  \* how many questions, each to a server of its own
          Truth    \* question -> the verdict it deserves

ASSUME ChecksAssumption == Checks \in Nat
ASSUME TruthAssumption == Truth \in [1..Checks -> {"sat", "unsat"}]

VARIABLES
  current,  \* the number of servers started so far: the last one's name
  server,   \* "none", "idle", in a query ("busy"), or "gone"
  inbox,    \* the requests and the exit status in the server's mailbox
  closed,   \* the port is closed
  solver,   \* the Z3 process: "none", "up" or "dead"
  text,     \* all that Z3 prints for the query, line by line
  written,  \* how many of these lines are in the server's mailbox
  read,     \* how many of them the server has taken out
  dying,    \* server -> the reason of an end nobody was told of, or "no"
  awaits,   \* what the client's monitor waits for: "no", "reply" or "down"
  news      \* what has come to it: "no", a classification, or "down"

z3 == <<solver, text, written>>
client == <<current, awaits>>
told == <<dying, news>>
pvars == <<client, server, inbox, closed, z3, read, told>>

Names == 1..Checks
Verdicts == {"sat", "unsat"}
Classes == Verdicts \cup {"unknown", "error"}
Reasons == {"normal", "crash"}
Printed == Classes \cup {"end"}
Messages == {"query", "stop", "exit_status"}

(* What Z3 can print for the query of server k.  When it rejects a          *)
(* declaration or the assertion it still runs (check-sat), on what is left: *)
(* the verdict after an error is a verdict about another question.          *)
Outputs(k) == {<<v, "end">> : v \in {Truth[k], "unknown"}}
              \cup {<<"error", v, "end">> : v \in Verdicts}

-----------------------------------------------------------------------------
SlipOutput == [i \in 1..read |-> text[read + 1 - i]]

(* The lines before the sentinel, in the order they were printed, and what  *)
(* their first one makes of the query.                                      *)
Output == [i \in 1..read |-> text[i]]

Classify(lines) == IF lines = <<>> THEN "unknown" ELSE lines[1]

-----------------------------------------------------------------------------
Alive == server \in {"idle", "busy"}

Reply(answer) == news' = IF awaits = "reply" THEN answer ELSE news

(* The process leaves the process table, and its port closes with it.       *)
EndServer(reason) ==
  /\ server' = "gone"
  /\ closed' = TRUE
  /\ dying' = [dying EXCEPT ![current] = reason]
  /\ inbox' = <<>>
  /\ UNCHANGED <<client, z3, read, news>>

(* start_link and init: a fresh process with a fresh port, or neither when  *)
(* z3 is not on the path or the port cannot be opened.                      *)
StartServer ==
  /\ current < Checks
  /\ current' = current + 1
  /\ inbox' = <<>> /\ text' = <<>> /\ written' = 0 /\ read' = 0
  /\ \/ server' = "idle" /\ closed' = FALSE /\ solver' = "up"
     \/ server' = "gone" /\ closed' = TRUE /\ solver' = "none"

(* handle_call({:query, _}) up to its first receive.                        *)
HandleQuery ==
  /\ server = "idle" /\ inbox # <<>> /\ Head(inbox) = "query"
  /\ ~closed
  /\ server' = "busy"
  /\ inbox' = Tail(inbox)
  /\ text' \in Outputs(current)
  /\ UNCHANGED <<client, closed, solver, written, read, told>>

(* Port.command raises on a closed port; a solver that is gone before its   *)
(* port knows fails the write, and the port takes its owner down.           *)
QueryFails ==
  /\ server = "idle" /\ inbox # <<>> /\ Head(inbox) = "query"
  /\ closed \/ solver = "dead"
  /\ EndServer("crash")

CollectLine ==
  /\ server = "busy" /\ read < written /\ text[read + 1] # "end"
  /\ read' = read + 1
  /\ UNCHANGED <<client, server, inbox, closed, z3, told>>

CollectEnd ==
  /\ server = "busy" /\ read < written /\ text[read + 1] = "end"
  /\ Reply(Classify(Output))
  /\ read' = read + 1
  /\ server' = "idle"
  /\ UNCHANGED <<client, inbox, closed, z3, dying>>

ExitStatusAt(i) == inbox[i] = "exit_status"

SlipSolverExited ==
  /\ server = "busy" /\ read = written
  /\ \E i \in 1..Len(inbox) :
       /\ ExitStatusAt(i)
       /\ inbox' = SubSeq(inbox, 1, i - 1) \o SubSeq(inbox, i + 1, Len(inbox))
  /\ server' = "idle"
  /\ UNCHANGED <<client, closed, z3, read, told>>

(* The exit status comes after every line; it is received selectively, past *)
(* a stop that waits.                                                       *)
SolverExited ==
  /\ server = "busy" /\ read = written
  /\ Reply("error")
  /\ \E i \in 1..Len(inbox) :
       /\ ExitStatusAt(i)
       /\ inbox' = SubSeq(inbox, 1, i - 1) \o SubSeq(inbox, i + 1, Len(inbox))
  /\ server' = "idle"
  /\ UNCHANGED <<client, closed, z3, read, dying>>

SlipGiveUp ==
  /\ server = "busy" /\ read = written /\ read > 0
  /\ \A i \in 1..Len(inbox) : ~ExitStatusAt(i)
  /\ Reply("error")
  /\ server' = "idle"
  /\ UNCHANGED <<client, inbox, closed, z3, read, dying>>

(* Nothing came for as long as the timeout.                                 *)
GiveUp ==
  /\ server = "busy" /\ read = written
  /\ \A i \in 1..Len(inbox) : ~ExitStatusAt(i)
  /\ Reply("error")
  /\ server' = "idle"
  /\ UNCHANGED <<client, inbox, closed, z3, read, dying>>

(* handle_info: a line that comes after its query was given up.             *)
IgnoreLine ==
  /\ server = "idle" /\ read < written
  /\ read' = read + 1
  /\ UNCHANGED <<client, server, inbox, closed, z3, told>>

(* handle_info has no clause for the exit status.                           *)
UnhandledExit ==
  /\ server = "idle" /\ inbox # <<>> /\ Head(inbox) = "exit_status"
  /\ EndServer("crash")

(* GenServer.stop, and terminate.                                           *)
HandleStop ==
  /\ server = "idle" /\ inbox # <<>> /\ Head(inbox) = "stop"
  /\ EndServer("normal")

ServerStep == \/ HandleQuery \/ QueryFails
              \/ CollectLine \/ CollectEnd \/ SolverExited \/ GiveUp
              \/ IgnoreLine \/ UnhandledExit \/ HandleStop

-----------------------------------------------------------------------------
(* Z3 and its port.  Neither owes the server anything.                      *)
PrintLine ==
  /\ solver = "up" /\ ~closed /\ written < Len(text)
  /\ written' = written + 1
  /\ UNCHANGED <<client, server, inbox, closed, solver, text, read, told>>

SolverDies ==
  /\ solver = "up"
  /\ solver' = "dead"
  /\ UNCHANGED <<client, server, inbox, closed, text, written, read, told>>

PortNotices ==
  /\ solver = "dead" /\ ~closed
  /\ closed' = TRUE
  /\ inbox' = Append(inbox, "exit_status")
  /\ UNCHANGED <<client, server, z3, read, told>>

SolverStep == PrintLine \/ SolverDies \/ PortNotices
=============================================================================
