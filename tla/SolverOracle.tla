---------------------------- MODULE SolverOracle ----------------------------
(***************************************************************************)
(* What a guard check promises to the elaborator.  Each question is        *)
(* answered once, in its turn, by the truth or by "unknown", and an answer *)
(* that was given stays.                                                   *)
(***************************************************************************)
EXTENDS Integers

CONSTANTS Checks,  \* how many questions are asked
          Truth    \* the verdict each of them deserves

VARIABLES asked,   \* the questions answered so far
          answers  \* question -> its answer, or "none"

ovars == <<asked, answers>>

Init == /\ asked = 0
        /\ answers = [k \in 1..Checks |-> "none"]

Answer(k) == /\ asked = k - 1
             /\ asked' = k
             /\ \E a \in {Truth[k], "unknown"} : answers' = [answers EXCEPT ![k] = a]

Next == \E k \in 1..Checks : Answer(k)

Spec == Init /\ [][Next]_ovars
=============================================================================
