-------------------------- MODULE MCIncrementalBuild --------------------------
(***************************************************************************)
(* Small instances of IncrementalBuild for TLC: import graphs, and what    *)
(* checking a component yields.                                            *)
(*                                                                         *)
(* Three texts of a file.  1: its interface is inferred, and changes with  *)
(* the interfaces it imports.  2: the same with its types written out, so  *)
(* that it only checks against first interfaces and has the first itself.  *)
(* 3: another interface, the same whatever it imports.                     *)
(***************************************************************************)
EXTENDS IncrementalBuild, TLC

CONSTANTS base, mid, app, run1, run2

Symmetric == Permutations({run1, run2})

Ifaces == {1, 2}
Codes  == Text \X (UNION {[S -> Ifaces] : S \in SUBSET Module})
               \X (UNION {[S -> Text] : S \in SUBSET Module})

\* A component in which module m sees the interfaces of the modules Sees[m] and
\* expands the macros of the modules Uses[m].
Check3(c, texts, env, Sees, Uses) ==
  LET other == {d \in c : texts[d] = 3} \cup {d \in DOMAIN env : env[d] = 2}
      iface == [m \in c |-> IF \/ texts[m] = 3
                               \/ texts[m] = 1 /\ Sees[m] \cap other # {}
                            THEN 2 ELSE 1]
      all   == [d \in c \cup DOMAIN env |-> IF d \in c THEN iface[d] ELSE env[d]]
  IN  IF \E m \in c : texts[m] = 2 /\ \E d \in Sees[m] : all[d] = 2
      THEN Failed
      ELSE [m \in c |-> [iface |-> iface[m],
                         code  |-> <<texts[m], [d \in Sees[m] |-> all[d]],
                                     [d \in Uses[m] |-> texts[d]]>>]]

NoMacros == [m \in Module |-> {}]

\* A module sees the interfaces of what it imports.
CompileDirect(c, texts, env) == Check3(c, texts, env, Imports, NoMacros)

\* Here text 2 is text 1 with a change that reaches no interface hash, a comment
\* for instance: it checks like text 1.
Lenient(c, texts, env, Uses) ==
  LET alike == [m \in DOMAIN texts |-> IF texts[m] = 2 THEN 1 ELSE texts[m]]
      out   == Check3(c, alike, env, Imports, NoMacros)
  IN  [m \in c |-> [out[m] EXCEPT !.code[1] = texts[m],
                                  !.code[3] = [d \in Uses[m] |-> texts[d]]]]

CompileLenient(c, texts, env) == Lenient(c, texts, env, NoMacros)

\* A module expands the macros of what it imports: they are in its text, and its
\* interface does not tell them apart.
CompileMacros(c, texts, env) == Lenient(c, texts, env, Imports)

\* app sees the declarations of base that mid republishes ("public use").
Through == [m \in Module |-> IF m = app THEN {base} ELSE {}]
CompileThrough(c, texts, env) == Check3(c, texts, env, Through, NoMacros)

\* app imports base.
Chain == [m \in Module |-> IF m = app THEN {base} ELSE {}]
ChainOrder == <<{base}, {app}>>

\* app imports mid, mid imports base.
Facade == [m \in Module |-> CASE m = base -> {} [] m = mid -> {base}
                              [] m = app -> {mid}]
FacadeOrder == <<{base}, {mid}, {app}>>

\* mid and app import one another, and mid imports base.
Loop == [m \in Module |-> CASE m = base -> {} [] m = mid -> {base, app}
                            [] m = app -> {mid}]
LoopOrder == <<{base}, {mid, app}>>
=============================================================================
