------------------------ MODULE IncrementalBuildClean -------------------------
(***************************************************************************)
(* Reuse makes no difference (InterfacesAreClean), for any number of runs  *)
(* that write and read one cache without a lock, where no two modules      *)
(* import one another and checking a module depends on its text and on the *)
(* interfaces of the modules it names.                                     *)
(***************************************************************************)
EXTENDS IncrementalBuildProofs

SingleModules ==
  \A i \in 1..Len(Components) : \E m \in Module : Components[i] = {m}

Named(m) == Imports[m] \ {m}

\* Neither macros nor republished declarations of other modules count.
NamedOnly ==
  \A m \in Module :
    \A t1, t2 \in [Reached({m}) -> Text], e1, e2 \in [Outside({m}) -> Iface] :
      t1[m] = t2[m] /\ (\A d \in Named(m) : e1[d] = e2[d])
        => Compile({m}, t1, e1) = Compile({m}, t2, e2)

(***************************************************************************)
(* The inductive invariant: whoever wrote a record of the cache, it is the *)
(* outcome of a check with the text and the interfaces that it names.      *)
(***************************************************************************)

Outcomes(m, rec) ==
  \E texts \in [Reached({m}) -> Text], env \in [Outside({m}) -> Iface] :
    /\ texts[m] = rec.text
    /\ \A d \in Named(m) : env[d] = rec.deps[d]
    /\ Compile({m}, texts, env) # Failed
    /\ Compile({m}, texts, env)[m].iface = rec.iface

Sound(interfaces) ==
  \A m \in Module : interfaces[m] # None => Outcomes(m, interfaces[m])

\* What a run knows of a component it has decided.
CleanAt(w, i) ==
  LET c   == Components[i]
      out == Outcome(w, c)
  IN  \A m \in c :
        IF out = Failed THEN checked[w][m] = None
        ELSE checked[w][m] # None /\ checked[w][m].iface = out[m].iface

\* All that a checked module reaches is checked.
Closed(w) ==
  \A m \in Module : checked[w][m] # None =>
    \A d \in Imports[m] : checked[w][d] # None

CleanOf(w) ==
  /\ Sound(cached[w])
  /\ Sound(checked[w])
  /\ Closed(w)
  /\ \A i \in 1..done[w] : CleanAt(w, i)

CleanInv == Sound(cache) /\ \A w \in Run : CleanOf(w)

(***************************************************************************)
(* A component follows whatever it reaches.                                *)
(***************************************************************************)

LEMMA OutsideBefore ==
  ASSUME NEW i \in 1..Len(Components), NEW d \in Outside(Components[i])
  PROVE  \E j \in 1..Len(Components) : j < i /\ d \in Components[j]
<1> DEFINE S == UNION {Components[j] : j \in 1..i}
<1>1. S \in SUBSET Module /\ Components[i] \subseteq S
  BY ComponentsAssumption
<1>2. ASSUME NEW x \in S PROVE Imports[x] \subseteq S
  <2>1. PICK j \in 1..i : x \in Components[j]
    OBVIOUS
  <2>2. x \in Module /\ j \in 1..Len(Components)
    BY <1>1
  <2>3. PICK k \in 1..Len(Components) :
          /\ \A l \in 1..Len(Components) : x \in Components[l] => l = k
          /\ \A y \in Imports[x] : \E l \in 1..k : y \in Components[l]
    BY <2>2, ComponentsAssumption
  <2>4. k = j
    BY <2>1, <2>2, <2>3
  <2> QED
    BY <2>3, <2>4
<1>3. d \in S
  BY <1>1, <1>2 DEF Outside, Reached
<1>4. PICK j \in 1..i : d \in Components[j]
  BY <1>3
<1>5. j # i
  BY <1>4 DEF Outside
<1> QED
  BY <1>4, <1>5

\* What was found out about a component stays so while what it reaches stays.
LEMMA CleanStays ==
  ASSUME NEW w \in Run, NEW i \in 1..Len(Components), CleanAt(w, i),
         scanned'[w] = scanned[w],
         \A j \in 1..i : \A m \in Components[j] : checked'[w][m] = checked[w][m]
  PROVE  CleanAt(w, i)'
<1> DEFINE c == Components[i]
<1>1. ASSUME NEW d \in Outside(c) PROVE checked'[w][d] = checked[w][d]
  <2>1. PICK j \in 1..Len(Components) : j < i /\ d \in Components[j]
    BY OutsideBefore
  <2> QED
    BY <2>1
<1>2. Importable(w, c)' <=> Importable(w, c)
  BY <1>1 DEF Importable
<1>3. Environment(w, c)' = Environment(w, c)
  BY <1>1 DEF Environment
<1>4. Outcome(w, c)' = Outcome(w, c)
  BY <1>2, <1>3 DEF Outcome
<1>5. \A m \in c : checked'[w][m] = checked[w][m]
  OBVIOUS
<1> QED
  BY <1>4, <1>5 DEF CleanAt

LEMMA NothingSound == Sound(Nothing)
BY DEF Sound, Nothing

LEMMA CleanInit == Init => CleanInv
<1> SUFFICES ASSUME Init PROVE CleanInv
  OBVIOUS
<1>1. Sound(cache)
  BY NothingSound DEF Init
<1>2. ASSUME NEW w \in Run PROVE CleanOf(w)
  <2>1. cached[w] = Nothing /\ checked[w] = Nothing /\ done[w] = 0
    BY <1>2 DEF Init
  <2> QED
    BY <2>1, NothingSound DEF CleanOf, Closed, Nothing
<1> QED
  BY <1>1, <1>2 DEF CleanInv

LEMMA CleanLeave ==
  ASSUME TypeOK, NEW w \in Run, Leave(w)
  PROVE  CleanOf(w)'
<1>1. cached'[w] = Nothing /\ checked'[w] = Nothing /\ done'[w] = 0
  BY DEF Leave, TypeOK
<1> QED
  BY <1>1, NothingSound DEF CleanOf, Closed, Nothing, Sound

\* Whatever leaves alone what a run knows.
LEMMA SameClean ==
  ASSUME TypeOK, NEW v \in Run, CleanOf(v), Sound(cached'[v]),
         UNCHANGED <<scanned[v], done[v], checked[v]>>
  PROVE  CleanOf(v)'
<1>1. ASSUME NEW i \in 1..done[v] PROVE CleanAt(v, i)'
  <2>1. i \in 1..Len(Components) /\ CleanAt(v, i)
    BY DEF TypeOK, CleanOf
  <2> QED
    BY <2>1, CleanStays
<1>2. Sound(checked[v])' /\ Closed(v)'
  BY DEF CleanOf, Sound, Closed
<1> QED
  BY <1>1, <1>2 DEF CleanOf, Sound

(***************************************************************************)
(* Deciding a component.                                                   *)
(***************************************************************************)

\* A step that decides the component {m}: what is to be shown of it is only what
\* it says of m.
LEMMA CleanDecide ==
  ASSUME TypeOK, PhaseInv, NEW w \in Run, CleanOf(w),
         NEW m \in Module, Decide(w, {m}), UNCHANGED <<scanned, cached>>,
         \A x \in Module \ {m} : checked'[w][x] = checked[w][x],
         checked'[w][m] # None =>
           /\ Outcomes(m, checked'[w][m])
           /\ \A d \in Named(m) : checked[w][d] # None,
         IF Outcome(w, {m}) = Failed THEN checked'[w][m] = None
         ELSE /\ checked'[w][m] # None
              /\ checked'[w][m].iface = Outcome(w, {m})[m].iface
  PROVE  CleanOf(w)'
<1> PICK k \in 1..Len(Components) : k = done[w] + 1
  BY DecideType
<1>1. k = done[w] + 1 /\ done'[w] = k /\ Components[k] = {m}
  BY DecideType
<1>2. checked[w][m] = None
  <2>1. k > done[w]
    BY DEF TypeOK
  <2> QED
    BY <1>1, <2>1 DEF PhaseInv, PhaseOf
<1>3. Sound(cached[w])' /\ Sound(checked[w])'
  BY DEF CleanOf, Sound
<1>4. Closed(w)'
  <2> SUFFICES ASSUME NEW x \in Module, checked'[w][x] # None,
                      NEW d \in Imports[x]
               PROVE  checked'[w][d] # None
    BY DEF Closed
  <2>1. d \in Module
    BY ImportsAssumption
  <2>2. CASE x = m
    BY <2>1, <2>2 DEF Named
  <2>3. CASE x # m
    <3>1. checked[w][d] # None
      BY <2>3 DEF CleanOf, Closed
    <3> QED
      BY <1>2, <2>1, <3>1
  <2> QED
    BY <2>2, <2>3
<1>5. ASSUME NEW i \in 1..done[w] PROVE CleanAt(w, i)'
  <2>1. i \in 1..Len(Components) /\ CleanAt(w, i)
    BY DEF TypeOK, CleanOf
  <2>2. ASSUME NEW j \in 1..i, NEW x \in Components[j]
        PROVE  checked'[w][x] = checked[w][x]
    <3>1. j \in 1..Len(Components) /\ j # k /\ x \in Module
      BY <1>1, <2>1, ComponentsAssumption DEF TypeOK
    <3>2. x # m
      BY <1>1, <3>1, ComponentsDisjoint
    <3> QED
      BY <3>1, <3>2
  <2> QED
    BY <2>1, <2>2, CleanStays
<1>6. CleanAt(w, k)'
  <2>1. ASSUME NEW d \in Outside({m}) PROVE checked'[w][d] = checked[w][d]
    BY DEF Outside, Reached
  <2>2. Importable(w, {m})' <=> Importable(w, {m})
    BY <2>1 DEF Importable
  <2>3. Environment(w, {m})' = Environment(w, {m})
    BY <2>1 DEF Environment
  <2>4. Outcome(w, {m})' = Outcome(w, {m})
    BY <2>2, <2>3 DEF Outcome
  <2> QED
    BY <1>1, <2>4 DEF CleanAt
<1>7. \A i \in 1..k : i \in 1..done[w] \/ i = k
  BY DEF TypeOK
<1> QED
  BY <1>1, <1>3, <1>4, <1>5, <1>6, <1>7 DEF CleanOf

\* Reuse: all that m reaches is checked, and so m would check as it did.
LEMMA ReusedOutcome ==
  ASSUME NamedOnly, TypeOK, PhaseInv, NEW w \in Run, CleanOf(w),
         pc[w] = "check", NEW m \in Module, IsComponent({m}),
         Unchanged(w, {m}, m)
  PROVE  /\ \A d \in Named(m) : checked[w][d] # None
         /\ Outcomes(m, cached[w][m])
         /\ Outcome(w, {m}) # Failed
         /\ Outcome(w, {m})[m].iface = cached[w][m].iface
<1> DEFINE texts == [x \in Reached({m}) |-> scanned[w][x]]
           env   == Environment(w, {m})
           S     == {x \in Module : checked[w][x] # None} \cup {m}
<1>1. \A d \in Named(m) : /\ checked[w][d] # None
                          /\ checked[w][d].iface = cached[w][m].deps[d]
  BY DEF Unchanged, Named
<1>2. Outcomes(m, cached[w][m])
  BY DEF Unchanged, CleanOf, Sound
<1>3. Importable(w, {m})
  <2>1. S \in SUBSET Module /\ {m} \subseteq S
    OBVIOUS
  <2>2. ASSUME NEW x \in S PROVE Imports[x] \subseteq S
    <3>1. \A d \in Imports[x] : d \in Module
      BY ImportsAssumption
    <3>2. CASE x = m
      BY <1>1, <3>1, <3>2 DEF Named
    <3>3. CASE checked[w][x] # None
      BY <3>1, <3>3 DEF CleanOf, Closed
    <3> QED
      BY <3>2, <3>3
  <2>3. ASSUME NEW d \in Outside({m}) PROVE d \in S
    BY <2>1, <2>2 DEF Outside, Reached
  <2> QED
    BY <2>3 DEF Importable, Outside
<1>4. Outcome(w, {m}) = Compile({m}, texts, env)
  BY <1>3 DEF Outcome
<1>5. scanned[w] \in [Module -> Text] /\ checked[w] \in [Module -> Interface \cup {None}]
  BY DEF PhaseInv, PhaseOf, TypeOK, Interfaces
<1>6. texts \in [Reached({m}) -> Text] /\ texts[m] = scanned[w][m]
  BY <1>5 DEF Reached
<1>7. \A d \in Outside({m}) : d \in Module /\ checked[w][d] \in Interface
  BY <1>3, <1>5 DEF Importable, Outside, Reached
<1>8. env \in [Outside({m}) -> Iface]
  BY <1>7 DEF Environment, Interface
<1>9. \A d \in Named(m) : env[d] = checked[w][d].iface
  BY ImportsReached DEF Named, Environment
<1>10. PICK t \in [Reached({m}) -> Text], e \in [Outside({m}) -> Iface] :
         /\ t[m] = cached[w][m].text
         /\ \A d \in Named(m) : e[d] = cached[w][m].deps[d]
         /\ Compile({m}, t, e) # Failed
         /\ Compile({m}, t, e)[m].iface = cached[w][m].iface
  BY <1>2 DEF Outcomes
<1>11. t[m] = texts[m] /\ \A d \in Named(m) : e[d] = env[d]
  BY <1>1, <1>6, <1>9, <1>10 DEF Unchanged
<1> HIDE DEF texts, env
<1>12. Compile({m}, t, e) = Compile({m}, texts, env)
  BY <1>6, <1>8, <1>10, <1>11 DEF NamedOnly
<1> QED
  BY <1>1, <1>2, <1>4, <1>10, <1>12

\* Checking: the record that is frozen is an outcome.
LEMMA FrozenOutcome ==
  ASSUME TypeOK, PhaseInv, NEW w \in Run, pc[w] = "check",
         NEW m \in Module, IsComponent({m}), Outcome(w, {m}) # Failed
  PROVE  /\ \A d \in Named(m) : checked[w][d] # None
         /\ Outcomes(m, Freeze(w, {m}, Outcome(w, {m}))[m])
<1> DEFINE texts == [x \in Reached({m}) |-> scanned[w][x]]
           env   == Environment(w, {m})
           out   == Outcome(w, {m})
           rec   == Freeze(w, {m}, out)[m]
<1>1. /\ \A d \in Outside({m}) : checked[w][d] \in Interface
      /\ texts \in [Reached({m}) -> Text] /\ env \in [Outside({m}) -> Iface]
      /\ out = Compile({m}, texts, env)
  BY OutcomeType
<1>2. \A d \in Named(m) : d \in Outside({m}) /\ d \in Module \ {m}
  BY ImportsReached DEF Named, Outside, Reached
<1>3. rec.text = scanned[w][m] /\ rec.iface = out[m].iface
  BY DEF Freeze
<1>4. \A d \in Named(m) : checked[w][d] # None
  BY <1>1, <1>2, NoneAssumption
<1>5. \A d \in Named(m) : rec.deps[d] = checked[w][d].iface
  BY <1>2, <1>4 DEF Freeze, Named
<1>6. \A d \in Named(m) : env[d] = rec.deps[d]
  BY <1>2, <1>5 DEF Environment
<1>7. texts[m] = rec.text
  BY <1>3 DEF Reached
<1>8. out # Failed
  OBVIOUS
<1>9. Outcomes(m, rec)
  <2> HIDE DEF texts, env, out, rec
  <2> QED
    BY <1>1, <1>3, <1>6, <1>7, <1>8 DEF Outcomes
<1> QED
  BY <1>4, <1>9

LEMMA CleanCheck ==
  ASSUME SingleModules, NamedOnly, TypeOK, PhaseInv,
         NEW w \in Run, CleanOf(w), Check(w)
  PROVE  CleanOf(w)'
<1> PICK i \in 1..Len(Components) : \/ ReuseComponent(w, Components[i])
                                    \/ CheckComponent(w, Components[i])
                                    \/ FailComponent(w, Components[i])
  BY DEF Check
<1> PICK m \in Module : Components[i] = {m}
  BY DEF SingleModules
<1>1. IsComponent({m})
  BY DEF IsComponent
<1>2. /\ Decide(w, {m}) /\ pc[w] = "check"
      /\ UNCHANGED <<scanned, cached>>
  BY DEF ReuseComponent, CheckComponent, FailComponent, Decide, found
<1>3. CASE ReuseComponent(w, {m})
  <2>1. Unchanged(w, {m}, m)
    BY <1>3 DEF ReuseComponent, CanReuse
  <2>2. /\ checked'[w][m] = cached[w][m]
        /\ \A x \in Module \ {m} : checked'[w][x] = checked[w][x]
    BY <1>3 DEF ReuseComponent, TypeOK
  <2>3. cached[w][m] # None
    BY <2>1 DEF Unchanged
  <2>4. /\ \A d \in Named(m) : checked[w][d] # None
        /\ Outcomes(m, cached[w][m])
        /\ Outcome(w, {m}) # Failed
        /\ Outcome(w, {m})[m].iface = cached[w][m].iface
    BY <1>1, <1>2, <2>1, ReusedOutcome
  <2> QED
    BY <1>2, <2>2, <2>3, <2>4, CleanDecide
<1>4. CASE CheckComponent(w, {m})
  <2>1. /\ Outcome(w, {m}) # Failed
        /\ checked'[w] = Freeze(w, {m}, Outcome(w, {m}))
    BY <1>4 DEF CheckComponent, TypeOK
  <2>2. /\ checked'[w][m] # None
        /\ checked'[w][m].iface = Outcome(w, {m})[m].iface
        /\ \A x \in Module \ {m} : checked'[w][x] = checked[w][x]
    <3>1. m \in {m} /\ pc[w] = "check"
      BY <1>2
    <3>2. /\ Freeze(w, {m}, Outcome(w, {m}))[m] # None
          /\ Freeze(w, {m}, Outcome(w, {m}))[m].iface = Outcome(w, {m})[m].iface
      BY <1>1, <2>1, <3>1, FreezeType
    <3>3. \A x \in Module \ {m} :
            Freeze(w, {m}, Outcome(w, {m}))[x] = checked[w][x]
      BY <1>1, <2>1, <3>1, FreezeType
    <3> QED
      BY <2>1, <3>2, <3>3
  <2>3. /\ \A d \in Named(m) : checked[w][d] # None
        /\ Outcomes(m, checked'[w][m])
    BY <1>1, <1>2, <2>1, FrozenOutcome
  <2> QED
    BY <1>2, <2>1, <2>2, <2>3, CleanDecide
<1>5. CASE FailComponent(w, {m})
  <2>1. checked' = checked /\ Outcome(w, {m}) = Failed
    BY <1>5 DEF FailComponent
  <2>2. checked[w][m] = None
    <3> PICK k \in 1..Len(Components) : k = done[w] + 1 /\ Components[k] = {m}
      BY <1>2, DecideType
    <3>1. k > done[w]
      BY DEF TypeOK
    <3> QED
      BY <3>1 DEF PhaseInv, PhaseOf
  <2> QED
    BY <1>2, <2>1, <2>2, CleanDecide
<1> QED
  BY <1>3, <1>4, <1>5

(***************************************************************************)
(* The other steps.                                                        *)
(***************************************************************************)

LEMMA CleanPrepare ==
  ASSUME TypeOK, PhaseInv, CleanInv, NEW w \in Run, Prepare(w)
  PROVE  CleanOf(w)' /\ Sound(cache)'
<1>1. /\ checked' = checked /\ done' = done
      /\ pc[w] \in Before
  BY DEF Prepare, Begin, BeginAfresh, Scan, ListCache, Loaded, LoadMiss,
     LoadInterface, Goto, local, Before
<1>2. done'[w] = 0 /\ checked'[w] = Nothing
  BY <1>1 DEF PhaseInv, PhaseOf
<1>3. Sound(cached[w])'
  <2>1. CASE cached' = cached
    BY <2>1 DEF CleanInv, CleanOf, Sound
  <2>2. CASE LoadMiss(w)
    BY <2>2, NothingSound DEF LoadMiss, TypeOK, Sound
  <2>3. CASE \E m \in Module : LoadInterface(w, m)
    BY <2>3 DEF LoadInterface, CleanInv, CleanOf, Sound, TypeOK
  <2> QED
    BY <2>1, <2>2, <2>3
       DEF Prepare, Begin, BeginAfresh, Scan, ListCache, Loaded, found
<1>4. Sound(cache)'
  <2>1. cache' = cache \/ cache' = Nothing
    BY DEF Prepare, Begin, BeginAfresh, Scan, ListCache, Loaded, LoadMiss,
       LoadInterface, files
  <2> QED
    BY <2>1, NothingSound DEF CleanInv, Sound
<1> QED
  BY <1>2, <1>3, <1>4, NothingSound DEF CleanOf, Closed, Nothing, Sound

LEMMA CleanFinish ==
  ASSUME TypeOK, CleanInv, NEW w \in Run, Finish(w)
  PROVE  CleanOf(w)' /\ Sound(cache)'
<1>1. CASE Leave(w) /\ cache' = cache
  BY <1>1, CleanLeave DEF CleanInv, Sound
<1>2. CASE ClearCache(w)
  <2>1. cached'[w] = Nothing /\ cache' = Nothing
        /\ UNCHANGED <<scanned, done, checked>>
    BY <1>2 DEF ClearCache, TypeOK
  <2> QED
    BY <2>1, NothingSound, SameClean DEF CleanInv, Sound
<1>3. CASE Stored(w) \/ Emit(w)
  <2>1. UNCHANGED <<cache, cached, scanned, done, checked>>
    BY <1>3 DEF Stored, Emit, files, found, local
  <2> QED
    BY <2>1, SameClean DEF CleanInv, CleanOf, Sound
<1>4. ASSUME NEW m \in Module, StoreInterface(w, m)
      PROVE  CleanOf(w)' /\ Sound(cache)'
  <2>1. UNCHANGED <<cached, scanned, done, checked>>
    BY <1>4 DEF StoreInterface, found
  <2>2. Sound(cache)'
    BY <1>4 DEF StoreInterface, CleanInv, CleanOf, Sound, TypeOK, Interfaces
  <2> QED
    BY <2>1, <2>2, SameClean DEF CleanInv, CleanOf, Sound
<1> QED
  BY <1>1, <1>2, <1>3, <1>4
     DEF Finish, RejectFailedRun, EmissionFails, Publish, Refuse, Crash, files

LEMMA CleanStep ==
  ASSUME SingleModules, NamedOnly, TypeOK, PhaseInv, CleanInv, [Next]_vars
  PROVE  CleanInv'
<1>1. ASSUME NEW w \in Run, Prepare(w) \/ Check(w) \/ Finish(w)
      PROVE  CleanInv'
  <2>1. CleanOf(w)' /\ Sound(cache)'
    <3>1. CASE Check(w)
      <4>1. cache' = cache
        BY <3>1 DEF Check, ReuseComponent, CheckComponent, FailComponent, files
      <4> QED
        BY <3>1, <4>1, CleanCheck DEF CleanInv, Sound
    <3> QED
      BY <1>1, <3>1, CleanPrepare, CleanFinish
  <2>2. ASSUME NEW v \in Run, v # w PROVE CleanOf(v)'
    <3>1. OfRun(v)' = OfRun(v)
      BY <1>1, <2>2, OthersUnchanged
    <3>2. cached'[v] = cached[v]
      BY <1>1, <2>2 DEF Prepare, Begin, BeginAfresh, Scan, ListCache, Loaded,
         LoadMiss, LoadInterface, Check, ReuseComponent, CheckComponent,
         FailComponent, Finish, ClearCache, Stored, RejectFailedRun, Emit,
         EmissionFails, Publish, Refuse, Crash, StoreInterface, Leave, found,
         TypeOK
    <3>3. UNCHANGED <<scanned[v], done[v], checked[v]>>
      BY <3>1 DEF OfRun
    <3>4. Sound(cached'[v])
      BY <3>2 DEF CleanInv, CleanOf, Sound
    <3> QED
      BY <3>3, <3>4, SameClean DEF CleanInv
  <2> QED
    BY <2>1, <2>2 DEF CleanInv
<1>2. CASE UNCHANGED <<cache, found, local>>
  <2>1. ASSUME NEW v \in Run PROVE CleanOf(v)'
    <3>1. CleanOf(v) /\ UNCHANGED <<cached, scanned, done, checked>>
      BY <1>2 DEF CleanInv, found, local
    <3> QED
      BY <3>1, SameClean DEF CleanOf, Sound
  <2>2. Sound(cache)'
    BY <1>2 DEF CleanInv, Sound
  <2> QED
    BY <2>1, <2>2 DEF CleanInv
<1>3. CASE \E m \in Edited, t \in Text : Edit(m, t)
  BY <1>2, <1>3 DEF Edit
<1>4. CASE UNCHANGED vars
  BY <1>2, <1>4 DEF vars, files
<1> QED
  BY <1>1, <1>3, <1>4 DEF Next

\* Where modules do not import one another and checking depends on no more than
\* what is named, reuse makes no difference: whatever a run takes from the
\* cache, which other runs clear and write meanwhile, is what checking would
\* have given.
THEOREM ReuseIsClean ==
  ASSUME SingleModules, NamedOnly
  PROVE  Spec => []InterfacesAreClean
<1>1. Init => CleanInv
  BY CleanInit
<1>2. BuildInv /\ CleanInv /\ [Next]_vars => CleanInv'
  BY CleanStep DEF BuildInv
<1>3. CleanInv => InterfacesAreClean
  BY DEF CleanInv, CleanOf, CleanAt, InterfacesAreClean
<1> QED
  BY <1>1, <1>2, <1>3, BuildInvariant, PTL DEF Spec
=============================================================================
