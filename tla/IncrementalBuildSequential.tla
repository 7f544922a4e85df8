---------------------- MODULE IncrementalBuildSequential ----------------------
(***************************************************************************)
(* One process that builds a project again and again.                      *)
(*                                                                         *)
(* What it knows is what a build from nothing would know, through faults,  *)
(* edits and checks that fail, and however modules import one another: all *)
(* records of the cache are its own, of one run (OneRunIsClean).           *)
(*                                                                         *)
(* As long as its runs succeed and sources change between them only, the   *)
(* cache and the published generation keep in step.  Then it compiles no   *)
(* more than an edit calls for (OnlyAffectedRebuilt), the BEAMs it         *)
(* publishes agree with one another (BeamsKeepAgreeing), and incremental   *)
(* builds are clean builds (BuildsAreClean).  One run that stores its      *)
(* interfaces and does not publish puts an end to all three.               *)
(***************************************************************************)
EXTENDS IncrementalBuildClean

\* No two processes build the project.
OneRun == \A v, w \in Run : v = w

\* The modules that members of c import from other components.
ImportedBy(c) == {d \in Outside(c) : \E m \in c : d \in Imports[m]}

\* What checking a component yields depends on the texts of its members and on
\* the interfaces that they import.
NamedTogether ==
  \A i \in 1..Len(Components) : LET c == Components[i] IN
    \A t1, t2 \in [Reached(c) -> Text], e1, e2 \in [Outside(c) -> Iface] :
      /\ \A m \in c : t1[m] = t2[m]
      /\ \A d \in ImportedBy(c) : e1[d] = e2[d]
      => Compile(c, t1, e1) = Compile(c, t2, e2)

(***************************************************************************)
(* One run knows what is in the cache.                                     *)
(***************************************************************************)

PartOf(some, all) == \A m \in Module : some[m] \in {None, all[m]}

\* What was loaded is in the cache, and what is stored is what was checked.
FilesOf(w) ==
  /\ pc[w] \in {"idle", "scan", "list"} => cached[w] = Nothing
  /\ pc[w] = "load" => PartOf(cached[w], cache)
  /\ pc[w] = "store" => PartOf(cache, checked[w])

FilesInv == \A w \in Run : FilesOf(w)

\* No run has loaded or stored anything yet.
LEMMA FilesInit == Init => FilesInv
BY DEF Init, FilesInv, FilesOf

\* A step of the run keeps what it knows of the cache.
LEMMA FilesRun ==
  ASSUME TypeOK, NEW w \in Run, FilesOf(w),
         Prepare(w) \/ Check(w) \/ Finish(w)
  PROVE  FilesOf(w)'
<1> USE DEF TypeOK, Goto
<1>1. CASE Begin(w) \/ BeginAfresh(w) \/ Scan(w)
  <2>1. cached'[w] = cached[w] /\ pc'[w] \in {"scan", "list"}
        /\ pc[w] \in {"idle", "scan", "list"}
    BY <1>1 DEF Begin, BeginAfresh, Scan, found
  <2> QED
    BY <2>1 DEF FilesOf
<1>2. CASE ListCache(w)
  <2>1. cached'[w] = cached[w] /\ pc'[w] = "load" /\ pc[w] = "list"
    BY <1>2 DEF ListCache, found
  <2>2. cached'[w] = Nothing
    BY <2>1 DEF FilesOf
  <2> QED
    BY <2>1, <2>2 DEF FilesOf, PartOf, Nothing
<1>3. CASE Loaded(w) \/ LoadMiss(w) \/ Stored(w) \/ Emit(w) \/ Check(w)
  <2>1. pc'[w] \in {"check", "emit", "publish"}
    BY <1>3 DEF Loaded, LoadMiss, Stored, Emit, Check, ReuseComponent,
       CheckComponent, FailComponent, Decide
  <2> QED
    BY <2>1 DEF FilesOf
<1>4. ASSUME NEW m \in Module, LoadInterface(w, m) PROVE FilesOf(w)'
  <2>1. pc'[w] = "load" /\ pc[w] = "load" /\ cache' = cache
    BY <1>4 DEF LoadInterface, files
  <2>2. \A x \in Module : cached'[w][x] = IF x = m THEN cache[m] ELSE cached[w][x]
    BY <1>4 DEF LoadInterface, Interfaces
  <2> QED
    BY <2>1, <2>2 DEF FilesOf, PartOf
<1>5. CASE ClearCache(w)
  <2>1. pc'[w] = "store" /\ cache' = Nothing
    BY <1>5 DEF ClearCache
  <2> QED
    BY <2>1 DEF FilesOf, PartOf, Nothing
<1>6. ASSUME NEW m \in Module, StoreInterface(w, m) PROVE FilesOf(w)'
  <2>1. /\ pc' = pc /\ pc[w] = "store" /\ checked' = checked
        /\ \A x \in Module : cache'[x] = IF x = m THEN checked[w][m] ELSE cache[x]
    BY <1>6 DEF StoreInterface, Interfaces
  <2> QED
    BY <2>1 DEF FilesOf, PartOf
<1>7. CASE Leave(w)
  BY <1>7 DEF Leave, FilesOf
<1> QED
  BY <1>1, <1>2, <1>3, <1>4, <1>5, <1>6, <1>7
     DEF Prepare, Finish, RejectFailedRun, EmissionFails, Publish, Refuse, Crash

\* And no other run writes the cache.
LEMMA FilesStep ==
  ASSUME OneRun, TypeOK, FilesInv, [Next]_vars
  PROVE  FilesInv'
<1>1. ASSUME NEW w \in Run, Prepare(w) \/ Check(w) \/ Finish(w)
      PROVE  FilesInv'
  <2>1. FilesOf(w)'
    BY <1>1, FilesRun DEF FilesInv
  <2> QED
    BY <2>1 DEF OneRun, FilesInv
<1>2. CASE UNCHANGED <<cache, pc, found, local>>
  BY <1>2 DEF FilesInv, FilesOf, PartOf, found, local
<1>3. CASE \E m \in Edited, t \in Text : Edit(m, t)
  BY <1>2, <1>3 DEF Edit
<1>4. CASE UNCHANGED vars
  BY <1>2, <1>4 DEF vars, files
<1> QED
  BY <1>1, <1>3, <1>4 DEF Next

(***************************************************************************)
(* What one run leaves is sound, component by component.                   *)
(***************************************************************************)

\* The records of c came out of one check, with the texts and interfaces that
\* they name.
Together(c, interfaces) ==
  \E texts \in [Reached(c) -> Text], env \in [Outside(c) -> Iface] :
    /\ Compile(c, texts, env) # Failed
    /\ \A m \in c :
         /\ texts[m] = interfaces[m].text
         /\ Compile(c, texts, env)[m].iface = interfaces[m].iface
         /\ \A d \in Imports[m] \ c : env[d] = interfaces[m].deps[d]

SoundTogether(interfaces) ==
  \A c \in SUBSET Module :
    IsComponent(c) /\ (\A m \in c : interfaces[m] # None)
      => Together(c, interfaces)

\* What the run loaded and what it checked is sound, and each component it has
\* decided is as checking it would have it.
TogetherOf(w) ==
  /\ SoundTogether(cached[w])
  /\ SoundTogether(checked[w])
  /\ Closed(w)
  /\ \A i \in 1..done[w] : CleanAt(w, i)

TogetherInv == SoundTogether(cache) /\ \A w \in Run : TogetherOf(w)

\* Only the records of the members count.
LEMMA SameTogether ==
  ASSUME NEW c, NEW some, NEW all, Together(c, all),
         \A m \in c : some[m] = all[m]
  PROVE  Together(c, some)
BY DEF Together

\* What is left of sound records is sound.
LEMMA PartSound ==
  ASSUME NEW some, NEW all, PartOf(some, all), SoundTogether(all)
  PROVE  SoundTogether(some)
<1> SUFFICES ASSUME NEW c, IsComponent(c), \A m \in c : some[m] # None
             PROVE  Together(c, some)
  BY DEF SoundTogether
<1>1. \A m \in c : some[m] = all[m]
  BY ComponentType DEF PartOf
<1>2. Together(c, all)
  BY <1>1, ComponentType DEF SoundTogether
<1> QED
  BY <1>1, <1>2, SameTogether

\* Without records there is nothing to be sound.
LEMMA NothingTogether == SoundTogether(Nothing)
<1> SUFFICES ASSUME NEW c, IsComponent(c)
             PROVE  \E m \in c : Nothing[m] = None
  BY DEF SoundTogether
<1>1. PICK m \in c : m \in Module
  BY ComponentsAssumption DEF IsComponent
<1> QED
  BY <1>1 DEF Nothing

\* The first run starts from nothing.
LEMMA TogetherInit == Init => TogetherInv
<1> SUFFICES ASSUME Init PROVE TogetherInv
  OBVIOUS
<1>1. SoundTogether(cache)
  BY NothingTogether DEF Init
<1>2. ASSUME NEW w \in Run PROVE TogetherOf(w)
  <2>1. cached[w] = Nothing /\ checked[w] = Nothing /\ done[w] = 0
    BY DEF Init
  <2> QED
    BY <2>1, NothingTogether DEF TogetherOf, Closed, Nothing
<1> QED
  BY <1>1, <1>2 DEF TogetherInv

\* If all that is imported is checked, then so is all that is reached.
LEMMA ClosedImportable ==
  ASSUME NEW w \in Run, Closed(w), NEW c, IsComponent(c),
         \A d \in ImportedBy(c) : checked[w][d] # None
  PROVE  Importable(w, c)
<1> DEFINE S == {x \in Module : checked[w][x] # None} \cup c
<1>1. S \in SUBSET Module /\ c \subseteq S
  BY ComponentType
<1>2. ASSUME NEW x \in S PROVE Imports[x] \subseteq S
  <2>1. \A d \in Imports[x] : d \in Module
    BY <1>1, ImportsAssumption
  <2>2. CASE x \in c
    <3>1. \A d \in Imports[x] : d \in c \/ d \in ImportedBy(c)
      BY <2>2, ImportsReached DEF ImportedBy
    <3> QED
      BY <2>1, <3>1
  <2>3. CASE checked[w][x] # None
    BY <1>1, <2>1, <2>3 DEF Closed
  <2> QED
    BY <2>2, <2>3
<1>3. ASSUME NEW d \in Outside(c) PROVE d \in S /\ d \notin c
  BY <1>1, <1>2 DEF Outside, Reached
<1> QED
  BY <1>3 DEF Importable

\* A component all of whose records may be taken over would check as it did.
LEMMA ReusedTogether ==
  ASSUME NamedTogether, TypeOK, PhaseInv, NEW w \in Run, TogetherOf(w),
         pc[w] = "check", NEW c, IsComponent(c), CanReuse(w, c)
  PROVE  /\ \A d \in ImportedBy(c) : checked[w][d] # None
         /\ Together(c, cached[w])
         /\ Outcome(w, c) # Failed
         /\ \A m \in c : Outcome(w, c)[m].iface = cached[w][m].iface
<1> DEFINE texts == [x \in Reached(c) |-> scanned[w][x]]
           env   == Environment(w, c)
<1>1. \A m \in c : Unchanged(w, c, m)
  BY DEF CanReuse
<1>2. \A d \in ImportedBy(c) : checked[w][d] # None
  BY <1>1 DEF Unchanged, ImportedBy, Outside
<1>3. Together(c, cached[w])
  BY <1>1, ComponentType DEF Unchanged, TogetherOf, SoundTogether
<1>4. Importable(w, c)
  BY <1>2, ClosedImportable DEF TogetherOf
<1>5. Outcome(w, c) = Compile(c, texts, env)
  BY <1>4 DEF Outcome
<1>6. /\ scanned[w] \in [Module -> Text]
      /\ checked[w] \in [Module -> Interface \cup {None}]
  BY DEF PhaseInv, PhaseOf, TypeOK, Interfaces
<1>7. /\ texts \in [Reached(c) -> Text]
      /\ \A m \in c : texts[m] = scanned[w][m]
  BY <1>6, ComponentType DEF Reached
<1>8. \A d \in Outside(c) : d \in Module /\ checked[w][d] \in Interface
  BY <1>4, <1>6 DEF Importable, Outside, Reached
<1>9. env \in [Outside(c) -> Iface]
  BY <1>8 DEF Environment, Interface
<1>10. PICK t \in [Reached(c) -> Text], e \in [Outside(c) -> Iface] :
         /\ Compile(c, t, e) # Failed
         /\ \A m \in c :
              /\ t[m] = cached[w][m].text
              /\ Compile(c, t, e)[m].iface = cached[w][m].iface
              /\ \A d \in Imports[m] \ c : e[d] = cached[w][m].deps[d]
  BY <1>3 DEF Together
<1>11. \A m \in c : t[m] = texts[m]
  BY <1>1, <1>7, <1>10 DEF Unchanged
<1>12. ASSUME NEW d \in ImportedBy(c) PROVE e[d] = env[d]
  <2>1. PICK m \in c : d \in Imports[m] \ c
    BY DEF ImportedBy, Outside
  <2>2. d \in Outside(c)
    BY DEF ImportedBy
  <2>3. env[d] = checked[w][d].iface
    BY <2>2 DEF Environment
  <2>4. checked[w][d].iface = cached[w][m].deps[d]
    BY <1>1, <2>1 DEF Unchanged
  <2> QED
    BY <1>10, <2>1, <2>3, <2>4
<1> HIDE DEF texts, env
<1>13. Compile(c, t, e) = Compile(c, texts, env)
  BY <1>7, <1>9, <1>10, <1>11, <1>12 DEF NamedTogether, IsComponent
<1> QED
  BY <1>2, <1>3, <1>5, <1>10, <1>13

\* The records that are frozen for a component that checks.
LEMMA FrozenTogether ==
  ASSUME TypeOK, PhaseInv, NEW w \in Run, pc[w] = "check",
         NEW c, IsComponent(c), Outcome(w, c) # Failed
  PROVE  /\ \A d \in ImportedBy(c) : checked[w][d] # None
         /\ Together(c, Freeze(w, c, Outcome(w, c)))
<1> DEFINE texts == [x \in Reached(c) |-> scanned[w][x]]
           env   == Environment(w, c)
           out   == Outcome(w, c)
           rec   == Freeze(w, c, out)
<1>1. /\ \A d \in Outside(c) : checked[w][d] \in Interface
      /\ texts \in [Reached(c) -> Text] /\ env \in [Outside(c) -> Iface]
      /\ out = Compile(c, texts, env)
  BY OutcomeType
<1>2. out # Failed
  OBVIOUS
<1>3. \A d \in ImportedBy(c) : checked[w][d] # None
  BY <1>1, NoneAssumption DEF ImportedBy
<1>4. ASSUME NEW m \in c
      PROVE  /\ texts[m] = rec[m].text
             /\ out[m].iface = rec[m].iface
             /\ \A d \in Imports[m] \ c : env[d] = rec[m].deps[d]
  <2>1. m \in Module /\ m \in Reached(c)
    BY ComponentType DEF Reached
  <2>2. rec[m].text = scanned[w][m] /\ rec[m].iface = out[m].iface
    BY <2>1 DEF Freeze
  <2>3. ASSUME NEW d \in Imports[m] \ c PROVE env[d] = rec[m].deps[d]
    <3>1. d \in Outside(c) /\ d \in Module
      BY ImportsReached DEF Outside, Reached
    <3>2. checked[w][d] # None
      BY <1>1, <3>1, NoneAssumption
    <3>3. rec[m].deps[d] = checked[w][d].iface
      BY <2>1, <3>1, <3>2 DEF Freeze
    <3> QED
      BY <3>1, <3>3 DEF Environment
  <2> QED
    BY <2>1, <2>2, <2>3
<1>5. Together(c, rec)
  <2> HIDE DEF texts, env, out, rec
  <2> QED
    BY <1>1, <1>2, <1>4 DEF Together
<1> QED
  BY <1>3, <1>5

\* A step that decides c keeps what was known of the others, and says of c
\* what checking it would.
LEMMA TogetherDecide ==
  ASSUME TypeOK, PhaseInv, NEW w \in Run, TogetherOf(w),
         NEW c, Decide(w, c), UNCHANGED <<scanned, cached>>,
         \A x \in Module \ c : checked'[w][x] = checked[w][x],
         IF Outcome(w, c) = Failed
         THEN \A m \in c : checked'[w][m] = None
         ELSE /\ \A d \in ImportedBy(c) : checked[w][d] # None
              /\ Together(c, checked'[w])
              /\ \A m \in c : /\ checked'[w][m] # None
                              /\ checked'[w][m].iface = Outcome(w, c)[m].iface
  PROVE  TogetherOf(w)'
<1> PICK k \in 1..Len(Components) : k = done[w] + 1
  BY DecideType
<1>1. /\ done'[w] = k /\ Components[k] = c /\ c \subseteq Module
      /\ IsComponent(c)
  BY DecideType DEF IsComponent
<1>2. \A m \in c : checked[w][m] = None
  <2>1. k > done[w]
    BY DEF TypeOK
  <2> QED
    BY <1>1, <2>1 DEF PhaseInv, PhaseOf
<1>3. ASSUME NEW i \in 1..Len(Components), i # k, NEW x \in Components[i]
      PROVE  checked'[w][x] = checked[w][x]
  <2>1. x \in Module /\ x \notin c
    BY <1>1, <1>3, ComponentsAssumption, ComponentsDisjoint
  <2> QED
    BY <2>1
<1>4. SoundTogether(checked[w])'
  <2> SUFFICES ASSUME NEW b, IsComponent(b), \A m \in b : checked'[w][m] # None
               PROVE  Together(b, checked'[w])
    BY DEF SoundTogether
  <2>1. CASE b = c
    <3>1. c # {}
      BY <1>1, ComponentsAssumption
    <3> QED
      BY <2>1, <3>1
  <2>2. CASE b # c
    <3>1. \A x \in b : checked'[w][x] = checked[w][x]
      BY <1>1, <1>3, <2>2 DEF IsComponent
    <3>2. Together(b, checked[w])
      BY <3>1, ComponentType DEF TogetherOf, SoundTogether
    <3> QED
      BY <3>1, <3>2, SameTogether
  <2> QED
    BY <2>1, <2>2
<1>5. Closed(w)'
  <2> SUFFICES ASSUME NEW x \in Module, checked'[w][x] # None,
                      NEW d \in Imports[x]
               PROVE  checked'[w][d] # None
    BY DEF Closed
  <2>1. d \in Module
    BY ImportsAssumption
  <2>2. CASE x \in c
    <3>1. Outcome(w, c) # Failed
      BY <2>2
    <3>2. d \in c \/ d \in ImportedBy(c)
      BY <1>1, <2>2, ImportsReached DEF ImportedBy
    <3> QED
      BY <2>1, <3>1, <3>2 DEF ImportedBy, Outside
  <2>3. CASE x \notin c
    <3>1. checked[w][d] # None
      BY <2>3 DEF TogetherOf, Closed
    <3> QED
      BY <1>2, <2>1, <3>1
  <2> QED
    BY <2>2, <2>3
<1>6. ASSUME NEW i \in 1..done[w] PROVE CleanAt(w, i)'
  <2>1. i \in 1..Len(Components) /\ CleanAt(w, i)
    BY DEF TypeOK, TogetherOf
  <2>2. ASSUME NEW j \in 1..i PROVE j \in 1..Len(Components) /\ j # k
    BY <2>1 DEF TypeOK
  <2>3. \A j \in 1..i : \A x \in Components[j] : checked'[w][x] = checked[w][x]
    BY <1>3, <2>2
  <2> QED
    BY <2>1, <2>3, CleanStays
<1>7. CleanAt(w, k)'
  <2>1. ASSUME NEW d \in Outside(c) PROVE checked'[w][d] = checked[w][d]
    BY DEF Outside, Reached
  <2>2. Importable(w, c)' <=> Importable(w, c)
    BY <2>1 DEF Importable
  <2>3. Environment(w, c)' = Environment(w, c)
    BY <2>1 DEF Environment
  <2>4. Outcome(w, c)' = Outcome(w, c)
    BY <2>2, <2>3 DEF Outcome
  <2> QED
    BY <1>1, <2>4 DEF CleanAt
<1>8. \A i \in 1..k : i \in 1..done[w] \/ i = k
  BY DEF TypeOK
<1>9. SoundTogether(cached[w])'
  BY DEF TogetherOf, SoundTogether, Together
<1> QED
  BY <1>1, <1>4, <1>5, <1>6, <1>7, <1>8, <1>9 DEF TogetherOf

\* Deciding a component, whether it is taken over, checks or fails to.
LEMMA TogetherCheck ==
  ASSUME NamedTogether, TypeOK, PhaseInv, NEW w \in Run, TogetherOf(w), Check(w)
  PROVE  TogetherOf(w)'
<1> PICK i \in 1..Len(Components) : \/ ReuseComponent(w, Components[i])
                                    \/ CheckComponent(w, Components[i])
                                    \/ FailComponent(w, Components[i])
  BY DEF Check
<1> PICK c : c = Components[i] /\ IsComponent(c)
  BY DEF IsComponent
<1>1. /\ Decide(w, c) /\ pc[w] = "check" /\ c \subseteq Module
      /\ UNCHANGED <<scanned, cached>>
  BY ComponentType
     DEF ReuseComponent, CheckComponent, FailComponent, Decide, found
<1>2. CASE ReuseComponent(w, c)
  <2>1. /\ CanReuse(w, c)
        /\ \A m \in c : checked'[w][m] = cached[w][m]
        /\ \A x \in Module \ c : checked'[w][x] = checked[w][x]
    BY <1>1, <1>2 DEF ReuseComponent, TypeOK
  <2>2. \A m \in c : cached[w][m] # None
    BY <2>1 DEF CanReuse, Unchanged
  <2>3. /\ \A d \in ImportedBy(c) : checked[w][d] # None
        /\ Together(c, cached[w])
        /\ Outcome(w, c) # Failed
        /\ \A m \in c : Outcome(w, c)[m].iface = cached[w][m].iface
    BY <1>1, <2>1, ReusedTogether
  <2>4. Together(c, checked'[w])
    BY <2>1, <2>3, SameTogether
  <2> QED
    BY <1>1, <2>1, <2>2, <2>3, <2>4, TogetherDecide
<1>3. CASE CheckComponent(w, c)
  <2> DEFINE frozen == Freeze(w, c, Outcome(w, c))
  <2>1. Outcome(w, c) # Failed /\ checked'[w] = frozen
    BY <1>3 DEF CheckComponent, TypeOK
  <2>2. /\ \A m \in c : frozen[m] # None /\ frozen[m].iface = Outcome(w, c)[m].iface
        /\ \A x \in Module \ c : frozen[x] = checked[w][x]
    BY <1>1, <2>1, FreezeType
  <2>3. /\ \A d \in ImportedBy(c) : checked[w][d] # None
        /\ Together(c, frozen)
    BY <1>1, <2>1, FrozenTogether
  <2> HIDE DEF frozen
  <2> QED
    BY <1>1, <2>1, <2>2, <2>3, TogetherDecide
<1>4. CASE FailComponent(w, c)
  <2>1. checked' = checked /\ Outcome(w, c) = Failed
    BY <1>4 DEF FailComponent
  <2>2. \A m \in c : checked[w][m] = None
    <3> PICK k \in 1..Len(Components) : k = done[w] + 1 /\ Components[k] = c
      BY <1>1, DecideType
    <3>1. k > done[w]
      BY DEF TypeOK
    <3> QED
      BY <3>1 DEF PhaseInv, PhaseOf
  <2> QED
    BY <1>1, <2>1, <2>2, TogetherDecide
<1> QED
  BY <1>2, <1>3, <1>4

\* Whatever leaves alone what the run knows of the components.
LEMMA SameTogetherOf ==
  ASSUME TypeOK, NEW w \in Run, TogetherOf(w), SoundTogether(cached'[w]),
         UNCHANGED <<scanned[w], done[w], checked[w]>>
  PROVE  TogetherOf(w)'
<1>1. ASSUME NEW i \in 1..done[w] PROVE CleanAt(w, i)'
  <2>1. i \in 1..Len(Components) /\ CleanAt(w, i)
    BY DEF TypeOK, TogetherOf
  <2> QED
    BY <2>1, CleanStays
<1>2. SoundTogether(checked[w])' /\ Closed(w)'
  BY DEF TogetherOf, SoundTogether, Together, Closed
<1>3. SoundTogether(cached[w])'
  BY DEF SoundTogether, Together
<1> QED
  BY <1>1, <1>2, <1>3 DEF TogetherOf

\* What the run loads is part of a sound cache.
LEMMA TogetherPrepare ==
  ASSUME TypeOK, PhaseInv, FilesInv, FilesInv', TogetherInv,
         NEW w \in Run, Prepare(w)
  PROVE  TogetherOf(w)' /\ SoundTogether(cache')
<1>1. /\ checked' = checked /\ done' = done
      /\ pc[w] \in Before
  BY DEF Prepare, Begin, BeginAfresh, Scan, ListCache, Loaded, LoadMiss,
     LoadInterface, Goto, local, Before
<1>2. done'[w] = 0 /\ checked'[w] = Nothing
  BY <1>1 DEF PhaseInv, PhaseOf
<1>3. SoundTogether(cache')
  <2>1. cache' = cache \/ cache' = Nothing
    BY DEF Prepare, Begin, BeginAfresh, Scan, ListCache, Loaded, LoadMiss,
       LoadInterface, files
  <2> QED
    BY <2>1, NothingTogether DEF TogetherInv
<1>4. SoundTogether(cached'[w])
  <2>1. CASE cached' = cached
    BY <2>1 DEF TogetherInv, TogetherOf
  <2>2. CASE LoadMiss(w)
    BY <2>2, NothingTogether DEF LoadMiss, TypeOK
  <2>3. CASE \E m \in Module : LoadInterface(w, m)
    <3>1. pc'[w] = "load"
      BY <2>3 DEF LoadInterface
    <3>2. PartOf(cached'[w], cache')
      BY <3>1 DEF FilesInv, FilesOf
    <3> QED
      BY <1>3, <3>2, PartSound
  <2> QED
    BY <2>1, <2>2, <2>3
       DEF Prepare, Begin, BeginAfresh, Scan, ListCache, Loaded, found
<1>5. SoundTogether(checked'[w]) /\ SoundTogether(cached[w])'
  BY <1>2, <1>4, NothingTogether DEF SoundTogether, Together
<1>6. Closed(w)'
  BY <1>2 DEF Closed, Nothing
<1> QED
  BY <1>2, <1>3, <1>5, <1>6 DEF TogetherOf, SoundTogether, Together

\* What the run stores is part of what it checked, at every moment.
LEMMA TogetherFinish ==
  ASSUME TypeOK, FilesInv', TogetherInv, NEW w \in Run, Finish(w)
  PROVE  TogetherOf(w)' /\ SoundTogether(cache')
<1>1. CASE Leave(w) /\ cache' = cache
  <2>1. cached'[w] = Nothing /\ checked'[w] = Nothing /\ done'[w] = 0
    BY <1>1 DEF Leave, TypeOK
  <2>2. SoundTogether(checked[w])' /\ SoundTogether(cached[w])'
    BY <2>1, NothingTogether DEF SoundTogether, Together
  <2> QED
    BY <1>1, <2>1, <2>2 DEF TogetherInv, TogetherOf, Closed, Nothing
<1>2. CASE ClearCache(w)
  <2>1. cached'[w] = Nothing /\ cache' = Nothing
        /\ UNCHANGED <<scanned, done, checked>>
    BY <1>2 DEF ClearCache, TypeOK
  <2> QED
    BY <2>1, NothingTogether, SameTogetherOf DEF TogetherInv
<1>3. CASE Stored(w) \/ Emit(w)
  <2>1. UNCHANGED <<cache, cached, scanned, done, checked>>
    BY <1>3 DEF Stored, Emit, files, found, local
  <2> QED
    BY <2>1, SameTogetherOf DEF TogetherInv, TogetherOf
<1>4. ASSUME NEW m \in Module, StoreInterface(w, m)
      PROVE  TogetherOf(w)' /\ SoundTogether(cache')
  <2>1. UNCHANGED <<pc, cached, scanned, done, checked>> /\ pc[w] = "store"
    BY <1>4 DEF StoreInterface, found
  <2>2. PartOf(cache', checked'[w])
    BY <2>1 DEF FilesInv, FilesOf
  <2>3. SoundTogether(cache')
    BY <2>1, <2>2, PartSound DEF TogetherInv, TogetherOf
  <2> QED
    BY <2>1, <2>3, SameTogetherOf DEF TogetherInv, TogetherOf
<1> QED
  BY <1>1, <1>2, <1>3, <1>4
     DEF Finish, RejectFailedRun, EmissionFails, Publish, Refuse, Crash, files

\* Every step keeps the records sound.
LEMMA TogetherStep ==
  ASSUME OneRun, NamedTogether, TypeOK, PhaseInv, FilesInv, FilesInv',
         TogetherInv, [Next]_vars
  PROVE  TogetherInv'
<1>1. ASSUME NEW w \in Run, Prepare(w) \/ Check(w) \/ Finish(w)
      PROVE  TogetherInv'
  <2>1. TogetherOf(w)' /\ SoundTogether(cache')
    <3>1. CASE Check(w)
      <4>1. cache' = cache
        BY <3>1 DEF Check, ReuseComponent, CheckComponent, FailComponent, files
      <4> QED
        BY <3>1, <4>1, TogetherCheck DEF TogetherInv
    <3> QED
      BY <1>1, <3>1, TogetherPrepare, TogetherFinish
  <2>2. SoundTogether(cache)'
    BY <2>1 DEF SoundTogether, Together
  <2> QED
    BY <2>1, <2>2 DEF OneRun, TogetherInv
<1>2. CASE UNCHANGED <<cache, found, local>>
  <2>1. ASSUME NEW v \in Run PROVE TogetherOf(v)'
    <3>1. TogetherOf(v) /\ UNCHANGED <<cached, scanned, done, checked>>
      BY <1>2 DEF TogetherInv, found, local
    <3> QED
      BY <3>1, SameTogetherOf DEF TogetherOf
  <2>2. SoundTogether(cache)'
    BY <1>2 DEF TogetherInv, SoundTogether, Together
  <2> QED
    BY <2>1, <2>2 DEF TogetherInv
<1>3. CASE \E m \in Edited, t \in Text : Edit(m, t)
  BY <1>2, <1>3 DEF Edit
<1>4. CASE UNCHANGED vars
  BY <1>2, <1>4 DEF vars, files
<1> QED
  BY <1>1, <1>3, <1>4 DEF Next

\* Reuse makes no difference to a process that has the cache to itself, however
\* its modules import one another: through edits while it runs, crashes between
\* any two writes, damaged files and texts that do not check.
THEOREM OneRunIsClean ==
  ASSUME OneRun, NamedTogether
  PROVE  Spec => []InterfacesAreClean
<1>1. Init => FilesInv /\ TogetherInv
  BY FilesInit, TogetherInit
<1>2. BuildInv /\ FilesInv /\ TogetherInv /\ [Next]_vars
        => FilesInv' /\ TogetherInv'
  <2> SUFFICES ASSUME BuildInv, FilesInv, TogetherInv, [Next]_vars
               PROVE  FilesInv' /\ TogetherInv'
    OBVIOUS
  <2>1. FilesInv'
    BY FilesStep DEF BuildInv
  <2> QED
    BY <2>1, TogetherStep DEF BuildInv
<1>3. TogetherInv => InterfacesAreClean
  BY DEF TogetherInv, TogetherOf, CleanAt, InterfacesAreClean
<1> QED
  BY <1>1, <1>2, <1>3, BuildInvariant, PTL DEF Spec

(***************************************************************************)
(* Builds that succeed, one after the other.                               *)
(***************************************************************************)

\* A step in which no run fails and nothing goes wrong; sources change between
\* the runs only.
Undisturbed ==
  /\ UNCHANGED faults
  /\ \A w \in Run :
       /\ ~RejectFailedRun(w) /\ ~Refuse(w)
       /\ \A i \in 1..Len(Components) : ~FailComponent(w, Components[i])
  /\ sources' # sources => \A w \in Run : pc[w] = "idle"

\* The records of the cache are those of the generation gen, and were checked
\* against one another.
Matches(interfaces, gen) ==
  \A m \in Module :
    /\ interfaces[m] # None
    /\ interfaces[m].text = gen[m].text
    /\ interfaces[m].iface = gen[m].iface
    /\ \A d \in Imports[m] : interfaces[m].deps[d] = gen[d].iface

\* The texts that the run builds are still those of the sources.
SourcesOf(w) == pc[w] \notin {"idle", "scan"} => scanned[w] = sources

\* Nobody publishes while it runs.
PriorOf(w) == prior[w] # None => pc[w] # "idle" /\ prior[w] = current

\* The cache belongs to the published generation, until the run replaces it.
CacheOf(w) ==
  /\ pc[w] = "idle" /\ current # None => Matches(cache, current)
  /\ pc[w] \in {"scan", "list", "load", "check"} =>
       IF prior[w] = None THEN cache = Nothing ELSE Matches(cache, prior[w])
  /\ pc[w] = "load" => \A m \in Module :
       IF m \in todo[w] THEN cache[m] # None ELSE cached[w][m] = cache[m]
  /\ pc[w] = "check" => cached[w] = cache
  /\ pc[w] = "store" => \A m \in Module \ todo[w] : cache[m] = checked[w][m]
  /\ pc[w] \in {"emit", "publish"} => cache = checked[w]

\* The record of m is the one the run would check against its others.
Linked(w, m) ==
  /\ checked[w][m] # None
  /\ checked[w][m].text = scanned[w][m]
  /\ \A d \in Imports[m] : checked[w][m].deps[d] = checked[w][d].iface

\* The reason to compile a component (RebuildsOnlyAffected).
Affected(w, c) ==
  \E m \in c :
    \/ scanned[w][m] # prior[w][m].text
    \/ \E d \in Imports[m] \ c : checked[w][d].iface # prior[w][d].iface

\* What is decided is checked, and what is checked again is affected.
DecidedAt(w, i) ==
  /\ \A m \in Components[i] : Linked(w, m)
  /\ prior[w] # None =>
       \/ Affected(w, Components[i])
       \/ \A m \in Components[i] : beams[w][m] = None

DecidedOf(w) ==
  /\ pc[w] \in {"store", "emit", "publish"} => done[w] = Len(Components)
  /\ \A i \in 1..done[w] : DecidedAt(w, i)

SequentialOf(w) == SourcesOf(w) /\ PriorOf(w) /\ CacheOf(w) /\ DecidedOf(w)

SequentialInv == \A w \in Run : SequentialOf(w)

\* Nothing is published and nothing decided.
LEMMA SequentialInit == Init => SequentialInv
<1> SUFFICES ASSUME Init, NEW w \in Run PROVE SequentialOf(w)
  BY DEF SequentialInv
<1>1. pc[w] = "idle" /\ prior[w] = None /\ current = None /\ done[w] = 0
  BY DEF Init
<1> QED
  BY <1>1 DEF SequentialOf, SourcesOf, PriorOf, CacheOf, DecidedOf

\* What a module imports is not in a later component.
LEMMA ImportsBefore ==
  ASSUME NEW i \in 1..Len(Components), NEW m \in Components[i],
         NEW d \in Imports[m]
  PROVE  \E j \in 1..i : d \in Components[j]
BY ComponentsAssumption

\* A fault would count.
LEMMA NoFault ==
  ASSUME Undisturbed, TypeOK, Fault
  PROVE  FALSE
BY DEF Undisturbed, TypeOK, Fault

\* Before the components are checked none is decided.
LEMMA DecidedBefore ==
  ASSUME NEW w \in Run, pc'[w] \in Before \cup {"check"}, done'[w] = 0
  PROVE  DecidedOf(w)'
BY DEF DecidedOf, Before

\* Nothing that was loaded contradicts itself: the cache is read as it is.
LEMMA NeverMisses ==
  ASSUME OneRun, Undisturbed, TypeOK, NEW w \in Run, SequentialOf(w), LoadMiss(w)
  PROVE  FALSE
<1>1. pc[w] = "load"
  BY DEF LoadMiss, Goto
<1>2. \A m \in todo[w] : cache[m] # None
  BY <1>1 DEF SequentialOf, CacheOf, TypeOK
<1>3. ASSUME todo[w] = {}, NEW m \in Module, NEW d \in Imports[m],
             cached[w][m] # None,
             cached[w][d] # None => cached[w][d].iface # cached[w][m].deps[d]
      PROVE  FALSE
  <2>1. d \in Module
    BY ImportsAssumption
  <2>2. cached[w][m] = cache[m] /\ cached[w][d] = cache[d]
    BY <1>1, <1>3, <2>1 DEF SequentialOf, CacheOf
  <2>3. prior[w] # None
    BY <1>1, <1>3, <2>2 DEF SequentialOf, CacheOf, Nothing
  <2>4. Matches(cache, prior[w])
    BY <1>1, <2>3 DEF SequentialOf, CacheOf
  <2> QED
    BY <1>3, <2>1, <2>2, <2>4 DEF Matches
<1>4. ~Fault
  BY NoFault
<1>5. Run \ {w} = {}
  BY DEF OneRun
<1> QED
  BY <1>2, <1>3, <1>4, <1>5 DEF LoadMiss, Incoherent

\* Before the components are checked: the run finds the generation that is
\* published, the sources, and the cache as its last run left it.
LEMMA SequentialPrepare ==
  ASSUME OneRun, Undisturbed, TypeOK, PhaseInv, NEW w \in Run,
         FilesOf(w), SequentialOf(w), Prepare(w)
  PROVE  SequentialOf(w)'
<1>1. /\ UNCHANGED <<sources, current, done, checked, beams>>
      /\ pc[w] \in Before
  BY DEF Prepare, Begin, BeginAfresh, Scan, ListCache, Loaded, LoadMiss,
     LoadInterface, Goto, files, local, Before
<1>2. done[w] = 0
  BY <1>1 DEF PhaseInv, PhaseOf
<1>3. pc'[w] \in {"scan", "list", "load", "check"}
  BY DEF Prepare, Begin, BeginAfresh, Scan, ListCache, Loaded, LoadMiss,
     LoadInterface, Goto, TypeOK
<1>4. DecidedOf(w)'
  BY <1>1, <1>2, <1>3, DecidedBefore DEF Before
<1>5. CASE Begin(w)
  <2>1. /\ pc[w] = "idle" /\ pc'[w] = "scan" /\ current # None
        /\ prior'[w] = current /\ cache' = cache
    BY <1>5 DEF Begin, Goto, TypeOK, files
  <2>2. Matches(cache, current)
    BY <2>1 DEF SequentialOf, CacheOf
  <2>3. Matches(cache', prior'[w])
    BY <2>1, <2>2
  <2> QED
    BY <1>1, <1>4, <2>1, <2>3
       DEF SequentialOf, SourcesOf, PriorOf, CacheOf, Matches
<1>6. CASE BeginAfresh(w)
  <2>1. /\ pc[w] = "idle" /\ pc'[w] = "scan"
        /\ prior'[w] = prior[w] /\ cache' = Nothing
    BY <1>6 DEF BeginAfresh, Goto, TypeOK, found
  <2>2. prior[w] = None
    BY <2>1 DEF SequentialOf, PriorOf
  <2> QED
    BY <1>4, <2>1, <2>2
       DEF SequentialOf, SourcesOf, PriorOf, CacheOf, Nothing
<1>7. CASE Scan(w)
  <2>1. /\ pc[w] = "scan" /\ pc'[w] = "list" /\ scanned'[w] = sources
        /\ prior' = prior /\ cache' = cache
    BY <1>7 DEF Scan, Goto, TypeOK, files
  <2> QED
    BY <1>1, <1>4, <2>1
       DEF SequentialOf, SourcesOf, PriorOf, CacheOf, Nothing, Matches
<1>8. CASE ListCache(w)
  <2>1. /\ pc[w] = "list" /\ pc'[w] = "load"
        /\ todo'[w] = {m \in Module : cache[m] # None}
        /\ UNCHANGED <<cache, prior, scanned, cached>>
    BY <1>8 DEF ListCache, Goto, TypeOK, files, found
  <2>2. cached[w] = Nothing
    BY <2>1 DEF FilesOf
  <2>3. \A m \in Module :
          IF m \in todo'[w] THEN cache[m] # None ELSE cached[w][m] = cache[m]
    BY <2>1, <2>2 DEF Nothing
  <2> QED
    BY <1>1, <1>4, <2>1, <2>3
       DEF SequentialOf, SourcesOf, PriorOf, CacheOf, Nothing, Matches
<1>9. ASSUME NEW m \in Module, LoadInterface(w, m)
      PROVE  SequentialOf(w)'
  <2>1. /\ pc[w] = "load" /\ pc' = pc
        /\ todo'[w] = todo[w] \ {m}
        /\ \A x \in Module :
             cached'[w][x] = IF x = m THEN cache[m] ELSE cached[w][x]
        /\ UNCHANGED <<cache, prior, scanned>>
    BY <1>9 DEF LoadInterface, TypeOK, Interfaces, files
  <2>2. \A x \in Module :
          IF x \in todo'[w] THEN cache[x] # None ELSE cached'[w][x] = cache[x]
    BY <2>1 DEF SequentialOf, CacheOf
  <2> QED
    BY <1>1, <1>4, <2>1, <2>2
       DEF SequentialOf, SourcesOf, PriorOf, CacheOf, Nothing, Matches
<1>10. CASE Loaded(w)
  <2>1. /\ pc[w] = "load" /\ pc'[w] = "check" /\ todo[w] = {}
        /\ UNCHANGED <<cache, prior, scanned, cached>>
    BY <1>10 DEF Loaded, Goto, TypeOK, files, found
  <2>2. \A m \in Module : cached[w][m] = cache[m]
    BY <2>1 DEF SequentialOf, CacheOf
  <2>3. cached[w] = cache
    BY <2>2 DEF TypeOK, Interfaces
  <2> QED
    BY <1>1, <1>4, <2>1, <2>3
       DEF SequentialOf, SourcesOf, PriorOf, CacheOf, Nothing, Matches
<1> QED
  BY <1>5, <1>6, <1>7, <1>8, <1>9, <1>10, NeverMisses DEF Prepare

(***************************************************************************)
(* Deciding a component.                                                   *)
(***************************************************************************)

\* While the components before and the run's inputs stay, what was decided does.
LEMMA DecidedStays ==
  ASSUME NEW w \in Run, NEW i \in 1..Len(Components), DecidedAt(w, i),
         scanned'[w] = scanned[w], prior'[w] \in {prior[w], None},
         \A j \in 1..i : \A m \in Components[j] :
            checked'[w][m] = checked[w][m],
         prior'[w] # None =>
            \A m \in Components[i] : beams'[w][m] = beams[w][m]
  PROVE  DecidedAt(w, i)'
<1>1. \A m \in Components[i] :
        /\ checked'[w][m] = checked[w][m]
        /\ \A d \in Imports[m] : checked'[w][d] = checked[w][d]
  BY ImportsBefore
<1>2. \A m \in Components[i] : Linked(w, m)'
  BY <1>1 DEF DecidedAt, Linked
<1>3. prior'[w] # None /\ Affected(w, Components[i]) => Affected(w, Components[i])'
  BY <1>1 DEF Affected
<1> QED
  BY <1>2, <1>3 DEF DecidedAt

\* All that the next component reaches is decided, and so it is checked.
LEMMA NextImportable ==
  ASSUME TypeOK, NEW w \in Run, DecidedOf(w), NEW c, Decide(w, c)
  PROVE  Importable(w, c)
<1> PICK k \in 1..Len(Components) : k = done[w] + 1 /\ c = Components[k]
  BY DecideType
<1> SUFFICES ASSUME NEW d \in Outside(c) PROVE checked[w][d] # None
  BY DEF Importable
<1>1. PICK j \in 1..Len(Components) : j < k /\ d \in Components[j]
  BY OutsideBefore
<1>2. j \in 1..done[w]
  BY <1>1 DEF TypeOK
<1> QED
  BY <1>1, <1>2 DEF DecidedOf, DecidedAt, Linked

\* A component that the run cannot take over is affected.
LEMMA WhyNotReused ==
  ASSUME TypeOK, NEW w \in Run, SequentialOf(w), NEW c, Decide(w, c),
         prior[w] # None, ~CanReuse(w, c)
  PROVE  Affected(w, c)
<1>1. pc[w] = "check" /\ c \subseteq Module
  BY DecideType DEF Decide
<1>2. cached[w] = cache /\ Matches(cache, prior[w])
  BY <1>1 DEF SequentialOf, CacheOf
<1>3. PICK m \in c : ~Unchanged(w, c, m) \/ m \notin ReusableBeams(w, cached[w])
  BY DEF CanReuse
<1>4. /\ cached[w][m] # None /\ cached[w][m].text = prior[w][m].text
      /\ cached[w][m].iface = prior[w][m].iface
      /\ \A d \in Imports[m] : cached[w][m].deps[d] = prior[w][d].iface
  BY <1>1, <1>2 DEF Matches
<1>5. CASE m \notin ReusableBeams(w, cached[w])
  BY <1>1, <1>4, <1>5 DEF ReusableBeams, Affected
<1>6. CASE ~Unchanged(w, c, m)
  <2>1. CASE cached[w][m].text # scanned[w][m]
    BY <1>4, <2>1 DEF Affected
  <2>2. ASSUME NEW d \in Imports[m] \ c,
               ~(/\ checked[w][d] # None
                 /\ checked[w][d].iface = cached[w][m].deps[d])
        PROVE  Affected(w, c)
    <3>1. IsComponent(c)
      BY DecideType DEF IsComponent
    <3>2. d \in Outside(c)
      BY <3>1, ImportsReached
    <3>3. checked[w][d] # None
      BY <3>2, NextImportable DEF SequentialOf, Importable
    <3> QED
      BY <1>4, <2>2, <3>3 DEF Affected
  <2> QED
    BY <1>4, <1>6, <2>1, <2>2 DEF Unchanged
<1> QED
  BY <1>3, <1>5, <1>6

\* Freezing links the records of a component with what they import.
LEMMA FrozenLinked ==
  ASSUME TypeOK, PhaseInv, NEW w \in Run, pc[w] = "check",
         NEW c, IsComponent(c), Outcome(w, c) # Failed,
         NEW m \in c, NEW d \in Imports[m]
  PROVE  LET frozen == Freeze(w, c, Outcome(w, c)) IN
           /\ frozen[m].text = scanned[w][m]
           /\ frozen[m].deps[d] = frozen[d].iface
<1> DEFINE out == Outcome(w, c)
           frozen == Freeze(w, c, out)
<1>1. m \in Module /\ d \in Module
  BY ComponentType, ImportsAssumption
<1>2. frozen[m].text = scanned[w][m]
  BY <1>1 DEF Freeze
<1>3. CASE d \in c
  BY <1>1, <1>3 DEF Freeze
<1>4. CASE d \notin c
  <2>1. d \in Outside(c)
    BY <1>4, ImportsReached
  <2>2. checked[w][d] \in Interface
    BY <2>1, OutcomeType
  <2>3. checked[w][d] # None
    BY <2>2, NoneAssumption
  <2> QED
    BY <1>1, <1>4, <2>3 DEF Freeze
<1> QED
  BY <1>2, <1>3, <1>4

\* A run that checks decides one component, which checks or is taken over.
LEMMA SequentialDecides ==
  ASSUME TypeOK, PhaseInv, NEW w \in Run,
         NEW c, Decide(w, c), ReuseComponent(w, c) \/ CheckComponent(w, c)
  PROVE  /\ \A x \in Module \ c : /\ checked'[w][x] = checked[w][x]
                                  /\ beams'[w][x] = beams[w][x]
         /\ \/ /\ CanReuse(w, c)
               /\ \A m \in c : /\ checked'[w][m] = cached[w][m]
                               /\ beams'[w][m] = None
            \/ /\ ~CanReuse(w, c)
               /\ Outcome(w, c) # Failed
               /\ checked'[w] = Freeze(w, c, Outcome(w, c))
               /\ \A m \in c : beams'[w][m] = Outcome(w, c)[m].code
<1>1. c \subseteq Module
  BY DecideType
<1>2. CASE ReuseComponent(w, c)
  <2>1. \A m \in c : beams[w][m] = None
    <3> PICK k \in 1..Len(Components) : k = done[w] + 1 /\ c = Components[k]
      BY DecideType
    <3>1. k > done[w]
      BY DEF TypeOK
    <3> QED
      BY <3>1 DEF PhaseInv, PhaseOf
  <2> QED
    BY <1>1, <1>2, <2>1 DEF ReuseComponent, TypeOK
<1>3. CASE CheckComponent(w, c)
  <2> DEFINE out == Outcome(w, c)
  <2>1. /\ ~CanReuse(w, c) /\ out # Failed
        /\ checked'[w] = Freeze(w, c, out)
        /\ beams'[w] = [m \in Module |-> IF m \in c THEN out[m].code
                                         ELSE beams[w][m]]
    BY <1>3 DEF CheckComponent, TypeOK
  <2>2. \A x \in Module \ c : Freeze(w, c, out)[x] = checked[w][x]
    BY DEF Freeze
  <2> HIDE DEF out
  <2>3. /\ \A x \in Module \ c : checked'[w][x] = checked[w][x]
        /\ \A x \in Module \ c : beams'[w][x] = beams[w][x]
        /\ \A m \in c : beams'[w][m] = out[m].code
    BY <1>1, <2>1, <2>2
  <2> QED
    BY <2>1, <2>3 DEF out
<1> QED
  BY <1>2, <1>3

\* The records of a component that was just decided.
LEMMA NowDecided ==
  ASSUME TypeOK, PhaseInv, NEW w \in Run, SequentialOf(w),
         NEW c, Decide(w, c), UNCHANGED <<prior, scanned>>,
         ReuseComponent(w, c) \/ CheckComponent(w, c),
         NEW k \in 1..Len(Components), k = done[w] + 1
  PROVE  DecidedAt(w, k)'
<1>1. c = Components[k] /\ c \subseteq Module /\ IsComponent(c) /\ pc[w] = "check"
  BY DecideType DEF IsComponent, Decide
<1>2. \A x \in Module \ c : checked'[w][x] = checked[w][x]
  BY SequentialDecides
<1>3. CASE CanReuse(w, c)
  <2>1. \A m \in c : checked'[w][m] = cached[w][m] /\ beams'[w][m] = None
    BY <1>3, SequentialDecides
  <2>2. cached[w] = cache
    BY <1>1 DEF SequentialOf, CacheOf
  <2>3. ASSUME NEW m \in c
        PROVE  /\ cached[w][m] # None /\ cached[w][m].text = scanned[w][m]
               /\ prior[w] # None
               /\ \A d \in Imports[m] \ c :
                    checked[w][d].iface = cached[w][m].deps[d]
    BY <1>3 DEF CanReuse, Unchanged, ReusableBeams
  <2>4. ASSUME NEW m \in c PROVE Linked(w, m)'
    <3>1. Matches(cached[w], prior[w])
      BY <1>1, <2>2, <2>3 DEF SequentialOf, CacheOf
    <3>2. \A d \in Imports[m] : d \in Module
      BY <1>1, ImportsAssumption
    <3>3. \A d \in Imports[m] : checked'[w][m].deps[d] = checked'[w][d].iface
      BY <1>1, <1>2, <2>1, <2>3, <3>1, <3>2 DEF Matches
    <3> QED
      BY <2>1, <2>3, <3>3 DEF Linked
  <2> QED
    BY <1>1, <2>1, <2>4 DEF DecidedAt
<1>4. CASE ~CanReuse(w, c)
  <2> DEFINE frozen == Freeze(w, c, Outcome(w, c))
  <2>1. Outcome(w, c) # Failed /\ checked'[w] = frozen
    BY <1>4, SequentialDecides
  <2>2. ASSUME NEW m \in c PROVE Linked(w, m)'
    <3>1. frozen[m] # None
      BY <1>1, <2>1, FreezeType
    <3>2. /\ frozen[m].text = scanned[w][m]
          /\ \A d \in Imports[m] : frozen[m].deps[d] = frozen[d].iface
      <4>1. frozen[m].text = scanned[w][m]
        BY <1>1 DEF Freeze
      <4>2. ASSUME NEW d \in Imports[m]
            PROVE  frozen[m].deps[d] = frozen[d].iface
        BY <1>1, <2>1, FrozenLinked
      <4> QED
        BY <4>1, <4>2
    <3> HIDE DEF frozen
    <3> QED
      BY <2>1, <3>1, <3>2 DEF Linked
  <2>3. ASSUME prior'[w] # None PROVE Affected(w, c)'
    <3>1. Affected(w, c)
      BY <1>4, <2>3, WhyNotReused
    <3>2. \A m \in c : \A d \in Imports[m] \ c : d \in Module \ c
      BY <1>1, ImportsAssumption
    <3> QED
      BY <1>2, <3>1, <3>2 DEF Affected
  <2> QED
    BY <1>1, <2>2, <2>3 DEF DecidedAt
<1> QED
  BY <1>3, <1>4

\* Deciding a component.
LEMMA SequentialCheck ==
  ASSUME Undisturbed, TypeOK, PhaseInv, NEW w \in Run, SequentialOf(w), Check(w)
  PROVE  SequentialOf(w)'
<1> PICK i \in 1..Len(Components) : \/ ReuseComponent(w, Components[i])
                                    \/ CheckComponent(w, Components[i])
  BY DEF Check, Undisturbed
<1> PICK c : c = Components[i]
  OBVIOUS
<1>1. /\ Decide(w, c) /\ pc[w] = "check"
      /\ UNCHANGED <<sources, cache, current, pc, prior, scanned, cached>>
  BY DEF ReuseComponent, CheckComponent, Decide, files, found
<1> PICK k \in 1..Len(Components) : k = done[w] + 1
  BY <1>1, DecideType
<1>2. done'[w] = k /\ c = Components[k]
  BY <1>1, DecideType
<1>3. \A x \in Module \ c : /\ checked'[w][x] = checked[w][x]
                            /\ beams'[w][x] = beams[w][x]
  BY <1>1, SequentialDecides
<1>4. ASSUME NEW j \in 1..done[w] PROVE DecidedAt(w, j)'
  <2>1. j \in 1..Len(Components) /\ DecidedAt(w, j)
    BY DEF TypeOK, SequentialOf, DecidedOf
  <2>2. ASSUME NEW l \in 1..j, NEW m \in Components[l] PROVE m \in Module \ c
    <3>1. l \in 1..Len(Components) /\ l # k
      BY <2>1 DEF TypeOK
    <3> QED
      BY <1>2, <3>1, ComponentsAssumption, ComponentsDisjoint
  <2>3. \A l \in 1..j : \A m \in Components[l] : checked'[w][m] = checked[w][m]
    BY <1>3, <2>2
  <2>4. \A m \in Components[j] : beams'[w][m] = beams[w][m]
    BY <1>3, <2>1, <2>2
  <2> QED
    BY <1>1, <2>1, <2>3, <2>4, DecidedStays
<1>5. DecidedAt(w, k)'
  BY <1>1, NowDecided
<1>6. DecidedOf(w)'
  <2>1. \A j \in 1..k : j \in 1..done[w] \/ j = k
    BY DEF TypeOK
  <2> QED
    BY <1>1, <1>2, <1>4, <1>5, <2>1 DEF DecidedOf
<1> QED
  BY <1>1, <1>6 DEF SequentialOf, SourcesOf, PriorOf, CacheOf, Matches, Nothing

(***************************************************************************)
(* Storing and publishing.                                                 *)
(***************************************************************************)

\* All that a run has checked when it has decided everything.
LEMMA DecidedAll ==
  ASSUME NEW w \in Run, DecidedOf(w), done[w] = Len(Components),
         NEW m \in Module
  PROVE  Linked(w, m)
BY ComponentsAssumption DEF DecidedOf, DecidedAt

\* A run that is over knows nothing but the files.
LEMMA SequentialLeave ==
  ASSUME TypeOK, NEW w \in Run, Leave(w),
         current' # None => Matches(cache', current')
  PROVE  SequentialOf(w)'
<1>1. pc'[w] = "idle" /\ prior'[w] = None /\ done'[w] = 0
  BY DEF Leave, TypeOK
<1> QED
  BY <1>1 DEF SequentialOf, SourcesOf, PriorOf, CacheOf, DecidedOf, Matches

\* What is published is what was checked, and the cache holds.
LEMMA PublishMatches ==
  ASSUME TypeOK, NEW w \in Run, SequentialOf(w), Publish(w)
  PROVE  Matches(cache', current')
<1>1. /\ cache = checked[w] /\ done[w] = Len(Components)
      /\ cache' = cache
      /\ \A m \in Module : /\ current'[m].text = scanned[w][m]
                           /\ current'[m].iface = checked[w][m].iface
  BY DEF Publish, SequentialOf, CacheOf, DecidedOf
<1>2. \A m \in Module : Linked(w, m)
  BY <1>1, DecidedAll DEF SequentialOf
<1>3. \A m \in Module : \A d \in Imports[m] : d \in Module
  BY ImportsAssumption
<1> QED
  BY <1>1, <1>2, <1>3 DEF Matches, Linked

\* No run leaves but by publishing.
LEMMA NeverStopped ==
  ASSUME Undisturbed, TypeOK, NEW w \in Run,
         RejectFailedRun(w) \/ EmissionFails(w) \/ Refuse(w) \/ Crash(w)
  PROVE  FALSE
BY NoFault DEF Undisturbed, EmissionFails, Crash

\* The cache is replaced, and then the generation: they belong together again.
LEMMA SequentialFinish ==
  ASSUME Undisturbed, TypeOK, NEW w \in Run, SequentialOf(w), Finish(w)
  PROVE  SequentialOf(w)'
<1>1. CASE ClearCache(w)
  <2>1. /\ pc[w] = "check" /\ pc'[w] = "store"
        /\ done[w] = Len(Components) /\ cache' = Nothing
        /\ todo'[w] = {m \in Module : checked[w][m] # None}
        /\ UNCHANGED <<sources, current, prior, scanned, done, checked, beams>>
    BY <1>1 DEF ClearCache, Goto, TypeOK
  <2>2. \A m \in Module \ todo'[w] : cache'[m] = checked'[w][m]
    BY <2>1 DEF Nothing
  <2> QED
    BY <2>1, <2>2 DEF SequentialOf, SourcesOf, PriorOf, CacheOf, DecidedOf,
       DecidedAt, Linked, Affected
<1>2. ASSUME NEW m \in Module, StoreInterface(w, m) PROVE SequentialOf(w)'
  <2>1. /\ pc[w] = "store" /\ todo'[w] = todo[w] \ {m}
        /\ \A x \in Module : cache'[x] = IF x = m THEN checked[w][m] ELSE cache[x]
        /\ UNCHANGED <<sources, current, pc, prior, scanned, done, checked, beams>>
    BY <1>2 DEF StoreInterface, TypeOK, Interfaces, found
  <2>2. \A x \in Module \ todo'[w] : cache'[x] = checked'[w][x]
    BY <2>1 DEF SequentialOf, CacheOf
  <2> QED
    BY <2>1, <2>2 DEF SequentialOf, SourcesOf, PriorOf, CacheOf, DecidedOf,
       DecidedAt, Linked, Affected
<1>3. CASE Stored(w)
  <2>1. /\ pc[w] = "store" /\ pc'[w] = "emit" /\ todo[w] = {}
        /\ UNCHANGED <<sources, cache, current, prior, scanned, done, checked, beams>>
    BY <1>3 DEF Stored, Goto, TypeOK, files, found, local
  <2>2. \A m \in Module : cache[m] = checked[w][m]
    BY <2>1 DEF SequentialOf, CacheOf
  <2>3. cache' = checked'[w]
    BY <2>1, <2>2 DEF TypeOK, Interfaces
  <2> QED
    BY <2>1, <2>3 DEF SequentialOf, SourcesOf, PriorOf, CacheOf, DecidedOf,
       DecidedAt, Linked, Affected
<1>4. CASE Emit(w)
  <2>1. /\ pc[w] = "emit" /\ pc'[w] = "publish" /\ prior'[w] = None
        /\ UNCHANGED <<sources, cache, current, scanned, done, checked>>
    BY <1>4 DEF Emit, Goto, TypeOK, files
  <2>2. ASSUME NEW i \in 1..done[w] PROVE DecidedAt(w, i)'
    <3>1. i \in 1..Len(Components) /\ DecidedAt(w, i)
      BY DEF TypeOK, SequentialOf, DecidedOf
    <3> QED
      BY <2>1, <3>1, DecidedStays
  <2> QED
    BY <2>1, <2>2 DEF SequentialOf, SourcesOf, PriorOf, CacheOf, DecidedOf
<1>5. CASE Publish(w)
  BY <1>5, PublishMatches, SequentialLeave DEF Publish
<1> QED
  BY <1>1, <1>2, <1>3, <1>4, <1>5, NeverStopped DEF Finish

\* Every step that is not disturbed keeps cache and generation in step.
LEMMA SequentialStep ==
  ASSUME OneRun, TypeOK, PhaseInv, FilesInv, SequentialInv,
         [Next]_vars, [Undisturbed]_vars
  PROVE  SequentialInv'
<1>1. ASSUME Undisturbed, NEW w \in Run, Prepare(w) \/ Check(w) \/ Finish(w)
      PROVE  SequentialInv'
  <2>1. SequentialOf(w)'
    BY <1>1, SequentialPrepare, SequentialCheck, SequentialFinish
       DEF SequentialInv, FilesInv
  <2> QED
    BY <2>1 DEF OneRun, SequentialInv
<1>2. ASSUME UNCHANGED <<cache, current, pc, found, local>>,
             sources' = sources \/ \A w \in Run : pc[w] = "idle",
             NEW w \in Run
      PROVE  SequentialOf(w)'
  BY <1>2 DEF SequentialInv, SequentialOf, SourcesOf, PriorOf, CacheOf, DecidedOf,
     DecidedAt, Linked, Affected, Matches, Nothing, found, local
<1>3. CASE Undisturbed /\ \E m \in Edited, t \in Text : Edit(m, t)
  BY <1>2, <1>3 DEF Edit, Undisturbed, SequentialInv
<1>4. CASE UNCHANGED vars
  BY <1>2, <1>4 DEF vars, files, SequentialInv
<1> QED
  BY <1>1, <1>3, <1>4 DEF Next

\* The inductive invariant of undisturbed builds.
LEMMA SequentialInvariant ==
  ASSUME OneRun
  PROVE  Spec /\ [][Undisturbed]_vars => [](FilesInv /\ SequentialInv)
<1>1. Init => FilesInv /\ SequentialInv
  BY FilesInit, SequentialInit
<1>2. BuildInv /\ FilesInv /\ SequentialInv /\ [Next]_vars /\ [Undisturbed]_vars
        => FilesInv' /\ SequentialInv'
  BY FilesStep, SequentialStep DEF BuildInv
<1> QED
  BY <1>1, <1>2, BuildInvariant, PTL DEF Spec

\* Through any history of builds that succeed, a module is compiled again only
\* if a text of its component or an interface that is imported from outside is
\* not that of the published generation.
THEOREM OnlyAffectedRebuilt ==
  ASSUME OneRun
  PROVE  Spec /\ [][Undisturbed]_vars => []RebuildsOnlyAffected
<1>1. SequentialInv => RebuildsOnlyAffected
  <2> SUFFICES ASSUME SequentialInv, NEW w \in Run, pc[w] = "emit",
                      prior[w] # None, NEW i \in 1..Len(Components),
                      \E m \in Components[i] : beams[w][m] # None
               PROVE  Affected(w, Components[i])
    BY DEF RebuildsOnlyAffected, Affected
  <2>1. DecidedAt(w, i)
    BY DEF SequentialInv, SequentialOf, DecidedOf
  <2> QED
    BY <2>1 DEF DecidedAt
<1> QED
  BY <1>1, SequentialInvariant, PTL

(***************************************************************************)
(* What such builds publish.                                               *)
(***************************************************************************)

\* What checking c now would yield.
Fresh(w, c) == Compile(c, [m \in Reached(c) |-> scanned[w][m]], Environment(w, c))

\* Interfaces and BEAMs of a decided component are the fresh ones.
BuiltAt(w, i) ==
  /\ Fresh(w, Components[i]) # Failed
  /\ \A m \in Components[i] :
       /\ checked[w][m].iface = Fresh(w, Components[i])[m].iface
       /\ IF beams[w][m] # None
          THEN beams[w][m] = Fresh(w, Components[i])[m].code
          ELSE prior[w][m].code = Fresh(w, Components[i])[m].code

BuiltOf(w) == \A i \in 1..done[w] : BuiltAt(w, i)

BuiltInv == BeamsAgree /\ \A w \in Run : BuiltOf(w)

\* Nothing is published.
LEMMA BuiltInit == Init => BuiltInv
BY DEF Init, BuiltInv, BuiltOf, BeamsAgree

\* A component depends on earlier ones only.
LEMMA SameFresh ==
  ASSUME NEW w \in Run, NEW i \in 1..Len(Components),
         scanned'[w] = scanned[w],
         \A j \in 1..i : j < i =>
            \A m \in Components[j] : checked'[w][m] = checked[w][m]
  PROVE  Fresh(w, Components[i])' = Fresh(w, Components[i])
<1> DEFINE c == Components[i]
<1>1. ASSUME NEW d \in Outside(c) PROVE checked'[w][d] = checked[w][d]
  BY OutsideBefore
<1>2. Environment(w, c)' = Environment(w, c)
  BY <1>1 DEF Environment
<1> QED
  BY <1>2 DEF Fresh

\* What was found out about a component stays.
LEMMA BuiltStays ==
  ASSUME NEW w \in Run, NEW i \in 1..Len(Components), BuiltAt(w, i),
         scanned'[w] = scanned[w], prior'[w] = prior[w],
         \A j \in 1..i : \A m \in Components[j] :
            checked'[w][m] = checked[w][m],
         \A m \in Components[i] : beams'[w][m] = beams[w][m]
  PROVE  BuiltAt(w, i)'
<1>1. Fresh(w, Components[i])' = Fresh(w, Components[i])
  BY SameFresh
<1>2. \A m \in Components[i] : checked'[w][m] = checked[w][m]
  OBVIOUS
<1> HIDE DEF Fresh
<1> QED
  BY <1>1, <1>2 DEF BuiltAt

\* A component that is taken over would come out the same.
LEMMA ReusedFresh ==
  ASSUME NamedTogether, BuildInv, NEW w \in Run, SequentialOf(w),
         BeamsAgree, NEW c, Decide(w, c), CanReuse(w, c), NEW m \in c
  PROVE  /\ Fresh(w, c) # Failed
         /\ cached[w][m].iface = Fresh(w, c)[m].iface
         /\ prior[w][m].code = Fresh(w, c)[m].code
<1> USE DEF BuildInv
<1> PICK k \in 1..Len(Components) : c = Components[k]
  BY DecideType
<1> DEFINE texts == [x \in Reached(c) |-> scanned[w][x]]
           env   == Environment(w, c)
           gen   == prior[w]
           tree  == [x \in Module |-> gen[x].text]
           t     == [x \in Reached(c) |-> tree[x]]
           e     == [d \in Outside(c) |-> gen[d].iface]
<1>1. pc[w] = "check" /\ c \subseteq Module /\ IsComponent(c)
  BY DecideType DEF Decide, IsComponent
<1>2. \A x \in c : /\ gen # None
                   /\ gen[x].text = scanned[w][x]
                   /\ gen[x].iface = cached[w][x].iface
                   /\ \A d \in Imports[x] \ c :
                        checked[w][d].iface = cached[w][x].deps[d]
  BY DEF CanReuse, ReusableBeams, Unchanged
<1>3. gen # None /\ gen = current
  BY <1>2 DEF SequentialOf, PriorOf
<1>4. Matches(cached[w], gen)
  BY <1>1, <1>3 DEF SequentialOf, CacheOf
<1>5. gen \in [Module -> Artifact]
  BY <1>3 DEF TypeOK, Generation
<1>6. t \in [Reached(c) -> Text] /\ e \in [Outside(c) -> Iface]
  BY <1>5 DEF Artifact, Outside, Reached
<1>7. Importable(w, c)
  BY NextImportable DEF SequentialOf
<1>8. /\ scanned[w] \in [Module -> Text]
      /\ checked[w] \in [Module -> Interface \cup {None}]
  BY <1>1 DEF PhaseInv, PhaseOf, TypeOK, Interfaces
<1>9. \A d \in Outside(c) : d \in Module /\ checked[w][d] \in Interface
  BY <1>7, <1>8 DEF Importable, Outside, Reached
<1>10. texts \in [Reached(c) -> Text] /\ env \in [Outside(c) -> Iface]
  BY <1>8, <1>9 DEF Environment, Interface, Reached
<1>11. \A x \in c : x \in Reached(c) /\ t[x] = texts[x]
  BY <1>1, <1>2 DEF Reached
<1>12. ASSUME NEW d \in ImportedBy(c) PROVE e[d] = env[d]
  <2>1. PICK x \in c : d \in Imports[x] \ c
    BY DEF ImportedBy, Outside
  <2>2. d \in Outside(c) /\ x \in Module
    BY <1>1 DEF ImportedBy
  <2>3. env[d] = cached[w][x].deps[d]
    BY <1>2, <2>1, <2>2 DEF Environment
  <2>4. cached[w][x].deps[d] = gen[d].iface
    BY <1>4, <2>1, <2>2 DEF Matches
  <2> QED
    BY <2>2, <2>3, <2>4
<1>13. Compile(c, t, e) = Fresh(w, c)
  <2>1. Fresh(w, c) = Compile(c, texts, env)
    BY DEF Fresh
  <2> HIDE DEF texts, env, t, e
  <2> QED
    BY <1>6, <1>10, <1>11, <1>12, <2>1 DEF NamedTogether
<1>14. IsBuild(gen, tree)
  BY <1>3 DEF BeamsAgree
<1>15. gen[m] = [text |-> tree[m], iface |-> Compile(c, t, e)[m].iface,
                 code |-> Compile(c, t, e)[m].code]
  <2> HIDE DEF gen, tree
  <2> QED
    BY <1>14 DEF IsBuild
<1>16. Compile(c, t, e) # Failed
  <2> HIDE DEF gen, tree
  <2> QED
    BY <1>14 DEF IsBuild
<1> HIDE DEF t, e
<1> QED
  BY <1>2, <1>13, <1>15, <1>16

\* The component that was just decided, either way.
LEMMA NowBuilt ==
  ASSUME NamedTogether, BuildInv, NEW w \in Run, SequentialOf(w),
         BeamsAgree, NEW c, Decide(w, c), UNCHANGED <<prior, scanned>>,
         ReuseComponent(w, c) \/ CheckComponent(w, c),
         NEW k \in 1..Len(Components), k = done[w] + 1
  PROVE  BuiltAt(w, k)'
<1> USE DEF BuildInv
<1>1. c = Components[k] /\ c \subseteq Module /\ IsComponent(c) /\ pc[w] = "check"
  BY DecideType DEF IsComponent, Decide
<1>2. Fresh(w, c)' = Fresh(w, c)
  <2>1. ASSUME NEW j \in 1..k, j < k, NEW m \in Components[j]
        PROVE  checked'[w][m] = checked[w][m]
    <3>1. j \in 1..Len(Components) /\ j # k
      BY <2>1
    <3>2. m \in Module \ c
      BY <1>1, <3>1, ComponentsAssumption, ComponentsDisjoint
    <3> QED
      BY <3>2, SequentialDecides
  <2> QED
    BY <1>1, <2>1, SameFresh
<1> SUFFICES ASSUME NEW m \in c
             PROVE  /\ Fresh(w, c) # Failed
                    /\ checked'[w][m].iface = Fresh(w, c)[m].iface
                    /\ IF beams'[w][m] # None
                       THEN beams'[w][m] = Fresh(w, c)[m].code
                       ELSE prior[w][m].code = Fresh(w, c)[m].code
  <2>1. c # {}
    BY <1>1, ComponentsAssumption
  <2> HIDE DEF Fresh
  <2> QED
    BY <1>1, <1>2, <2>1 DEF BuiltAt
<1>3. CASE CanReuse(w, c)
  <2>1. checked'[w][m] = cached[w][m] /\ beams'[w][m] = None
    BY <1>3, SequentialDecides
  <2>2. /\ Fresh(w, c) # Failed
        /\ cached[w][m].iface = Fresh(w, c)[m].iface
        /\ prior[w][m].code = Fresh(w, c)[m].code
    BY <1>3, ReusedFresh
  <2> QED
    BY <2>1, <2>2
<1>4. CASE ~CanReuse(w, c)
  <2> DEFINE out == Outcome(w, c)
  <2>1. /\ out # Failed
        /\ checked'[w] = Freeze(w, c, out)
        /\ beams'[w][m] = out[m].code
    BY <1>4, SequentialDecides
  <2>2. out \in [c -> Product]
    BY <1>1, <2>1, OutcomeType
  <2>3. Freeze(w, c, out)[m].iface = out[m].iface
    BY <1>1, <2>1, FreezeType
  <2>4. out = Fresh(w, c)
    BY NextImportable DEF SequentialOf, Outcome, Fresh
  <2> HIDE DEF out
  <2>5. out[m].code # None
    BY <2>2, NoneAssumption DEF Product
  <2> QED
    BY <2>1, <2>3, <2>4, <2>5
<1> QED
  BY <1>3, <1>4

\* Deciding a component keeps what is known of the others.
LEMMA BuiltCheck ==
  ASSUME Undisturbed, NamedTogether, BuildInv, NEW w \in Run, SequentialOf(w),
         BeamsAgree, BuiltOf(w), Check(w)
  PROVE  BuiltOf(w)'
<1> USE DEF BuildInv
<1> PICK i \in 1..Len(Components) : \/ ReuseComponent(w, Components[i])
                                    \/ CheckComponent(w, Components[i])
  BY DEF Check, Undisturbed
<1> PICK c : c = Components[i]
  OBVIOUS
<1>1. Decide(w, c) /\ UNCHANGED <<prior, scanned>>
  BY DEF ReuseComponent, CheckComponent, files, found
<1> PICK k \in 1..Len(Components) : k = done[w] + 1
  BY <1>1, DecideType
<1>2. done'[w] = k /\ c = Components[k]
  BY <1>1, DecideType
<1>3. \A x \in Module \ c : /\ checked'[w][x] = checked[w][x]
                            /\ beams'[w][x] = beams[w][x]
  BY <1>1, SequentialDecides
<1>4. ASSUME NEW j \in 1..done[w] PROVE BuiltAt(w, j)'
  <2>1. j \in 1..Len(Components) /\ BuiltAt(w, j)
    BY DEF TypeOK, BuiltOf
  <2>2. ASSUME NEW l \in 1..j, NEW m \in Components[l] PROVE m \in Module \ c
    <3>1. l \in 1..Len(Components) /\ l # k
      BY <2>1 DEF TypeOK
    <3> QED
      BY <1>2, <3>1, ComponentsAssumption, ComponentsDisjoint
  <2>3. \A l \in 1..j : \A m \in Components[l] : checked'[w][m] = checked[w][m]
    BY <1>3, <2>2
  <2>4. \A m \in Components[j] : beams'[w][m] = beams[w][m]
    BY <1>3, <2>1, <2>2
  <2> QED
    BY <1>1, <2>1, <2>3, <2>4, BuiltStays
<1>5. BuiltAt(w, k)'
  BY <1>1, NowBuilt
<1>6. \A j \in 1..k : j \in 1..done[w] \/ j = k
  BY DEF TypeOK
<1> QED
  BY <1>2, <1>4, <1>5, <1>6 DEF BuiltOf

\* Emission takes the BEAMs that are missing from the earlier generation.
LEMMA BuiltEmit ==
  ASSUME BuildInv, NEW w \in Run, BuiltOf(w), Emit(w)
  PROVE  BuiltOf(w)'
<1> USE DEF BuildInv
<1>1. UNCHANGED <<scanned, done, checked>>
  BY DEF Emit
<1> SUFFICES ASSUME NEW i \in 1..done[w], NEW m \in Components[i]
             PROVE  /\ checked[w][m].iface = Fresh(w, Components[i])[m].iface
                    /\ beams'[w][m] # None
                    /\ beams'[w][m] = Fresh(w, Components[i])[m].code
  <2>1. ASSUME NEW c PROVE Fresh(w, c)' = Fresh(w, c)
    BY <1>1 DEF Fresh, Environment
  <2> HIDE DEF Fresh
  <2> QED
    BY <1>1, <2>1 DEF BuiltOf, BuiltAt
<1>2. i \in 1..Len(Components) /\ m \in Module
  <2>1. i \in 1..Len(Components)
    BY DEF TypeOK
  <2> QED
    BY <2>1, ComponentsAssumption
<1>3. beams'[w][m] = IF m \in Missing(w) THEN prior[w][m].code ELSE beams[w][m]
  BY <1>2 DEF Emit, TypeOK
<1>4. CASE m \in Missing(w)
  <2>1. prior[w] # None
    BY <1>4 DEF Emit, ReusableBeams
  <2>2. prior[w] \in [Module -> Artifact]
    BY <2>1 DEF TypeOK, Generation
  <2>3. prior[w][m].code # None
    BY <1>2, <2>2, NoneAssumption DEF Artifact
  <2> QED
    BY <1>3, <1>4, <2>3 DEF BuiltOf, BuiltAt, Missing
<1>5. CASE m \notin Missing(w)
  BY <1>2, <1>3, <1>5 DEF BuiltOf, BuiltAt, Missing
<1> QED
  BY <1>4, <1>5

\* What is published is the build of what was scanned.
LEMMA PublishBuilds ==
  ASSUME BuildInv, NEW w \in Run, SequentialOf(w), BuiltOf(w),
         Publish(w)
  PROVE  IsBuild(current', scanned[w])
<1> USE DEF BuildInv
<1>1. /\ pc[w] = "publish" /\ done[w] = Len(Components)
      /\ current' = [m \in Module |-> [text  |-> scanned[w][m],
                                       iface |-> checked[w][m].iface,
                                       code  |-> beams[w][m]]]
  BY DEF Publish, SequentialOf, DecidedOf
<1>2. scanned[w] \in [Module -> Text]
  BY <1>1 DEF PhaseInv, PhaseOf
<1>3. \A m \in Module : checked[w][m] \in Interface /\ beams[w][m] \in Code
  BY <1>1 DEF PhaseInv, PhaseOf, AllChecked, Missing, TypeOK, Interfaces
<1>4. current' # None
  <2>1. current' \in [Module -> Artifact]
    BY <1>1, <1>2, <1>3 DEF Artifact, Interface
  <2> QED
    BY <2>1, NoneAssumption
<1>5. ASSUME NEW i \in 1..Len(Components)
      PROVE  LET c   == Components[i]
                 out == Compile(c, [m \in Reached(c) |-> scanned[w][m]],
                                [d \in Outside(c) |-> current'[d].iface])
             IN  /\ out # Failed
                 /\ \A m \in c :
                      current'[m] = [text  |-> scanned[w][m],
                                     iface |-> out[m].iface,
                                     code  |-> out[m].code]
  <2> DEFINE c     == Components[i]
             texts == [m \in Reached(c) |-> scanned[w][m]]
             env   == [d \in Outside(c) |-> current'[d].iface]
             out   == Compile(c, texts, env)
  <2>1. \A d \in Outside(c) : d \in Module
    BY DEF Outside, Reached
  <2>2. env = Environment(w, c)
    BY <1>1, <2>1 DEF Environment
  <2>3. out = Fresh(w, c)
    BY <2>2 DEF Fresh
  <2>4. out # Failed
    BY <1>1, <2>3 DEF BuiltOf, BuiltAt
  <2>5. ASSUME NEW m \in c
        PROVE  current'[m] = [text |-> scanned[w][m], iface |-> out[m].iface,
                              code |-> out[m].code]
    <3>1. m \in Module
      BY ComponentsAssumption
    <3>2. beams[w][m] # None
      BY <1>1, <3>1 DEF PhaseInv, PhaseOf, Missing
    <3>3. /\ checked[w][m].iface = Fresh(w, c)[m].iface
          /\ beams[w][m] = Fresh(w, c)[m].code
      BY <1>1, <3>2 DEF BuiltOf, BuiltAt
    <3> HIDE DEF out
    <3> QED
      BY <1>1, <2>3, <3>1, <3>3
  <2> QED
    BY <2>4, <2>5
<1> QED
  BY <1>4, <1>5 DEF IsBuild

\* A generation that is the build of the sources is the build of its own texts.
LEMMA BuildOfItsTexts ==
  ASSUME NEW gen, NEW tree, IsBuild(gen, tree)
  PROVE  IsBuild(gen, [m \in Module |-> gen[m].text])
<1> DEFINE own == [m \in Module |-> gen[m].text]
<1>1. ASSUME NEW m \in Module PROVE own[m] = tree[m]
  <2>1. PICK i \in 1..Len(Components) : m \in Components[i]
    BY ComponentsAssumption
  <2> DEFINE c   == Components[i]
             out == Compile(c, [x \in Reached(c) |-> tree[x]],
                            [d \in Outside(c) |-> gen[d].iface])
  <2>2. gen[m] = [text |-> tree[m], iface |-> out[m].iface, code |-> out[m].code]
    BY <2>1 DEF IsBuild
  <2> HIDE DEF out
  <2> QED
    BY <2>2
<1>2. ASSUME NEW i \in 1..Len(Components)
      PROVE  /\ [m \in Reached(Components[i]) |-> own[m]]
                  = [m \in Reached(Components[i]) |-> tree[m]]
             /\ \A m \in Components[i] : own[m] = tree[m]
  <2>1. Reached(Components[i]) \subseteq Module
    BY DEF Reached
  <2>2. Components[i] \subseteq Module
    BY ComponentsAssumption
  <2> HIDE DEF own
  <2> QED
    BY <1>1, <2>1, <2>2
<1> HIDE DEF own
<1> QED
  BY <1>2 DEF IsBuild, own

\* Every step that is not disturbed keeps what was built fresh.
LEMMA BuiltStep ==
  ASSUME OneRun, NamedTogether, BuildInv, BuildInv', SequentialInv,
         BuiltInv, [Next]_vars, [Undisturbed]_vars
  PROVE  BuiltInv'
<1>1. ASSUME Undisturbed, NEW w \in Run, Prepare(w) \/ Check(w) \/ Finish(w)
      PROVE  BuiltInv'
  <2>1. SequentialOf(w) /\ BuiltOf(w) /\ BeamsAgree
    BY DEF SequentialInv, BuiltInv
  <2>2. CASE Prepare(w)
    <3>1. UNCHANGED current /\ done' = done /\ pc[w] \in Before
      BY <2>2 DEF Prepare, Begin, BeginAfresh, Scan, ListCache, Loaded,
         LoadMiss, LoadInterface, Goto, files, local, Before
    <3>2. done'[w] = 0
      BY <3>1 DEF BuildInv, PhaseInv, PhaseOf
    <3>3. BuiltOf(w)' /\ BeamsAgree'
      BY <2>1, <3>1, <3>2 DEF BuiltOf, BeamsAgree
    <3> QED
      BY <3>3 DEF OneRun, BuiltInv
  <2>3. CASE Check(w)
    <3>1. UNCHANGED current
      BY <2>3 DEF Check, ReuseComponent, CheckComponent, FailComponent, files
    <3>2. BuiltOf(w)' /\ BeamsAgree'
      BY <1>1, <2>1, <2>3, <3>1, BuiltCheck DEF BeamsAgree
    <3> QED
      BY <3>2 DEF OneRun, BuiltInv
  <2>4. CASE Emit(w)
    <3>1. UNCHANGED current
      BY <2>4 DEF Emit, files
    <3>2. BuiltOf(w)' /\ BeamsAgree'
      BY <2>1, <2>4, <3>1, BuiltEmit DEF BeamsAgree
    <3> QED
      BY <3>2 DEF OneRun, BuiltInv
  <2>5. CASE ClearCache(w) \/ Stored(w) \/ \E m \in Module : StoreInterface(w, m)
    <3>1. UNCHANGED <<current, prior, scanned, done, checked, beams>>
      BY <2>5 DEF ClearCache, Stored, StoreInterface, files, found, local
    <3>2. BuiltOf(w)' /\ BeamsAgree'
      BY <2>1, <3>1 DEF BuiltOf, BuiltAt, Fresh, Environment, BeamsAgree
    <3> QED
      BY <3>2 DEF OneRun, BuiltInv
  <2>6. CASE Publish(w)
    <3>1. BeamsAgree'
      BY <2>1, <2>6, PublishBuilds, BuildOfItsTexts DEF BeamsAgree
    <3>2. done'[w] = 0
      BY <2>6 DEF Publish, Leave, BuildInv, TypeOK
    <3>3. BuiltOf(w)'
      BY <3>2 DEF BuiltOf
    <3> QED
      BY <3>1, <3>3 DEF OneRun, BuiltInv
  <2> QED
    BY <1>1, <2>1, <2>2, <2>3, <2>4, <2>5, <2>6, NeverStopped
       DEF Finish, BuildInv
<1>2. CASE UNCHANGED <<current, found, local>>
  <2>1. BeamsAgree'
    BY <1>2 DEF BuiltInv, BeamsAgree
  <2>2. ASSUME NEW w \in Run PROVE BuiltOf(w)'
    <3>1. UNCHANGED <<prior, scanned, done, checked, beams>>
      BY <1>2 DEF found, local
    <3>2. BuiltOf(w)
      BY DEF BuiltInv
    <3> QED
      BY <3>1, <3>2 DEF BuiltOf, BuiltAt, Fresh, Environment
  <2> QED
    BY <2>1, <2>2 DEF BuiltInv
<1>3. CASE \E m \in Edited, t \in Text : Edit(m, t)
  BY <1>2, <1>3 DEF Edit
<1>4. CASE UNCHANGED vars
  BY <1>2, <1>4 DEF vars, files
<1> QED
  BY <1>1, <1>3, <1>4 DEF Next

\* What an undisturbed run has is what a build from nothing would give it.
LEMMA BuiltInvariant ==
  ASSUME OneRun, NamedTogether
  PROVE  Spec /\ [][Undisturbed]_vars => []BuiltInv
<1>1. Init => BuiltInv
  BY BuiltInit
<1>2. BuildInv /\ BuildInv' /\ SequentialInv /\ BuiltInv
        /\ [Next]_vars /\ [Undisturbed]_vars => BuiltInv'
  BY BuiltStep
<1> QED
  BY <1>1, <1>2, BuildInvariant, SequentialInvariant, PTL DEF Spec

\* Through any history of builds that succeed, all BEAMs of a published generation
\* are the code generated against the interfaces of that generation.
THEOREM BeamsKeepAgreeing ==
  ASSUME OneRun, NamedTogether
  PROVE  Spec /\ [][Undisturbed]_vars => []BeamsAgree
<1>1. BuiltInv => BeamsAgree
  BY DEF BuiltInv
<1> QED
  BY <1>1, BuiltInvariant, PTL

\* Through any history of builds that succeed, whatever is published is the build
\* of the present sources from nothing: every step of the program is an edit, a
\* clean build, or neither changes the sources nor what is published.
THEOREM BuildsAreClean ==
  ASSUME OneRun, NamedTogether
  PROVE  Spec /\ [][Undisturbed]_vars => ImplementsCleanBuild
<1>1. Init => Clean!Init
  BY DEF Init, Clean!Init
<1>2. ASSUME BuildInv, BuildInv', SequentialInv, BuiltInv, [Next]_vars
      PROVE  [Clean!Edit \/ Clean!Publish]_(Clean!vars)
  <2>1. ASSUME NEW w \in Run, Prepare(w) \/ Check(w) \/ Finish(w)
        PROVE  UNCHANGED <<sources, current>> \/ Clean!Publish
    <3>1. CASE Publish(w)
      <4>1. IsBuild(current', scanned[w])
        BY <1>2, <3>1, PublishBuilds DEF SequentialInv, BuiltInv
      <4> QED
        BY <3>1, <4>1 DEF Publish, Clean!Publish
    <3>2. CASE ~Publish(w)
      BY <2>1, <3>2 DEF Prepare, Begin, BeginAfresh, Scan, ListCache, Loaded,
         LoadMiss, LoadInterface, Check, ReuseComponent, CheckComponent,
         FailComponent, Finish, ClearCache, Stored, RejectFailedRun, Emit,
         EmissionFails, Refuse, Crash, StoreInterface, files
    <3> QED
      BY <3>1, <3>2
  <2>2. CASE \E m \in Edited, t \in Text : Edit(m, t)
    <3>1. sources' \in [Module -> Text]
      BY <1>2 DEF BuildInv, TypeOK
    <3> QED
      BY <2>2, <3>1 DEF Edit, Clean!Edit
  <2>3. CASE UNCHANGED vars
    BY <2>3 DEF vars, files, Clean!vars
  <2> QED
    BY <1>2, <2>1, <2>2, <2>3 DEF Next, Clean!vars
<1>3. BuildInv /\ BuildInv' /\ SequentialInv /\ BuiltInv /\ [Next]_vars
        => [Clean!Edit \/ Clean!Publish]_(Clean!vars)
  BY <1>2
<1> QED
  BY <1>1, <1>3, BuildInvariant, SequentialInvariant, BuiltInvariant, PTL
     DEF Spec, ImplementsCleanBuild, Clean!Spec

(***************************************************************************)
(* Where nothing can go wrong.                                             *)
(***************************************************************************)

\* All texts check, whatever the interfaces they import.
EverythingChecks ==
  \A i \in 1..Len(Components) : LET c == Components[i] IN
    \A texts \in [Reached(c) -> Text], env \in [Outside(c) -> Iface] :
      Compile(c, texts, env) # Failed

\* One process, no fault, and sources that change while it is idle.
Sequential ==
  OneRun /\ LiveEdits = FALSE /\ MaxFault = 0 /\ EverythingChecks

\* The next component checks: all that it reaches does.
LEMMA NextChecks ==
  ASSUME EverythingChecks, TypeOK, PhaseInv, NEW w \in Run, DecidedOf(w),
         NEW c, Decide(w, c)
  PROVE  Outcome(w, c) # Failed
<1> DEFINE texts == [x \in Reached(c) |-> scanned[w][x]]
           env   == Environment(w, c)
<1>1. Importable(w, c)
  BY NextImportable
<1>2. Outcome(w, c) = Compile(c, texts, env)
  BY <1>1 DEF Outcome
<1>3. /\ scanned[w] \in [Module -> Text]
      /\ checked[w] \in [Module -> Interface \cup {None}]
  BY DEF Decide, PhaseInv, PhaseOf, TypeOK, Interfaces
<1>4. texts \in [Reached(c) -> Text]
  BY <1>3 DEF Reached
<1>5. \A d \in Outside(c) : d \in Module /\ checked[w][d] \in Interface
  BY <1>1, <1>3 DEF Importable, Outside, Reached
<1>6. env \in [Outside(c) -> Iface]
  BY <1>5 DEF Environment, Interface
<1>7. PICK k \in 1..Len(Components) : c = Components[k]
  BY DecideType
<1> HIDE DEF texts, env
<1> QED
  BY <1>2, <1>4, <1>6, <1>7 DEF EverythingChecks

\* No step of the program fails by itself.
LEMMA NothingDisturbs ==
  ASSUME Sequential, BuildInv, SequentialInv, [Next]_vars
  PROVE  [Undisturbed]_vars
<1> USE DEF BuildInv
<1>1. ~Fault
  BY DEF Sequential, TypeOK, Fault
<1>2. ASSUME NEW w \in Run
      PROVE  /\ ~RejectFailedRun(w) /\ ~Refuse(w)
             /\ \A i \in 1..Len(Components) : ~FailComponent(w, Components[i])
  <2>1. SequentialOf(w)
    BY DEF SequentialInv
  <2>2. ~RejectFailedRun(w)
    <3> SUFFICES ASSUME RejectFailedRun(w) PROVE FALSE
      OBVIOUS
    <3>1. \A m \in Module : Linked(w, m)
      BY <2>1, DecidedAll DEF RejectFailedRun, SequentialOf, DecidedOf
    <3> QED
      BY <3>1 DEF RejectFailedRun, AllChecked, Linked
  <2>3. ~Refuse(w)
    BY <1>1, <2>1 DEF Refuse, SequentialOf, SourcesOf
  <2>4. ASSUME NEW i \in 1..Len(Components) PROVE ~FailComponent(w, Components[i])
    BY <2>1, NextChecks DEF FailComponent, SequentialOf, Sequential
  <2> QED
    BY <2>2, <2>3, <2>4
<1>3. ASSUME NEW w \in Run, Prepare(w) \/ Check(w) \/ Finish(w)
      PROVE  UNCHANGED <<sources, faults>>
  BY <1>1, <1>3 DEF Prepare, Begin, BeginAfresh, Scan, ListCache, Loaded, LoadMiss,
     LoadInterface, Check, ReuseComponent, CheckComponent, FailComponent, Finish,
     ClearCache, Stored, RejectFailedRun, Emit, EmissionFails, Publish, Refuse,
     Crash, StoreInterface, files
<1>4. CASE \E m \in Edited, t \in Text : Edit(m, t)
  BY <1>2, <1>4 DEF Edit, Undisturbed, Sequential
<1> QED
  BY <1>2, <1>3, <1>4 DEF Next, Undisturbed

\* With one process, no fault, sources that change while it is idle and modules
\* that check, every run succeeds.
THEOREM SequentialUndisturbed ==
  ASSUME Sequential
  PROVE  Spec => [][Undisturbed]_vars
<1>1. Init => FilesInv /\ SequentialInv
  BY FilesInit, SequentialInit
<1>2. BuildInv /\ FilesInv /\ SequentialInv /\ [Next]_vars
        => FilesInv' /\ SequentialInv' /\ [Undisturbed]_vars
  BY FilesStep, SequentialStep, NothingDisturbs DEF BuildInv, Sequential
<1> QED
  BY <1>1, <1>2, BuildInvariant, PTL DEF Spec

\* There, every history of builds compiles no more than is affected, and
\* implements clean builds.
THEOREM SequentialBuilds ==
  ASSUME Sequential, NamedTogether
  PROVE  Spec => []RebuildsOnlyAffected /\ []BeamsAgree /\ ImplementsCleanBuild
<1>1. OneRun
  BY DEF Sequential
<1>2. /\ Spec /\ [][Undisturbed]_vars => []RebuildsOnlyAffected
      /\ Spec /\ [][Undisturbed]_vars => []BeamsAgree
      /\ Spec /\ [][Undisturbed]_vars => ImplementsCleanBuild
  BY <1>1, OnlyAffectedRebuilt, BeamsKeepAgreeing, BuildsAreClean
<1> QED
  BY <1>2, SequentialUndisturbed, PTL
=============================================================================
