------------------------ MODULE IncrementalBuildProofs ------------------------
(***************************************************************************)
(* Theorems about IncrementalBuild that hold whatever checking a component *)
(* yields, for every import graph and any number of runs, edits and        *)
(* faults.                                                                 *)
(***************************************************************************)
EXTENDS IncrementalBuild, TLAPS

(***************************************************************************)
(* The inductive invariant.  A run has BEAMs for what it checked; for what *)
(* it took over, the generation it may reuse has the BEAMs; and both it    *)
(* and the published generation consist of products of single checks.      *)
(***************************************************************************)

Before == {"idle", "scan", "list", "load"}

\* What a run has computed in which phase.
PhaseOf(w) ==
  /\ pc[w] \in Before =>
       done[w] = 0 /\ checked[w] = Nothing /\ beams[w] = Nothing
  /\ pc[w] \notin {"idle", "scan"} => scanned[w] \in [Module -> Text]
  /\ pc[w] \in {"emit", "publish"} => AllChecked(w)
  /\ pc[w] = "publish" => Missing(w) = {}
  /\ \A i \in 1..Len(Components) : i > done[w] =>
       \A m \in Components[i] : checked[w][m] = None /\ beams[w][m] = None

PhaseInv == \A w \in Run : PhaseOf(w)

\* What was not checked was taken over together with its BEAM.
ReuseOf(w) ==
  pc[w] # "publish" =>
    \A m \in Module : checked[w][m] # None /\ beams[w][m] = None =>
      m \in ReusableBeams(w, checked[w])

ReuseInv == \A w \in Run : ReuseOf(w)

\* BEAMs are the code of the text and of the interface they go with.
ProductOf(w) ==
  /\ prior[w] # None => \A m \in Module : FromOneCheck(m, prior[w][m])
  /\ \A m \in Module : checked[w][m] # None /\ beams[w][m] # None =>
       FromOneCheck(m, [text  |-> scanned[w][m], iface |-> checked[w][m].iface,
                        code  |-> beams[w][m]])

ProductInv == BeamsMatchInterfaces /\ \A w \in Run : ProductOf(w)

BuildInv == TypeOK /\ PhaseInv /\ ReuseInv /\ ProductInv

(***************************************************************************)
(* Typing.                                                                 *)
(***************************************************************************)

LEMMA NothingType ==
  Nothing \in Interfaces /\ Nothing \in [Module -> Code \cup {None}]
BY DEF Nothing, Interfaces

\* The initial states are well typed.
LEMMA TypeInit == Init => TypeOK
BY NothingType, ComponentsAssumption DEF Init, TypeOK

\* A run that leaves has well-typed variables.
LEMMA LeaveType ==
  ASSUME TypeOK, NEW w \in Run, Leave(w)
  PROVE  /\ pc' \in [Run -> {"idle", "scan", "list", "load", "check", "store",
                             "emit", "publish"}]
         /\ prior' \in [Run -> Generation \cup {None}]
         /\ scanned' \in [Run -> [Module -> Text] \cup {None}]
         /\ todo' \in [Run -> SUBSET Module]
         /\ cached' \in [Run -> Interfaces]
         /\ done' \in [Run -> 0..Len(Components)]
         /\ checked' \in [Run -> Interfaces]
         /\ beams' \in [Run -> [Module -> Code \cup {None}]]
BY NothingType, ComponentsAssumption DEF TypeOK, Leave

IsComponent(c) == \E i \in 1..Len(Components) : c = Components[i]

LEMMA ComponentType == \A c : IsComponent(c) => c \subseteq Module
BY ComponentsAssumption DEF IsComponent

\* A component that checks has a product for each member.
LEMMA OutcomeType ==
  ASSUME TypeOK, PhaseInv, NEW w \in Run, pc[w] = "check",
         NEW c, IsComponent(c), Outcome(w, c) # Failed
  PROVE  /\ \A d \in Outside(c) : checked[w][d] \in Interface
         /\ [m \in Reached(c) |-> scanned[w][m]] \in [Reached(c) -> Text]
         /\ Environment(w, c) \in [Outside(c) -> Iface]
         /\ Outcome(w, c) = Compile(c, [m \in Reached(c) |-> scanned[w][m]],
                                    Environment(w, c))
         /\ Outcome(w, c) \in [c -> Product]
<1> DEFINE texts == [m \in Reached(c) |-> scanned[w][m]]
<1>1. Importable(w, c)
  BY DEF Outcome
<1>2. scanned[w] \in [Module -> Text]
  BY DEF PhaseInv, PhaseOf
<1>3. texts \in [Reached(c) -> Text]
  BY <1>2 DEF Reached
<1>4. checked[w] \in [Module -> Interface \cup {None}]
  BY DEF TypeOK, Interfaces
<1>5. Outside(c) \subseteq Module
  BY DEF Outside, Reached
<1>6. \A d \in Outside(c) : checked[w][d] \in Interface
  BY <1>1, <1>4, <1>5 DEF Importable
<1>7. Environment(w, c) \in [Outside(c) -> Iface]
  BY <1>6 DEF Environment, Interface
<1>8. Outcome(w, c) = Compile(c, texts, Environment(w, c))
  BY <1>1 DEF Outcome
<1>9. Outcome(w, c) \in [c -> Product] \cup {Failed}
  BY <1>3, <1>7, <1>8, CompileAssumption DEF IsComponent
<1> QED
  BY <1>3, <1>6, <1>7, <1>8, <1>9

\* The members of a component import one another and what it is checked against.
LEMMA ImportsReached ==
  ASSUME NEW c, IsComponent(c), NEW m \in c
  PROVE  Imports[m] \subseteq c \cup Outside(c)
<1> SUFFICES ASSUME NEW d \in Imports[m]
             PROVE  d \in c \cup Outside(c)
  OBVIOUS
<1>1. m \in Module /\ d \in Module
  BY ComponentType, ImportsAssumption
<1>2. ASSUME NEW S \in SUBSET Module, c \subseteq S,
             \A x \in S : Imports[x] \subseteq S
      PROVE  d \in S
  BY <1>2
<1> QED
  BY <1>1, <1>2 DEF Outside, Reached

\* Freezing gives well-typed interfaces.
LEMMA FreezeType ==
  ASSUME TypeOK, PhaseInv, NEW w \in Run, pc[w] = "check",
         NEW c, IsComponent(c), Outcome(w, c) # Failed
  PROVE  /\ Freeze(w, c, Outcome(w, c)) \in Interfaces
         /\ \A m \in c :
              /\ Freeze(w, c, Outcome(w, c))[m] # None
              /\ Freeze(w, c, Outcome(w, c))[m].iface = Outcome(w, c)[m].iface
         /\ \A m \in Module \ c :
              Freeze(w, c, Outcome(w, c))[m] = checked[w][m]
<1> DEFINE out == Outcome(w, c)
           iface == [d \in Module |->
                       IF d \in c THEN out[d].iface
                       ELSE IF checked[w][d] # None THEN checked[w][d].iface
                       ELSE None]
           deps(m) == [d \in Imports[m] |-> iface[d]]
           frozen  == [m \in Module |->
                         IF m \in c THEN [text  |-> scanned[w][m],
                                          iface |-> iface[m], deps  |-> deps(m)]
                         ELSE checked[w][m]]
<1>1. c \subseteq Module
  BY ComponentType
<1>2. out \in [c -> Product] /\ \A d \in Outside(c) : checked[w][d] \in Interface
  BY OutcomeType
<1>3. \A d \in c : iface[d] = out[d].iface /\ iface[d] \in Iface
  BY <1>1, <1>2 DEF Product
<1>4. \A d \in Outside(c) : d \in Module \ c
  BY DEF Outside, Reached
<1>5. \A d \in Outside(c) : iface[d] \in Iface
  BY <1>2, <1>4, NoneAssumption DEF Interface
<1>6. Freeze(w, c, out) = frozen
  BY DEF Freeze
<1> HIDE DEF iface, out
<1>7. ASSUME NEW m \in c
      PROVE  frozen[m] \in Interface /\ frozen[m].iface = out[m].iface
  <2>1. \A d \in Imports[m] : iface[d] \in Iface
    BY <1>3, <1>5, ImportsReached
  <2>2. deps(m) \in [Imports[m] -> Iface]
    BY <2>1
  <2>3. m \in Module
    BY <1>1
  <2>4. deps(m) \in UNION {[Imports[x] -> Iface] : x \in Module}
    BY <2>2, <2>3
  <2>5. scanned[w][m] \in Text
    BY <2>3 DEF PhaseInv, PhaseOf
  <2> HIDE DEF deps
  <2>6. frozen[m] = [text |-> scanned[w][m], iface |-> iface[m], deps |-> deps(m)]
    BY <2>3
  <2> HIDE DEF frozen
  <2> QED
    BY <1>3, <2>4, <2>5, <2>6 DEF Interface
<1>8. \A m \in Module \ c : frozen[m] = checked[w][m]
  OBVIOUS
<1>9. checked[w] \in [Module -> Interface \cup {None}]
  BY DEF TypeOK, Interfaces
<1>10. \A m \in Module : frozen[m] \in Interface \cup {None}
  <2> HIDE DEF frozen
  <2> QED
    BY <1>7, <1>8, <1>9
<1>11. frozen \in Interfaces
  BY <1>10 DEF Interfaces
<1>12. \A m \in c : frozen[m] # None
  <2> HIDE DEF frozen
  <2> QED
    BY <1>7, NoneAssumption
<1> QED
  BY <1>6, <1>7, <1>8, <1>11, <1>12 DEF out

\* A run at work stays well typed.
LEMMA TypePrepare ==
  ASSUME TypeOK, NEW w \in Run, Prepare(w)
  PROVE  TypeOK'
<1>1. CASE Begin(w)
  BY <1>1 DEF TypeOK, Begin, Goto, files, local
<1>2. CASE BeginAfresh(w)
  BY <1>2, NothingType DEF TypeOK, BeginAfresh, Goto, found, local
<1>3. CASE Scan(w)
  BY <1>3 DEF TypeOK, Scan, Goto, files, local
<1>4. CASE ListCache(w)
  BY <1>4 DEF TypeOK, ListCache, Goto, files, found
<1>5. CASE Loaded(w)
  BY <1>5 DEF TypeOK, Loaded, Goto, files, found, local
<1>6. CASE LoadMiss(w)
  <2>1. faults' \in Nat
    BY <1>6 DEF TypeOK, LoadMiss, Fault
  <2> QED
    BY <1>6, <2>1, NothingType DEF TypeOK, LoadMiss, Goto, files
<1>7. ASSUME NEW m \in Module, LoadInterface(w, m) PROVE TypeOK'
  BY <1>7 DEF TypeOK, LoadInterface, Interfaces, files
<1> QED
  BY <1>1, <1>2, <1>3, <1>4, <1>5, <1>6, <1>7 DEF Prepare

\* The next component is one of the components, and it is counted.
LEMMA DecideType ==
  ASSUME TypeOK, NEW w \in Run, NEW c, Decide(w, c)
  PROVE  /\ done[w] + 1 \in 1..Len(Components)
         /\ done'[w] = done[w] + 1
         /\ c = Components[done[w] + 1]
         /\ c \subseteq Module
         /\ done' \in [Run -> 0..Len(Components)]
BY ComponentsAssumption DEF TypeOK, Decide

LEMMA TypeCheck ==
  ASSUME TypeOK, PhaseInv, NEW w \in Run, Check(w)
  PROVE  TypeOK'
<1> PICK i \in 1..Len(Components) : \/ ReuseComponent(w, Components[i])
                                    \/ CheckComponent(w, Components[i])
                                    \/ FailComponent(w, Components[i])
  BY DEF Check
<1> DEFINE c == Components[i]
<1>1. done' \in [Run -> 0..Len(Components)]
  <2>1. Decide(w, c)
    BY DEF ReuseComponent, CheckComponent, FailComponent
  <2> QED
    BY <2>1, DecideType
<1>2. CASE ReuseComponent(w, c)
  <2>1. checked' \in [Run -> Interfaces]
    BY <1>2 DEF ReuseComponent, TypeOK, Interfaces
  <2> QED
    BY <1>1, <1>2, <2>1 DEF TypeOK, ReuseComponent, files, found
<1>3. CASE CheckComponent(w, c)
  <2> DEFINE out == Outcome(w, c)
  <2>1. pc[w] = "check" /\ out # Failed
    BY <1>3 DEF CheckComponent, Decide
  <2>2. Freeze(w, c, out) \in Interfaces
    BY <2>1, FreezeType DEF IsComponent
  <2>3. out \in [c -> Product]
    BY <2>1, OutcomeType DEF IsComponent
  <2>4. checked' = [checked EXCEPT ![w] = Freeze(w, c, out)]
    BY <1>3 DEF CheckComponent
  <2>5. beams' = [beams EXCEPT ![w] =
                    [m \in Module |-> IF m \in c THEN out[m].code ELSE @[m]]]
    BY <1>3 DEF CheckComponent
  <2> HIDE DEF out, c
  <2>6. checked' \in [Run -> Interfaces]
    BY <2>2, <2>4 DEF TypeOK
  <2>7. beams' \in [Run -> [Module -> Code \cup {None}]]
    BY <2>3, <2>5 DEF TypeOK, Product
  <2> QED
    BY <1>1, <1>3, <2>6, <2>7 DEF TypeOK, CheckComponent, files, found
<1>4. CASE FailComponent(w, c)
  BY <1>1, <1>4 DEF TypeOK, FailComponent, files, found
<1> QED
  BY <1>2, <1>3, <1>4

LEMMA TypeFinish ==
  ASSUME TypeOK, PhaseInv, NEW w \in Run, Finish(w)
  PROVE  TypeOK'
<1>1. CASE ClearCache(w)
  BY <1>1, NothingType DEF TypeOK, ClearCache, Goto
<1>2. CASE Stored(w)
  BY <1>2 DEF TypeOK, Stored, Goto, files, found, local
<1>3. CASE RejectFailedRun(w)
  BY <1>3, LeaveType DEF TypeOK, RejectFailedRun, files
<1>4. CASE Emit(w)
  <2> DEFINE took == [m \in Module |-> IF m \in Missing(w) THEN prior[w][m].code
                                       ELSE beams[w][m]]
  <2>1. ASSUME NEW m \in Missing(w) PROVE prior[w][m].code \in Code
    <3>1. m \in Module /\ prior[w] # None
      BY <1>4, <2>1 DEF Emit, ReusableBeams
    <3>2. prior[w] \in [Module -> Artifact]
      BY <3>1 DEF TypeOK, Generation
    <3> QED
      BY <3>1, <3>2 DEF Artifact
  <2>2. beams[w] \in [Module -> Code \cup {None}]
    BY DEF TypeOK
  <2>3. took \in [Module -> Code \cup {None}]
    BY <2>1, <2>2
  <2>4. beams' = [beams EXCEPT ![w] = took]
    BY <1>4 DEF Emit, TypeOK
  <2> HIDE DEF took
  <2>5. beams' \in [Run -> [Module -> Code \cup {None}]]
    BY <2>3, <2>4 DEF TypeOK
  <2> QED
    BY <1>4, <2>5 DEF TypeOK, Emit, Goto, files
<1>5. CASE EmissionFails(w)
  BY <1>5, LeaveType DEF TypeOK, EmissionFails, Fault, files
<1>6. CASE Publish(w)
  <2>1. pc[w] = "publish"
    BY <1>6 DEF Publish
  <2>2. scanned[w] \in [Module -> Text]
    BY <2>1 DEF PhaseInv, PhaseOf
  <2>3. \A m \in Module : checked[w][m] \in Interface
    BY <2>1 DEF PhaseInv, PhaseOf, AllChecked, TypeOK, Interfaces
  <2>4. \A m \in Module : beams[w][m] \in Code
    BY <2>1 DEF PhaseInv, PhaseOf, Missing, TypeOK
  <2>5. current' \in Generation
    BY <1>6, <2>2, <2>3, <2>4 DEF Publish, Generation, Artifact, Interface
  <2> QED
    BY <1>6, <2>5, LeaveType DEF TypeOK, Publish
<1>7. CASE Refuse(w)
  BY <1>7, LeaveType DEF TypeOK, Refuse, Fault, files
<1>8. CASE Crash(w)
  BY <1>8, LeaveType DEF TypeOK, Crash, Fault, files
<1>9. ASSUME NEW m \in Module, StoreInterface(w, m) PROVE TypeOK'
  <2>1. checked[w][m] \in Interface \cup {None}
    BY DEF TypeOK, Interfaces
  <2> QED
    BY <1>9, <2>1 DEF TypeOK, StoreInterface, Interfaces, found
<1> QED
  BY <1>1, <1>2, <1>3, <1>4, <1>5, <1>6, <1>7, <1>8, <1>9 DEF Finish

\* Every step of the program and of its users keeps the typing.
LEMMA TypeStep ==
  ASSUME TypeOK, PhaseInv, [Next]_vars
  PROVE  TypeOK'
<1>1. CASE \E w \in Run : Prepare(w) \/ Check(w) \/ Finish(w)
  BY <1>1, TypePrepare, TypeCheck, TypeFinish
<1>2. ASSUME NEW m \in Edited, NEW t \in Text, Edit(m, t) PROVE TypeOK'
  BY <1>2, BoundAssumption DEF TypeOK, Edit, found, local
<1>3. CASE UNCHANGED vars
  BY <1>3 DEF TypeOK, vars, files, found, local
<1> QED
  BY <1>1, <1>2, <1>3 DEF Next

(***************************************************************************)
(* What one run does leaves the others alone.                              *)
(***************************************************************************)

\* What the invariant says of a run depends on no more than this.
OfRun(v) == <<pc[v], prior[v], scanned[v], done[v], checked[v], beams[v]>>

\* A step of run w changes nothing that is another run's.
LEMMA OthersUnchanged ==
  ASSUME TypeOK, NEW w \in Run, Prepare(w) \/ Check(w) \/ Finish(w),
         NEW v \in Run, v # w
  PROVE  OfRun(v)' = OfRun(v)
<1>1. CASE Prepare(w)
  BY <1>1 DEF Prepare, Begin, BeginAfresh, Scan, ListCache, Loaded, LoadMiss,
     LoadInterface, Goto, found, local, OfRun, TypeOK
<1>2. CASE Check(w)
  BY <1>2 DEF Check, ReuseComponent, CheckComponent, FailComponent, Decide,
     found, OfRun, TypeOK
<1>3. CASE Finish(w)
  BY <1>3 DEF Finish, ClearCache, Stored, RejectFailedRun, Emit, EmissionFails,
     Publish, Refuse, Crash, StoreInterface, Leave, Goto, found, local, OfRun,
     TypeOK
<1> QED
  BY <1>1, <1>2, <1>3

LEMMA SamePhase ==
  ASSUME NEW v \in Run, OfRun(v)' = OfRun(v), PhaseOf(v)
  PROVE  PhaseOf(v)'
BY DEF OfRun, PhaseOf, AllChecked, Missing, Nothing

LEMMA SameReuse ==
  ASSUME NEW v \in Run, OfRun(v)' = OfRun(v), ReuseOf(v)
  PROVE  ReuseOf(v)'
BY DEF OfRun, ReuseOf, ReusableBeams

LEMMA SameProducts ==
  ASSUME NEW v \in Run, OfRun(v)' = OfRun(v), ProductOf(v)
  PROVE  ProductOf(v)'
BY DEF OfRun, ProductOf

(***************************************************************************)
(* The phases of a run.                                                    *)
(***************************************************************************)

LEMMA PhaseInit == Init => PhaseInv
<1> SUFFICES ASSUME Init, NEW w \in Run PROVE PhaseOf(w)
  BY DEF PhaseInv
<1>1. /\ pc[w] = "idle" /\ done[w] = 0
      /\ checked[w] = Nothing /\ beams[w] = Nothing
  BY DEF Init
<1>2. ASSUME NEW i \in 1..Len(Components), NEW m \in Components[i]
      PROVE  Nothing[m] = None
  BY ComponentsAssumption DEF Nothing
<1> QED
  BY <1>1, <1>2 DEF PhaseOf

LEMMA PhaseLeave ==
  ASSUME TypeOK, NEW w \in Run, Leave(w)
  PROVE  PhaseOf(w)'
BY ComponentsAssumption DEF TypeOK, Leave, PhaseOf, Before, Nothing

LEMMA PhasePrepare ==
  ASSUME TypeOK, PhaseInv, NEW w \in Run, Prepare(w)
  PROVE  PhaseOf(w)'
<1> USE DEF PhaseInv, PhaseOf, Before, TypeOK, AllChecked, Missing, Goto, files,
            found, local
<1>1. CASE Begin(w)
  BY <1>1 DEF Begin
<1>2. CASE BeginAfresh(w)
  BY <1>2 DEF BeginAfresh
<1>3. CASE Scan(w)
  BY <1>3 DEF Scan
<1>4. CASE ListCache(w)
  BY <1>4 DEF ListCache
<1>5. CASE Loaded(w)
  BY <1>5 DEF Loaded
<1>6. CASE LoadMiss(w)
  BY <1>6 DEF LoadMiss
<1>7. ASSUME NEW m \in Module, LoadInterface(w, m) PROVE PhaseOf(w)'
  BY <1>7 DEF LoadInterface
<1> QED
  BY <1>1, <1>2, <1>3, <1>4, <1>5, <1>6, <1>7 DEF Prepare

\* The members of a component are in no other.
LEMMA ComponentsDisjoint ==
  ASSUME NEW i \in 1..Len(Components), NEW j \in 1..Len(Components), i # j,
         NEW m \in Components[i]
  PROVE  m \notin Components[j]
BY ComponentsAssumption

LEMMA PhaseCheck ==
  ASSUME TypeOK, PhaseInv, NEW w \in Run, Check(w)
  PROVE  PhaseOf(w)'
<1> PICK k \in 1..Len(Components) : \/ ReuseComponent(w, Components[k])
                                    \/ CheckComponent(w, Components[k])
                                    \/ FailComponent(w, Components[k])
  BY DEF Check
<1> DEFINE c == Components[k]
<1>1. Decide(w, c)
  BY DEF ReuseComponent, CheckComponent, FailComponent
<1>2. /\ pc[w] = "check" /\ pc' = pc /\ scanned' = scanned
      /\ done'[w] = done[w] + 1
      /\ done[w] + 1 \in 1..Len(Components) /\ c = Components[done[w] + 1]
  BY <1>1, DecideType
     DEF Decide, ReuseComponent, CheckComponent, FailComponent, found
<1>3. ASSUME NEW m \in Module \ c
      PROVE  checked'[w][m] = checked[w][m] /\ beams'[w][m] = beams[w][m]
  <2>1. CASE ReuseComponent(w, c)
    BY <2>1 DEF ReuseComponent, TypeOK
  <2>2. CASE CheckComponent(w, c)
    BY <2>2, <1>2 DEF CheckComponent, Freeze, TypeOK
  <2>3. CASE FailComponent(w, c)
    BY <2>3 DEF FailComponent
  <2> QED
    BY <2>1, <2>2, <2>3
<1>4. ASSUME NEW i \in 1..Len(Components), i > done'[w], NEW m \in Components[i]
      PROVE  checked'[w][m] = None /\ beams'[w][m] = None
  <2>1. i # done[w] + 1 /\ i > done[w]
    BY <1>2, <1>4 DEF TypeOK
  <2>2. m \in Module \ c
    BY <1>2, <2>1, ComponentsDisjoint, ComponentsAssumption
  <2>3. checked[w][m] = None /\ beams[w][m] = None
    BY <2>1 DEF PhaseInv, PhaseOf
  <2> QED
    BY <1>3, <2>2, <2>3
<1> QED
  BY <1>2, <1>4 DEF PhaseInv, PhaseOf, Before

LEMMA PhaseFinish ==
  ASSUME TypeOK, PhaseInv, NEW w \in Run, Finish(w)
  PROVE  PhaseOf(w)'
<1> USE DEF PhaseInv, PhaseOf, Before, TypeOK, AllChecked, Missing
<1>1. CASE ClearCache(w)
  BY <1>1 DEF ClearCache, Goto
<1>2. CASE Stored(w)
  BY <1>2 DEF Stored, Goto, found, local
<1>3. CASE Emit(w)
  <2>1. \A m \in Missing(w) : prior[w][m].code # None
    BY <1>3, NoneAssumption DEF Emit, ReusableBeams, Generation, Artifact
  <2>2. \A m \in Module : beams'[w][m] # None
    BY <1>3, <2>1 DEF Emit
  <2>3. ASSUME NEW i \in 1..Len(Components), i > done[w], NEW m \in Components[i]
        PROVE  FALSE
    <3>1. m \in Module
      BY ComponentsAssumption
    <3> QED
      BY <1>3, <2>3, <3>1 DEF Emit, Goto
  <2>4. Missing(w)' = {}
    BY <2>2
  <2>5. /\ pc[w] = "emit" /\ pc' = [pc EXCEPT ![w] = "publish"]
        /\ UNCHANGED <<scanned, done, checked>>
    BY <1>3 DEF Emit, Goto
  <2>6. pc'[w] = "publish" /\ AllChecked(w)' /\ scanned'[w] \in [Module -> Text]
    BY <2>5
  <2> HIDE DEF Missing, AllChecked
  <2>7. ASSUME NEW i \in 1..Len(Components), i > done'[w],
               NEW m \in Components[i]
        PROVE  checked'[w][m] = None /\ beams'[w][m] = None
    BY <2>3, <2>5, <2>7
  <2> QED
    BY <2>4, <2>6, <2>7
<1>4. CASE \E m \in Module : StoreInterface(w, m)
  <2>1. OfRun(w)' = OfRun(w)
    BY <1>4 DEF StoreInterface, found, OfRun
  <2> QED
    BY <2>1, SamePhase
<1>5. CASE RejectFailedRun(w) \/ EmissionFails(w) \/ Publish(w) \/ Refuse(w) \/ Crash(w)
  BY <1>5, PhaseLeave DEF RejectFailedRun, EmissionFails, Publish, Refuse, Crash
<1> QED
  BY <1>1, <1>2, <1>3, <1>4, <1>5 DEF Finish

(***************************************************************************)
(* Whatever was not checked can be taken from the earlier generation.      *)
(***************************************************************************)

LEMMA ReuseInit == Init => ReuseInv
BY DEF Init, ReuseInv, ReuseOf, Nothing

\* Before its components are checked a run has no interfaces.
LEMMA NoneChecked ==
  ASSUME PhaseInv, NEW w \in Run, pc[w] \in Before, NEW m \in Module
  PROVE  checked[w][m] = None
BY DEF PhaseInv, PhaseOf, Nothing

LEMMA ReusePrepare ==
  ASSUME TypeOK, PhaseInv, NEW w \in Run, Prepare(w)
  PROVE  ReuseOf(w)'
<1>1. checked' = checked /\ pc[w] \in Before
  BY DEF Prepare, Begin, BeginAfresh, Scan, ListCache, Loaded, LoadMiss,
     LoadInterface, Goto, local, Before
<1> QED
  BY <1>1, NoneChecked DEF ReuseOf

LEMMA ReuseCheck ==
  ASSUME TypeOK, PhaseInv, ReuseInv, NEW w \in Run, Check(w)
  PROVE  ReuseOf(w)'
<1> PICK k \in 1..Len(Components) : \/ ReuseComponent(w, Components[k])
                                    \/ CheckComponent(w, Components[k])
                                    \/ FailComponent(w, Components[k])
  BY DEF Check
<1> DEFINE c == Components[k]
<1> SUFFICES ASSUME NEW m \in Module, checked'[w][m] # None, beams'[w][m] = None
             PROVE  m \in ReusableBeams(w, checked[w])'
  BY DEF ReuseOf
<1>1. /\ pc[w] = "check" /\ prior' = prior /\ scanned' = scanned
      /\ c \subseteq Module
  BY DecideType DEF ReuseComponent, CheckComponent, FailComponent, Decide, found
<1>2. CASE ReuseComponent(w, c)
  <2>1. checked'[w][m] = IF m \in c THEN cached[w][m] ELSE checked[w][m]
    BY <1>2 DEF ReuseComponent, TypeOK
  <2>2. CASE m \in c
    <3>1. m \in ReusableBeams(w, cached[w])
      BY <1>2, <2>2 DEF ReuseComponent, CanReuse
    <3> QED
      BY <1>1, <2>1, <2>2, <3>1 DEF ReusableBeams
  <2>3. CASE m \notin c
    <3>1. checked[w][m] # None /\ beams[w][m] = None
      BY <1>2, <2>1, <2>3 DEF ReuseComponent
    <3>2. m \in ReusableBeams(w, checked[w])
      BY <1>1, <3>1 DEF ReuseInv, ReuseOf
    <3> QED
      BY <1>1, <2>1, <2>3, <3>2 DEF ReusableBeams
  <2> QED
    BY <2>2, <2>3
<1>3. CASE CheckComponent(w, c)
  <2> DEFINE out == Outcome(w, c)
  <2>1. out \in [c -> Product]
    BY <1>1, <1>3, OutcomeType DEF CheckComponent, IsComponent
  <2>2. beams'[w][m] = IF m \in c THEN out[m].code ELSE beams[w][m]
    BY <1>3 DEF CheckComponent, TypeOK
  <2> HIDE DEF c, out
  <2>3. m \notin c
    BY <2>1, <2>2, NoneAssumption DEF Product
  <2> USE DEF c
  <2>4. checked'[w][m] = checked[w][m]
    BY <1>3, <2>3 DEF CheckComponent, Freeze, TypeOK
  <2>5. m \in ReusableBeams(w, checked[w])
    BY <1>1, <2>2, <2>3, <2>4 DEF ReuseInv, ReuseOf
  <2> QED
    BY <1>1, <2>4, <2>5 DEF ReusableBeams
<1>4. CASE FailComponent(w, c)
  BY <1>1, <1>4 DEF FailComponent, ReuseInv, ReuseOf, ReusableBeams
<1> QED
  BY <1>2, <1>3, <1>4

LEMMA ReuseFinish ==
  ASSUME TypeOK, ReuseInv, NEW w \in Run, Finish(w)
  PROVE  ReuseOf(w)'
<1>1. CASE ClearCache(w) \/ Stored(w)
  <2>1. pc[w] # "publish" /\ UNCHANGED <<prior, scanned, checked, beams>>
    BY <1>1 DEF ClearCache, Stored, Goto, found, local
  <2> QED
    BY <2>1 DEF ReuseInv, ReuseOf, ReusableBeams
<1>2. CASE Emit(w)
  BY <1>2 DEF Emit, Goto, ReuseOf, TypeOK
<1>3. CASE \E m \in Module : StoreInterface(w, m)
  <2>1. OfRun(w)' = OfRun(w)
    BY <1>3 DEF StoreInterface, found, OfRun
  <2> QED
    BY <2>1, SameReuse DEF ReuseInv
<1>4. CASE Leave(w)
  BY <1>4 DEF Leave, ReuseOf, Nothing, TypeOK
<1> QED
  BY <1>1, <1>2, <1>3, <1>4
     DEF Finish, RejectFailedRun, EmissionFails, Publish, Refuse, Crash

(***************************************************************************)
(* BEAMs go with their texts and interfaces.                               *)
(***************************************************************************)

LEMMA ProductInit == Init => ProductInv
BY DEF Init, ProductInv, ProductOf, BeamsMatchInterfaces, Nothing

LEMMA ProductPrepare ==
  ASSUME TypeOK, PhaseInv, ProductInv, NEW w \in Run, Prepare(w)
  PROVE  ProductOf(w)'
<1>1. checked' = checked /\ pc[w] \in Before
  BY DEF Prepare, Begin, BeginAfresh, Scan, ListCache, Loaded, LoadMiss,
     LoadInterface, Goto, local, Before
<1>2. prior'[w] = prior[w] \/ prior'[w] = current
  BY DEF Prepare, Begin, BeginAfresh, Scan, ListCache, Loaded, LoadMiss,
     LoadInterface, found, TypeOK
<1> QED
  BY <1>1, <1>2, NoneChecked DEF ProductInv, ProductOf, BeamsMatchInterfaces

\* A component that checks gives products of one check.
LEMMA ProductsOfCheck ==
  ASSUME TypeOK, PhaseInv, NEW w \in Run, pc[w] = "check",
         NEW c, IsComponent(c), Outcome(w, c) # Failed, NEW m \in c
  PROVE  FromOneCheck(m, [text  |-> scanned[w][m],
                          iface |-> Outcome(w, c)[m].iface,
                          code  |-> Outcome(w, c)[m].code])
<1> DEFINE out   == Outcome(w, c)
           texts == [x \in Reached(c) |-> scanned[w][x]]
           env   == Environment(w, c)
           artifact == [text |-> scanned[w][m], iface |-> out[m].iface,
                        code |-> out[m].code]
<1> SUFFICES FromOneCheck(m, artifact)
  OBVIOUS
<1>1. /\ texts \in [Reached(c) -> Text] /\ env \in [Outside(c) -> Iface]
      /\ out = Compile(c, texts, env)
      /\ out \in [c -> Product]
  BY OutcomeType
<1>2. out[m] = [iface |-> artifact.iface, code |-> artifact.code]
  BY <1>1 DEF Product
<1>3. m \in Reached(c)
  BY ComponentType DEF Reached
<1>4. texts[m] = artifact.text
  BY <1>3
<1>5. out # Failed
  OBVIOUS
<1> PICK i \in 1..Len(Components) : c = Components[i]
  BY DEF IsComponent
<1> HIDE DEF texts, env, out, artifact
<1> QED
  BY <1>1, <1>2, <1>4, <1>5 DEF FromOneCheck

LEMMA ProductCheck ==
  ASSUME TypeOK, PhaseInv, ProductInv, NEW w \in Run, Check(w)
  PROVE  ProductOf(w)'
<1> PICK k \in 1..Len(Components) : \/ ReuseComponent(w, Components[k])
                                    \/ CheckComponent(w, Components[k])
                                    \/ FailComponent(w, Components[k])
  BY DEF Check
<1> DEFINE c == Components[k]
<1>1. pc[w] = "check" /\ prior' = prior /\ scanned' = scanned
  BY DEF ReuseComponent, CheckComponent, FailComponent, Decide, found
<1> SUFFICES ASSUME NEW m \in Module, checked'[w][m] # None, beams'[w][m] # None
             PROVE  FromOneCheck(m, [text  |-> scanned[w][m],
                                     iface |-> checked'[w][m].iface,
                                     code  |-> beams'[w][m]])
  BY <1>1 DEF ProductInv, ProductOf
<1>2. ASSUME checked'[w][m] = checked[w][m], beams'[w][m] = beams[w][m]
      PROVE  FromOneCheck(m, [text  |-> scanned[w][m],
                              iface |-> checked'[w][m].iface,
                              code  |-> beams'[w][m]])
  BY <1>2 DEF ProductInv, ProductOf
<1>3. CASE ReuseComponent(w, c)
  <2>1. \A x \in c : beams[w][x] = None
    <3>1. /\ done[w] + 1 \in 1..Len(Components) /\ c = Components[done[w] + 1]
          /\ done[w] \in Nat
      BY <1>3, DecideType DEF ReuseComponent, TypeOK
    <3>2. done[w] + 1 > done[w]
      BY <3>1
    <3> QED
      BY <3>1, <3>2 DEF PhaseInv, PhaseOf
  <2>2. m \notin c
    BY <1>3, <2>1 DEF ReuseComponent
  <2> QED
    BY <1>2, <1>3, <2>2 DEF ReuseComponent, TypeOK
<1>4. CASE CheckComponent(w, c)
  <2> DEFINE out == Outcome(w, c)
  <2>1. out # Failed /\ IsComponent(c)
    BY <1>4 DEF CheckComponent, IsComponent
  <2>2. /\ checked'[w] = Freeze(w, c, out)
        /\ beams'[w] = [x \in Module |-> IF x \in c THEN out[x].code
                                         ELSE beams[w][x]]
    BY <1>4 DEF CheckComponent, TypeOK
  <2>3. CASE m \in c
    <3>1. checked'[w][m].iface = out[m].iface
      <4>1. Freeze(w, c, out)[m].iface = out[m].iface
        BY <1>1, <2>1, <2>3, FreezeType
      <4> HIDE DEF c, out
      <4> QED
        BY <2>2, <4>1
    <3>2. beams'[w][m] = out[m].code
      BY <2>2, <2>3
    <3> HIDE DEF out, c
    <3>3. FromOneCheck(m, [text |-> scanned[w][m], iface |-> out[m].iface,
                           code |-> out[m].code])
      BY <1>1, <2>1, <2>3, ProductsOfCheck DEF out, c
    <3> QED
      BY <3>1, <3>2, <3>3
  <2>4. CASE m \notin c
    BY <1>1, <1>2, <2>1, <2>2, <2>4, FreezeType
  <2> QED
    BY <2>3, <2>4
<1>5. CASE FailComponent(w, c)
  BY <1>2, <1>5 DEF FailComponent
<1> QED
  BY <1>3, <1>4, <1>5

LEMMA ProductFinish ==
  ASSUME TypeOK, PhaseInv, ProductInv, NEW w \in Run, Finish(w)
  PROVE  ProductOf(w)' /\ BeamsMatchInterfaces'
<1>1. CASE ClearCache(w) \/ Stored(w) \/ \E m \in Module : StoreInterface(w, m)
  <2>1. /\ UNCHANGED <<current, prior, scanned, checked, beams>>
    BY <1>1 DEF ClearCache, Stored, StoreInterface, files, found, local
  <2> QED
    BY <2>1 DEF ProductInv, ProductOf, BeamsMatchInterfaces
<1>2. CASE Emit(w)
  <2>1. /\ prior'[w] = None
        /\ UNCHANGED <<current, scanned, checked>>
        /\ pc[w] = "emit"
    BY <1>2 DEF Emit, Goto, files, TypeOK
  <2>2. ASSUME NEW m \in Module
        PROVE  FromOneCheck(m, [text  |-> scanned[w][m],
                                iface |-> checked[w][m].iface,
                                code  |-> beams'[w][m]])
    <3>1. checked[w][m] # None
      BY <2>1 DEF PhaseInv, PhaseOf, AllChecked
    <3>2. CASE m \in Missing(w)
      <4>1. /\ prior[w] # None
            /\ prior[w][m].text = scanned[w][m]
            /\ prior[w][m].iface = checked[w][m].iface
        BY <1>2, <3>2 DEF Emit, ReusableBeams
      <4>2. prior[w][m] \in Artifact
        BY <4>1 DEF TypeOK, Generation
      <4>3. beams'[w][m] = prior[w][m].code
        BY <1>2, <3>2 DEF Emit, TypeOK
      <4>4. prior[w][m] = [text |-> prior[w][m].text, iface |-> prior[w][m].iface,
                           code |-> prior[w][m].code]
        BY <4>2 DEF Artifact
      <4>5. FromOneCheck(m, prior[w][m])
        BY <4>1 DEF ProductInv, ProductOf
      <4> QED
        BY <4>1, <4>3, <4>4, <4>5
    <3>3. CASE m \notin Missing(w)
      BY <1>2, <3>1, <3>3 DEF Emit, Missing, ProductInv, ProductOf, TypeOK
    <3> QED
      BY <3>2, <3>3
  <2> QED
    BY <2>1, <2>2 DEF ProductInv, ProductOf, BeamsMatchInterfaces
<1>3. CASE Publish(w)
  <2>1. \A m \in Module : FromOneCheck(m, [text  |-> scanned[w][m],
                                           iface |-> checked[w][m].iface,
                                           code  |-> beams[w][m]])
    BY <1>3 DEF Publish, PhaseInv, PhaseOf, AllChecked, Missing, ProductInv,
       ProductOf
  <2>2. BeamsMatchInterfaces'
    BY <1>3, <2>1 DEF Publish, BeamsMatchInterfaces
  <2> QED
    BY <1>3, <2>2 DEF Publish, Leave, ProductOf, Nothing, TypeOK
<1>4. CASE RejectFailedRun(w) \/ EmissionFails(w) \/ Refuse(w) \/ Crash(w)
  <2>1. Leave(w) /\ current' = current
    BY <1>4 DEF RejectFailedRun, EmissionFails, Refuse, Crash, files
  <2> QED
    BY <2>1 DEF Leave, ProductInv, ProductOf, BeamsMatchInterfaces, Nothing, TypeOK
<1> QED
  BY <1>1, <1>2, <1>3, <1>4 DEF Finish

(***************************************************************************)
(* The invariant.                                                          *)
(***************************************************************************)

\* Every step keeps what the invariant says of the runs, and of what is published.
LEMMA RunStep ==
  ASSUME BuildInv, NEW w \in Run, Prepare(w) \/ Check(w) \/ Finish(w)
  PROVE  PhaseInv' /\ ReuseInv' /\ ProductInv'
<1> USE DEF BuildInv
<1>1. PhaseOf(w)' /\ ReuseOf(w)' /\ ProductOf(w)' /\ BeamsMatchInterfaces'
  <2>1. CASE Prepare(w)
    <3>1. current' = current
      BY <2>1 DEF Prepare, Begin, BeginAfresh, Scan, ListCache, Loaded,
         LoadMiss, LoadInterface, files
    <3> QED
      BY <2>1, <3>1, PhasePrepare, ReusePrepare, ProductPrepare
         DEF ProductInv, BeamsMatchInterfaces
  <2>2. CASE Check(w)
    <3>1. current' = current
      BY <2>2 DEF Check, ReuseComponent, CheckComponent, FailComponent, files
    <3> QED
      BY <2>2, <3>1, PhaseCheck, ReuseCheck, ProductCheck
         DEF ProductInv, BeamsMatchInterfaces
  <2>3. CASE Finish(w)
    BY <2>3, PhaseFinish, ReuseFinish, ProductFinish
  <2> QED
    BY <2>1, <2>2, <2>3
<1>2. ASSUME NEW v \in Run, v # w
      PROVE  PhaseOf(v)' /\ ReuseOf(v)' /\ ProductOf(v)'
  <2>1. OfRun(v)' = OfRun(v)
    BY <1>2, OthersUnchanged
  <2>2. PhaseOf(v) /\ ReuseOf(v) /\ ProductOf(v)
    BY DEF PhaseInv, ReuseInv, ProductInv
  <2> QED
    BY <2>1, <2>2, SamePhase, SameReuse, SameProducts
<1>3. \A v \in Run : PhaseOf(v)' /\ ReuseOf(v)' /\ ProductOf(v)'
  BY <1>1, <1>2
<1> QED
  BY <1>1, <1>3 DEF PhaseInv, ReuseInv, ProductInv

LEMMA BuildStep ==
  ASSUME BuildInv, [Next]_vars
  PROVE  BuildInv'
<1>1. TypeOK'
  BY TypeStep DEF BuildInv
<1>2. CASE \E w \in Run : Prepare(w) \/ Check(w) \/ Finish(w)
  BY <1>1, <1>2, RunStep DEF BuildInv
<1>3. CASE UNCHANGED <<current, pc, found, local>>
  <2>1. \A v \in Run : OfRun(v)' = OfRun(v)
    BY <1>3 DEF OfRun, found, local
  <2>2. \A v \in Run : PhaseOf(v)' /\ ReuseOf(v)' /\ ProductOf(v)'
    BY <2>1, SamePhase, SameReuse, SameProducts
       DEF BuildInv, PhaseInv, ReuseInv, ProductInv
  <2>3. BeamsMatchInterfaces'
    BY <1>3 DEF BuildInv, ProductInv, BeamsMatchInterfaces
  <2> QED
    BY <1>1, <2>2, <2>3 DEF BuildInv, PhaseInv, ReuseInv, ProductInv
<1>4. CASE \E m \in Edited, t \in Text : Edit(m, t)
  BY <1>3, <1>4 DEF Edit
<1>5. CASE UNCHANGED vars
  BY <1>3, <1>5 DEF vars, files
<1> QED
  BY <1>2, <1>4, <1>5 DEF Next

\* The invariant holds in every reachable state.
THEOREM BuildInvariant == Spec => []BuildInv
<1>1. Init => BuildInv
  BY TypeInit, PhaseInit, ReuseInit, ProductInit DEF BuildInv
<1> QED
  BY <1>1, BuildStep, PTL DEF Spec

\* Every variable keeps its type: in particular what is published has a text, an
\* interface and a BEAM for every module, and a run that crashes or finds the
\* cache half written leaves nothing else in the files.
THEOREM BuildTypes == Spec => []TypeOK
BY BuildInvariant, PTL DEF BuildInv

\* A run that has checked everything is not stopped by a missing BEAM: the
\* generation it may reuse has one for each module that it did not compile.
THEOREM EmissionIsComplete == Spec => []EmissionComplete
<1>1. BuildInv => EmissionComplete
  <2> SUFFICES ASSUME BuildInv, NEW w \in Run, pc[w] = "emit",
                      NEW m \in Missing(w)
               PROVE  m \in ReusableBeams(w, checked[w])
    BY DEF EmissionComplete
  <2>1. checked[w][m] # None /\ beams[w][m] = None /\ m \in Module
    BY DEF BuildInv, PhaseInv, PhaseOf, AllChecked, Missing
  <2> QED
    BY <2>1 DEF BuildInv, ReuseInv, ReuseOf
<1> QED
  BY <1>1, BuildInvariant, PTL

\* However the caches of several runs are mixed, and whatever was reused: each
\* published BEAM is the code that one check of its component gave for the text
\* and the interface beside it.
THEOREM PublishedBeamsMatch == Spec => []BeamsMatchInterfaces
<1>1. BuildInv => BeamsMatchInterfaces
  BY DEF BuildInv, ProductInv
<1> QED
  BY <1>1, BuildInvariant, PTL
=============================================================================
