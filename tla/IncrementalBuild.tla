--------------------------- MODULE IncrementalBuild ---------------------------
(***************************************************************************)
(* Builds that reuse earlier builds (ModulePipeline.check_modules, Cache,  *)
(* Emission).  A run decides the strongly connected components of the      *)
(* import graph in dependency order; each one is checked, or taken over    *)
(* from the interface cache if its BEAMs can be taken from the published   *)
(* generation as well.  The cache is written without a lock, before it is  *)
(* known whether the run will publish.                                     *)
(*                                                                         *)
(* What checking a component yields is the constant operator Compile.  The *)
(* publication protocol is that of ArtifactStore and happens in one step   *)
(* here; the sources are read in one step (ArtifactStore reads them file   *)
(* by file, and refuses a set whose files did not exist together).         *)
(***************************************************************************)
EXTENDS Naturals, Sequences

CONSTANTS Run,          \* processes that build the project
          Module,
          Components,   \* the components of the import graph, in order
          Imports,      \* the modules each module names
          Text,         \* the contents a source file may have
          Iface,        \* interface hashes
          Code,         \* BEAM contents
          Compile(_, _, _),
          Edited,       \* modules whose sources change
          LiveEdits,    \* whether they also change while a run is under way
          MaxFault,     \* bound on crashes and failing operations
          None, Failed

ASSUME ImportsAssumption == Imports \in [Module -> SUBSET Module]

\* Components have members, and every module is in one of them; a component
\* follows those it imports.
ASSUME ComponentsAssumption ==
  /\ Components \in Seq((SUBSET Module) \ {{}})
  /\ \A m \in Module : \E i \in 1..Len(Components) :
       /\ m \in Components[i]
       /\ \A j \in 1..Len(Components) : m \in Components[j] => j = i
       /\ \A d \in Imports[m] : \E j \in 1..i : d \in Components[j]

\* reachable_environment_dependencies, dependency_closure: the component and
\* all that it names, directly or not; and without the members (`excluded`).
Reached(c) ==
  {d \in Module :
     \A S \in SUBSET Module :
       c \subseteq S /\ (\A m \in S : Imports[m] \subseteq S) => d \in S}

Outside(c) == Reached(c) \ c

Product == [iface : Iface, code : Code]

\* Expansion and check_component: the products of a component against the
\* interfaces `env`, given its texts and those it may take macros and
\* operators from; or it does not check.
ASSUME CompileAssumption ==
  \A i \in 1..Len(Components) :
    \A texts \in [Reached(Components[i]) -> Text] :
      \A env \in [Outside(Components[i]) -> Iface] :
        Compile(Components[i], texts, env)
          \in [Components[i] -> Product] \cup {Failed}

\* ModuleInterface: a hash, and what the module was checked with.
Interface == [text : Text, iface : Iface,
              deps : UNION {[Imports[m] -> Iface] : m \in Module}]

\* A module of a published generation.
Artifact == [text : Text, iface : Iface, code : Code]

ASSUME NoneAssumption ==
  /\ None \notin Text /\ None \notin Code /\ None \notin Interface
  /\ None \notin [Module -> Text] /\ None \notin [Module -> Artifact]
  /\ \A i \in 1..Len(Components) : Failed \notin [Components[i] -> Product]
ASSUME BoundAssumption ==
  MaxFault \in Nat /\ LiveEdits \in BOOLEAN /\ Edited \subseteq Module

VARIABLES
  sources,    \* source tree
  cache,      \* .cure_interface_cache: one file per module
  current,    \* the published generation
  pc,         \* where each run stands
  prior,      \* the generation the run may reuse
  scanned,    \* the texts the run builds
  todo,       \* cache files the run still has to read, or to write
  cached,     \* the interfaces it found in the cache
  done,       \* how many components it has decided
  checked,    \* the interfaces of those that did check
  beams,      \* the BEAMs it has
  faults      \* bound used up

files == <<sources, cache, current>>
found == <<prior, scanned, cached>>
local == <<todo, done, checked, beams>>
vars  == <<files, pc, found, local, faults>>

Nothing == [m \in Module |-> None]

Init ==
  /\ sources \in [Module -> Text]
  /\ cache = Nothing
  /\ current = None
  /\ pc = [w \in Run |-> "idle"]
  /\ prior = [w \in Run |-> None]
  /\ scanned = [w \in Run |-> None]
  /\ todo = [w \in Run |-> {}]
  /\ cached = [w \in Run |-> Nothing]
  /\ done = [w \in Run |-> 0]
  /\ checked = [w \in Run |-> Nothing]
  /\ beams = [w \in Run |-> Nothing]
  /\ faults = 0

Goto(w, from, to) == pc[w] = from /\ pc' = [pc EXCEPT ![w] = to]

\* A run returns, or its process dies.
Leave(w) ==
  /\ pc' = [pc EXCEPT ![w] = "idle"]
  /\ prior' = [prior EXCEPT ![w] = None]
  /\ scanned' = [scanned EXCEPT ![w] = None]
  /\ todo' = [todo EXCEPT ![w] = {}]
  /\ cached' = [cached EXCEPT ![w] = Nothing]
  /\ done' = [done EXCEPT ![w] = 0]
  /\ checked' = [checked EXCEPT ![w] = Nothing]
  /\ beams' = [beams EXCEPT ![w] = Nothing]

Fault == faults < MaxFault /\ faults' = faults + 1

----------------------------------------------------------------------------
\* Before the components are checked.

\* canonical_prior_generation.  (A sweep whose sources all have the published
\* hashes answers at once; it changes nothing and is a step of ArtifactStore.)
Begin(w) ==
  /\ Goto(w, "idle", "scan")
  /\ current # None
  /\ prior' = [prior EXCEPT ![w] = current]
  /\ UNCHANGED <<files, scanned, cached, local, faults>>

\* There is no generation, or not one to reuse: the cache is removed as well.
BeginAfresh(w) ==
  /\ Goto(w, "idle", "scan")
  /\ cache' = Nothing
  /\ UNCHANGED <<sources, current, found, local, faults>>

\* ModuleManifest.build and Expansion.run.
Scan(w) ==
  /\ Goto(w, "scan", "list")
  /\ scanned' = [scanned EXCEPT ![w] = sources]
  /\ UNCHANGED <<files, prior, cached, local, faults>>

\* Cache.load lists the files, and reads one after the other.
ListCache(w) ==
  /\ Goto(w, "list", "load")
  /\ todo' = [todo EXCEPT ![w] = {m \in Module : cache[m] # None}]
  /\ UNCHANGED <<files, found, done, checked, beams, faults>>

LoadInterface(w, m) ==
  /\ pc[w] = "load" /\ m \in todo[w] /\ cache[m] # None
  /\ cached' = [cached EXCEPT ![w][m] = cache[m]]
  /\ todo' = [todo EXCEPT ![w] = @ \ {m}]
  /\ UNCHANGED <<files, pc, prior, scanned, done, checked, beams, faults>>

Loaded(w) ==
  /\ Goto(w, "load", "check")
  /\ todo[w] = {}
  /\ UNCHANGED <<files, found, local, faults>>

\* Interfaces that were not checked against one another.
Incoherent(w) ==
  \E m \in Module : \E d \in Imports[m] :
    /\ cached[w][m] # None
    /\ cached[w][d] # None => cached[w][d].iface # cached[w][m].deps[d]

\* One file that cannot be read empties the whole cache: another run has
\* removed it or is writing it, or it is damaged.  So does verify_all, which may
\* reject what several runs have left.
LoadMiss(w) ==
  /\ Goto(w, "load", "check")
  /\ cached' = [cached EXCEPT ![w] = Nothing]
  /\ todo' = [todo EXCEPT ![w] = {}]
  /\ \/ (\E m \in todo[w] : cache[m] = None) /\ UNCHANGED faults
     \/ (\E v \in Run \ {w} : pc[v] = "store" /\ todo[v] # {}) /\ UNCHANGED faults
     \/ todo[w] = {} /\ Incoherent(w) /\ UNCHANGED faults
     \/ Fault
  /\ UNCHANGED <<files, prior, scanned, done, checked, beams>>

----------------------------------------------------------------------------
\* check_modules: one component after the other.

\* Slip: the interface is not compared.
SlipReusableBeams(w, interfaces) ==
  {m \in Module : /\ prior[w] # None /\ interfaces[m] # None
                  /\ prior[w][m].text = scanned[w][m]}

\* reusable_from_generation: modules whose published BEAM belongs to the text
\* that was scanned and to the given interface.
ReusableBeams(w, interfaces) ==
  {m \in Module : /\ prior[w] # None /\ interfaces[m] # None
                  /\ prior[w][m].text = scanned[w][m]
                  /\ prior[w][m].iface = interfaces[m].iface}

\* Slip: the dependencies are not compared.
SlipUnchanged(w, c, m) ==
  /\ cached[w][m] # None
  /\ cached[w][m].text = scanned[w][m]

\* Slip: a dependency that was checked again counts as changed.
SlipUnchangedEager(w, c, m) ==
  /\ cached[w][m] # None
  /\ cached[w][m].text = scanned[w][m]
  /\ \A d \in Imports[m] \ c :
       /\ checked[w][d] # None /\ checked[w][d].iface = cached[w][m].deps[d]
       /\ beams[w][d] = None

\* Cache.reusable: the text is the one that was checked, and so is every
\* dependency's interface, the members of the component excepted.
Unchanged(w, c, m) ==
  /\ cached[w][m] # None
  /\ cached[w][m].text = scanned[w][m]
  /\ \A d \in Imports[m] \ c :
       checked[w][d] # None /\ checked[w][d].iface = cached[w][m].deps[d]

\* Slip: the BEAMs are not asked for.
SlipCanReuse(w, c) == \A m \in c : Unchanged(w, c, m)

\* reuse_component, with products_reusable?.
CanReuse(w, c) ==
  \A m \in c : Unchanged(w, c, m) /\ m \in ReusableBeams(w, cached[w])

\* imported_environment, and what check_component makes of it.
Importable(w, c) == \A d \in Outside(c) : checked[w][d] # None
Environment(w, c) == [d \in Outside(c) |-> checked[w][d].iface]
Outcome(w, c) ==
  IF Importable(w, c)
  THEN Compile(c, [m \in Reached(c) |-> scanned[w][m]], Environment(w, c))
  ELSE Failed

Decide(w, c) ==
  /\ pc[w] = "check" /\ done[w] < Len(Components)
  /\ c = Components[done[w] + 1]
  /\ done' = [done EXCEPT ![w] = @ + 1]

ReuseComponent(w, c) ==
  /\ Decide(w, c)
  /\ CanReuse(w, c)
  /\ checked' = [checked EXCEPT ![w] =
                   [m \in Module |-> IF m \in c THEN cached[w][m] ELSE @[m]]]
  /\ UNCHANGED <<files, pc, found, todo, beams, faults>>

\* freeze_component_interfaces, with dependency_hashes.
Freeze(w, c, out) ==
  LET iface == [d \in Module |->
                  IF d \in c THEN out[d].iface
                  ELSE IF checked[w][d] # None THEN checked[w][d].iface
                  ELSE None]
  IN  [m \in Module |->
         IF m \in c THEN [text  |-> scanned[w][m], iface |-> iface[m],
                          deps  |-> [d \in Imports[m] |-> iface[d]]]
         ELSE checked[w][m]]

CheckComponent(w, c) ==
  /\ Decide(w, c)
  /\ ~CanReuse(w, c)
  /\ LET out == Outcome(w, c) IN
       /\ out # Failed
       /\ checked' = [checked EXCEPT ![w] = Freeze(w, c, out)]
       /\ beams' = [beams EXCEPT ![w] =
            [m \in Module |-> IF m \in c THEN out[m].code ELSE @[m]]]
  /\ UNCHANGED <<files, pc, found, todo, faults>>

\* The component publishes no interface; the run goes on to report more.
FailComponent(w, c) ==
  /\ Decide(w, c)
  /\ ~CanReuse(w, c) /\ Outcome(w, c) = Failed
  /\ UNCHANGED <<files, pc, found, todo, checked, beams, faults>>

----------------------------------------------------------------------------
\* Cache.store, emission and publication.

\* File.rm_rf, before any file is written.  What was loaded is not used again.
ClearCache(w) ==
  /\ Goto(w, "check", "store")
  /\ done[w] = Len(Components)
  /\ cache' = Nothing
  /\ cached' = [cached EXCEPT ![w] = Nothing]
  /\ todo' = [todo EXCEPT ![w] = {m \in Module : checked[w][m] # None}]
  /\ UNCHANGED <<sources, current, prior, scanned, done, checked, beams, faults>>

StoreInterface(w, m) ==
  /\ pc[w] = "store" /\ m \in todo[w]
  /\ cache' = [cache EXCEPT ![m] = checked[w][m]]
  /\ todo' = [todo EXCEPT ![w] = @ \ {m}]
  /\ UNCHANGED <<sources, current, pc, found, done, checked, beams, faults>>

AllChecked(w) == \A m \in Module : checked[w][m] # None

Stored(w) ==
  /\ Goto(w, "store", "emit")
  /\ todo[w] = {} /\ AllChecked(w)
  /\ UNCHANGED <<files, found, local, faults>>

\* reject_failed_run.
RejectFailedRun(w) ==
  /\ pc[w] = "store" /\ todo[w] = {} /\ ~AllChecked(w)
  /\ Leave(w)
  /\ UNCHANGED <<files, faults>>

Missing(w) == {m \in Module : beams[w][m] = None}

\* Slip: the reused BEAMs are left out.
SlipEmit(w) ==
  /\ Goto(w, "emit", "publish")
  /\ prior' = [prior EXCEPT ![w] = None]
  /\ UNCHANGED <<files, scanned, cached, local, faults>>

\* Emission.run: new BEAMs for what was checked, the published ones for what
\* was reused.
Emit(w) ==
  /\ Goto(w, "emit", "publish")
  /\ Missing(w) \subseteq ReusableBeams(w, checked[w])
  /\ beams' = [beams EXCEPT ![w] =
       [m \in Module |-> IF m \in Missing(w) THEN prior[w][m].code ELSE @[m]]]
  /\ prior' = [prior EXCEPT ![w] = None]
  /\ UNCHANGED <<files, scanned, cached, todo, done, checked, faults>>

\* beam_emission_input_missing: the generation the run counts on, opened once
\* more, has been damaged.
EmissionFails(w) ==
  /\ pc[w] = "emit" /\ Missing(w) # {}
  /\ Fault
  /\ Leave(w)
  /\ UNCHANGED files

\* Writer.transact: the sources still have the scanned hashes.
Publish(w) ==
  /\ pc[w] = "publish" /\ sources = scanned[w]
  /\ current' = [m \in Module |-> [text  |-> scanned[w][m],
                                   iface |-> checked[w][m].iface,
                                   code  |-> beams[w][m]]]
  /\ Leave(w)
  /\ UNCHANGED <<sources, cache, faults>>

\* The sources have changed, or the transaction fails.
Refuse(w) ==
  /\ pc[w] = "publish"
  /\ \/ sources # scanned[w] /\ UNCHANGED faults
     \/ Fault
  /\ Leave(w)
  /\ UNCHANGED files

Crash(w) ==
  /\ pc[w] # "idle"
  /\ Fault
  /\ Leave(w)
  /\ UNCHANGED files

Edit(m, t) ==
  /\ LiveEdits \/ \A w \in Run : pc[w] = "idle"
  /\ sources[m] # t
  /\ sources' = [sources EXCEPT ![m] = t]
  /\ UNCHANGED <<cache, current, pc, found, local, faults>>

----------------------------------------------------------------------------

Prepare(w) == \/ Begin(w) \/ BeginAfresh(w) \/ Scan(w) \/ ListCache(w)
              \/ Loaded(w) \/ LoadMiss(w)
              \/ \E m \in Module : LoadInterface(w, m)

Check(w) == \E i \in 1..Len(Components) :
              \/ ReuseComponent(w, Components[i])
              \/ CheckComponent(w, Components[i])
              \/ FailComponent(w, Components[i])

Finish(w) == \/ ClearCache(w) \/ Stored(w) \/ RejectFailedRun(w)
             \/ Emit(w) \/ EmissionFails(w) \/ Publish(w) \/ Refuse(w)
             \/ Crash(w)
             \/ \E m \in Module : StoreInterface(w, m)

Next == \/ \E w \in Run : Prepare(w) \/ Check(w) \/ Finish(w)
        \/ \E m \in Edited, t \in Text : Edit(m, t)

Spec == Init /\ [][Next]_vars

----------------------------------------------------------------------------
\* Properties.

Interfaces == [Module -> Interface \cup {None}]
Generation == [Module -> Artifact]

TypeOK ==
  /\ sources \in [Module -> Text]
  /\ cache \in Interfaces
  /\ current \in Generation \cup {None}
  /\ pc \in [Run -> {"idle", "scan", "list", "load", "check", "store",
                     "emit", "publish"}]
  /\ prior \in [Run -> Generation \cup {None}]
  /\ scanned \in [Run -> [Module -> Text] \cup {None}]
  /\ todo \in [Run -> SUBSET Module]
  /\ cached \in [Run -> Interfaces]
  /\ done \in [Run -> 0..Len(Components)]
  /\ checked \in [Run -> Interfaces]
  /\ beams \in [Run -> [Module -> Code \cup {None}]]
  /\ faults \in Nat

\* What a run knows of the components it has decided is what a run that starts
\* from nothing would know: the same ones check, with the same interfaces.
\* However old or incomplete the cache is, and whoever writes it meanwhile,
\* reuse makes no difference.  (Several runs that mix the cache of a component
\* of several modules are another matter: its members are not compared.)
InterfacesAreClean ==
  \A w \in Run : \A i \in 1..done[w] :
    LET c   == Components[i]
        out == Outcome(w, c)
    IN  \A m \in c :
          IF out = Failed THEN checked[w][m] = None
          ELSE checked[w][m] # None /\ checked[w][m].iface = out[m].iface

\* No run that checked gets stuck because a BEAM it counted on is not there:
\* an interface is reused only if the BEAM can be, too.
EmissionComplete ==
  \A w \in Run : pc[w] = "emit" => Missing(w) \subseteq ReusableBeams(w, checked[w])

\* Each published BEAM is the code of the text and of the interface that are
\* published beside it, as they came out of one check of its component.
FromOneCheck(m, artifact) ==
  \E i \in 1..Len(Components) : LET c == Components[i] IN
    \E texts \in [Reached(c) -> Text], env \in [Outside(c) -> Iface] :
      LET out == Compile(c, texts, env) IN
        /\ m \in c /\ texts[m] = artifact.text
        /\ out # Failed
        /\ out[m] = [iface |-> artifact.iface, code |-> artifact.code]

BeamsMatchInterfaces ==
  current # None => \A m \in Module : FromOneCheck(m, current[m])

\* The interface hash keeps a change from spreading: a module is checked again
\* only if a text of its component, or the interface hash of a module it imports,
\* is not that of the generation that may be reused.  So an edit that reaches no
\* hash, of a comment say, rebuilds the edited module's component alone, however
\* many modules import it (Cache.reusable).
RebuildsOnlyAffected ==
  \A w \in Run : pc[w] = "emit" /\ prior[w] # None =>
    \A i \in 1..Len(Components) : LET c == Components[i] IN
      (\E m \in c : beams[w][m] # None) =>
        \E m \in c :
          \/ scanned[w][m] # prior[w][m].text
          \/ \E d \in Imports[m] \ c : checked[w][d].iface # prior[w][d].iface

\* The whole generation is the build of a tree.
IsBuild(gen, tree) ==
  /\ gen # None
  /\ \A i \in 1..Len(Components) :
      LET c   == Components[i]
          out == Compile(c, [m \in Reached(c) |-> tree[m]],
                         [d \in Outside(c) |-> gen[d].iface])
      IN  /\ out # Failed
          /\ \A m \in c : gen[m] = [text |-> tree[m], iface |-> out[m].iface,
                                    code |-> out[m].code]

Clean == INSTANCE CleanBuild WITH Tree <- [Module -> Text], Builds <- IsBuild

\* "incremental edit sequences remain equivalent to clean builds"
\* (incremental_test.exs): whatever is published is the build of the present
\* sources from nothing.  For builds that succeed one after the other, of modules
\* that expand no macros of others.
ImplementsCleanBuild == Clean!Spec

----------------------------------------------------------------------------
\* What comments and design documents say of the program, and it does not do.

\* "a beam cannot disagree with the interface published beside it"
\* (emission.ex): all BEAMs of a generation are generated against the
\* interfaces of that generation.  It holds while every run is published.
BeamsAgree ==
  current # None => IsBuild(current, [m \in Module |-> current[m].text])

\* "A changed interface invalidates consumers through the checked graph"
\* (2026-08-03-interface-first-module-pipeline-design.md): the modules that
\* are published together check together.
PublishedChecks ==
  current # None => \A i \in 1..Len(Components) :
    LET c == Components[i] IN
    Compile(c, [m \in Reached(c) |-> current[m].text],
            [d \in Outside(c) |-> current[d].iface]) # Failed
=============================================================================
