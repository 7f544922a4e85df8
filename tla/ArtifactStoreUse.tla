--------------------------- MODULE ArtifactStoreUse --------------------------
(***************************************************************************)
(* What those who use the store rely on: published directories do not      *)
(* change under a reader, publications do not go backwards, a usable set   *)
(* stays usable, and an open without a lock returns a set the store named. *)
(***************************************************************************)
EXTENDS ArtifactStoreData

(***************************************************************************)
(* Where the verified directories are.                                     *)
(***************************************************************************)

\* A directory that is being reinstalled is out of the way.
VacantInv == \A w \in Writer : pc[w] = "reinstall" => gens[target[w]] = EmptyDir

\* Without tampering every directory is whole, `current` names one, and the
\* old layout is deleted only when `current` exists.
WholeInv == damages = 0 =>
  /\ \A g \in Manifest : gens[g] \in {EmptyDir, DirOf(g)}
  /\ pointer # None => gens[pointer] = DirOf(pointer)
  /\ \A w \in Writer : /\ pc[w] = "point" => gens[target[w]] = DirOf(target[w])
                       /\ pc[w] \in {"legacy", "forget"} => pointer # None

PlacedInv == VacantInv /\ WholeInv

\* The image of a set is an intact directory.
LEMMA ImageIsIntact ==
  ASSUME NEW mf \in Manifest
  PROVE  Intact(DirOf(mf)) /\ DirOf(mf) # EmptyDir
BY NoneAssumption DEF Intact, DirOf, Matches, EmptyDir

LEMMA EmptyIsNotIntact == ~Intact(EmptyDir)
BY DEF Intact, EmptyDir

\* Nobody else holds the lock.
LEMMA OneHolder ==
  ASSUME LockInv, NEW v \in Writer, NEW w \in Writer \ {v}, pc[w] \in InLock
  PROVE  pc[v] \notin InLock
BY DEF LockInv

\* The steps that write generations, `current` or the old layout.
Placing(w) == \/ InstallNew(w) \/ Quarantine(w) \/ Reinstall(w)
              \/ PublishPointer(w) \/ RemoveLegacyBeams(w)
              \/ RemoveLegacyManifest(w)

LEMMA NotPlacing ==
  ASSUME NEW w \in Writer, Step(w), ~Placing(w)
  PROVE  UNCHANGED <<pointer, gens, flat>>
<1>1. CASE Begin(w) \/ Compile(w) \/ Acquire(w)
  BY <1>1 DEF Begin, Compile, ShortCircuit, Changed, Scanned, Compiled,
     CompileFails, HashSource, ScanSource, ParseSource, Acquire, disk
<1>2. CASE Publish(w)
  BY <1>2 DEF Publish, WriteOwner, CleanupStaging, StageCurrent, WriteBeams,
     SaveManifest, VerifyStage, KeepInstalled, Unstage, Release, Reopen,
     RecordSource, disk, Placing
<1>3. CASE Faulty(w)
  BY <1>3 DEF Faulty, OwnerWriteFails, LeakerExits, LockFails, Fail, Crash, disk
<1> QED
  BY <1>1, <1>2, <1>3 DEF Step

\* No step of a sweep tampers.
LEMMA StepKeepsDamages ==
  ASSUME NEW w \in Writer, Step(w)
  PROVE  damages' = damages
<1> USE DEF aside, bounds
<1>1. CASE Begin(w) \/ Compile(w) \/ Acquire(w)
  BY <1>1 DEF Begin, Compile, ShortCircuit, Changed, Scanned, Compiled,
     CompileFails, HashSource, ScanSource, ParseSource, Acquire
<1>2. CASE Publish(w)
  BY <1>2 DEF Publish, WriteOwner, CleanupStaging, StageCurrent, WriteBeams,
     SaveManifest, VerifyStage, InstallNew, KeepInstalled, Quarantine,
     Reinstall, PublishPointer, RemoveLegacyBeams, RemoveLegacyManifest,
     Unstage, Release, Reopen, RecordSource
<1>3. CASE Faulty(w)
  BY <1>3 DEF Faulty, OwnerWriteFails, LeakerExits, LockFails, Fail, Crash
<1> QED
  BY <1>1, <1>2, <1>3 DEF Step

\* The effect of the steps that write generations.
LEMMA PlacingEffect ==
  ASSUME StoreInv, NEW w \in Writer, Placing(w)
  PROVE  /\ pc[w] \in InLock /\ target[w] \in Manifest /\ target' = target
         /\ \A g \in Manifest \ {target[w]} : gens'[g] = gens[g]
         /\ \/ Quarantine(w) /\ gens'[target[w]] = EmptyDir
            \/ /\ InstallNew(w) \/ Reinstall(w)
               /\ gens'[target[w]] = DirOf(target[w])
            \/ /\ PublishPointer(w) \/ RemoveLegacyBeams(w)
                 \/ RemoveLegacyManifest(w)
               /\ gens' = gens
<1> USE DEF Goto, locals, StoreInv, TypeOK
<1>1. pc[w] \in InLock /\ target[w] \in Manifest /\ target' = target
  BY DEF Placing, InstallNew, Quarantine, Reinstall, PublishPointer,
     RemoveLegacyBeams, RemoveLegacyManifest, InLock, LocalsInv
<1>2. CASE Quarantine(w)
  BY <1>1, <1>2 DEF Quarantine
<1>3. CASE InstallNew(w) \/ Reinstall(w)
  <2>1. stage[w] = DirOf(target[w]) /\ MoveStage(w)
    BY <1>3 DEF InstallNew, Reinstall, StageInv
  <2> QED
    BY <1>1, <1>3, <2>1 DEF MoveStage
<1>4. CASE PublishPointer(w) \/ RemoveLegacyBeams(w) \/ RemoveLegacyManifest(w)
  BY <1>1, <1>4 DEF PublishPointer, RemoveLegacyBeams, RemoveLegacyManifest
<1> QED
  BY <1>2, <1>3, <1>4 DEF Placing

LEMMA VacantStep ==
  ASSUME StoreInv, VacantInv, NEW w \in Writer, Step(w)
  PROVE  VacantInv'
<1> SUFFICES ASSUME NEW v \in Writer, pc'[v] = "reinstall"
             PROVE  gens'[target'[v]] = EmptyDir
  BY DEF VacantInv
<1>1. CASE v # w
  <2>1. pc[v] = "reinstall" /\ target'[v] = target[v]
    BY <1>1, Frame DEF OwnAt, StoreInv
  <2>2. pc[w] \notin InLock
    BY <1>1, <2>1, OneHolder DEF StoreInv, InLock
  <2>3. gens' = gens
    BY <2>2, NotPlacing, PlacingEffect
  <2> QED
    BY <2>1, <2>3 DEF VacantInv
<1>2. CASE v = w
  <2>1. Quarantine(w)
    <3> USE DEF Goto, StoreInv, TypeOK, locals
    <3>1. CASE Begin(w) \/ Compile(w) \/ Acquire(w)
      BY <1>2, <3>1 DEF Begin, Compile, ShortCircuit, Changed, Scanned,
         Compiled, CompileFails, HashSource, ScanSource, ParseSource, Acquire
    <3>2. CASE Publish(w)
      BY <1>2, <3>2 DEF Publish, WriteOwner, CleanupStaging, StageCurrent,
         WriteBeams, SaveManifest, VerifyStage, InstallNew, KeepInstalled,
         Reinstall, PublishPointer, RemoveLegacyBeams, RemoveLegacyManifest,
         Unstage, Release, Reopen, RecordSource
    <3>3. CASE Faulty(w)
      BY <1>2, <3>3 DEF Faulty, OwnerWriteFails, LeakerExits, LockFails, Fail,
         Crash
    <3> QED
      BY <3>1, <3>2, <3>3 DEF Step
  <2> QED
    BY <1>2, <2>1, PlacingEffect DEF Placing, Quarantine, Goto, InstallNew,
       Reinstall, PublishPointer, RemoveLegacyBeams, RemoveLegacyManifest
<1> QED
  BY <1>1, <1>2

LEMMA WholeStep ==
  ASSUME StoreInv, WholeInv, NEW w \in Writer, Step(w)
  PROVE  WholeInv'
<1> SUFFICES ASSUME damages = 0
             PROVE  /\ \A g \in Manifest : gens'[g] \in {EmptyDir, DirOf(g)}
                    /\ pointer' # None => gens'[pointer'] = DirOf(pointer')
                    /\ \A v \in Writer :
                         /\ pc'[v] = "point" =>
                              gens'[target'[v]] = DirOf(target'[v])
                         /\ pc'[v] \in {"legacy", "forget"} => pointer' # None
  BY StepKeepsDamages DEF WholeInv
<1> USE DEF StoreInv, TypeOK, Goto, InLock
<1>1. /\ \A g \in Manifest : gens[g] \in {EmptyDir, DirOf(g)}
      /\ pointer # None => gens[pointer] = DirOf(pointer)
      /\ \A v \in Writer :
           /\ pc[v] = "point" => gens[target[v]] = DirOf(target[v])
           /\ pc[v] \in {"legacy", "forget"} => pointer # None
  BY DEF WholeInv
<1>2. ~Quarantine(w)
  <2> SUFFICES ASSUME Quarantine(w) PROVE FALSE
    OBVIOUS
  <2>1. target[w] \in Manifest
    BY DEF Quarantine, LocalsInv
  <2> QED
    BY <1>1, <2>1, ImageIsIntact DEF Quarantine
<1>3. \A g \in Manifest : gens'[g] \in {gens[g], DirOf(g)}
  BY <1>2, NotPlacing, PlacingEffect
<1>4. pointer' \in {pointer, target[w]}
  BY NotPlacing DEF Placing, InstallNew, Quarantine, Reinstall, PublishPointer,
     RemoveLegacyBeams, RemoveLegacyManifest
<1>5. pointer' # None => gens'[pointer'] = DirOf(pointer')
  <2>1. CASE PublishPointer(w)
    BY <1>1, <1>3, <2>1 DEF PublishPointer, LocalsInv
  <2>2. CASE ~PublishPointer(w)
    <3>1. pointer' = pointer
      BY <2>2, NotPlacing DEF Placing, InstallNew, Quarantine, Reinstall,
         RemoveLegacyBeams, RemoveLegacyManifest
    <3> QED
      BY <1>1, <1>3, <3>1
  <2> QED
    BY <2>1, <2>2
<1>6. pointer # None => pointer' # None
  BY <1>4, NotPlacing, PlacingEffect, NoneAssumption
<1>7. ASSUME NEW v \in Writer \ {w}
      PROVE  /\ pc'[v] = "point" => gens'[target'[v]] = DirOf(target'[v])
             /\ pc'[v] \in {"legacy", "forget"} => pointer' # None
  <2>1. pc'[v] = pc[v] /\ target'[v] = target[v]
    BY Frame DEF OwnAt
  <2>2. pc[v] = "point" => target[v] \in Manifest
    BY DEF LocalsInv
  <2> QED
    BY <1>1, <1>3, <1>6, <2>1, <2>2
<1>8. /\ pc'[w] = "point" => gens'[target'[w]] = DirOf(target'[w])
      /\ pc'[w] \in {"legacy", "forget"} => pointer' # None
  <2>1. CASE InstallNew(w) \/ Reinstall(w)
    BY <2>1, PlacingEffect DEF Placing, InstallNew, Reinstall, Quarantine,
       PublishPointer, RemoveLegacyBeams, RemoveLegacyManifest
  <2>2. CASE KeepInstalled(w)
    <3>1. target[w] \in Manifest /\ gens[target[w]] # EmptyDir
      BY <2>2, EmptyIsNotIntact DEF KeepInstalled, LocalsInv
    <3> QED
      BY <1>1, <2>2, <3>1 DEF KeepInstalled, disk, locals
  <2>3. CASE PublishPointer(w)
    BY <2>3, NoneAssumption DEF PublishPointer, LocalsInv
  <2>4. CASE RemoveLegacyBeams(w)
    BY <1>1, <2>4 DEF RemoveLegacyBeams
  <2>5. CASE Begin(w) \/ Compile(w) \/ Acquire(w)
    BY <2>5 DEF Begin, Compile, ShortCircuit, Changed, Scanned, Compiled,
       CompileFails, HashSource, ScanSource, ParseSource, Acquire
  <2>6. CASE Publish(w)
    BY <1>2, <2>1, <2>2, <2>3, <2>4, <2>6 DEF Publish, WriteOwner,
       CleanupStaging, StageCurrent, WriteBeams, SaveManifest, VerifyStage,
       RemoveLegacyManifest, Unstage, Release, Reopen, RecordSource
  <2>7. CASE Faulty(w)
    BY <2>7 DEF Faulty, OwnerWriteFails, LeakerExits, LockFails, Fail, Crash
  <2> QED
    BY <2>5, <2>6, <2>7 DEF Step
<1> QED
  BY <1>1, <1>3, <1>5, <1>7, <1>8

LEMMA PlacedOutside ==
  ASSUME StoreInv, PlacedInv, Outside
  PROVE  PlacedInv'
<1> USE DEF StoreInv, TypeOK, PlacedInv, VacantInv, WholeInv
<1>1. UNCHANGED <<pc, target, pointer>>
  BY OutsideFrame DEF sweep, locals
<1>2. ASSUME NEW g \in Manifest, Damage(g) PROVE PlacedInv'
  <2>1. /\ gens[g] # EmptyDir /\ damages' # 0
        /\ \A h \in Manifest \ {g} : gens'[h] = gens[h]
    BY <1>2 DEF Damage
  <2>2. \A w \in Writer : pc[w] = "reinstall" => target[w] \in Manifest \ {g}
    BY <2>1 DEF LocalsInv
  <2> QED
    BY <1>1, <2>1, <2>2
<1>3. ASSUME UNCHANGED <<gens, damages>> PROVE PlacedInv'
  BY <1>1, <1>3
<1> QED
  BY <1>2, <1>3 DEF Outside, Open, StartOpen, ReadManifest, VerifyModule,
     Accept, Reject, Environment, OrphanAcquires, OrphanExits, Edit, disk, aside,
     bounds

LEMMA PlacedInit == Init => PlacedInv
BY DEF Init, PlacedInv, VacantInv, WholeInv

LEMMA PlacedNext ==
  ASSUME StoreInv, PlacedInv, [Next]_vars
  PROVE  PlacedInv'
<1>1. CASE UNCHANGED vars
  BY <1>1 DEF vars, disk, sweep, locals, bounds, PlacedInv, VacantInv, WholeInv
<1> QED
  BY <1>1, VacantStep, WholeStep, PlacedOutside
     DEF Next, Step, Outside, PlacedInv

THEOREM PlacedInvariant == Spec => [](StoreInv /\ PlacedInv)
<1>1. Init => StoreInv /\ PlacedInv
  BY StoreInit, PlacedInit
<1>2. StoreInv /\ PlacedInv /\ [Next]_vars => (StoreInv /\ PlacedInv)'
  BY StoreNext, PlacedNext
<1> QED
  BY <1>1, <1>2, PTL DEF Spec

\* A generation that verifies never changes under those who read it, unless
\* somebody tampers with it: repairing one moves only broken ones away.
THEOREM GenerationsNeverChange == Spec => GenerationsImmutable
<1> DEFINE Fixed == \A g \in Manifest : Intact(gens[g]) /\ damages' = damages
                                          => gens'[g] = gens[g]
<1>1. ASSUME StoreInv, PlacedInv, [Next]_vars PROVE [Fixed]_vars
  <2>1. ASSUME NEW w \in Writer, Step(w) PROVE Fixed
    <3>1. CASE ~Placing(w)
      BY <2>1, <3>1, NotPlacing
    <3>2. CASE Placing(w)
      <4>1. Intact(gens[target[w]]) => gens'[target[w]] = gens[target[w]]
        <5>1. CASE Quarantine(w)
          BY <5>1 DEF Quarantine
        <5>2. CASE InstallNew(w) \/ Reinstall(w)
          <6>1. gens[target[w]] = EmptyDir
            BY <1>1, <5>2 DEF InstallNew, Reinstall, Goto, PlacedInv, VacantInv
          <6> QED
            BY <6>1, EmptyIsNotIntact
        <5>3. CASE gens' = gens
          BY <5>3
        <5> QED
          BY <3>2, <5>1, <5>2, <5>3, <1>1, PlacingEffect
      <4> QED
        BY <1>1, <3>2, <4>1, PlacingEffect
    <3> QED
      BY <3>1, <3>2
  <2>2. CASE Outside
    BY <1>1, <2>2 DEF Outside, Open, StartOpen, ReadManifest, VerifyModule,
       Accept, Reject, Environment, OrphanAcquires, OrphanExits, Edit, Damage,
       disk, aside, StoreInv, TypeOK
  <2> QED
    BY <1>1, <2>1, <2>2 DEF Next, Step, Outside
<1> QED
  BY <1>1, PlacedInvariant, PTL DEF Spec, GenerationsImmutable

\* No crash, fault or interleaving of writers takes a usable set away: there is
\* no moment between two renames at which nothing usable is named.
THEOREM UsableSetStays == Spec => UsableStaysUsable
<1> DEFINE Stays == damages' = 0 /\ Usable => Usable'
<1>1. ASSUME StoreInv, PlacedInv, [Next]_vars PROVE [Stays]_vars
  <2> USE <1>1 DEF StoreInv, TypeOK, PlacedInv
  <2> SUFFICES ASSUME damages' = 0, Usable PROVE Usable' \/ UNCHANGED vars
    OBVIOUS
  <2>1. PlacedInv' /\ StoreInv'
    BY PlacedNext, StoreNext
  <2>2. CASE pointer' # None
    <3>1. pointer' \in Manifest /\ gens'[pointer'] = DirOf(pointer')
      BY <2>1, <2>2 DEF WholeInv
    <3>2. Resolve' = pointer' /\ Intact(gens'[pointer'])
      BY <2>2, <3>1, ImageIsIntact DEF Resolve
    <3>3. Resolve' # None
      BY <2>2, <3>2
    <3> QED
      BY <3>2, <3>3 DEF Usable, DirAt, Intact
  <2>3. CASE pointer' = None
    <3>1. pointer = None /\ flat' = flat
      <4>1. ASSUME NEW w \in Writer, Step(w) PROVE pointer = None /\ flat' = flat
        <5>1. damages = 0
          BY <4>1, StepKeepsDamages
        <5>2. ~PublishPointer(w)
          BY <2>3, NoneAssumption DEF PublishPointer, Goto, LocalsInv
        <5>3. CASE RemoveLegacyBeams(w) \/ RemoveLegacyManifest(w)
          BY <2>3, <5>1, <5>3 DEF RemoveLegacyBeams, RemoveLegacyManifest, Goto,
             WholeInv
        <5> QED
          BY <2>3, <4>1, <5>2, <5>3, NotPlacing DEF Placing, InstallNew,
             Quarantine, Reinstall
      <4> QED
        BY <2>3, <4>1, OutsideFrame DEF Next, Step, Outside, vars, disk
    <3>2. Usable = Intact(flat) /\ Usable' = Intact(flat')
      BY <2>3, <3>1 DEF Usable, DirAt, Resolve, Intact
    <3> QED
      BY <3>1, <3>2
  <2> QED
    BY <2>2, <2>3
<1> QED
  BY <1>1, PlacedInvariant, PTL DEF Spec, UsableStaysUsable

(***************************************************************************)
(* Publications do not go backwards.                                       *)
(***************************************************************************)

\* What a sweep records under the lock is at least what is published.
Ahead(w) == pointer # None =>
  /\ pc[w] \in {"record", "verify"} => Between(pointer.source, seen[w], sources)
  /\ pc[w] \in {"install", "reinstall", "point"} =>
       Older(pointer.source, target[w].source)

AheadInv == \A w \in Writer : Ahead(w)

LEMMA AheadStep ==
  ASSUME DataInv, AheadInv, NEW w \in Writer, Step(w)
  PROVE  AheadInv'
<1> USE DEF DataInv, StoreInv
<1>0. UNCHANGED <<sources, past>>
  BY StepKeepsSources
<1>1. ASSUME NEW v \in Writer \ {w} PROVE Ahead(v)'
  <2>1. OwnAt(v)' = OwnAt(v)
    BY Frame
  <2>2. CASE pc[v] \in InLock
    <3>1. pointer' = pointer
      BY <2>2, OneHolder, NotPlacing, PlacingEffect
    <3> QED
      BY <1>0, <2>1, <3>1 DEF OwnAt, AheadInv, Ahead
  <2>3. CASE pc[v] \notin InLock
    BY <2>1, <2>3 DEF OwnAt, Ahead, InLock
  <2> QED
    BY <2>2, <2>3
<1>2. Ahead(w)'
  <2> SUFFICES ASSUME pointer' # None,
                      pc'[w] \in {"record", "verify", "install", "reinstall",
                                  "point"}
               PROVE  Ahead(w)'
    BY DEF Ahead
  <2> Ahead(w)
    BY DEF AheadInv
  <2> USE DEF Goto, TypeOK, locals, disk
  <2>1. CASE WriteBeams(w)
    BY <2>1, BetweenNone DEF WriteBeams, PassInv, Pass, Ahead
  <2>2. ASSUME NEW m \in Module, RecordSource(w, m) PROVE Ahead(w)'
    <3>1. pointer' = pointer /\ pc'[w] = "record" /\ pc[w] = "record"
      BY <2>2 DEF RecordSource
    <3>2. pointer.source \in Build /\ Older(pointer.source, sources)
      BY <3>1 DEF StoredInv, Snapshots, Snapshot, SourcesInv
    <3>3. Between(pointer.source, seen'[w], sources)
      BY <2>2, <3>1, <3>2, BetweenRead DEF RecordSource, Ahead
    <3> QED
      BY <1>0, <3>1, <3>3 DEF Ahead
  <2>3. CASE SaveManifest(w)
    BY <1>0, <2>3 DEF SaveManifest, Ahead
  <2>4. CASE VerifyStage(w)
    <3>1. /\ pointer' = pointer /\ pc'[w] = "install" /\ pc[w] = "verify"
          /\ target'[w] = stage[w].manifest
      BY <2>4 DEF VerifyStage
    <3>2. stage[w].manifest.source = seen[w] /\ AllRead(w)
      BY <3>1 DEF StageInv
    <3>3. Older(pointer.source, seen[w])
      BY <3>1, <3>2, BetweenAll DEF Ahead
    <3> QED
      BY <3>1, <3>2, <3>3 DEF Ahead
  <2>5. CASE Begin(w) \/ Compile(w) \/ Acquire(w)
    BY <2>5 DEF Begin, Compile, ShortCircuit, Changed, Scanned, Compiled,
       CompileFails, HashSource, ScanSource, ParseSource, Acquire
  <2>6. CASE InstallNew(w) \/ KeepInstalled(w) \/ Quarantine(w) \/ Reinstall(w)
    BY <2>6 DEF InstallNew, KeepInstalled, Quarantine, Reinstall, Ahead
  <2>7. CASE Publish(w)
    BY <2>1, <2>2, <2>3, <2>4, <2>6, <2>7 DEF Publish, WriteOwner,
       CleanupStaging, StageCurrent, PublishPointer, RemoveLegacyBeams,
       RemoveLegacyManifest, Unstage, Release, Reopen
  <2>8. CASE Faulty(w)
    BY <2>8 DEF Faulty, OwnerWriteFails, LeakerExits, LockFails, Fail, Crash
  <2> QED
    BY <2>5, <2>7, <2>8 DEF Step
<1> QED
  BY <1>1, <1>2 DEF AheadInv

LEMMA AheadOutside ==
  ASSUME ~Reverts, DataInv, AheadInv, Outside
  PROVE  AheadInv'
<1> USE DEF DataInv, StoreInv
<1>1. Older(sources, sources')
  BY OutsideAdvancesSources
<1>2. UNCHANGED <<pc, seen, target, pointer>>
  BY OutsideFrame DEF sweep, locals
<1>3. sources \in Build /\ sources' \in Build
  BY TypeOpen, TypeEnvironment DEF Outside, TypeOK
<1>4. ASSUME NEW lo, NEW s \in [Module -> Version \cup {None}],
             Between(lo, s, sources)
      PROVE  Between(lo, s, sources')
  BY <1>1, <1>3, <1>4, VersionAssumption, NoneAssumption
     DEF Between, Older, Build, Version
<1> QED
  BY <1>2, <1>4 DEF AheadInv, Ahead, TypeOK

LEMMA AheadNext ==
  ASSUME ~Reverts, DataInv, AheadInv, [Next]_vars
  PROVE  AheadInv'
<1>1. CASE UNCHANGED vars
  BY <1>1 DEF vars, disk, sweep, locals, AheadInv, Ahead, Between, Older
<1> QED
  BY <1>1, AheadStep, AheadOutside DEF Next, Step, Outside

\* A writer that was overtaken while it waited for the lock does not put an
\* older set in the place of the newer one.
THEOREM PublicationsNeverRegress ==
  ASSUME ~Reverts
  PROVE  Spec => PublicationsAdvance
<1> DEFINE Advance == pointer # None /\ pointer' # pointer =>
                        \A m \in Module : pointer'.source[m] >= pointer.source[m]
<1>1. Init => DataInv /\ AheadInv
  BY DataInit DEF Init, AheadInv, Ahead
<1>2. DataInv /\ AheadInv /\ [Next]_vars => (DataInv /\ AheadInv)'
  BY DataNext, AheadNext
<1>3. ASSUME DataInv, AheadInv, [Next]_vars PROVE [Advance]_vars
  <2> SUFFICES ASSUME pointer # None, pointer' # pointer PROVE Advance
    OBVIOUS
  <2>1. PICK w \in Writer : PublishPointer(w)
    <3>1. ASSUME NEW w \in Writer, Step(w) PROVE PublishPointer(w)
      BY <3>1, NotPlacing DEF Placing, InstallNew, Quarantine, Reinstall,
         RemoveLegacyBeams, RemoveLegacyManifest
    <3> QED
      BY <1>3, <3>1, OutsideFrame DEF Next, Step, Outside, vars, disk
  <2>2. pointer' = target[w] /\ Older(pointer.source, target[w].source)
    BY <1>3, <2>1 DEF PublishPointer, Goto, AheadInv, Ahead
  <2>3. pointer.source \in Build /\ target[w].source \in Build
    BY <1>3, <2>1 DEF DataInv, StoreInv, TypeOK, LocalsInv, PublishPointer, Goto,
       Manifest
  <2> QED
    BY <2>2, <2>3, VersionAssumption DEF Older, Build, Version
<1> QED
  BY <1>1, <1>2, <1>3, PTL DEF Spec, PublicationsAdvance

(***************************************************************************)
(* Readers.                                                                *)
(***************************************************************************)

\* What a reader has resolved and decoded so far was named during its open.
Sighted(r) ==
  /\ window[r] \subseteq Snapshots \cup {None}
  /\ rpc[r] # "idle" => Named \in window[r]
  /\ rpc[r] = "verify" <=> opened[r] # None
  /\ \A set \in {root[r], opened[r], accepted[r]} \ {None} : set \in window[r]

ReaderInv == \A r \in Reader : Sighted(r)

\* What the store names is the image of a past source tree.
LEMMA NamedStored ==
  /\ StoredInv => Named \in Snapshots \cup {None}
  /\ StoredInv' => Named' \in Snapshots' \cup {None}
BY DEF StoredInv, Named, Resolve

\* Every step that changes what is named tells the opens under way.
Told == /\ UNCHANGED readers
        /\ \/ Named' = Named /\ window' = window
           \/ Witness

LEMMA StepTells ==
  ASSUME TypeOK, NEW w \in Writer, Step(w)
  PROVE  Told
<1>1. CASE Begin(w) \/ Compile(w) \/ Acquire(w)
  BY <1>1 DEF Begin, Compile, ShortCircuit, Changed, Scanned, Compiled,
     CompileFails, HashSource, ScanSource, ParseSource, Acquire, disk, aside,
     Told, Named, Resolve
<1>2. CASE RemoveLegacyBeams(w)
  <2>1. flat'.manifest = flat.manifest
    BY <1>2 DEF RemoveLegacyBeams, TypeOK, Dir
  <2> QED
    BY <1>2, <2>1 DEF RemoveLegacyBeams, aside, Told, Named, Resolve
<1>3. CASE Publish(w)
  BY <1>2, <1>3 DEF Publish, WriteOwner, CleanupStaging, StageCurrent,
     WriteBeams, SaveManifest, VerifyStage, InstallNew, KeepInstalled,
     Quarantine, Reinstall, PublishPointer, RemoveLegacyManifest, Unstage,
     Release, Reopen, RecordSource, disk, aside, Told, Named, Resolve
<1>4. CASE Faulty(w)
  BY <1>4 DEF Faulty, OwnerWriteFails, LeakerExits, LockFails, Fail, Crash, disk,
     aside, Told, Named, Resolve
<1> QED
  BY <1>1, <1>3, <1>4 DEF Step

LEMMA ToldKeepsSight ==
  ASSUME TypeOK, ReaderInv, StoredInv', Snapshots \subseteq Snapshots', Told
  PROVE  ReaderInv'
<1> SUFFICES ASSUME NEW r \in Reader PROVE Sighted(r)'
  BY DEF ReaderInv
<1>1. Sighted(r) /\ UNCHANGED <<rpc, root, opened, accepted>>
  BY DEF ReaderInv, Told, readers
<1>2. CASE Named' = Named /\ window' = window
  BY <1>1, <1>2 DEF Sighted
<1>3. CASE Witness
  <2>1. window'[r] = IF rpc[r] = "idle" THEN window[r]
                                        ELSE window[r] \cup {Named'}
    BY <1>3 DEF Witness
  <2> QED
    BY <1>1, <2>1, NamedStored DEF Sighted
<1> QED
  BY <1>2, <1>3 DEF Told

\* Decoding a manifest gives the set that is named, or the resolved one.
LEMMA DecodedIsNamed ==
  ASSUME TypeOK, StoredInv, NEW r \in Reader, Reread(r).manifest # None
  PROVE  Reread(r).manifest \in {Named, root[r]}
<1>1. CASE root[r] = None
  BY <1>1 DEF Reread, DirAt, Resolve, Named, StoredInv, GenerationsAreSnapshots,
     TypeOK
<1>2. CASE root[r] # None
  <2>1. root[r] \in Manifest /\ Reread(r) = gens[root[r]]
    BY <1>2 DEF Reread, TypeOK
  <2> QED
    BY <2>1 DEF StoredInv, GenerationsAreSnapshots, EmptyDir
<1> QED
  BY <1>1, <1>2

LEMMA OpenKeepsSight ==
  ASSUME TypeOK, StoredInv, ReaderInv, NEW r \in Reader, Open(r)
  PROVE  ReaderInv'
<1>0. /\ UNCHANGED <<pointer, gens, flat, past>>
      /\ Named' = Named /\ Snapshots' = Snapshots
  BY DEF Open, StartOpen, ReadManifest, VerifyModule, Accept, Reject, disk,
     Named, Resolve, Snapshots
<1>1. ASSUME NEW q \in Reader \ {r} PROVE Sighted(q)'
  <2>1. /\ window'[q] = window[q] /\ rpc'[q] = rpc[q] /\ root'[q] = root[q]
        /\ opened'[q] = opened[q] /\ accepted'[q] = accepted[q]
    BY DEF Open, StartOpen, ReadManifest, VerifyModule, Accept, Reject, Close,
       TypeOK
  <2> QED
    BY <1>0, <2>1 DEF ReaderInv, Sighted
<1>2. Sighted(r)'
  <2> Sighted(r)
    BY DEF ReaderInv
  <2> USE <1>0 DEF TypeOK, Sighted
  <2>1. CASE StartOpen(r)
    <3>1. /\ window'[r] = {Named} /\ root'[r] = Resolve /\ rpc'[r] = "open"
          /\ opened'[r] = opened[r] /\ accepted'[r] = None
      BY <2>1 DEF StartOpen
    <3>2. Resolve # None => Resolve = Named
      BY DEF Named
    <3>3. opened[r] = None
      BY <2>1 DEF StartOpen
    <3> QED
      BY <3>1, <3>2, <3>3, NamedStored
  <2>2. CASE ReadManifest(r)
    <3>1. /\ window'[r] = window[r] /\ root'[r] = root[r] /\ rpc[r] = "open"
          /\ opened'[r] = Reread(r).manifest /\ accepted'[r] = accepted[r]
          /\ rpc'[r] = "verify" /\ Reread(r).manifest # None
      BY <2>2 DEF ReadManifest
    <3> QED
      BY <3>1, DecodedIsNamed
  <2>3. ASSUME NEW m \in Module, VerifyModule(r, m) PROVE Sighted(r)'
    BY <2>3 DEF VerifyModule
  <2>4. CASE Accept(r) \/ Reject(r)
    BY <2>4 DEF Accept, Reject, Close
  <2> QED
    BY <2>1, <2>2, <2>3, <2>4 DEF Open
<1> QED
  BY <1>1, <1>2 DEF ReaderInv

LEMMA EnvironmentTells ==
  ASSUME TypeOK, Environment
  PROVE  Told
<1>1. ASSUME NEW g \in Manifest, Damage(g) PROVE Told
  BY <1>1 DEF Damage, Told
<1>2. ASSUME UNCHANGED <<pointer, gens, flat, readers, window>> PROVE Told
  BY <1>2 DEF Told, Named, Resolve
<1> QED
  BY <1>1, <1>2 DEF Environment, OrphanAcquires, OrphanExits, Edit, disk, aside

LEMMA ReaderNext ==
  ASSUME ~Reverts, DataInv, ReaderInv, [Next]_vars
  PROVE  ReaderInv'
<1> USE DEF DataInv, StoreInv
<1>1. DataInv'
  BY DataNext
<1>2. ASSUME NEW w \in Writer, Step(w) PROVE ReaderInv'
  BY <1>1, <1>2, StepKeepsSources, StepTells, ToldKeepsSight DEF Snapshots
<1>3. CASE Environment
  BY <1>1, <1>3, OutsideAdvancesSources, EnvironmentTells, ToldKeepsSight
     DEF Outside, Snapshots
<1>4. ASSUME NEW r \in Reader, Open(r) PROVE ReaderInv'
  BY <1>4, OpenKeepsSight
<1>5. CASE UNCHANGED vars
  BY <1>5 DEF vars, disk, readers, ReaderInv, Sighted, Named, Resolve, Snapshots
<1> QED
  BY <1>2, <1>3, <1>4, <1>5 DEF Next, Step

LEMMA ReaderInit == Init => ReaderInv
BY DEF Init, ReaderInv, Sighted

THEOREM ReaderInvariant ==
  ASSUME ~Reverts
  PROVE  Spec => [](DataInv /\ ReaderInv)
<1>1. Init => DataInv /\ ReaderInv
  BY DataInit, ReaderInit
<1>2. DataInv /\ ReaderInv /\ [Next]_vars => (DataInv /\ ReaderInv)'
  BY DataNext, ReaderNext
<1> QED
  BY <1>1, <1>2, PTL DEF Spec

\* A reader takes no lock, and yet returns a faithful set that was named while
\* it was opening, whatever was published, repaired or damaged meanwhile.
THEOREM ReadersReturnNamed ==
  ASSUME ~Reverts
  PROVE  Spec => []ReaderReturnsNamed
<1>1. DataInv /\ ReaderInv => ReaderReturnsNamed
  BY DEF ReaderInv, Sighted, ReaderReturnsNamed
<1> QED
  BY <1>1, ReaderInvariant, PTL

(***************************************************************************)
(* The store implements the register of PublishedSet.                      *)
(***************************************************************************)

LEMMA PublishedInit ==
  ASSUME Init
  PROVE  Published!Init
<1>1. StoredInv /\ past \in SUBSET Build
  BY DataInit DEF DataInv, StoreInv, TypeOK
<1>2. Named \in Snapshots \cup {None}
  BY <1>1, NamedStored
<1> QED
  BY <1>1, <1>2 DEF Init, Published!Init, Published!Sets, Snapshots

\* A step that tells the readers is the abstract Name, or changes nothing.
LEMMA ToldImplementsName ==
  ASSUME StoredInv', Told, past' = past
  PROVE  \/ Published!Name
         \/ UNCHANGED Published!vars
<1>1. UNCHANGED <<accepted, rpc, past>> /\ Snapshots' = Snapshots
  BY DEF Told, readers, Snapshots
<1>2. CASE Named' = Named /\ window' = window
  BY <1>1, <1>2 DEF Published!vars
<1>3. CASE Witness
  <2>1. Named' \in Snapshots \cup {None}
    BY <1>1, NamedStored
  <2> QED
    BY <1>1, <1>3, <2>1 DEF Published!Name, Published!Sets, Snapshots, Witness
<1> QED
  BY <1>2, <1>3 DEF Told

LEMMA OpenImplements ==
  ASSUME TypeOK, ReaderInv, NEW r \in Reader, Open(r)
  PROVE  \/ Published!Start(r) \/ Published!Return(r)
         \/ UNCHANGED Published!vars
<1> DEFINE opening == {q \in Reader : rpc[q] # "idle"}
<1>1. Named' = Named /\ past' = past
  BY DEF Open, StartOpen, ReadManifest, VerifyModule, Accept, Reject, disk,
     Named, Resolve
<1>2. CASE StartOpen(r)
  <2>1. opening' = opening \cup {r} /\ r \notin opening
    BY <1>2 DEF StartOpen, TypeOK
  <2> QED
    BY <1>1, <1>2, <2>1 DEF StartOpen, Published!Start
<1>3. ASSUME NEW set \in window[r] \cup {None}, Close(r, set),
             rpc[r] # "idle", window' = window
      PROVE  Published!Return(r)
  <2>1. opening' = opening \ {r} /\ r \in opening
    BY <1>3 DEF Close, TypeOK
  <2> QED
    BY <1>1, <1>3, <2>1 DEF Close, Published!Return
<1>4. CASE Accept(r)
  <2>1. opened[r] \in window[r]
    BY <1>4 DEF Accept, ReaderInv, Sighted
  <2> QED
    BY <1>3, <1>4, <2>1 DEF Accept
<1>5. CASE Reject(r)
  BY <1>3, <1>5 DEF Reject
<1>6. CASE ReadManifest(r)
  <2>1. opening' = opening
    BY <1>6 DEF ReadManifest, TypeOK
  <2> QED
    BY <1>1, <1>6, <2>1 DEF ReadManifest, Published!vars
<1>7. ASSUME NEW m \in Module, VerifyModule(r, m)
      PROVE  UNCHANGED Published!vars
  BY <1>1, <1>7 DEF VerifyModule, Published!vars
<1> QED
  BY <1>2, <1>4, <1>5, <1>6, <1>7 DEF Open

LEMMA EditImplements ==
  ASSUME TypeOK, TypeOK', NEW m \in Module, NEW v \in Version, Edit(m, v)
  PROVE  Published!Grow
<1>1. Named' = Named
  BY DEF Edit, disk, Named, Resolve
<1> QED
  BY <1>1 DEF Edit, readers, TypeOK, Published!Grow

\* The store, with its locks, stages, repairs and crashes, is to its readers the
\* register of PublishedSet.
THEOREM StoreImplementsPublishedSet ==
  ASSUME ~Reverts
  PROVE  Spec => ImplementsPublishedSet
<1>1. Init => Published!Init
  BY PublishedInit
<1>2. ASSUME DataInv, ReaderInv, [Next]_vars
      PROVE  [Published!Next]_(Published!vars)
  <2> USE <1>2 DEF DataInv, StoreInv
  <2>1. DataInv'
    BY DataNext
  <2>2. ASSUME NEW w \in Writer, Step(w)
        PROVE  [Published!Next]_(Published!vars)
    BY <2>1, <2>2, StepTells, StepKeepsSources, ToldImplementsName
       DEF Published!Next
  <2>3. ASSUME NEW r \in Reader, Open(r)
        PROVE  [Published!Next]_(Published!vars)
    BY <2>3, OpenImplements DEF Published!Next
  <2>4. ASSUME NEW m \in Module, NEW v \in Version, Edit(m, v)
        PROVE  [Published!Next]_(Published!vars)
    BY <2>1, <2>4, EditImplements DEF Published!Next
  <2>5. CASE Environment /\ past' = past
    BY <2>1, <2>5, EnvironmentTells, ToldImplementsName DEF Published!Next
  <2>6. CASE UNCHANGED vars
    BY <2>6 DEF vars, disk, readers, Named, Resolve, Published!vars
  <2> QED
    BY <2>2, <2>3, <2>4, <2>5, <2>6 DEF Next, Step, Environment, OrphanAcquires,
       OrphanExits, Damage, aside
<1> QED
  BY <1>1, <1>2, ReaderInvariant, PTL
     DEF Spec, ImplementsPublishedSet, Published!Spec

==============================================================================
