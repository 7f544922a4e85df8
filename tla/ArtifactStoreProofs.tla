------------------------- MODULE ArtifactStoreProofs -------------------------
(***************************************************************************)
(* Theorems about ArtifactStore, for every set of writers, readers and     *)
(* modules and every value of the bounds.                                  *)
(***************************************************************************)
EXTENDS ArtifactStore, TLAPS

(***************************************************************************)
(* The inductive invariant behind typing and the privacy of a stage.  The  *)
(* types alone are not inductive: what SaveManifest reads back from its    *)
(* stage is well typed only because nobody else has cleaned it up, and     *)
(* that is so because of the lock.                                         *)
(***************************************************************************)

\* The lock belongs to the one sweep that is inside with_lock.
LockInv == \A w \in Writer : pc[w] \in InLock <=> lock = w

\* A sweep has computed what its next phases rely on.
LocalsInv == \A w \in Writer :
  /\ pc[w] = "parse" => scanned[w] \in Build
  /\ pc[w] \in {"wait", "owner", "clean", "stage", "write", "record",
                "verify"} => compiled[w] \in [Module -> Beam]
  /\ pc[w] \in {"install", "reinstall", "point", "legacy", "forget",
                "reopen"} => target[w] \in Manifest

Staging == {"stage", "write", "record", "verify", "install", "reinstall"}

\* The stage holds what its writer put there, in every phase.
StageInv == \A w \in Writer :
  /\ pc[w] \in Staging => \A v \in Writer \ {w} : stage[v] = EmptyDir
  /\ pc[w] = "record" =>
       stage[w] = [manifest |-> None, beams |-> compiled[w]]
  /\ pc[w] = "verify" =>
       /\ AllRead(w)
       /\ stage[w] = [manifest |->
                        [source |-> seen[w],
                         code   |-> [m \in Module |-> compiled[w][m].code]],
                      beams |-> compiled[w]]
  /\ pc[w] \in {"install", "reinstall"} => stage[w] = DirOf(target[w])

StoreInv == TypeOK /\ LockInv /\ LocalsInv /\ StageInv

(***************************************************************************)
(* Typing.                                                                 *)
(***************************************************************************)

\* Directories are made of well-typed parts.
LEMMA DirTypes ==
  /\ EmptyDir \in Dir
  /\ \A mf \in Manifest : DirOf(mf) \in Dir
  /\ \A b \in Build : Snapshot(b) \in Manifest
<1>1. NoBeams \in [Module -> Beam \cup {None, Damaged}]
  BY DEF NoBeams
<1>2. EmptyDir \in Dir
  BY <1>1 DEF EmptyDir, Dir
<1>3. ASSUME NEW mf \in Manifest PROVE DirOf(mf) \in Dir
  <2>1. \A m \in Module : [prov |-> mf.source[m], code |-> mf.code[m]] \in Beam
    BY DEF Manifest, Build, Beam
  <2> QED
    BY <2>1 DEF DirOf, Dir
<1>4. \A b \in Build : Snapshot(b) \in Manifest
  BY DEF Snapshot, Manifest
<1> QED
  BY <1>2, <1>3, <1>4

\* Resolving the output root gives a directory of the store.
LEMMA ResolveType ==
  ASSUME TypeOK
  PROVE  /\ Resolve \in Manifest \cup {None}
         /\ \A rt \in Manifest \cup {None} : DirAt(rt) \in Dir
         /\ Named \in Manifest \cup {None}
         /\ \A d \in Dir : d.manifest \in Manifest \cup {None}
<1>1. Resolve \in Manifest \cup {None}
  BY DEF TypeOK, Resolve
<1>2. \A rt \in Manifest \cup {None} : DirAt(rt) \in Dir
  BY NoneAssumption DEF TypeOK, DirAt
<1>3. \A d \in Dir : d.manifest \in Manifest \cup {None}
  BY DEF Dir
<1> QED
  BY <1>1, <1>2, <1>3 DEF Named, TypeOK

\* A sweep that returns leaves well-typed variables.
LEMMA ReturnType ==
  ASSUME TypeOK, NEW w \in Writer, NEW set \in Manifest \cup {None},
         Return(w, set)
  PROVE  /\ result' \in [Writer -> Manifest \cup {None}]
         /\ start' \in [Writer -> Build \cup {None}]
         /\ prior' \in [Writer -> Manifest \cup {None}]
         /\ seen' \in [Writer -> [Module -> Version \cup {None}]]
         /\ scanned' \in [Writer -> Build \cup {None}]
         /\ compiled' \in [Writer -> [Module -> Beam] \cup {None}]
         /\ target' \in [Writer -> Manifest \cup {None}]
         /\ snap' \in [Writer -> Build \cup {None}]
<1>1. NothingRead \in [Module -> Version \cup {None}]
  BY DEF NothingRead
<1> QED
  BY <1>1 DEF TypeOK, Return

\* The initial states are well typed.
LEMMA TypeInit == Init => TypeOK
<1> SUFFICES ASSUME Init PROVE TypeOK
  OBVIOUS
<1>1. sources \in Build
  BY VersionAssumption DEF Init, Build, Version
<1>2. flat \in Dir
  BY <1>1, DirTypes DEF Init
<1>3. NothingRead \in [Module -> Version \cup {None}]
  BY DEF NothingRead
<1> QED
  BY <1>1, <1>2, <1>3, DirTypes DEF Init, TypeOK, InLock

\* A sweep that reads one more source leaves well-typed variables.
LEMMA ReadType ==
  ASSUME TypeOK, NEW w \in Writer, NEW m \in Module, ReadSource(w, m)
  PROVE  seen' \in [Writer -> [Module -> Version \cup {None}]]
<1>1. sources[m] \in Version
  BY DEF TypeOK, Build
<1> QED
  BY <1>1 DEF ReadSource, TypeOK

\* A pass over all modules has read a whole source tree.
LEMMA AllReadType ==
  ASSUME TypeOK, NEW w \in Writer, AllRead(w)
  PROVE  seen[w] \in Build
BY DEF AllRead, TypeOK, Build

\* The pipeline returns one BEAM per module.
LEMMA CompiledType ==
  ASSUME TypeOK, LocalsInv, NEW w \in Writer, Compiled(w)
  PROVE  /\ compiled'[w] \in [Module -> Beam]
         /\ compiled' \in [Writer -> [Module -> Beam] \cup {None}]
<1>1. seen[w] \in Build /\ scanned[w] \in Build
  BY AllReadType DEF Compiled, Goto, LocalsInv
<1>2. PICK reused \in SUBSET ReusableBeams(w) :
        compiled' = [compiled EXCEPT ![w] =
          [m \in Module |-> [prov |-> scanned[w][m],
                             code |-> IF m \in reused THEN prior[w].code[m]
                                                      ELSE seen[w][m]]]]
  BY DEF Compiled
<1>3. \A m \in reused : prior[w].code[m] \in Version
  BY <1>2 DEF ReusableBeams, TypeOK, Manifest, Build
<1>4. \A m \in Module :
        [prov |-> scanned[w][m],
         code |-> IF m \in reused THEN prior[w].code[m]
                                  ELSE seen[w][m]] \in Beam
  BY <1>1, <1>3 DEF Beam, Build
<1> QED
  BY <1>2, <1>4 DEF TypeOK

\* Every step of the sweep outside the lock keeps the types.
LEMMA TypeSweep ==
  ASSUME StoreInv, NEW w \in Writer, Begin(w) \/ Compile(w) \/ Acquire(w)
  PROVE  TypeOK'
<1> USE DEF StoreInv, Goto, aside, locks, disk, locals, answer, readers, bounds,
            InLock
<1>0. NothingRead \in [Module -> Version \cup {None}]
  BY DEF NothingRead
<1>1. CASE Begin(w)
  BY <1>1, ResolveType DEF Begin, TypeOK
<1>2. CASE ShortCircuit(w)
  BY <1>2, ReturnType DEF ShortCircuit, TypeOK
<1>3. CASE Changed(w)
  BY <1>0, <1>3 DEF Changed, TypeOK
<1>4. CASE Scanned(w)
  BY <1>0, <1>4, AllReadType DEF Scanned, TypeOK
<1>5. CASE Compiled(w)
  BY <1>0, <1>5, CompiledType DEF Compiled, TypeOK
<1>6. CASE CompileFails(w)
  BY <1>6, ReturnType DEF CompileFails, TypeOK
<1>7. CASE Acquire(w)
  BY <1>7 DEF Acquire, TypeOK
<1>8. ASSUME NEW m \in Module,
             HashSource(w, m) \/ ScanSource(w, m) \/ ParseSource(w, m)
      PROVE  TypeOK'
  BY <1>8, ReadType DEF HashSource, ScanSource, ParseSource, TypeOK
<1> QED
  BY <1>1, <1>2, <1>3, <1>4, <1>5, <1>6, <1>7, <1>8 DEF Compile

\* An intact directory is exactly the image of its manifest.
LEMMA IntactIsImage ==
  ASSUME NEW d \in Dir, Intact(d)
  PROVE  d.manifest \in Manifest /\ d = DirOf(d.manifest)
<1>1. d.manifest \in Manifest /\ d.beams \in [Module -> Beam \cup {None, Damaged}]
  BY DEF Dir, Intact
<1>2. d.beams = DirOf(d.manifest).beams
  BY <1>1 DEF Intact, Matches, DirOf
<1>3. d = [manifest |-> d.manifest, beams |-> d.beams]
  BY DEF Dir
<1> QED
  BY <1>1, <1>2, <1>3 DEF DirOf

\* Every open under way sees a well-typed set being named.
LEMMA WitnessType ==
  ASSUME TypeOK, Named' \in Manifest \cup {None}, Witness
  PROVE  window' \in [Reader -> SUBSET (Manifest \cup {None})]
BY DEF Witness, TypeOK

\* ... because the directories it could be read from are well typed.
LEMMA NamedType ==
  ASSUME pointer' \in Manifest \cup {None}, flat' \in Dir
  PROVE  Named' \in Manifest \cup {None}
BY DEF Named, Resolve, Dir

\* Every step of a writer that holds the lock, or reopens, keeps the types.
LEMMA TypePublish ==
  ASSUME StoreInv, NEW w \in Writer, Publish(w)
  PROVE  TypeOK'
<1> USE DEF StoreInv, Goto, aside, locks, disk, locals, answer, readers, bounds,
            InLock
<1>1. CASE WriteOwner(w)
  BY <1>1 DEF WriteOwner, TypeOK
<1>2. CASE CleanupStaging(w)
  BY <1>2, DirTypes DEF CleanupStaging, TypeOK
<1>3. CASE StageCurrent(w)
  BY <1>3, DirTypes, ResolveType DEF StageCurrent, TypeOK
<1>4. CASE WriteBeams(w)
  <2>1. [manifest |-> None, beams |-> compiled[w]] \in Dir
    BY <1>4 DEF WriteBeams, LocalsInv, TypeOK, Dir
  <2> QED
    BY <1>4, <2>1 DEF WriteBeams, TypeOK
<1>5. CASE SaveManifest(w)
  <2>1. \A m \in Module : stage[w].beams[m].code \in Version
    BY <1>5 DEF SaveManifest, StageInv, LocalsInv, TypeOK, Beam
  <2>2. seen[w] \in Build
    BY <1>5, AllReadType DEF SaveManifest
  <2>3. [source |-> seen[w],
         code |-> [m \in Module |-> stage[w].beams[m].code]] \in Manifest
    BY <2>1, <2>2 DEF Manifest, Build
  <2> QED
    BY <1>5, <2>3 DEF SaveManifest, TypeOK, Dir
<1>6. CASE VerifyStage(w)
  BY <1>6, IntactIsImage DEF VerifyStage, TypeOK
<1>7. CASE InstallNew(w) \/ Reinstall(w)
  <2>1. gens' \in [Manifest -> Dir] /\ stage' \in [Writer -> Dir]
    <3>1. MoveStage(w) /\ stage[w] \in Dir /\ EmptyDir \in Dir
      BY <1>7, DirTypes DEF InstallNew, Reinstall, TypeOK
    <3>2. gens \in [Manifest -> Dir] /\ stage \in [Writer -> Dir]
      BY DEF TypeOK
    <3> QED
      BY <3>1, <3>2 DEF MoveStage
  <2>2. window' \in [Reader -> SUBSET (Manifest \cup {None})]
    BY <1>7, NamedType, WitnessType DEF InstallNew, Reinstall, TypeOK
  <2> QED
    BY <1>7, <2>1, <2>2 DEF InstallNew, Reinstall, TypeOK
<1>8. CASE KeepInstalled(w)
  BY <1>8 DEF KeepInstalled, TypeOK
<1>9. CASE Quarantine(w)
  <2>1. window' \in [Reader -> SUBSET (Manifest \cup {None})]
    BY <1>9, NamedType, WitnessType DEF Quarantine, TypeOK
  <2> QED
    BY <1>9, <2>1, DirTypes DEF Quarantine, TypeOK
<1>10. CASE PublishPointer(w)
  <2>1. window' \in [Reader -> SUBSET (Manifest \cup {None})]
    BY <1>10, NamedType, WitnessType DEF PublishPointer, TypeOK
  <2> QED
    BY <1>10, <2>1 DEF PublishPointer, TypeOK
<1>11. CASE RemoveLegacyBeams(w)
  <2>1. flat' \in Dir
    BY <1>11, DirTypes DEF RemoveLegacyBeams, TypeOK, Dir, EmptyDir
  <2> QED
    BY <1>11, <2>1 DEF RemoveLegacyBeams, TypeOK
<1>12. CASE RemoveLegacyManifest(w)
  <2>1. flat' \in Dir
    BY <1>12 DEF RemoveLegacyManifest, TypeOK, Dir
  <2>2. window' \in [Reader -> SUBSET (Manifest \cup {None})]
    BY <1>12, <2>1, NamedType, WitnessType DEF RemoveLegacyManifest, TypeOK
  <2> QED
    BY <1>12, <2>1, <2>2 DEF RemoveLegacyManifest, TypeOK
<1>13. CASE Unstage(w)
  BY <1>13, DirTypes DEF Unstage, TypeOK
<1>14. CASE Release(w)
  BY <1>14, ReturnType DEF Release, TypeOK
<1>15. CASE Reopen(w)
  <2>1. (IF Intact(gens[target[w]]) THEN gens[target[w]].manifest ELSE None)
          \in Manifest \cup {None}
    BY <1>15 DEF Reopen, LocalsInv, TypeOK, Dir
  <2> QED
    BY <1>15, <2>1, ReturnType DEF Reopen, TypeOK
<1>16. ASSUME NEW m \in Module, RecordSource(w, m) PROVE TypeOK'
  BY <1>16, ReadType DEF RecordSource, TypeOK
<1> QED
  BY <1>1, <1>2, <1>3, <1>4, <1>5, <1>6, <1>7, <1>8, <1>9, <1>10, <1>11, <1>12,
     <1>13, <1>14, <1>15, <1>16 DEF Publish

\* So does every fault of a writer.
LEMMA TypeFaulty ==
  ASSUME StoreInv, NEW w \in Writer, Faulty(w)
  PROVE  TypeOK'
<1> USE DEF StoreInv, Goto, aside, locks, disk, locals, answer, readers, bounds,
            InLock
<1>1. CASE OwnerWriteFails(w)
  BY <1>1, BoundAssumption DEF OwnerWriteFails, TypeOK
<1>2. CASE LeakerExits(w)
  BY <1>2, ReturnType DEF LeakerExits, TypeOK
<1>3. CASE LockFails(w)
  BY <1>3, ReturnType, BoundAssumption DEF LockFails, TypeOK
<1>4. CASE Fail(w)
  BY <1>4, BoundAssumption DEF Fail, TypeOK
<1>5. CASE Crash(w)
  BY <1>5, ReturnType, BoundAssumption DEF Crash, TypeOK
<1> QED
  BY <1>1, <1>2, <1>3, <1>4, <1>5 DEF Faulty

\* ... every step of a reader ...
LEMMA TypeOpen ==
  ASSUME TypeOK, NEW r \in Reader, Open(r)
  PROVE  TypeOK'
<1> USE DEF disk, locks, sweep, locals, answer, bounds
<1>1. CASE StartOpen(r)
  BY <1>1, ResolveType DEF StartOpen, TypeOK
<1>2. CASE ReadManifest(r)
  <2>1. Reread(r).manifest \in Manifest \cup {None}
    BY ResolveType DEF Reread, TypeOK, Dir
  <2> QED
    BY <1>2, <2>1 DEF ReadManifest, TypeOK
<1>3. CASE Accept(r)
  BY <1>3 DEF Accept, Close, TypeOK
<1>4. CASE Reject(r)
  BY <1>4 DEF Reject, Close, TypeOK
<1>5. ASSUME NEW m \in Module, VerifyModule(r, m) PROVE TypeOK'
  BY <1>5 DEF VerifyModule, TypeOK
<1> QED
  BY <1>1, <1>2, <1>3, <1>4, <1>5 DEF Open

\* ... and of the environment.
LEMMA TypeEnvironment ==
  ASSUME TypeOK, Environment
  PROVE  TypeOK'
<1> USE DEF disk, locks, sweep, locals, answer, readers, bounds, aside
<1>1. CASE OrphanAcquires
  BY <1>1 DEF OrphanAcquires, TypeOK
<1>2. CASE OrphanExits
  BY <1>2 DEF OrphanExits, TypeOK
<1>3. ASSUME NEW m \in Module, NEW v \in Version, Edit(m, v) PROVE TypeOK'
  <2>1. sources' \in Build
    BY <1>3 DEF Edit, TypeOK, Build
  <2> QED
    BY <1>3, <2>1 DEF Edit, TypeOK
<1>4. ASSUME NEW g \in Manifest, Damage(g) PROVE TypeOK'
  <2>1. gens' \in [Manifest -> Dir]
    <3>1. gens[g] \in Dir
      BY DEF TypeOK
    <3>2. [gens[g] EXCEPT !.manifest = None] \in Dir
      BY <3>1 DEF Dir
    <3>3. \A m \in Module : [gens[g] EXCEPT !.beams[m] = Damaged] \in Dir
      BY <3>1 DEF Dir
    <3> QED
      BY <1>4, <3>2, <3>3 DEF Damage, TypeOK
  <2>2. window' \in [Reader -> SUBSET (Manifest \cup {None})]
    BY <1>4, NamedType, WitnessType DEF Damage, TypeOK
  <2> QED
    BY <1>4, <2>1, <2>2, BoundAssumption DEF Damage, TypeOK
<1> QED
  BY <1>1, <1>2, <1>3, <1>4 DEF Environment

(***************************************************************************)
(* A step of one sweep leaves the values of the others alone.              *)
(***************************************************************************)

Step(w) == Begin(w) \/ Compile(w) \/ Acquire(w) \/ Publish(w) \/ Faulty(w)

\* The local values of a sweep, and its answer.
OwnAt(v) == <<pc[v], prior[v], seen[v], scanned[v], compiled[v], target[v],
              result[v], start[v], snap[v]>>

LEMMA Frame ==
  ASSUME TypeOK, NEW w \in Writer, Step(w), NEW v \in Writer \ {w}
  PROVE  OwnAt(v)' = OwnAt(v)
<1> USE DEF OwnAt, Goto, Return, locals, answer, TypeOK
<1>1. CASE Begin(w) \/ Compile(w) \/ Acquire(w)
  BY <1>1 DEF Begin, Compile, ShortCircuit, Changed, Scanned, Compiled,
     CompileFails, HashSource, ScanSource, ParseSource, ReadSource, Acquire
<1>2. CASE Publish(w)
  BY <1>2 DEF Publish, WriteOwner, CleanupStaging, StageCurrent, WriteBeams,
     SaveManifest, VerifyStage, InstallNew, KeepInstalled, Quarantine,
     Reinstall, PublishPointer, RemoveLegacyBeams, RemoveLegacyManifest,
     Unstage, Release, Reopen, RecordSource, ReadSource
<1>3. CASE Faulty(w)
  BY <1>3 DEF Faulty, OwnerWriteFails, LeakerExits, LockFails, Fail, Crash
<1> QED
  BY <1>1, <1>2, <1>3 DEF Step

\* The steps that are not taken by a sweep change no value of any sweep.
Outside == (\E r \in Reader : Open(r)) \/ Environment

LEMMA OutsideFrame ==
  ASSUME Outside
  PROVE  UNCHANGED <<sweep, stage, pointer, flat>>
BY DEF Outside, Open, StartOpen, ReadManifest, VerifyModule, Accept, Reject,
   Environment, OrphanAcquires, OrphanExits, Edit, Damage, disk, sweep

(***************************************************************************)
(* The lock, the local values and the stage.                               *)
(***************************************************************************)

LEMMA LockStep ==
  ASSUME TypeOK, LockInv, NEW w \in Writer, Step(w)
  PROVE  LockInv'
<1>1. \A v \in Writer \ {w} : pc'[v] = pc[v]
  BY Frame DEF OwnAt
<1>2. /\ pc'[w] \in InLock <=> lock' = w
      /\ \A v \in Writer \ {w} : lock' = v <=> lock = v
  <2> USE OrphanAssumption, NoneAssumption
      DEF LockInv, TypeOK, Goto, InLock, aside, locks
  <2>1. CASE Begin(w) \/ Compile(w) \/ Acquire(w)
    BY <2>1 DEF Begin, Compile, ShortCircuit, Changed, Scanned, Compiled,
       CompileFails, HashSource, ScanSource, ParseSource, Acquire
  <2>2. CASE Publish(w)
    BY <2>2 DEF Publish, WriteOwner, CleanupStaging, StageCurrent, WriteBeams,
       SaveManifest, VerifyStage, InstallNew, KeepInstalled, Quarantine,
       Reinstall, PublishPointer, RemoveLegacyBeams, RemoveLegacyManifest,
       Unstage, Release, Reopen, RecordSource
  <2>3. CASE Faulty(w)
    BY <2>3 DEF Faulty, OwnerWriteFails, LeakerExits, LockFails, Fail, Crash
  <2> QED
    BY <2>1, <2>2, <2>3 DEF Step
<1> QED
  BY <1>1, <1>2 DEF LockInv

LEMMA LocalsStep ==
  ASSUME TypeOK, LocalsInv, NEW w \in Writer, Step(w)
  PROVE  LocalsInv'
<1> DEFINE Good(v) ==
      /\ pc[v] = "parse" => scanned[v] \in Build
      /\ pc[v] \in {"wait", "owner", "clean", "stage", "write", "record",
                    "verify"} => compiled[v] \in [Module -> Beam]
      /\ pc[v] \in {"install", "reinstall", "point", "legacy", "forget",
                    "reopen"} => target[v] \in Manifest
<1>1. \A v \in Writer \ {w} : Good(v)'
  BY Frame DEF OwnAt, LocalsInv
<1>2. Good(w)'
  <2> USE DEF LocalsInv, TypeOK, Goto, locals
  <2>1. CASE Begin(w) \/ Compile(w) \/ Acquire(w)
    <3>1. CASE Scanned(w)
      <4>1. scanned'[w] = seen[w]
        BY <3>1 DEF Scanned
      <4>2. seen[w] \in Build
        BY <3>1, AllReadType DEF Scanned
      <4> QED
        BY <3>1, <4>1, <4>2, NoneAssumption DEF Scanned
    <3>2. CASE Compiled(w)
      <4>1. compiled'[w] \in [Module -> Beam]
        BY <3>2, CompiledType
      <4> QED
        BY <3>2, <4>1 DEF Compiled
    <3> QED
      BY <2>1, <3>1, <3>2 DEF Begin, Compile, ShortCircuit, Changed,
         CompileFails, HashSource, ScanSource, ParseSource, Acquire
  <2>2. CASE Publish(w)
    BY <2>2, NoneAssumption, IntactIsImage DEF Publish, WriteOwner, CleanupStaging,
       StageCurrent, WriteBeams, SaveManifest, VerifyStage, InstallNew,
       KeepInstalled, Quarantine, Reinstall, PublishPointer, RemoveLegacyBeams,
       RemoveLegacyManifest, Unstage, Release, Reopen, RecordSource, Intact
  <2>3. CASE Faulty(w)
    BY <2>3 DEF Faulty, OwnerWriteFails, LeakerExits, LockFails, Fail, Crash,
       Return
  <2> QED
    BY <2>1, <2>2, <2>3 DEF Step
<1> QED
  BY <1>1, <1>2 DEF LocalsInv

\* Only a sweep that holds the lock touches a staging directory, and it fills
\* no directory but its own.
LEMMA StageFrame ==
  ASSUME TypeOK, NEW w \in Writer, Step(w)
  PROVE  /\ pc[w] \notin InLock => stage' = stage
         /\ \A v \in Writer \ {w} : stage'[v] \in {stage[v], EmptyDir}
<1> USE DEF TypeOK, Goto, disk, aside, InLock
<1>1. CASE Begin(w) \/ Compile(w) \/ Acquire(w)
  BY <1>1 DEF Begin, Compile, ShortCircuit, Changed, Scanned, Compiled,
     CompileFails, HashSource, ScanSource, ParseSource, Acquire
<1>2. CASE Publish(w)
  BY <1>2 DEF Publish, WriteOwner, CleanupStaging, StageCurrent, WriteBeams,
     SaveManifest, VerifyStage, InstallNew, KeepInstalled, Quarantine,
     Reinstall, PublishPointer, RemoveLegacyBeams, RemoveLegacyManifest,
     Unstage, Release, Reopen, RecordSource, MoveStage
<1>3. CASE Faulty(w)
  BY <1>3 DEF Faulty, OwnerWriteFails, LeakerExits, LockFails, Fail, Crash
<1> QED
  BY <1>1, <1>2, <1>3 DEF Step

\* At most one sweep is staging.
LEMMA OneStager ==
  ASSUME LockInv, NEW v \in Writer, NEW w \in Writer \ {v}, pc[v] \in Staging
  PROVE  pc[w] \notin InLock
BY DEF LockInv, Staging, InLock

LEMMA StageStep ==
  ASSUME StoreInv, NEW w \in Writer, Step(w)
  PROVE  StageInv'
<1> DEFINE Alone(v) == pc[v] \in Staging =>
                         \A u \in Writer \ {v} : stage[u] = EmptyDir
           Holds(v) ==
             /\ pc[v] = "record" =>
                  stage[v] = [manifest |-> None, beams |-> compiled[v]]
             /\ pc[v] = "verify" =>
                  /\ AllRead(v)
                  /\ stage[v] = [manifest |->
                                   [source |-> seen[v],
                                    code   |-> [m \in Module |->
                                                  compiled[v][m].code]],
                                 beams |-> compiled[v]]
             /\ pc[v] \in {"install", "reinstall"} =>
                  stage[v] = DirOf(target[v])
<1>1. ASSUME NEW v \in Writer \ {w} PROVE Alone(v)' /\ Holds(v)'
  <2>1. OwnAt(v)' = OwnAt(v)
    BY <1>1, Frame DEF StoreInv
  <2>2. ASSUME pc[v] \in Staging PROVE stage' = stage
    BY <2>2, OneStager, StageFrame DEF StoreInv
  <2> QED
    BY <2>1, <2>2 DEF OwnAt, StoreInv, StageInv, Staging, AllRead
<1>2. Alone(w)'
  <2>1. ASSUME pc'[w] \in Staging, pc[w] \in Staging PROVE Alone(w)'
    BY <2>1, StageFrame DEF StoreInv, StageInv
  <2>2. ASSUME pc'[w] \in Staging, pc[w] \notin Staging PROVE CleanupStaging(w)
    <3> USE DEF Staging, Goto, StoreInv, TypeOK, locals
    <3>1. CASE Begin(w) \/ Compile(w) \/ Acquire(w)
      BY <2>2, <3>1 DEF Begin, Compile, ShortCircuit, Changed, Scanned, Compiled,
         CompileFails, HashSource, ScanSource, ParseSource, Acquire
    <3>2. CASE Publish(w)
      BY <2>2, <3>2 DEF Publish, WriteOwner, StageCurrent, WriteBeams,
         SaveManifest, VerifyStage, InstallNew, KeepInstalled, Quarantine,
         Reinstall, PublishPointer, RemoveLegacyBeams, RemoveLegacyManifest,
         Unstage, Release, Reopen, RecordSource
    <3>3. CASE Faulty(w)
      BY <2>2, <3>3 DEF Faulty, OwnerWriteFails, LeakerExits, LockFails, Fail,
         Crash
    <3> QED
      BY <3>1, <3>2, <3>3 DEF Step
  <2>3. CleanupStaging(w) => Alone(w)'
    BY DEF CleanupStaging
  <2> QED
    BY <2>1, <2>2, <2>3
<1>3. Holds(w)'
  <2> USE DEF StoreInv, StageInv, TypeOK, Goto, locals, disk
  <2>1. CASE Begin(w) \/ Compile(w) \/ Acquire(w)
    BY <2>1 DEF Begin, Compile, ShortCircuit, Changed, Scanned, Compiled,
       CompileFails, HashSource, ScanSource, ParseSource, Acquire
  <2>2. CASE WriteBeams(w)
    BY <2>2 DEF WriteBeams, Dir
  <2>3. CASE SaveManifest(w)
    <3>1. /\ pc'[w] = "verify" /\ AllRead(w)'
          /\ compiled'[w] = compiled[w] /\ seen'[w] = seen[w]
      BY <2>3 DEF SaveManifest, AllRead
    <3>2. stage[w] = [manifest |-> None, beams |-> compiled[w]]
      BY <2>3 DEF SaveManifest
    <3>3. stage'[w] = [stage[w] EXCEPT !.manifest =
                         [source |-> seen[w],
                          code |-> [m \in Module |-> stage[w].beams[m].code]]]
      BY <2>3 DEF SaveManifest
    <3>4. stage[w].beams = compiled[w]
      BY <3>2
    <3>5. \A mf : [[manifest |-> None, beams |-> compiled[w]]
                     EXCEPT !.manifest = mf]
                    = [manifest |-> mf, beams |-> compiled[w]]
      OBVIOUS
    <3> DEFINE mf == [source |-> seen[w],
                      code   |-> [m \in Module |-> compiled[w][m].code]]
    <3>6. stage'[w] = [stage[w] EXCEPT !.manifest = mf]
      BY <3>3, <3>4
    <3> HIDE DEF mf
    <3>7. stage'[w] = [manifest |-> mf, beams |-> compiled[w]]
      BY <3>2, <3>5, <3>6
    <3> QED
      BY <3>1, <3>7 DEF mf
  <2>4. CASE VerifyStage(w)
    BY <2>4, IntactIsImage DEF VerifyStage
  <2>5. ASSUME NEW m \in Module, RecordSource(w, m) PROVE Holds(w)'
    BY <2>5 DEF RecordSource
  <2>6. CASE Quarantine(w)
    BY <2>6 DEF Quarantine
  <2>7. CASE Publish(w)
    BY <2>2, <2>3, <2>4, <2>5, <2>6, <2>7 DEF Publish, WriteOwner,
       CleanupStaging, StageCurrent, InstallNew, KeepInstalled,
       Reinstall, PublishPointer, RemoveLegacyBeams, RemoveLegacyManifest,
       Unstage, Release, Reopen
  <2>8. CASE Faulty(w)
    BY <2>8 DEF Faulty, OwnerWriteFails, LeakerExits, LockFails, Fail, Crash
  <2> QED
    BY <2>1, <2>7, <2>8 DEF Step
<1> QED
  BY <1>1, <1>2, <1>3 DEF StageInv

\* Nothing outside the sweeps disturbs the lock, their values or their stages.
LEMMA OutsideStep ==
  ASSUME StoreInv, Outside
  PROVE  LockInv' /\ LocalsInv' /\ StageInv'
<1>1. UNCHANGED <<sweep, stage>>
  BY OutsideFrame
<1>2. \A w \in Writer : lock' = w <=> lock = w
  BY OrphanAssumption, NoneAssumption DEF Outside, Open, StartOpen,
     ReadManifest, VerifyModule, Accept, Reject, Environment, OrphanAcquires,
     OrphanExits, Edit, Damage, locks
<1> QED
  BY <1>1, <1>2 DEF StoreInv, LockInv, LocalsInv, StageInv, AllRead, sweep,
     locals

\* The invariant is inductive.
LEMMA StoreInit == Init => StoreInv
BY TypeInit, NoneAssumption DEF Init, StoreInv, LockInv, LocalsInv, StageInv,
   InLock, Staging

LEMMA StoreNext ==
  ASSUME StoreInv, [Next]_vars
  PROVE  StoreInv'
<1>1. ASSUME NEW w \in Writer, Step(w) PROVE StoreInv'
  <2>1. TypeOK'
    BY <1>1, TypeSweep, TypePublish, TypeFaulty DEF Step
  <2> QED
    BY <1>1, <2>1, LockStep, LocalsStep, StageStep DEF StoreInv
<1>2. CASE Outside
  <2>1. TypeOK'
    BY <1>2, TypeOpen, TypeEnvironment DEF Outside, StoreInv
  <2> QED
    BY <1>2, <2>1, OutsideStep DEF StoreInv
<1>3. CASE UNCHANGED vars
  BY <1>3 DEF vars, disk, locks, sweep, locals, answer, readers, bounds,
     StoreInv, TypeOK, LockInv, LocalsInv, StageInv, AllRead
<1> QED
  BY <1>1, <1>2, <1>3 DEF Next, Step, Outside

THEOREM StoreInvariant == Spec => []StoreInv
BY StoreInit, StoreNext, PTL DEF Spec

\* Every variable keeps its type: in particular a manifest that was saved
\* records a source and a BEAM for every module.
THEOREM TypesHold == Spec => []TypeOK
<1>1. StoreInv => TypeOK
  BY DEF StoreInv
<1> QED
  BY <1>1, StoreInvariant, PTL

\* Whatever other writers, crashes and cleanups do, a writer renames into place
\* exactly the directory it verified.
THEOREM StagesArePrivate == Spec => []StagePrivate
<1>1. StoreInv => StagePrivate
  BY DEF StoreInv, StageInv, StagePrivate, Staging
<1> QED
  BY <1>1, StoreInvariant, PTL

(***************************************************************************)
(* Whoever waits, waits for somebody.                                      *)
(***************************************************************************)

\* A sweep hashes sources only to compare them with a set it found.
HashInv == \A w \in Writer :
  pc[w] = "idle" \/ (pc[w] = "hash" /\ prior[w] = None) => seen[w] = NothingRead

LEMMA HashInit == Init => HashInv
BY DEF Init, HashInv

LEMMA HashStep ==
  ASSUME TypeOK, HashInv, NEW w \in Writer, Step(w)
  PROVE  HashInv'
<1> DEFINE Unread(v) == pc[v] = "idle" \/ (pc[v] = "hash" /\ prior[v] = None)
                          => seen[v] = NothingRead
<1>1. \A v \in Writer \ {w} : Unread(v)'
  <2>1. \A v \in Writer \ {w} :
          pc'[v] = pc[v] /\ prior'[v] = prior[v] /\ seen'[v] = seen[v]
    BY Frame DEF OwnAt
  <2> QED BY <2>1 DEF HashInv, NothingRead
<1>2. Unread(w)'
  <2> USE DEF HashInv, TypeOK, Goto, locals, InLock, Return, NothingRead
  <2>1. CASE Begin(w) \/ Compile(w) \/ Acquire(w)
    BY <2>1 DEF Begin, Compile, ShortCircuit, Changed, Scanned, Compiled,
       CompileFails, HashSource, ScanSource, ParseSource, Acquire
  <2>2. CASE Publish(w)
    BY <2>2 DEF Publish, WriteOwner, CleanupStaging, StageCurrent, WriteBeams,
       SaveManifest, VerifyStage, InstallNew, KeepInstalled, Quarantine,
       Reinstall, PublishPointer, RemoveLegacyBeams, RemoveLegacyManifest,
       Unstage, Release, Reopen, RecordSource
  <2>3. CASE Faulty(w)
    BY <2>3 DEF Faulty, OwnerWriteFails, LeakerExits, LockFails, Fail, Crash
  <2> QED BY <2>1, <2>2, <2>3 DEF Step
<1> QED BY <1>1, <1>2 DEF HashInv, NothingRead

LEMMA HashNext ==
  ASSUME StoreInv, HashInv, [Next]_vars
  PROVE  HashInv'
<1>1. ASSUME NEW w \in Writer, Step(w) PROVE HashInv'
  BY <1>1, HashStep DEF StoreInv
<1>2. CASE Outside
  BY <1>2, OutsideFrame DEF HashInv, NothingRead, sweep, locals
<1>3. CASE UNCHANGED vars
  BY <1>3 DEF vars, sweep, locals, HashInv, NothingRead
<1> QED BY <1>1, <1>2, <1>3 DEF Next, Step, Outside

\* The lock of a store whose invariant holds is free, a child's that exits, or
\* that of a sweep inside with_lock, which can go on unless it leaked the lock.
LEMMA HolderGoesOn ==
  ASSUME TypeOK, LockInv, lock \notin {None, Orphan}
  PROVE  \E v \in Writer : lock = v /\ (HasStep(v) \/ pc[v] = "leaked")
<1>1. PICK v \in Writer : lock = v
  BY DEF TypeOK
<1>2. pc[v] \in InLock
  BY <1>1 DEF LockInv
<1> QED BY <1>1, <1>2 DEF HasStep

\* For any number of sweeps, crashes and failing file operations: each sweep
\* that has begun can go on, or waits for a lock that somebody can give back.
THEOREM SweepsWaitForSomebody == Spec => []NobodyWaitsInVain
<1>1. StoreInv /\ HashInv => NobodyWaitsInVain
  <2> SUFFICES ASSUME StoreInv, HashInv, NEW w \in Writer, pc[w] # "idle",
                      ~HasStep(w), pc[w] # "leaked"
               PROVE  /\ pc[w] = "wait"
                      /\ \/ lock \in {None, Orphan}
                         \/ \E v \in Writer : lock = v /\ (HasStep(v) \/ pc[v] = "leaked")
    BY DEF NobodyWaitsInVain
  <2>1. pc[w] \in InLock \cup {"hash", "scan", "parse", "wait", "reopen"}
    BY DEF StoreInv, TypeOK
  <2>2. pc[w] # "hash"
    BY DEF HashInv, HasStep
  <2>3. pc[w] = "wait"
    BY <2>1, <2>2 DEF HasStep
  <2> QED BY <2>3, HolderGoesOn DEF StoreInv
<1>2. StoreInv /\ HashInv /\ [Next]_vars => HashInv'
  BY HashNext
<1> QED BY <1>1, <1>2, HashInit, StoreInvariant, PTL DEF Spec

==============================================================================
