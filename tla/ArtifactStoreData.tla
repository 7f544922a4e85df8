-------------------------- MODULE ArtifactStoreData --------------------------
(***************************************************************************)
(* What a published generation holds, as long as no edit brings an earlier *)
(* content of a file back: theorems for every set of writers, readers and  *)
(* modules.  The run ArtifactStore_stale shows that the assumption ~Reverts*)
(* is needed.                                                              *)
(*                                                                         *)
(* The argument.  A sweep reads each source three times: for its hash, for *)
(* the parser, and for the record it saves under the lock.  Contents only  *)
(* move forward, and all modules are scanned before any is recorded, so a  *)
(* scanned hash is at most, and a recorded one at least, the source tree   *)
(* `snap` of the moment between.  Verification demands that both agree:    *)
(* then both are `snap`, and so is whatever was parsed in between.         *)
(***************************************************************************)
EXTENDS ArtifactStoreProofs

\* No module is newer in the tree a than in the tree b.
Older(a, b) == \A m \in Module : a[m] <= b[m]

\* What has been read so far lies between two trees.
Between(lo, s, hi) == \A m \in Module :
                        s[m] # None => lo[m] <= s[m] /\ s[m] <= hi[m]

SourcesInv == /\ sources \in past
              /\ \A b \in past : Older(b, sources)

\* The directories of the store hold images of past source trees.
StoredInv == /\ GenerationsAreSnapshots
             /\ flat.manifest # None => flat.manifest \in Snapshots
             /\ pointer # None => pointer \in Snapshots

Scans == {"parse", "wait", "owner", "clean", "stage", "write", "record",
          "verify"}

\* Where the reading passes of a sweep lie in the history of the sources.
Pass(w) ==
  /\ pc[w] # "idle" => start[w] \in Build /\ Older(start[w], sources)
  /\ pc[w] \in {"idle", "wait", "owner", "clean", "stage", "write"} =>
       seen[w] = NothingRead
  /\ prior[w] # None => prior[w] \in Snapshots
  /\ pc[w] \in {"hash", "scan"} => Between(start[w], seen[w], sources)
  /\ pc[w] \in Scans => /\ snap[w] \in past /\ scanned[w] \in Build
                        /\ Older(start[w], scanned[w])
                        /\ Older(scanned[w], snap[w])
  /\ pc[w] \in {"parse", "record", "verify"} =>
       Between(snap[w], seen[w], sources)

PassInv == \A w \in Writer : Pass(w)

\* A BEAM in memory is faithful, or its code was read after the scan.
Faithful(w) == pc[w] \in Scans \ {"parse"} => \A m \in Module :
  /\ compiled[w][m].prov = scanned[w][m]
  /\ \/ compiled[w][m].code = scanned[w][m]
     \/ /\ snap[w][m] <= compiled[w][m].code
        /\ compiled[w][m].code <= sources[m]
        /\ pc[w] \in {"record", "verify"} /\ seen[w][m] # None =>
             compiled[w][m].code <= seen[w][m]

BeamInv == \A w \in Writer : Faithful(w)

\* What passed verification is faithful, and at least as new as the sweep.
TargetInv == \A w \in Writer :
  /\ pc[w] = "idle" => target[w] = None
  /\ target[w] # None => /\ target[w] \in Snapshots
                         /\ Older(start[w], target[w].source)

\* The same holds of what a sweep answered.
AnswerInv == \A w \in Writer : result[w] # None =>
  /\ result[w] \in Snapshots /\ start[w] \in Build
  /\ Older(start[w], result[w].source)

DataInv == /\ StoreInv /\ SourcesInv /\ StoredInv /\ PassInv /\ BeamInv
           /\ TargetInv /\ AnswerInv

(***************************************************************************)
(* The source tree moves forward.                                          *)
(***************************************************************************)

LEMMA OlderTransitive ==
  ASSUME NEW a \in Build, NEW b \in Build, NEW c \in Build,
         Older(a, b), Older(b, c)
  PROVE  Older(a, c)
BY VersionAssumption DEF Older, Build, Version

LEMMA StepKeepsSources ==
  ASSUME NEW w \in Writer, Step(w)
  PROVE  UNCHANGED <<sources, past>>
<1> USE DEF aside
<1>1. CASE Begin(w) \/ Compile(w) \/ Acquire(w)
  BY <1>1 DEF Begin, Compile, ShortCircuit, Changed, Scanned, Compiled,
     CompileFails, HashSource, ScanSource, ParseSource, Acquire
<1>2. CASE Publish(w)
  BY <1>2 DEF Publish, WriteOwner, CleanupStaging, StageCurrent, WriteBeams,
     SaveManifest, VerifyStage, InstallNew, KeepInstalled, Quarantine,
     Reinstall, PublishPointer, RemoveLegacyBeams, RemoveLegacyManifest,
     Unstage, Release, Reopen, RecordSource
<1>3. CASE Faulty(w)
  BY <1>3 DEF Faulty, OwnerWriteFails, LeakerExits, LockFails, Fail, Crash
<1> QED
  BY <1>1, <1>2, <1>3 DEF Step

LEMMA OutsideAdvancesSources ==
  ASSUME ~Reverts, TypeOK, SourcesInv, Outside
  PROVE  /\ SourcesInv'
         /\ past \subseteq past'
         /\ Older(sources, sources')
<1>1. CASE UNCHANGED <<sources, past>>
  BY <1>1, VersionAssumption DEF SourcesInv, Older, TypeOK, Build, Version
<1>2. ASSUME NEW m \in Module, NEW v \in Version, Edit(m, v)
      PROVE  /\ sources' \in Build
             /\ Older(sources, sources')
             /\ past' = past \cup {sources'}
  BY <1>2, VersionAssumption DEF Edit, Older, TypeOK, Build, Version
<1>3. ASSUME /\ sources' \in Build
             /\ Older(sources, sources')
             /\ past' = past \cup {sources'}
      PROVE  SourcesInv'
  <2>1. Older(sources', sources')
    BY <1>3, VersionAssumption DEF Older, Build, Version
  <2>2. \A b \in past : Older(b, sources')
    BY <1>3, OlderTransitive DEF SourcesInv, TypeOK
  <2> QED
    BY <1>3, <2>1, <2>2 DEF SourcesInv
<1> QED
  BY <1>1, <1>2, <1>3 DEF Outside, Open, StartOpen, ReadManifest, VerifyModule,
     Accept, Reject, Environment, OrphanAcquires, OrphanExits, Damage, aside

(***************************************************************************)
(* The reading passes of a sweep.                                          *)
(***************************************************************************)

\* Reading the current content of one more source keeps it in bounds.
LEMMA BetweenRead ==
  ASSUME TypeOK, NEW lo \in Build, Older(lo, sources), NEW w \in Writer,
         Between(lo, seen[w], sources), NEW m \in Module, ReadSource(w, m)
  PROVE  Between(lo, seen'[w], sources)
<1>1. /\ seen'[w][m] = sources[m]
      /\ \A n \in Module \ {m} : seen'[w][n] = seen[w][n]
  BY DEF ReadSource, TypeOK
<1>2. sources[m] <= sources[m]
  BY VersionAssumption DEF TypeOK, Build, Version
<1> QED
  BY <1>1, <1>2 DEF Between, Older

\* Nothing read is in bounds.
LEMMA BetweenNone ==
  ASSUME NEW lo, NEW hi
  PROVE  Between(lo, NothingRead, hi)
BY DEF Between, NothingRead

\* A complete pass is a tree between the two.
LEMMA BetweenAll ==
  ASSUME TypeOK, NEW w \in Writer, AllRead(w), NEW lo, NEW hi,
         Between(lo, seen[w], hi)
  PROVE  seen[w] \in Build /\ Older(lo, seen[w]) /\ Older(seen[w], hi)
BY AllReadType DEF Between, AllRead, Older

\* The set a reader of the store decodes is the image of a past tree.
LEMMA DecodedType ==
  ASSUME TypeOK, StoredInv, DirAt(Resolve).manifest # None
  PROVE  DirAt(Resolve).manifest \in Snapshots
<1>1. CASE Resolve = None
  BY <1>1 DEF DirAt, StoredInv
<1>2. CASE Resolve # None
  BY <1>2 DEF DirAt, Resolve, StoredInv, GenerationsAreSnapshots, TypeOK
<1> QED
  BY <1>1, <1>2

LEMMA PassStep ==
  ASSUME DataInv, NEW w \in Writer, Step(w)
  PROVE  PassInv'
<1> USE DEF DataInv, StoreInv
<1>0. UNCHANGED <<sources, past>> /\ Snapshots' = Snapshots
  BY StepKeepsSources DEF Snapshots
<1>1. \A v \in Writer \ {w} : Pass(v)'
  BY <1>0, Frame DEF OwnAt, PassInv, Pass
<1>2. Pass(w)'
  <2> Pass(w)
    BY DEF PassInv, Pass
  <2> Older(sources, sources) /\ sources \in Build
    BY VersionAssumption DEF SourcesInv, TypeOK
  <2> USE DEF Pass, Scans, Goto, locals, answer
  <2>1. CASE Begin(w)
    <3>1. prior'[w] # None => prior'[w] \in Snapshots
      BY <2>1, DecodedType, NoneAssumption DEF Begin, TypeOK, Intact
    <3> QED
      BY <1>0, <2>1, <3>1, BetweenNone DEF Begin, TypeOK
  <2>2. ASSUME NEW m \in Module,
               HashSource(w, m) \/ ScanSource(w, m) \/ ParseSource(w, m)
                 \/ RecordSource(w, m)
        PROVE  Pass(w)'
    <3>1. CASE HashSource(w, m) \/ ScanSource(w, m)
      <4>1. Between(start[w], seen'[w], sources)
        BY <3>1, BetweenRead DEF HashSource, ScanSource
      <4> QED
        BY <1>0, <3>1, <4>1 DEF HashSource, ScanSource
    <3>2. CASE ParseSource(w, m) \/ RecordSource(w, m)
      <4>1. snap[w] \in Build /\ Older(snap[w], sources)
        BY <3>2 DEF ParseSource, RecordSource, SourcesInv, TypeOK
      <4>2. Between(snap[w], seen'[w], sources)
        BY <3>2, <4>1, BetweenRead DEF ParseSource, RecordSource
      <4> QED
        BY <1>0, <3>2, <4>2 DEF ParseSource, RecordSource
    <3> QED
      BY <2>2, <3>1, <3>2
  <2>3. CASE Changed(w)
    BY <1>0, <2>3, BetweenNone DEF Changed, TypeOK
  <2>4. CASE Scanned(w)
    <3>1. seen[w] \in Build /\ Older(start[w], seen[w]) /\ Older(seen[w], sources)
      BY <2>4, BetweenAll DEF Scanned
    <3>2. /\ scanned'[w] = seen[w] /\ snap'[w] = sources
          /\ seen'[w] = NothingRead /\ start'[w] = start[w]
          /\ prior'[w] = prior[w] /\ pc'[w] = "parse"
      BY <2>4 DEF Scanned, TypeOK
    <3> QED
      BY <1>0, <2>4, <3>1, <3>2, BetweenNone DEF SourcesInv, Scanned
  <2>5. CASE Compiled(w)
    BY <1>0, <2>5 DEF Compiled, TypeOK
  <2>6. CASE Acquire(w)
    BY <1>0, <2>6 DEF Acquire, TypeOK
  <2>7. CASE ShortCircuit(w) \/ CompileFails(w)
    BY <1>0, <2>7 DEF ShortCircuit, CompileFails, Return, TypeOK
  <2>8. CASE WriteBeams(w)
    BY <1>0, <2>8, BetweenNone DEF WriteBeams, TypeOK
  <2>9. CASE VerifyStage(w)
    BY <1>0, <2>9 DEF VerifyStage, TypeOK
  <2>10. CASE Publish(w)
    BY <1>0, <2>2, <2>8, <2>9, <2>10 DEF Publish, WriteOwner, CleanupStaging,
       StageCurrent, SaveManifest, InstallNew, KeepInstalled,
       Quarantine, Reinstall, PublishPointer, RemoveLegacyBeams,
       RemoveLegacyManifest, Unstage, Release, Reopen, Return, TypeOK
  <2>11. CASE Faulty(w)
    BY <1>0, <2>11 DEF Faulty, OwnerWriteFails, LeakerExits, LockFails, Fail,
       Crash, Return, TypeOK
  <2> QED
    BY <2>1, <2>2, <2>3, <2>4, <2>5, <2>6, <2>7, <2>10, <2>11 DEF Step, Compile
<1> QED
  BY <1>1, <1>2 DEF PassInv, Pass

\* When an edit is saved, or a reader moves, every pass stays within bounds.
LEMMA PassOutside ==
  ASSUME ~Reverts, DataInv, Outside
  PROVE  PassInv'
<1> USE DEF DataInv, StoreInv
<1>1. SourcesInv' /\ past \subseteq past' /\ Older(sources, sources')
  BY OutsideAdvancesSources
<1>2. UNCHANGED <<pc, prior, seen, scanned, start, snap>>
  BY OutsideFrame DEF sweep, locals, answer
<1>3. sources \in Build /\ sources' \in Build
  BY TypeOpen, TypeEnvironment DEF Outside, TypeOK
<1>4. ASSUME NEW lo, NEW s \in [Module -> Version \cup {None}],
             Between(lo, s, sources)
      PROVE  Between(lo, s, sources')
  BY <1>1, <1>3, <1>4, VersionAssumption, NoneAssumption
     DEF Between, Older, Build, Version
<1>5. Snapshots \subseteq Snapshots'
  BY <1>1 DEF Snapshots
<1> SUFFICES ASSUME NEW w \in Writer PROVE Pass(w)'
  BY DEF PassInv
<1>6. Pass(w) /\ seen[w] \in [Module -> Version \cup {None}]
  BY DEF PassInv, TypeOK
<1>7. start[w] \in Build /\ Older(start[w], sources) => Older(start[w], sources')
  BY <1>1, <1>3, OlderTransitive
<1> QED
  BY <1>1, <1>2, <1>4, <1>5, <1>6, <1>7 DEF Pass

(***************************************************************************)
(* The BEAMs a sweep has in memory.                                        *)
(***************************************************************************)

LEMMA BeamStep ==
  ASSUME DataInv, NEW w \in Writer, Step(w)
  PROVE  BeamInv'
<1> USE DEF DataInv, StoreInv
<1>0. UNCHANGED <<sources, past>>
  BY StepKeepsSources
<1>1. \A v \in Writer \ {w} : Faithful(v)'
  BY <1>0, Frame DEF OwnAt, BeamInv, Faithful
<1>2. Faithful(w)'
  <2> Faithful(w) /\ Pass(w)
    BY DEF BeamInv, PassInv
  <2> USE DEF Faithful, Scans, Goto, locals, answer, TypeOK
  <2>1. CASE Compiled(w)
    <3>1. /\ pc'[w] = "wait" /\ scanned' = scanned /\ snap' = snap
          /\ pc[w] = "parse" /\ AllRead(w)
      BY <2>1 DEF Compiled
    <3>2. PICK reused \in SUBSET ReusableBeams(w) :
            compiled' = [compiled EXCEPT ![w] =
              [m \in Module |->
                 [prov |-> scanned[w][m],
                  code |-> IF m \in reused THEN prior[w].code[m]
                                           ELSE seen[w][m]]]]
      BY <2>1 DEF Compiled
    <3>3. ASSUME NEW m \in Module
          PROVE  /\ compiled'[w][m].prov = scanned[w][m]
                 /\ \/ compiled'[w][m].code = scanned[w][m]
                    \/ /\ snap[w][m] <= compiled'[w][m].code
                       /\ compiled'[w][m].code <= sources[m]
      <4>1. compiled'[w][m] = [prov |-> scanned[w][m],
                               code |-> IF m \in reused THEN prior[w].code[m]
                                                        ELSE seen[w][m]]
        BY <3>2
      <4>2. m \in reused => prior[w].code[m] = scanned[w][m]
        BY <3>2 DEF ReusableBeams, Pass, Snapshots, Snapshot
      <4>3. snap[w][m] <= seen[w][m] /\ seen[w][m] <= sources[m]
        BY <3>1 DEF Pass, Between, AllRead
      <4> QED
        BY <4>1, <4>2, <4>3
    <3> QED
      BY <1>0, <3>1, <3>3
  <2>2. CASE Begin(w) \/ Compile(w) \/ Acquire(w)
    BY <1>0, <2>1, <2>2 DEF Begin, Compile, ShortCircuit, Changed, Scanned,
       CompileFails, HashSource, ScanSource, ParseSource, Acquire
  <2>3. CASE WriteBeams(w)
    BY <1>0, <2>3 DEF WriteBeams, Pass, NothingRead
  <2>4. ASSUME NEW m \in Module, RecordSource(w, m) PROVE Faithful(w)'
    <3>1. /\ pc'[w] = "record" /\ pc[w] = "record" /\ scanned' = scanned
          /\ snap' = snap /\ compiled' = compiled
          /\ seen' = [seen EXCEPT ![w][m] = sources[m]]
      BY <2>4 DEF RecordSource, ReadSource
    <3>2. /\ seen'[w][m] = sources[m]
          /\ \A n \in Module \ {m} : seen'[w][n] = seen[w][n]
      BY <3>1
    <3>3. ASSUME NEW n \in Module
          PROVE  /\ compiled[w][n].prov = scanned[w][n]
                 /\ \/ compiled[w][n].code = scanned[w][n]
                    \/ /\ snap[w][n] <= compiled[w][n].code
                       /\ compiled[w][n].code <= sources[n]
                       /\ seen'[w][n] # None =>
                            compiled[w][n].code <= seen'[w][n]
      BY <3>1, <3>2
    <3> QED
      BY <1>0, <3>1, <3>3
  <2>5. CASE SaveManifest(w)
    BY <1>0, <2>5 DEF SaveManifest
  <2>6. CASE VerifyStage(w)
    <3>1. pc'[w] \notin Scans
      BY <2>6 DEF VerifyStage
    <3> QED
      BY <3>1
  <2>7. CASE Publish(w)
    <3>1. CASE WriteOwner(w) \/ CleanupStaging(w) \/ StageCurrent(w)
      BY <1>0, <3>1 DEF WriteOwner, CleanupStaging, StageCurrent
    <3>2. ASSUME \/ InstallNew(w) \/ KeepInstalled(w) \/ Quarantine(w)
                 \/ Reinstall(w) \/ PublishPointer(w) \/ RemoveLegacyBeams(w)
                 \/ RemoveLegacyManifest(w) \/ Unstage(w) \/ Release(w)
                 \/ Reopen(w)
          PROVE  pc'[w] \notin Scans
      BY <3>2 DEF InstallNew, KeepInstalled, Quarantine, Reinstall,
         PublishPointer, RemoveLegacyBeams, RemoveLegacyManifest, Unstage,
         Release, Reopen
    <3> QED
      BY <2>3, <2>4, <2>5, <2>6, <2>7, <3>1, <3>2 DEF Publish
  <2>8. CASE Faulty(w)
    BY <1>0, <2>8 DEF Faulty, OwnerWriteFails, LeakerExits, LockFails, Fail,
       Crash
  <2> QED
    BY <2>2, <2>7, <2>8 DEF Step
<1> QED
  BY <1>1, <1>2 DEF BeamInv

LEMMA BeamOutside ==
  ASSUME ~Reverts, DataInv, Outside
  PROVE  BeamInv'
<1> USE DEF DataInv, StoreInv
<1>1. Older(sources, sources')
  BY OutsideAdvancesSources
<1>2. UNCHANGED <<pc, seen, scanned, compiled, snap>>
  BY OutsideFrame DEF sweep, locals
<1>3. sources \in Build /\ sources' \in Build
  BY TypeOpen, TypeEnvironment DEF Outside, TypeOK
<1> SUFFICES ASSUME NEW w \in Writer, pc[w] \in Scans \ {"parse"},
                    NEW m \in Module
             PROVE  \/ compiled[w][m].code = scanned[w][m]
                    \/ compiled[w][m].code <= sources[m] =>
                         compiled[w][m].code <= sources'[m]
  BY <1>2 DEF BeamInv, Faithful
<1>4. compiled[w][m].code \in Version
  BY DEF LocalsInv, Scans, Beam
<1>5. sources[m] \in Version /\ sources'[m] \in Version /\ sources[m] <= sources'[m]
  BY <1>1, <1>3 DEF Older, Build
<1> QED
  BY <1>4, <1>5, VersionAssumption DEF Version

(***************************************************************************)
(* What is verified, stored and answered.                                  *)
(***************************************************************************)

\* The heart of the matter: a stage that verifies holds the image of the very
\* tree the sources were in when its sweep ended its scan.
LEMMA VerifiedIsSnapshot ==
  ASSUME DataInv, NEW w \in Writer, pc[w] = "verify", Intact(stage[w])
  PROVE  /\ snap[w] \in past
         /\ stage[w].manifest = Snapshot(snap[w])
         /\ Older(start[w], snap[w])
<1> USE DEF DataInv, StoreInv
<1> DEFINE code == [m \in Module |-> compiled[w][m].code]
<1>1. Pass(w) /\ Faithful(w)
  BY DEF PassInv, BeamInv
<1>2. /\ AllRead(w)
      /\ stage[w].beams = compiled[w]
      /\ stage[w].manifest = [source |-> seen[w], code |-> code]
  <2>1. /\ AllRead(w)
        /\ stage[w] = [manifest |-> [source |-> seen[w], code |-> code],
                       beams    |-> compiled[w]]
    BY DEF StageInv
  <2> HIDE DEF code
  <2> QED
    BY <2>1
<1>3. /\ snap[w] \in past /\ snap[w] \in Build /\ scanned[w] \in Build
      /\ seen[w] \in Build
      /\ Older(start[w], scanned[w]) /\ Older(scanned[w], snap[w])
      /\ Older(snap[w], seen[w])
  BY <1>1, <1>2, BetweenAll DEF Pass, Scans, TypeOK
<1>4. compiled[w] \in [Module -> Beam]
  BY DEF LocalsInv
<1>5. ASSUME NEW m \in Module
      PROVE  seen[w][m] = snap[w][m] /\ code[m] = snap[w][m]
  <2>1. compiled[w][m].prov = seen[w][m]
    <3>1. compiled[w][m] = [prov |-> stage[w].manifest.source[m],
                            code |-> stage[w].manifest.code[m]]
      BY <1>2 DEF Intact, Matches
    <3>2. stage[w].manifest.source = seen[w]
      BY <1>2
    <3> QED
      BY <3>1, <3>2
  <2>2. scanned[w][m] = seen[w][m]
    BY <1>1, <2>1 DEF Faithful, Scans
  <2>3. /\ scanned[w][m] \in Version /\ snap[w][m] \in Version
        /\ compiled[w][m].code \in Version
        /\ scanned[w][m] <= snap[w][m] /\ snap[w][m] <= seen[w][m]
    BY <1>3, <1>4 DEF Build, Older, Beam
  <2>4. seen[w][m] = snap[w][m]
    BY <2>2, <2>3, VersionAssumption DEF Version
  <2>5. \/ compiled[w][m].code = scanned[w][m]
        \/ /\ snap[w][m] <= compiled[w][m].code
           /\ compiled[w][m].code <= seen[w][m]
    BY <1>1, <1>2 DEF Faithful, Scans, AllRead
  <2> QED
    BY <2>2, <2>3, <2>4, <2>5, VersionAssumption DEF Version
<1>6. seen[w] = snap[w] /\ code = snap[w]
  BY <1>3, <1>5 DEF Build
<1>7. start[w] \in Build
  BY <1>1 DEF Pass
<1> QED
  BY <1>2, <1>3, <1>6, <1>7, OlderTransitive DEF Snapshot

LEMMA TargetStep ==
  ASSUME DataInv, NEW w \in Writer, Step(w)
  PROVE  TargetInv'
<1> USE DEF DataInv, StoreInv
<1> DEFINE Good(v) == /\ pc[v] = "idle" => target[v] = None
                      /\ target[v] # None =>
                           /\ target[v] \in Snapshots
                           /\ Older(start[v], target[v].source)
<1>0. Snapshots' = Snapshots
  BY StepKeepsSources DEF Snapshots
<1>1. \A v \in Writer \ {w} : Good(v)'
  BY <1>0, Frame DEF OwnAt, TargetInv
<1>2. Good(w)'
  <2> Good(w)
    BY DEF TargetInv
  <2> USE DEF Goto, locals, answer, TypeOK
  <2>1. CASE VerifyStage(w)
    <3>1. pc'[w] # "idle" /\ start' = start /\ pc[w] = "verify"
      BY <2>1 DEF VerifyStage
    <3>2. CASE Intact(stage[w])
      <4>1. target'[w] = Snapshot(snap[w])
        BY <2>1, <3>1, <3>2, VerifiedIsSnapshot DEF VerifyStage
      <4> QED
        BY <1>0, <3>1, <3>2, <4>1, VerifiedIsSnapshot DEF Snapshots, Snapshot
    <3>3. CASE ~Intact(stage[w])
      BY <2>1, <3>1, <3>3 DEF VerifyStage
    <3> QED
      BY <3>2, <3>3
  <2>2. CASE Begin(w) \/ Compile(w) \/ Acquire(w)
    BY <1>0, <2>2 DEF Begin, Compile, ShortCircuit, Changed, Scanned, Compiled,
       CompileFails, HashSource, ScanSource, ParseSource, Acquire, Return
  <2>3. CASE Publish(w)
    BY <1>0, <2>1, <2>3 DEF Publish, WriteOwner, CleanupStaging, StageCurrent,
       WriteBeams, SaveManifest, InstallNew, KeepInstalled, Quarantine,
       Reinstall, PublishPointer, RemoveLegacyBeams, RemoveLegacyManifest,
       Unstage, Release, Reopen, RecordSource, Return
  <2>4. CASE Faulty(w)
    BY <1>0, <2>4 DEF Faulty, OwnerWriteFails, LeakerExits, LockFails, Fail,
       Crash, Return
  <2> QED
    BY <2>2, <2>3, <2>4 DEF Step
<1> QED
  BY <1>1, <1>2 DEF TargetInv

\* Moving a verified stage into place stores an image of a past tree.
LEMMA StoredStep ==
  ASSUME DataInv, NEW w \in Writer, Step(w)
  PROVE  StoredInv'
<1> USE DEF DataInv, StoreInv
<1>0. Snapshots' = Snapshots
  BY StepKeepsSources DEF Snapshots
<1>1. CASE InstallNew(w) \/ Reinstall(w)
  <2>1. /\ target[w] \in Manifest /\ target[w] \in Snapshots
        /\ stage[w] = DirOf(target[w])
    BY <1>1, NoneAssumption
       DEF InstallNew, Reinstall, Goto, LocalsInv, StageInv, TargetInv
  <2>2. /\ gens'[target[w]] = DirOf(target[w])
        /\ \A g \in Manifest \ {target[w]} : gens'[g] = gens[g]
        /\ UNCHANGED <<flat, pointer>>
    BY <1>1, <2>1 DEF InstallNew, Reinstall, MoveStage, TypeOK
  <2>3. GenerationsAreSnapshots'
    BY <1>0, <2>1, <2>2 DEF StoredInv, GenerationsAreSnapshots, DirOf
  <2> QED
    BY <1>0, <2>2, <2>3 DEF StoredInv
<1>2. CASE Quarantine(w)
  <2>1. /\ \A g \in Manifest : gens'[g] \in {gens[g], EmptyDir}
        /\ UNCHANGED <<flat, pointer>>
    BY <1>2 DEF Quarantine, TypeOK
  <2>2. GenerationsAreSnapshots'
    BY <1>0, <2>1 DEF StoredInv, GenerationsAreSnapshots
  <2> QED
    BY <1>0, <2>1, <2>2 DEF StoredInv
<1>3. CASE PublishPointer(w)
  <2>1. pointer' \in Snapshots
    BY <1>3, NoneAssumption DEF PublishPointer, Goto, LocalsInv, TargetInv
  <2> QED
    BY <1>0, <1>3, <2>1 DEF PublishPointer, StoredInv, GenerationsAreSnapshots
<1>4. CASE RemoveLegacyBeams(w) \/ RemoveLegacyManifest(w)
  <2>1. /\ flat'.manifest \in {flat.manifest, None}
        /\ UNCHANGED <<gens, pointer>>
    BY <1>4 DEF RemoveLegacyBeams, RemoveLegacyManifest, TypeOK, Dir
  <2> QED
    BY <1>0, <2>1 DEF StoredInv, GenerationsAreSnapshots
<1>5. ASSUME UNCHANGED <<gens, flat, pointer>> PROVE StoredInv'
  BY <1>0, <1>5 DEF StoredInv, GenerationsAreSnapshots
<1>6. CASE Begin(w) \/ Compile(w) \/ Acquire(w)
  BY <1>5, <1>6 DEF Begin, Compile, ShortCircuit, Changed, Scanned, Compiled,
     CompileFails, HashSource, ScanSource, ParseSource, Acquire, disk
<1>7. CASE Publish(w)
  BY <1>1, <1>2, <1>3, <1>4, <1>5, <1>7 DEF Publish, WriteOwner,
     CleanupStaging, StageCurrent, WriteBeams, SaveManifest, VerifyStage,
     KeepInstalled, Unstage, Release, Reopen, RecordSource, disk
<1>8. CASE Faulty(w)
  BY <1>5, <1>8 DEF Faulty, OwnerWriteFails, LeakerExits, LockFails, Fail,
     Crash, disk
<1> QED
  BY <1>6, <1>7, <1>8 DEF Step

\* Tampering takes content away; nothing else outside the sweeps writes.
LEMMA StoredOutside ==
  ASSUME ~Reverts, DataInv, Outside
  PROVE  StoredInv'
<1> USE DEF DataInv, StoreInv
<1>0. Snapshots \subseteq Snapshots' /\ UNCHANGED <<flat, pointer>>
  BY OutsideAdvancesSources, OutsideFrame DEF Snapshots
<1>1. ASSUME NEW d \in Manifest, Damage(d) PROVE StoredInv'
  <2>1. /\ \A g \in Manifest \ {d} : gens'[g] = gens[g]
        /\ gens[d] # EmptyDir
        /\ gens'[d].manifest \in {gens[d].manifest, None}
        /\ \A m \in Module :
             gens'[d].beams[m] \in {gens[d].beams[m], Damaged}
    <3>1. gens \in [Manifest -> Dir]
      BY DEF TypeOK
    <3>2. CASE gens' = [gens EXCEPT ![d].manifest = None]
      BY <1>1, <3>1, <3>2 DEF Damage, Dir
    <3>3. ASSUME NEW m \in Module, gens' = [gens EXCEPT ![d].beams[m] = Damaged]
          PROVE  /\ \A g \in Manifest \ {d} : gens'[g] = gens[g]
                 /\ gens'[d].manifest = gens[d].manifest
                 /\ \A n \in Module :
                      gens'[d].beams[n] \in {gens[d].beams[n], Damaged}
      BY <3>1, <3>3 DEF Dir
    <3> QED
      BY <1>1, <3>2, <3>3 DEF Damage
  <2> QED
    BY <1>0, <2>1 DEF StoredInv, GenerationsAreSnapshots
<1>2. ASSUME UNCHANGED gens PROVE StoredInv'
  BY <1>0, <1>2 DEF StoredInv, GenerationsAreSnapshots
<1> QED
  BY <1>1, <1>2 DEF Outside, Open, StartOpen, ReadManifest, VerifyModule,
     Accept, Reject, Environment, OrphanAcquires, OrphanExits, Edit, disk, aside

\* A sweep answers with the set it found unchanged, or the one it published.
LEMMA AnswerStep ==
  ASSUME DataInv, NEW w \in Writer, Step(w)
  PROVE  AnswerInv'
<1> USE DEF DataInv, StoreInv
<1> DEFINE Good(v) == result[v] # None =>
                        /\ result[v] \in Snapshots /\ start[v] \in Build
                        /\ Older(start[v], result[v].source)
<1>0. Snapshots' = Snapshots
  BY StepKeepsSources DEF Snapshots
<1>1. \A v \in Writer \ {w} : Good(v)'
  BY <1>0, Frame DEF OwnAt, AnswerInv
<1>2. Good(w)'
  <2> Good(w) /\ Pass(w)
    BY DEF AnswerInv, PassInv
  <2> USE DEF Goto, locals, answer, TypeOK
  <2>1. CASE ShortCircuit(w)
    <3>1. /\ prior[w] \in Snapshots /\ start[w] \in Build
          /\ Between(start[w], seen[w], sources) /\ AllRead(w)
          /\ seen[w] = prior[w].source
      BY <2>1 DEF ShortCircuit, Pass
    <3>2. Older(start[w], prior[w].source)
      BY <3>1, BetweenAll
    <3>3. result'[w] = prior[w] /\ start'[w] = start[w]
      BY <2>1 DEF ShortCircuit, Return
    <3> QED
      BY <1>0, <3>1, <3>2, <3>3
  <2>2. CASE Reopen(w)
    <3>1. /\ target[w] \in Manifest /\ target[w] \in Snapshots
          /\ Older(start[w], target[w].source) /\ start[w] \in Build
      BY <2>2, NoneAssumption DEF Reopen, LocalsInv, TargetInv, Pass
    <3>2. CASE Intact(gens[target[w]])
      <4>1. gens[target[w]].manifest = target[w]
        BY <3>1, <3>2 DEF Intact, StoredInv, GenerationsAreSnapshots, EmptyDir
      <4>2. result'[w] = target[w] /\ start'[w] = start[w]
        BY <2>2, <3>1, <3>2, <4>1, NoneAssumption DEF Reopen, Return
      <4> QED
        BY <1>0, <3>1, <4>2
    <3>3. CASE ~Intact(gens[target[w]])
      BY <2>2, <3>3 DEF Reopen, Return
    <3> QED
      BY <3>2, <3>3
  <2>3. CASE Begin(w) \/ Compile(w) \/ Acquire(w)
    BY <1>0, <2>1, <2>3 DEF Begin, Compile, Changed, Scanned, Compiled,
       CompileFails, HashSource, ScanSource, ParseSource, Acquire, Return
  <2>4. CASE Publish(w)
    BY <1>0, <2>2, <2>4 DEF Publish, WriteOwner, CleanupStaging, StageCurrent,
       WriteBeams, SaveManifest, VerifyStage, InstallNew, KeepInstalled,
       Quarantine, Reinstall, PublishPointer, RemoveLegacyBeams,
       RemoveLegacyManifest, Unstage, Release, RecordSource, Return
  <2>5. CASE Faulty(w)
    BY <1>0, <2>5 DEF Faulty, OwnerWriteFails, LeakerExits, LockFails, Fail,
       Crash, Return
  <2> QED
    BY <2>3, <2>4, <2>5 DEF Step
<1> QED
  BY <1>1, <1>2 DEF AnswerInv

(***************************************************************************)
(* The theorems.                                                           *)
(***************************************************************************)

LEMMA DataInit == Init => DataInv
<1> SUFFICES ASSUME Init PROVE DataInv
  OBVIOUS
<1>1. StoreInv
  BY StoreInit
<1>2. SourcesInv
  BY <1>1, VersionAssumption
     DEF Init, SourcesInv, Older, StoreInv, TypeOK, Build, Version
<1>3. StoredInv
  BY <1>1 DEF Init, StoredInv, GenerationsAreSnapshots, EmptyDir, DirOf,
     Snapshots
<1>4. PassInv /\ BeamInv /\ TargetInv /\ AnswerInv
  BY DEF Init, PassInv, Pass, BeamInv, Faithful, TargetInv, AnswerInv, Scans
<1> QED
  BY <1>1, <1>2, <1>3, <1>4 DEF DataInv

LEMMA DataNext ==
  ASSUME ~Reverts, DataInv, [Next]_vars
  PROVE  DataInv'
<1>1. StoreInv'
  BY StoreNext DEF DataInv
<1>2. ASSUME NEW w \in Writer, Step(w) PROVE DataInv'
  <2>1. SourcesInv'
    BY <1>2, StepKeepsSources DEF DataInv, SourcesInv, Older
  <2> QED
    BY <1>1, <1>2, <2>1, StoredStep, PassStep, BeamStep, TargetStep, AnswerStep
       DEF DataInv
<1>3. CASE Outside
  <2>1. /\ UNCHANGED <<pc, target, result, start>>
        /\ Snapshots \subseteq Snapshots' /\ SourcesInv'
    BY <1>3, OutsideAdvancesSources, OutsideFrame
       DEF DataInv, StoreInv, sweep, locals, answer, Snapshots
  <2>2. TargetInv' /\ AnswerInv'
    BY <2>1 DEF DataInv, TargetInv, AnswerInv
  <2> QED
    BY <1>1, <1>3, <2>1, <2>2, StoredOutside, PassOutside, BeamOutside
       DEF DataInv
<1>4. CASE UNCHANGED vars
  BY <1>1, <1>4 DEF vars, disk, locks, sweep, locals, answer, DataInv,
     SourcesInv, StoredInv, PassInv, Pass, BeamInv, Faithful, TargetInv,
     AnswerInv, Snapshots, GenerationsAreSnapshots, Between, Older
<1> QED
  BY <1>2, <1>3, <1>4 DEF Next, Step, Outside

THEOREM DataInvariant ==
  ASSUME ~Reverts
  PROVE  Spec => []DataInv
BY DataInit, DataNext, PTL DEF Spec

\* Every published directory is the complete image of one state of the source
\* tree, however the files were edited while the sweep read them.
THEOREM PublishedSetsAreSnapshots ==
  ASSUME ~Reverts
  PROVE  Spec => []GenerationsAreSnapshots
<1>1. DataInv => GenerationsAreSnapshots
  BY DEF DataInv, StoredInv
<1> QED
  BY <1>1, DataInvariant, PTL

\* No sweep answers with a set that is older than its own beginning.
THEOREM SweepsReturnCurrent ==
  ASSUME ~Reverts
  PROVE  Spec => []SweepReturnsCurrent
<1>1. DataInv => SweepReturnsCurrent
  BY VersionAssumption DEF DataInv, StoreInv, AnswerInv, SweepReturnsCurrent,
     Older, TypeOK, Build, Version, Manifest
<1> QED
  BY <1>1, DataInvariant, PTL

==============================================================================
