---------------------------- MODULE ArtifactStore ----------------------------
(***************************************************************************)
(* The on-disk protocol that publishes compiled Cure modules: the sweep    *)
(* that compiles a project (artifacts/sweep.ex), the kernel lock between   *)
(* writers (artifacts/lock.ex), the staged publication of an immutable     *)
(* generation (artifacts/writer.ex), and readers that take no lock at all  *)
(* (Artifacts.open_verified_set, artifacts.ex).                            *)
(*                                                                         *)
(* The content of a source file is a version number.  A BEAM file is the   *)
(* version its code was generated from and the version whose hash it       *)
(* embeds as provenance: the compiler reads the file once for each.  A     *)
(* manifest records a source hash and a BEAM hash per module; the digest   *)
(* that names a generation directory is the manifest itself.               *)
(***************************************************************************)
EXTENDS Integers

CONSTANTS Writer,      \* OS processes that run a sweep on one output root
          Reader,      \* processes that open the published set
          Module,      \* modules of the project
          MaxVersion,  \* a source file has MaxVersion possible contents
          Reverts,     \* whether an edit may bring back an earlier content
          MaxFault,    \* bound on crashes and failing file operations
          MaxDamage,   \* bound on tamperings with a published directory
          None,        \* absent value; as a root, the output directory itself
          Orphan,      \* a flock child whose BEAM no longer listens to it
          Damaged      \* content of a BEAM file that was overwritten

ASSUME VersionAssumption == MaxVersion \in Nat \ {0}
ASSUME BoundAssumption   == MaxFault \in Nat /\ MaxDamage \in Nat
ASSUME ModuleAssumption  == Module # {}
ASSUME RevertsAssumption == Reverts \in BOOLEAN

Version == 1..MaxVersion
Build   == [Module -> Version]      \* a state of the source tree
Beam    == [prov : Version, code : Version]
Manifest == [source : Build, code : Build]

ASSUME NoneAssumption    == /\ None \notin Writer /\ None \notin Version
                            /\ None \notin Build  /\ None \notin Beam
                            /\ None \notin Manifest
ASSUME OrphanAssumption  == Orphan \notin Writer /\ Orphan # None
ASSUME DamagedAssumption == Damaged \notin Beam /\ Damaged # None

VARIABLES
  sources,    \* source tree: the version of each module's file
  lock,       \* who holds flock(2) on .cure_artifact.lock
  orphans,    \* flock children still queued for a BEAM that died
  pointer,    \* the `current` file
  gens,       \* .cure_generations/: content of every generation directory
  flat,       \* the output root used as an artifact directory (old layout)
  stage,      \* .cure_staging_*: the staging directory of each writer
  pc,         \* where each sweep stands
  prior,      \* the reusable generation the sweep found
  seen,       \* source versions the sweep has read in its current pass
  scanned,    \* the source hashes of the pipeline's module manifest
  compiled,   \* the BEAMs the module pipeline returned, in memory
  target,     \* the generation being published
  result,     \* what the last finished sweep returned
  rpc,        \* where each reader stands
  root,       \* the directory the reader resolved
  opened,     \* the manifest the reader decoded
  verified,   \* the modules the reader has verified
  accepted,   \* the set its last open returned, or None
  faults, damages,                \* bounds used up
  past, start, snap, window       \* history: see the end of Init

disk    == <<pointer, gens, flat, stage>>
locals  == <<prior, seen, scanned, compiled, target, snap>>
answer  == <<result, start>>
sweep   == <<pc, locals, answer>>
readers == <<rpc, root, opened, verified, accepted>>
locks   == <<lock, orphans>>
bounds  == <<faults, damages>>
aside   == <<sources, readers, bounds, past>>   \* what no writer touches
vars    == <<sources, locks, disk, sweep, readers, bounds, past, window>>

(***************************************************************************)
(* A directory: the set its manifest claims, and its BEAM files.  The      *)
(* empty directory also stands for one that does not exist.                *)
(***************************************************************************)
Dir == [manifest : Manifest \cup {None},
        beams    : [Module -> Beam \cup {None, Damaged}]]

NoBeams  == [m \in Module |-> None]
EmptyDir == [manifest |-> None, beams |-> NoBeams]

\* verify_entry and verify_entry_provenance: the BEAM has the recorded hash
\* and was compiled, so it says, from the source the entry records.
Matches(beam, mf, m) == beam = [prov |-> mf.source[m], code |-> mf.code[m]]

\* verify_manifest.
Intact(d) == /\ d.manifest # None
             /\ \A m \in Module : Matches(d.beams[m], d.manifest, m)

\* The faithful set of a source tree, and the directory that holds it.
Snapshot(b) == [source |-> b, code |-> b]
DirOf(mf)   == [manifest |-> mf,
                beams |-> [m \in Module |->
                             [prov |-> mf.source[m], code |-> mf.code[m]]]]

\* Writer.resolve: the directory `current` names if it exists, else the root.
Resolve   == IF pointer # None /\ gens[pointer] # EmptyDir
             THEN pointer ELSE None
DirAt(rt) == IF rt = None THEN flat ELSE gens[rt]

\* The set a reader that starts now is directed to.
Named == IF Resolve # None THEN Resolve ELSE flat.manifest

NothingRead == [m \in Module |-> None]
AllRead(w)  == \A m \in Module : seen[w][m] # None

InLock == {"owner", "leaked", "clean", "stage", "write", "record", "verify",
           "install", "reinstall", "point", "legacy", "forget", "unstage",
           "release"}

----------------------------------------------------------------------------

Init ==
  /\ sources = [m \in Module |-> 1]
  /\ lock = None /\ orphans = 0
  /\ pointer = None
  /\ gens = [g \in Manifest |-> EmptyDir]
  /\ flat \in {EmptyDir, DirOf(Snapshot(sources))}
  /\ stage = [w \in Writer |-> EmptyDir]
  /\ pc = [w \in Writer |-> "idle"]
  /\ prior = [w \in Writer |-> None]
  /\ seen = [w \in Writer |-> NothingRead]
  /\ scanned = [w \in Writer |-> None]
  /\ compiled = [w \in Writer |-> None]
  /\ target = [w \in Writer |-> None]
  /\ result = [w \in Writer |-> None]
  /\ rpc = [r \in Reader |-> "idle"]
  /\ root = [r \in Reader |-> None]
  /\ opened = [r \in Reader |-> None]
  /\ verified = [r \in Reader |-> {}]
  /\ accepted = [r \in Reader |-> None]
  /\ faults = 0 /\ damages = 0
  /\ past = {sources}                   \* states the source tree has been in
  /\ start = [w \in Writer |-> None]    \* the sources when the sweep began
  /\ snap = [w \in Writer |-> None]     \* ... and when its scan ended
  /\ window = [r \in Reader |-> {}]     \* sets named since the open began

\* A sweep returns: its local values are gone, the caller has `set`.
Return(w, set) ==
  /\ result' = [result EXCEPT ![w] = set]
  /\ start' = [start EXCEPT ![w] = IF set = None THEN None ELSE @]
  /\ prior' = [prior EXCEPT ![w] = None]
  /\ seen' = [seen EXCEPT ![w] = NothingRead]
  /\ scanned' = [scanned EXCEPT ![w] = None]
  /\ compiled' = [compiled EXCEPT ![w] = None]
  /\ target' = [target EXCEPT ![w] = None]
  /\ snap' = [snap EXCEPT ![w] = None]

Goto(w, from, to) == pc[w] = from /\ pc' = [pc EXCEPT ![w] = to]

\* Every open in progress may legitimately return a set named meanwhile.
Witness == window' = [r \in Reader |->
                        IF rpc[r] = "idle" THEN window[r]
                                           ELSE window[r] \cup {Named'}]

----------------------------------------------------------------------------
\* The sweep before it takes the lock.

\* canonical_prior_generation: open the current set.  It may still not be
\* reusable: another compiler context, or a forced sweep.
Begin(w) ==
  /\ Goto(w, "idle", "hash")
  /\ \E found \in {None} \cup (IF Intact(DirAt(Resolve))
                               THEN {DirAt(Resolve).manifest} ELSE {}) :
       prior' = [prior EXCEPT ![w] = found]
  /\ result' = [result EXCEPT ![w] = None]
  /\ start' = [start EXCEPT ![w] = sources]
  /\ UNCHANGED <<aside, locks, disk, seen, scanned, compiled, target, snap,
                 window>>

ReadSource(w, m) ==
  /\ seen[w][m] = None
  /\ seen' = [seen EXCEPT ![w][m] = sources[m]]

\* current_source_digest: hash the source files one after the other.
HashSource(w, m) ==
  /\ pc[w] = "hash" /\ prior[w] # None
  /\ ReadSource(w, m)
  /\ UNCHANGED <<aside, locks, disk, pc, prior, scanned, compiled, target,
                 answer, snap, window>>

\* Slip: the digests are not compared.
SlipShortCircuit(w) ==
  /\ Goto(w, "hash", "idle")
  /\ prior[w] # None
  /\ Return(w, prior[w])
  /\ UNCHANGED <<aside, locks, disk, window>>

\* unchanged_generation: nothing changed, return the published set.
ShortCircuit(w) ==
  /\ Goto(w, "hash", "idle")
  /\ prior[w] # None /\ AllRead(w) /\ seen[w] = prior[w].source
  /\ Return(w, prior[w])
  /\ UNCHANGED <<aside, locks, disk, window>>

\* unchanged_generation returns :changed.
Changed(w) ==
  /\ Goto(w, "hash", "scan")
  /\ \/ seen[w] = NothingRead     \* not reusable, or interfaces from outside
     \/ AllRead(w) /\ seen[w] # prior[w].source
  /\ seen' = [seen EXCEPT ![w] = NothingRead]
  /\ UNCHANGED <<aside, locks, disk, prior, scanned, compiled, target, snap,
                 answer, window>>

\* ModuleManifest.build reads every source and keeps its hash ...
ScanSource(w, m) ==
  /\ pc[w] = "scan"
  /\ ReadSource(w, m)
  /\ UNCHANGED <<aside, locks, disk, pc, prior, scanned, compiled, target,
                 answer, snap, window>>

Scanned(w) ==
  /\ Goto(w, "scan", "parse")
  /\ AllRead(w)
  /\ scanned' = [scanned EXCEPT ![w] = seen[w]]
  /\ seen' = [seen EXCEPT ![w] = NothingRead]
  /\ snap' = [snap EXCEPT ![w] = sources]
  /\ UNCHANGED <<aside, locks, disk, prior, compiled, target, answer, window>>

\* ... and Expansion reads every source again, to parse it.
ParseSource(w, m) ==
  /\ pc[w] = "parse"
  /\ ReadSource(w, m)
  /\ UNCHANGED <<aside, locks, disk, pc, prior, scanned, compiled, target,
                 answer, snap, window>>

\* reusable_from_generation: the published BEAM of an unchanged source.
ReusableBeams(w) == IF prior[w] = None THEN {}
                    ELSE {m \in Module : prior[w].source[m] = scanned[w][m]}

\* The BEAMs, in memory: generated from the parsed text or reused, they embed
\* the scanned hashes.  Writer.transact is entered: a flock child is spawned.
Compiled(w) ==
  /\ Goto(w, "parse", "wait")
  /\ AllRead(w)
  /\ \E reused \in SUBSET ReusableBeams(w) :
       compiled' = [compiled EXCEPT ![w] =
         [m \in Module |-> [prov |-> scanned[w][m],
                            code |-> IF m \in reused THEN prior[w].code[m]
                                                     ELSE seen[w][m]]]]
  /\ seen' = [seen EXCEPT ![w] = NothingRead]
  /\ prior' = [prior EXCEPT ![w] = None]
  /\ UNCHANGED <<aside, locks, disk, scanned, target, answer, snap, window>>

\* A module does not compile: the sweep fails and writes nothing.
CompileFails(w) ==
  /\ pc[w] \in {"scan", "parse"} /\ pc' = [pc EXCEPT ![w] = "idle"]
  /\ Return(w, None)
  /\ UNCHANGED <<aside, locks, disk, window>>

----------------------------------------------------------------------------
\* The kernel lock (Lock.with_lock).

\* Slip: BUSY is taken for ACQUIRED.
SlipAcquireBusy(w) ==
  /\ Goto(w, "wait", "owner")
  /\ lock' = w
  /\ UNCHANGED <<aside, orphans, disk, locals, answer, window>>

\* The flock child got the lock and printed CURE_LOCK_ACQUIRED.
Acquire(w) ==
  /\ Goto(w, "wait", "owner")
  /\ lock = None
  /\ lock' = w
  /\ UNCHANGED <<aside, orphans, disk, locals, answer, window>>

WriteOwner(w) ==
  /\ Goto(w, "owner", "clean")
  /\ UNCHANGED <<aside, locks, disk, locals, answer, window>>

\* write_owner raises outside the try: with_lock unwinds, but the port, and
\* with it the lock, lives on as long as the calling process does.
OwnerWriteFails(w) ==
  /\ Goto(w, "owner", "leaked")
  /\ faults < MaxFault /\ faults' = faults + 1
  /\ UNCHANGED <<sources, locks, disk, locals, answer, readers, damages, past,
                 window>>

\* No flock tool, or the child exits with an error status.
LockFails(w) ==
  /\ Goto(w, "wait", "idle")
  /\ Return(w, None)
  /\ faults < MaxFault /\ faults' = faults + 1
  /\ UNCHANGED <<sources, locks, disk, readers, damages, past, window>>

\* Slip: the child is not told to exit.
SlipRelease(w) ==
  /\ \/ /\ target[w] # None /\ Goto(w, "release", "reopen")
        /\ UNCHANGED <<locals, answer>>
     \/ /\ target[w] = None /\ Goto(w, "release", "idle")
        /\ Return(w, None)
  /\ UNCHANGED <<aside, locks, disk, window>>

\* The port tells the child to exit; the child may outlive the 1 s it is given.
Release(w) ==
  /\ lock' \in {None, Orphan}
  /\ \/ /\ target[w] # None /\ Goto(w, "release", "reopen")
        /\ UNCHANGED <<locals, answer>>
     \/ /\ target[w] = None /\ Goto(w, "release", "idle")
        /\ Return(w, None)
  /\ UNCHANGED <<aside, orphans, disk, window>>

\* A child blocked in flock(2) notices that its BEAM died only once it has
\* the lock; then it exits.
OrphanAcquires ==
  /\ lock = None /\ orphans > 0
  /\ lock' = Orphan /\ orphans' = orphans - 1
  /\ UNCHANGED <<aside, disk, sweep, window>>

OrphanExits ==
  /\ lock = Orphan
  /\ lock' = None
  /\ UNCHANGED <<aside, orphans, disk, sweep, window>>

----------------------------------------------------------------------------
\* Writer.transact, with the lock held.

CleanupStaging(w) ==
  /\ Goto(w, "clean", "stage")
  /\ stage' = [v \in Writer |-> EmptyDir]
  /\ UNCHANGED <<aside, locks, pointer, gens, flat, locals, answer, window>>

\* mkdir and copy_current.
StageCurrent(w) ==
  /\ Goto(w, "stage", "write")
  /\ stage' = [stage EXCEPT ![w] = IF DirAt(Resolve).manifest # None
                                   THEN DirAt(Resolve) ELSE EmptyDir]
  /\ UNCHANGED <<aside, locks, pointer, gens, flat, locals, answer, window>>

\* remove_previous_generation, write_canonical_beams.
WriteBeams(w) ==
  /\ Goto(w, "write", "record")
  /\ stage' = [stage EXCEPT ![w] = [manifest |-> None, beams |-> compiled[w]]]
  /\ UNCHANGED <<aside, locks, pointer, gens, flat, locals, answer, window>>

\* Slip: the hash of the pipeline's own scan is recorded.
SlipRecordSource(w, m) ==
  /\ pc[w] = "record"
  /\ seen[w][m] = None
  /\ seen' = [seen EXCEPT ![w][m] = scanned[w][m]]
  /\ UNCHANGED <<aside, locks, disk, pc, prior, scanned, compiled, target,
                 answer, snap, window>>

\* canonical_manifest_entries reads each source file again, now.
RecordSource(w, m) ==
  /\ pc[w] = "record"
  /\ ReadSource(w, m)
  /\ UNCHANGED <<aside, locks, disk, pc, prior, scanned, compiled, target,
                 answer, snap, window>>

\* Slip: the manifest is saved before every source is recorded.
SlipSaveManifest(w) ==
  /\ Goto(w, "record", "verify")
  /\ stage' = [stage EXCEPT ![w].manifest =
                 [source |-> seen[w],
                  code |-> [m \in Module |-> stage[w].beams[m].code]]]
  /\ UNCHANGED <<aside, locks, pointer, gens, flat, locals, answer, window>>

\* Artifacts.record hashes the staged BEAMs; BuildManifest.save.
SaveManifest(w) ==
  /\ Goto(w, "record", "verify")
  /\ AllRead(w)
  /\ stage' = [stage EXCEPT ![w].manifest =
                 [source |-> seen[w],
                  code |-> [m \in Module |-> stage[w].beams[m].code]]]
  /\ UNCHANGED <<aside, locks, pointer, gens, flat, locals, answer, window>>

\* Slip: the stage is not verified.
SlipVerifyStage(w) ==
  /\ Goto(w, "verify", "install")
  /\ target' = [target EXCEPT ![w] = stage[w].manifest]
  /\ UNCHANGED <<aside, locks, disk, prior, seen, scanned, compiled, answer,
                 snap, window>>

\* publish opens the stage as a verified set: its digest names the generation.
VerifyStage(w) ==
  /\ Goto(w, "verify", IF Intact(stage[w]) THEN "install" ELSE "unstage")
  /\ target' = [target EXCEPT ![w] = IF Intact(stage[w])
                                     THEN stage[w].manifest ELSE None]
  /\ UNCHANGED <<aside, locks, disk, prior, seen, scanned, compiled, answer,
                 snap, window>>

\* Slip: the published directory is overwritten in place.
SlipMoveStage(w) ==
  /\ gens' = [gens EXCEPT ![IF Resolve # None THEN Resolve ELSE target[w]]
                            = stage[w]]
  /\ stage' = [stage EXCEPT ![w] = EmptyDir]

MoveStage(w) ==
  /\ gens' = [gens EXCEPT ![target[w]] = stage[w]]
  /\ stage' = [stage EXCEPT ![w] = EmptyDir]

\* Slip: the old layout is removed before `current` is written.
SlipInstallNew(w) ==
  /\ Goto(w, "install", "legacy")
  /\ gens[target[w]] = EmptyDir
  /\ MoveStage(w)
  /\ UNCHANGED <<aside, locks, pointer, flat, locals, answer>>
  /\ Witness

\* install_generation, first branch: rename the stage to its final name.
InstallNew(w) ==
  /\ Goto(w, "install", "point")
  /\ gens[target[w]] = EmptyDir
  /\ MoveStage(w)
  /\ UNCHANGED <<aside, locks, pointer, flat, locals, answer>>
  /\ Witness

\* Second branch: the same set is already there and verifies; keep it.
KeepInstalled(w) ==
  /\ Goto(w, "install", "point")
  /\ Intact(gens[target[w]])
  /\ UNCHANGED <<aside, locks, disk, locals, answer, window>>

\* Slip: an installed directory is replaced without verifying it.
SlipQuarantine(w) ==
  /\ Goto(w, "install", "reinstall")
  /\ gens[target[w]] # EmptyDir
  /\ gens' = [gens EXCEPT ![target[w]] = EmptyDir]
  /\ UNCHANGED <<aside, locks, pointer, flat, stage, locals, answer>>
  /\ Witness

\* Third branch: move the corrupt directory away ...
Quarantine(w) ==
  /\ Goto(w, "install", "reinstall")
  /\ gens[target[w]] # EmptyDir /\ ~Intact(gens[target[w]])
  /\ gens' = [gens EXCEPT ![target[w]] = EmptyDir]
  /\ UNCHANGED <<aside, locks, pointer, flat, stage, locals, answer>>
  /\ Witness

\* ... and rename the stage into its place.
Reinstall(w) ==
  /\ Goto(w, "reinstall", "point")
  /\ MoveStage(w)
  /\ UNCHANGED <<aside, locks, pointer, flat, locals, answer>>
  /\ Witness

\* publish_pointer: write a temporary file, rename it over `current`.
PublishPointer(w) ==
  /\ Goto(w, "point", "legacy")
  /\ pointer' = target[w]
  /\ UNCHANGED <<aside, locks, gens, flat, stage, locals, answer>>
  /\ Witness

\* remove_legacy_outputs deletes the BEAMs of the old layout ...
RemoveLegacyBeams(w) ==
  /\ Goto(w, "legacy", "forget")
  /\ flat' = [flat EXCEPT !.beams = NoBeams]
  /\ UNCHANGED <<aside, locks, pointer, gens, stage, locals, answer, window>>

\* ... and then their manifest.
RemoveLegacyManifest(w) ==
  /\ Goto(w, "forget", "unstage")
  /\ flat' = [flat EXCEPT !.manifest = None]
  /\ UNCHANGED <<aside, locks, pointer, gens, stage, locals, answer>>
  /\ Witness

\* The `after` clause of transact.
Unstage(w) ==
  /\ Goto(w, "unstage", "release")
  /\ stage' = [stage EXCEPT ![w] = EmptyDir]
  /\ UNCHANGED <<aside, locks, pointer, gens, flat, locals, answer, window>>

\* The sweep opens the generation it published and returns it.
Reopen(w) ==
  /\ Goto(w, "reopen", "idle")
  /\ Return(w, IF Intact(gens[target[w]]) THEN gens[target[w]].manifest
                                          ELSE None)
  /\ UNCHANGED <<aside, locks, disk, window>>

\* A file operation raises or returns an error: before the stage exists only
\* the lock is given back, afterwards the stage is removed first.
Fail(w) ==
  /\ \/ Goto(w, "clean", "release")
     \/ \E from \in {"stage", "write", "record", "install", "reinstall",
                     "point"} : Goto(w, from, "unstage")
  /\ target' = [target EXCEPT ![w] = None]
  /\ faults < MaxFault /\ faults' = faults + 1
  /\ UNCHANGED <<sources, locks, disk, prior, seen, scanned, compiled, snap,
                 answer, readers, damages, past, window>>

\* The BEAM dies.  Everything on disk stays; the kernel frees the lock when
\* the child exits; a child still queued for the lock stays queued.
Crash(w) ==
  /\ pc[w] # "idle" /\ pc' = [pc EXCEPT ![w] = "idle"]
  /\ lock' = IF lock = w THEN Orphan ELSE lock
  /\ orphans' = IF pc[w] = "wait" THEN orphans + 1 ELSE orphans
  /\ Return(w, None)
  /\ faults < MaxFault /\ faults' = faults + 1
  /\ UNCHANGED <<sources, disk, readers, damages, past, window>>

\* The process that let an exception leave with_lock ends, and its port closes.
LeakerExits(w) ==
  /\ Goto(w, "leaked", "idle")
  /\ lock' = Orphan
  /\ Return(w, None)
  /\ UNCHANGED <<aside, orphans, disk, window>>

----------------------------------------------------------------------------
\* Readers: Artifacts.open_verified_set, without any lock.

StartOpen(r) ==
  /\ rpc[r] = "idle" /\ rpc' = [rpc EXCEPT ![r] = "open"]
  /\ root' = [root EXCEPT ![r] = Resolve]
  /\ accepted' = [accepted EXCEPT ![r] = None]
  /\ window' = [window EXCEPT ![r] = {Named}]
  /\ UNCHANGED <<sources, locks, disk, sweep, opened, verified, bounds, past>>

\* BuildManifest.read resolves once more: a generation directory has no
\* `current` file, but the output root may have got one.
Reread(r) == IF root[r] = None THEN DirAt(Resolve) ELSE gens[root[r]]

ReadManifest(r) ==
  /\ rpc[r] = "open" /\ Reread(r).manifest # None
  /\ rpc' = [rpc EXCEPT ![r] = "verify"]
  /\ opened' = [opened EXCEPT ![r] = Reread(r).manifest]
  /\ UNCHANGED <<sources, locks, disk, sweep, root, verified, accepted,
                 bounds, past, window>>

VerifyModule(r, m) ==
  /\ rpc[r] = "verify" /\ m \notin verified[r]
  /\ Matches(DirAt(root[r]).beams[m], opened[r], m)
  /\ verified' = [verified EXCEPT ![r] = @ \cup {m}]
  /\ UNCHANGED <<sources, locks, disk, sweep, rpc, root, opened, accepted,
                 bounds, past, window>>

Close(r, set) ==
  /\ rpc' = [rpc EXCEPT ![r] = "idle"]
  /\ accepted' = [accepted EXCEPT ![r] = set]
  /\ root' = [root EXCEPT ![r] = None]
  /\ opened' = [opened EXCEPT ![r] = None]
  /\ verified' = [verified EXCEPT ![r] = {}]

Accept(r) ==
  /\ rpc[r] = "verify" /\ verified[r] = Module
  /\ Close(r, opened[r])
  /\ UNCHANGED <<sources, locks, disk, sweep, bounds, past, window>>

\* No manifest, or a module that does not match it: {:error, _}.
Reject(r) ==
  /\ \/ rpc[r] = "open" /\ Reread(r).manifest = None
     \/ rpc[r] = "verify" /\ \E m \in Module \ verified[r] :
                               ~Matches(DirAt(root[r]).beams[m], opened[r], m)
  /\ Close(r, None)
  /\ UNCHANGED <<sources, locks, disk, sweep, bounds, past, window>>

----------------------------------------------------------------------------
\* The environment.

\* The user saves a file.  Unless Reverts, the content was never there before.
Edit(m, v) ==
  /\ v # sources[m]
  /\ Reverts \/ v = sources[m] + 1
  /\ sources' = [sources EXCEPT ![m] = v]
  /\ past' = past \cup {sources'}
  /\ UNCHANGED <<locks, disk, sweep, readers, bounds, window>>

\* A file of a published generation is overwritten or lost.
Damage(g) ==
  /\ gens[g] # EmptyDir
  /\ damages < MaxDamage /\ damages' = damages + 1
  /\ \/ \E m \in Module : gens' = [gens EXCEPT ![g].beams[m] = Damaged]
     \/ gens' = [gens EXCEPT ![g].manifest = None]
  /\ UNCHANGED <<sources, locks, pointer, flat, stage, sweep, readers, faults,
                 past>>
  /\ Witness

----------------------------------------------------------------------------

Compile(w) == \/ ShortCircuit(w) \/ Changed(w) \/ Scanned(w) \/ Compiled(w)
              \/ CompileFails(w)
              \/ \E m \in Module : \/ HashSource(w, m) \/ ScanSource(w, m)
                                   \/ ParseSource(w, m)

Publish(w) == \/ WriteOwner(w) \/ CleanupStaging(w) \/ StageCurrent(w)
              \/ WriteBeams(w) \/ SaveManifest(w) \/ VerifyStage(w)
              \/ InstallNew(w) \/ KeepInstalled(w) \/ Quarantine(w)
              \/ Reinstall(w) \/ PublishPointer(w) \/ RemoveLegacyBeams(w)
              \/ RemoveLegacyManifest(w) \/ Unstage(w) \/ Release(w)
              \/ Reopen(w)
              \/ \E m \in Module : RecordSource(w, m)

Faulty(w)  == \/ OwnerWriteFails(w) \/ LeakerExits(w) \/ LockFails(w)
              \/ Fail(w) \/ Crash(w)

Open(r)    == \/ StartOpen(r) \/ ReadManifest(r) \/ Accept(r) \/ Reject(r)
              \/ \E m \in Module : VerifyModule(r, m)

Environment == \/ OrphanAcquires \/ OrphanExits
               \/ \E m \in Module, v \in Version : Edit(m, v)
               \/ \E g \in Manifest : Damage(g)

Next == \/ \E w \in Writer : \/ Begin(w) \/ Compile(w) \/ Acquire(w)
                             \/ Publish(w) \/ Faulty(w)
        \/ \E r \in Reader : Open(r)
        \/ Environment

Spec == Init /\ [][Next]_vars

\* A sweep that has begun runs on; flock(2) does not starve a waiter; a child
\* that holds the lock for nobody exits.  Nobody is obliged to begin a sweep,
\* to open the set, or to end a process that an exception left alive.
Fairness == /\ \A w \in Writer : WF_vars(Compile(w) \/ Publish(w))
                                 /\ SF_vars(Acquire(w))
            /\ WF_vars(OrphanAcquires) /\ WF_vars(OrphanExits)

FairSpec == Spec /\ Fairness

----------------------------------------------------------------------------
\* Properties.

TypeOK ==
  /\ sources \in Build /\ past \in SUBSET Build
  /\ lock \in Writer \cup {None, Orphan} /\ orphans \in Nat
  /\ pointer \in Manifest \cup {None}
  /\ gens \in [Manifest -> Dir] /\ flat \in Dir
  /\ stage \in [Writer -> Dir]
  /\ pc \in [Writer -> InLock \cup {"idle", "hash", "scan", "parse", "wait",
                                    "reopen"}]
  /\ prior \in [Writer -> Manifest \cup {None}]
  /\ seen \in [Writer -> [Module -> Version \cup {None}]]
  /\ scanned \in [Writer -> Build \cup {None}]
  /\ compiled \in [Writer -> [Module -> Beam] \cup {None}]
  /\ target \in [Writer -> Manifest \cup {None}]
  /\ result \in [Writer -> Manifest \cup {None}]
  /\ start \in [Writer -> Build \cup {None}]
  /\ snap \in [Writer -> Build \cup {None}]
  /\ rpc \in [Reader -> {"idle", "open", "verify"}]
  /\ root \in [Reader -> Manifest \cup {None}]
  /\ opened \in [Reader -> Manifest \cup {None}]
  /\ verified \in [Reader -> SUBSET Module]
  /\ accepted \in [Reader -> Manifest \cup {None}]
  /\ window \in [Reader -> SUBSET (Manifest \cup {None})]
  /\ faults \in Nat /\ damages \in Nat

Snapshots == {Snapshot(b) : b \in past}

\* While a writer populates, verifies and installs its stage, no other stage
\* exists, and what it renames is still exactly what it verified: neither a
\* competing cleanup_staging nor what a crashed writer left can interfere.
StagePrivate ==
  \A w \in Writer :
    /\ pc[w] \in {"stage", "write", "record", "verify", "install", "reinstall"}
         => \A v \in Writer \ {w} : stage[v] = EmptyDir
    /\ pc[w] \in {"install", "reinstall"} => stage[w] = DirOf(target[w])

\* Every generation directory is the complete image of one state of the source
\* tree: all code was generated from the sources its manifest records, and
\* those sources existed together.  Only tampering can take content away.
GenerationsAreSnapshots ==
  \A g \in Manifest : gens[g] # EmptyDir =>
    /\ g \in Snapshots
    /\ gens[g].manifest \in {g, None}
    /\ \A m \in Module : gens[g].beams[m] \in {DirOf(g).beams[m], Damaged}

\* A sweep never answers with a set that is older than its own beginning in
\* any module, however many edits, competing sweeps and repairs ran meanwhile.
SweepReturnsCurrent ==
  \A w \in Writer : result[w] # None =>
    /\ result[w] \in Snapshots
    /\ \A m \in Module : result[w].source[m] >= start[w][m]

\* A reader, which takes no lock, returns a faithful set that the store named
\* while it was opening, also when it opened across publications and repairs.
ReaderReturnsNamed ==
  \A r \in Reader : accepted[r] # None =>
    accepted[r] \in window[r] \cap Snapshots

\* No step but tampering changes a generation that verifies.
GenerationsImmutable ==
  [][\A g \in Manifest : Intact(gens[g]) /\ damages' = damages
                           => gens'[g] = gens[g]]_vars

\* A publication never replaces a set by one compiled from older sources: a
\* writer that waited while another one published has, by then, outdated BEAMs,
\* and it is the hashes it records under the lock that stop it.
PublicationsAdvance ==
  [][pointer # None /\ pointer' # pointer =>
       \A m \in Module : pointer'.source[m] >= pointer.source[m]]_vars

\* As long as nobody tampers with the files, no crash, failed operation or
\* interleaving of writers takes a usable set away from the readers, not even
\* for the moment between two renames.
Usable          == Intact(DirAt(Resolve))
UsableStaysUsable == [][damages' = 0 /\ Usable => Usable']_vars

\* Where a sweep can go on by itself (one that found no set to reuse hashes no
\* source; the leaked lock leaves a process that runs something else).
HasStep(w) ==
  \/ pc[w] = "hash" /\ (prior[w] # None \/ seen[w] = NothingRead)
  \/ pc[w] \in {"scan", "parse", "reopen"} \cup (InLock \ {"leaked"})

\* Nobody waits in vain: a sweep that waits for the lock finds it free, held by
\* a child that will notice that it serves nobody, or held by another sweep that
\* can go on, whatever crashed, failed or was killed in the queue before; and
\* every other sweep that has begun can go on.  But for a process that
\* write_owner left alive with the lock.
NobodyWaitsInVain ==
  \A w \in Writer : pc[w] # "idle" =>
    \/ HasStep(w) \/ pc[w] = "leaked"
    \/ /\ pc[w] = "wait"
       /\ \/ lock \in {None, Orphan}
          \/ \E v \in Writer : lock = v /\ (HasStep(v) \/ pc[v] = "leaked")

\* A sweep that has begun comes to an end; only a process that keeps running
\* after write_owner raised in it can hold up the others.
Leaked     == \E v \in Writer : pc[v] = "leaked"
SweepEnds  == \A w \in Writer : pc[w] # "idle" ~> pc[w] = "idle" \/ Leaked

\* The store implements the register its readers rely on.
Published == INSTANCE PublishedSet
  WITH Tree <- Build, Image <- Snapshot, trees <- past, named <- Named,
       opening <- {r \in Reader : rpc[r] # "idle"}, answer <- accepted

ImplementsPublishedSet == Published!Spec

----------------------------------------------------------------------------
\* What the design document says of the program, and the program does not do.

\* "A same-name stale BEAM is never considered fresh"
\* (unified-artifact-integrity-sweep.md, Acceptance criteria): a generation that
\* verifies holds the code of the sources it records.
NoStaleBeam == \A g \in Manifest : Intact(gens[g]) => g.code = g.source
=============================================================================
