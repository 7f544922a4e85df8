# Verification of the Cure compiler

Cure is a dependently typed language for the BEAM; its compiler is written in
Elixir (`src/lib/cure`) and its standard library in Cure (`src/lib/std`). Type
checking, elaboration and code generation are pure functions over terms. What
is hard to get right *and* to test is what surrounds them: several operating
system processes compile into one output directory while others load from it,
sources change under a running build, interfaces and BEAMs of earlier runs are
reused, and any process may die between two file operations; an SMT solver is
asked through a port and may be slow or die; and an editor reads the language
with a generated parser of its own. This directory models that machinery in
TLA+, checks it with TLC on small instances and proves its main invariants with
TLAPS for every instance.

## 1. Inventory

Paths are relative to `src/lib/cure` unless they begin with `src/`.

### Artifact store — `compiler/artifacts.ex`, `compiler/artifacts/`, `compiler/build_manifest.ex`

*State.* An output root: the `current` pointer, immutable generation
directories under `.cure_generations/` named by a digest of their manifest,
staging directories `.cure_staging_*`, the lock file `.cure_artifact.lock`, and
possibly an older layout in which the root itself holds the manifest and BEAMs.
Each sweep has local state: what it read, what it compiled, the generation it
is publishing.

*Operations.* `Sweep.do_repair_canonical` (open the current set, short circuit,
compile, publish, re-open), `Lock.with_lock` (an flock(2) child process per
waiter), `Writer.transact` (clean staging, stage, build, verify, install, move
the pointer, remove the old layout), `open_verified_set` (no lock).

*Interaction.* Writers meet at the lock; readers and writers meet only in the
file system. The sweep reads the sources three times, at different moments, and
an editor may save between them.

*Correct when* stages are private, generations never change, a reader returns a
complete set that was named while it was opening, a sweep answers with code of
sources no older than its own beginning, publications do not go backwards, a
failure leaves the usable set usable, and every sweep ends.

### Module pipeline — `compiler/module_pipeline.ex`, `compiler/module_pipeline/`

*State.* Per run: the module manifest, expansion, a graph of strongly connected
components, the interfaces published so far; across runs: the interface cache
(`cache.ex`) and the published BEAMs a later run may reuse (`emission.ex`).
*Operations.* check components in dependency order, reuse or recheck each,
store the cache, emit, publish (`publication.ex`).
*Interaction.* A run is what a sweep does between reading the sources and
publishing. Runs meet in the interface cache, which has no lock, and in the
published generation, which has.
*Hard.* Two caches with different keys (interfaces by dependency hashes, BEAMs
by source and interface hash), written at different moments of a run that may
stop in between; components of modules that import one another; a run that goes
on after a component failed, to report more.
*Correct when* reuse makes no difference to the interfaces a run works with, a
run that checked can always be emitted, a published BEAM and the interface
beside it come out of one check, and an incremental build publishes what a
clean build would while checking no more than a change reaches.

### VM loader — `load_verified_set`, `load_recorded_artifacts` in `compiler/artifacts.ex`, `stdlib/preload.ex`

*State.* The modules loaded in the VM, shared by its processes. *Hard.* Loading
is module by module after a preflight; another process may load from another
generation meanwhile, a file may vanish half way.
*Correct when* the VM runs modules of one generation.

### Kernel and termination — `core/`, `elab/totality_*.ex`

Pure. The size-change algebra (`size_change.ex`), closure search
(`totality_closure.ex`) and certificates have small finite instances; the
dependent kernel itself has not, and the Agda development under `src/proof`
is about it.

### Elaborator — `elab/`

Pure transformations of syntax trees of unbounded size; no shared state.

### SMT process and guard lint — `smt/process.ex`, `elab/guard_lint.ex`

*State.* A GenServer per question: its port to a Z3 process and its mailbox
(requests, lines, the exit status). In the elaborator, which is a process of its
own: the `trap_exit` flag, its monitor, and the exit messages in its mailbox.
*Operations.* `init` opens the port; `handle_call({:query, _})` writes the query
and an echo of a sentinel and reads lines until the sentinel, the exit of Z3 or
a silence of its timeout; `handle_info` drops what comes later; `terminate`
closes the port. `run_isolated` traps exits, starts a server, queries it for at
most ten seconds, stops it, drains its exit message and restores the flag.
*Interaction.* Messages, one link, one monitor per call, a pipe.
*Hard.* Two timeouts that race (10 s in the caller, one per line in the server);
answers that come after their question was given up; a Z3 that dies between two
requests or half way through an answer; signals that are under way when the
mailbox is drained.
*Correct when* an answer belongs to its question, each check returns and leaves
neither a server nor an exit message behind.

### Editor grammar — `src/tree-sitter-cure`

*State.* A character scanner with a state per parse state (`ts_lex`,
`ts_lex_modes`, `ts_lex_keywords`) and an LR stack driven by a table, both
generated from `grammar.js` into `parser.c`; the driver is the tree-sitter
runtime. *Operations.* Advance or skip a character, accept a token, capture a
keyword, shift, reduce, accept, reject.
*Hard.* The grammar is ambiguous and settled by precedences; the scanner's mode
depends on the parser and decides between regex, division and string content;
the compiler has a lexer of its own, and the two are kept equal by hand.
*Correct when* the tables accept what the grammar describes, no token is left
lying, and a file is cut into words, comments, regexes and interpolations where
the compiler cuts it.

### Compiler lexer — `compiler/lexer.ex`

One pass over the text with counters: brackets around newlines, braces inside an
interpolation, indentation, and the last token kept, from which a `/` is told
from a regex. *Correct when* a group ends where its closer is.

### Temporal checker — `temporal/`, `protocol/verifier.ex`

Pure search over a finite graph. *Correct when* its verdict is that of linear
temporal logic.

### Observation journal — `observe/`

*State.* One ETS table for every recorded process, keyed by time.
*Hard.* Equal keys; the table dies with its owner.

### Packages — `project/`, `project.ex`

Resolver (depth-first search with backtracking), lock file, registry client,
signatures. *Correct when* the resolver finds a solution exactly when there is
one and the lock file reproduces it.

### Tools — `repl.ex`, `lsp/`, `watch.ex`, `cli.ex`, `release.ex`, `migrate.ex`

Drivers. The language server keeps documents by version; the REPL's line editor
is a pure state machine; watch mode polls modification times.

## 2. Modules

| Module | What it is |
| --- | --- |
| `ArtifactStore` | the publication protocol: sweeps, lock, writer, readers, faults |
| `PublishedSet` | what a program that opens the store may rely on (a regular register) |
| `MCArtifactStore` | the TLC instances of `ArtifactStore` |
| `IncrementalBuild` | runs that reuse the interfaces and BEAMs of earlier runs |
| `CleanBuild` | what a user expects of it: each publication is a build from nothing |
| `MCIncrementalBuild` | import graphs and outcomes of checking, for TLC |
| `ArtifactStoreProofs` | proofs: types, mutual exclusion, private stages, no sweep waits in vain |
| `ArtifactStoreData` | proofs: what a published generation contains |
| `ArtifactStoreUse` | proofs: immutability, usability, readers, the refinement |
| `IncrementalBuildProofs` | proofs: types, phases of a run, BEAMs and interfaces |
| `IncrementalBuildClean` | proof: reuse makes no difference, for any number of runs |
| `IncrementalBuildSequential` | proofs: builds one after the other, and the refinement of `CleanBuild` |
| `SmtProcess` | the GenServer, its port, Z3 and the signals of its end |
| `GuardLint` | `SmtProcess` with its caller, `run_isolated` |
| `SolverOracle` | what the lint promises: each question answered once, by the truth or "unknown" |
| `MCGuardLint` | the TLC instance of `GuardLint` |
| `GuardLintProofs` | proofs: types, ends of servers, exit signals, the refinement; nobody waits in vain, and the steps run out |
| `EditorTokens` | the symbols of the editor's grammar and their kinds |
| `EditorLexer` | the generated scanner as tables |
| `EditorTable` | the generated LR table |
| `CompilerLexer` | what the compiler's lexer has to have in common with it |
| `EditorParser` | the scanner and the table at work on a file |
| `Nesting` | which sequences of tokens the grammar accepts, without a table |
| `MCEditorParser` | alphabet and tokens of the TLC instance |
| `EditorParserProofs` | proofs: types, the refinement of `Nesting`, interpolations, regexes, comments and keywords; no token is stuck, and reductions end |

### ArtifactStore and the code

The content of a source file is a version number. A BEAM is the version its
code was generated from and the version whose hash it embeds. A manifest
records both hashes per module; the digest that names a generation directory is
the manifest itself, so that equal digests mean equal sets.

| In the model | In the code |
| --- | --- |
| `Begin`, `HashSource`, `ShortCircuit`, `Changed` | `canonical_prior_generation`, `unchanged_generation` (sweep.ex) |
| `ScanSource`, `Scanned`, `ParseSource`, `Compiled`, `CompileFails` | `ModuleManifest.build`, `Expansion`, `Emission` |
| `Acquire`, `WriteOwner`, `Release`, `OwnerWriteFails`, `LockFails`, `OrphanAcquires`, `OrphanExits` | `Lock.with_lock` and its flock child |
| `CleanupStaging`, `StageCurrent`, `WriteBeams`, `RecordSource`, `SaveManifest`, `VerifyStage` | `Writer.transact` and the sweep's build function |
| `InstallNew`, `KeepInstalled`, `Quarantine`, `Reinstall`, `PublishPointer`, `RemoveLegacy…`, `Unstage`, `Reopen` | `Writer.publish`, `install_generation`, `publish_pointer`, `remove_legacy_outputs` |
| `StartOpen`, `ReadManifest`, `VerifyModule`, `Accept`, `Reject` | `open_verified_set`, `BuildManifest.read`, `verify_manifest` |
| `Crash`, `Fail`, `Edit`, `Damage` | the environment: a process dies, a file operation fails, an editor saves, a published file is overwritten |

`past`, `start`, `snap` and `window` are history variables: no action reads
them to decide anything. A definition whose name begins with `Slip` is the
preceding or following action with a plausible bug; no next-state relation uses
it, and each property has one that violates it, which shows what the property
is able to notice.

### IncrementalBuild and the code

Which components there are, and what checking one yields for given texts and
given interfaces of what it imports, are constants (`Components`, `Compile`):
elaboration and code generation are functions, and the questions asked here are
about what they are applied to. A record of the cache is the text it was checked
with, the interface's hash, and the hashes of the named modules at that time.
Reading the sources and publishing are one step each, since `ArtifactStore`
shows that what is published is one state of the sources.

| In the model | In the code |
| --- | --- |
| `Begin`, `BeginAfresh` | `canonical_prior_generation`; the removal of the cache in `do_repair_canonical` |
| `Scan` | `ModuleManifest.build`, `Expansion.run` |
| `ListCache`, `LoadInterface`, `Loaded`, `LoadMiss` | `Cache.load`, `Interface.load_roots`, `verify_all` |
| `ReuseComponent` (`CanReuse`, `Unchanged`, `ReusableBeams`) | `reuse_component`, `Cache.reusable`, `products_reusable?`, `reusable_from_generation` |
| `CheckComponent`, `FailComponent` (`Outcome`, `Freeze`) | `check_or_report`, `check_component`, `imported_environment`, `freeze_component_interfaces` |
| `ClearCache`, `StoreInterface`, `Stored`, `RejectFailedRun` | `Cache.store`, `reject_failed_run` |
| `Emit`, `EmissionFails` | `Emission.run` |
| `Publish`, `Refuse` | `Writer.transact` with the checks of `ArtifactStore` |

`MCIncrementalBuild` gives a file three possible texts: one whose interface is
inferred and follows those it imports, one that has its types written out and
checks only against some interfaces, and one with an interface of its own. That
is enough for an interface to change without a text, for a text to change
without its interface, and for a change to make an unchanged module fail. In
`builds` the second text differs from the first in what no interface hash covers,
a comment or the layout. A body is not that: the hash covers the bodies of a
module's functions and, through their certificates, of those they call (§5).

### SmtProcess, GuardLint and the code

A server is named by the number of its question. What Z3 prints for a query is
a verdict (the one the question deserves, or `unknown`), or an error and then a
verdict about what is left, and last the sentinel; it may stop after any line.
`Truth` is the verdict each question deserves.

| In the model | In the code |
| --- | --- |
| `StartServer` | `start_link`, `init` |
| `HandleQuery`, `QueryFails` | `handle_call({:query, _})` up to its first receive; `Port.command` on a port that is closed or breaks |
| `CollectLine`, `CollectEnd`, `SolverExited`, `GiveUp` | the clauses of `collect_response`; `classify_output` is `Classify` |
| `IgnoreLine`, `UnhandledExit` | `handle_info`, and the message it has no clause for |
| `HandleStop` | `GenServer.stop`, `terminate` |
| `PrintLine`, `SolverDies`, `PortNotices` | Z3 and its port |
| `Start`, `Query`, `TakeReply`, `CallTimeout`, `Stop`, `Stopped`, `Drain`, `Restore` | `run_isolated` |
| `SignalEnd` | the runtime: link exit, then monitor, later than the process leaves the table |

### EditorParser and the code

`EditorLexer` and `EditorTable` state what `ts_lex`, `ts_lex_keywords`,
`ts_lex_modes`, `ts_parse_table`, `ts_small_parse_table` and `ts_parse_actions`
contain, with states and characters that are treated alike written once. Every
transition of the scanner, every accepted token, every lex mode and every entry
of the table for every parse state was compared with `parser.c`. Parse state 0
is the recovery's; the others all occur in a run. The rules of a scanner state
and a row of the table are partial functions, put together with `One`, `Each`
and `++` in the order the code tries them: of two that apply the first counts.

`EditorParser` does what the tree-sitter runtime, which is not part of this
repository, does with them: scan from the mode of the parse state, keep the
longest token and give back what was read beyond it (`Advance`, `EndToken`,
`Garbled`), make a keyword of an identifier where the parse state has a use for
it (`Captured`), reduce and shift (`ShiftToken`, `ReduceItem`, `AcceptFile`,
`RejectToken`). It stops at the first error. `Offer` stands for a whole scan.
`context`, `last`, `scopes` and `kept` are history variables: the first two are
what `Nesting` remembers, the other two what the compiler's lexer would have
counted and kept after the same tokens. The compiler cuts some of the editor's
tokens into several: `-->` into `-` and `->`, `-=` into `-` and `=`, `*->` into
`*` and `->`, `=%{` so that a bare `{` is left. What is left last decides
whether a `/` begins a regex. The model does not spell operators, so `Kept` gives
every outcome of the cut, and a step takes any of them. An indented line's
`:indent` token would be "other" where the model says that nothing was kept yet;
before the first token the two lexers differ anyway.

## 3. Runs

| Run | Instance | Question | Distinct states |
| --- | --- | --- | --- |
| `sweeps` | 2 writers, 1 module, 2 versions, 1 fault, 1 damage | `TypeOK`, `StagePrivate`, `SweepReturnsCurrent`, `GenerationsImmutable`, `PublicationsAdvance`, `UsableStaysUsable` | 468,533 |
| `readers` | 1 writer, 1 reader, 2 modules, 2 versions, 1 damage | `ReaderReturnsNamed`, `GenerationsAreSnapshots`, `ImplementsPublishedSet` | 598,835 |
| `progress` | 2 writers, 2 faults, fair | `NobodyWaitsInVain`, `SweepEnds` | 38,811 |
| `build_runs` | 2 runs, `app` imports `base`, edits of `base` | `TypeOK`, `InterfacesAreClean`, `EmissionComplete` | 907,336 |
| `build_faults` | 1 run at a time, 3 texts, a fault | `InterfacesAreClean`, `BeamsMatchInterfaces` | 244,737 |
| `builds` | sequential builds; `mid` and `app` import one another and `mid` imports `base`; 3 texts | `RebuildsOnlyAffected`, `BeamsAgree`, `ImplementsCleanBuild` | 28,890 |
| `smt` | 2 checks, one of each verdict, the caller's flag either value | `TypeOK`, `ServerEnds`, `ExitsDrained`, `NobodyForgotten`, `AnswersOracle`, `Settles`, `ChecksReturn` | 27,130 |
| `editor` | 55 characters on stacks up to 2, 18 tokens up to 6 | `TypeOK`, `KeywordsAgree`, `CommentsAgree`, `InterpolationsAgree`, `SlashesAgree`, `TokenHasStep`, `ParsesGrammar`, `ReductionsEnd`, `TokenConsumed` | 353,867 |
| `drift` | 1 run at a time, edits while it runs | finding 2 | |
| `facade` | `app` sees `base` through `mid` | finding 3 | |
| `macros` | `app` expands macros of `base` | finding 4 | |
| `stale` | 1 writer, 1 module, edits may revert | finding 1 | |

*Bounds.* `MaxVersion` bounds the contents of a file; two let a publication be
stale, and two modules that change between the passes of one sweep a mixture. `MaxFault`
counts crashes and failing file operations together: one anywhere in a
publication that another writer repairs, two for a crash that leaves an orphan
in the lock's queue behind a leaked lock. `MaxDamage` counts overwritten files:
one makes the repair path run. Two writers contend for the lock, clean one
another's stages and publish across one another; one reader suffices since
readers do not write. Two modules are needed where a set can be a mixture. The
proofs remove all these bounds but the number of versions and of faults, which
they leave arbitrary. In `IncrementalBuild` the number of builds is not bounded:
the caches of any sequence of runs are reached. Two runs mix one cache; two
modules suffice for everything that passes through one import, three for a
component that imports another and for an import of an import; the import graph
does not change during a run of TLC. In `smt` a check can meet nothing of
another but what an earlier one left (a signal under way, the flag), so two
checks show every meeting; the proofs are for any number. In `editor` files of
any length are read: only the height of the stack is bounded. The alphabet has
every letter of a reserved word and a character of every other class the rules
tell apart but those that only number prefixes use. `ScanHeight` 2 is a whole
item at the top of a file or the first inside one group, string or
interpolation, so every scanner state is met but those of a `.` and a part of a
qualified name, which stand deeper (37, 38; these tokens are offered whole), one
that needs three characters beyond a token (4; `MaxTail` is 2), and those only
the recovery uses (0, 62, 67, 88). `MaxHeight` 6 nests a string with an
interpolation inside another group, and meets every parse state.

*Fairness.* Each sweep that has begun takes its next step (weak fairness of
`Compile(w) \/ Publish(w)`: straight-line code). `Acquire` is strongly fair:
flock(2) hands a freed lock to one of the waiters and does not starve one for
ever. A lock child that finds itself without its BEAM exits. Nobody has to
start a sweep or to open the set, and a process that lives on after an
exception in `write_owner` need not end.
`IncrementalBuild` states safety only and assumes no fairness. In `GuardLint`
the server, the elaborator inside a check and the delivery of exit signals each
take their next step, timeouts included; nothing is owed by Z3, and a check need
not begin. In `EditorParser` a token that was read is parsed: the runtime's
parse is one call. Deadlock is checked everywhere but in `editor`, where a file
ends, and in `smt`, where the checks do or the elaborator is killed.

## 4. Proofs

Constants need only what the named assumptions of the modules state, and what is
said below.

1. `ArtifactStoreProofs`. `StoreInv` is `TypeOK` with three parts: `LockInv`
   (a sweep is in the lock's section exactly when it holds the lock, which is
   why `Release` must hand the lock back in the same step as it leaves),
   `LocalsInv` (the variables a phase relies on are set) and `StageInv` (what
   the stage of the writer in the section contains in each phase). `StagePrivate`
   is a part of `StageInv` but not inductive without the others: nothing else
   says that two writers are not both staging.
   `SweepsWaitForSomebody` is the part of `SweepEnds` that needs no fairness: the
   lock never stays with a sweep that has left `with_lock`, whatever crashed or was
   killed in the queue (`LockInv` read the other way), and a sweep that found
   nothing to reuse has hashed nothing (`HashInv`), so that one of the two ways out
   of hashing is open.
2. `ArtifactStoreData`, assuming that no edit restores an earlier content
   (`~Reverts`). The sweep reads every source for its hash (`scanned`), for the
   parser, and under the lock for the manifest. With `snap` the source tree
   between the first and second pass, `scanned <= snap <= recorded`;
   verification demands that embedded and recorded hashes agree, so all are
   equal and so is whatever was parsed in between (`VerifiedIsSnapshot`).
   Hence `GenerationsAreSnapshots` and `SweepReturnsCurrent`. The run `stale`
   shows that the assumption is needed.
3. `ArtifactStoreUse`. Without that assumption: an intact generation never
   changes and a usable set stays usable (`PlacedInv`: the place of a
   generation that is being reinstalled is empty; without damage, whatever is
   named is whole). With it: publications advance (`AheadInv`: a verified stage
   is at least as new as the pointer), readers return a set named during their
   open (`ReaderInv`), and the store implements `PublishedSet`.

4. `IncrementalBuildProofs`, for every import graph, every outcome of checking,
   any number of runs, edits and faults. `BuildInv` is `TypeOK` with three parts
   that speak of one run each: `PhaseInv` (what is computed in which phase; what
   is not decided yet is empty), `ReuseInv` (whatever is checked without a BEAM
   has one in the generation the run may reuse) and `ProductInv` (texts,
   interfaces and BEAMs that stand together come out of one check).
   `EmissionComplete` needs the first two: it is stated at `emit`, but decided
   when each component is. `BeamsMatchInterfaces` needs all: `Emit` takes a BEAM
   by hashes alone, and may since the generation it takes it from satisfies the
   same.
5. `IncrementalBuildClean` proves `InterfacesAreClean` for any number of runs
   that share the cache, under two assumptions. `SingleModules`: no two modules
   import one another; without it the property fails as §5 tells. `NamedOnly`:
   what checking a module yields depends on its text and on the interfaces of
   the modules it names; `facade` and `macros` show what happens otherwise.
   The instances of `build_runs` and `build_faults` satisfy both.
   `CleanInv` says that every record, wherever it is kept, is the outcome of a
   check with the text and the interfaces it names (`Sound`), and that whatever
   a checked module reaches is checked (`Closed`): reuse asks for the named
   modules only, checking for all that they reach. An outcome, once found,
   stands, because a component follows all that it reaches (`OutsideBefore`).

6. `IncrementalBuildSequential`, for one process (`OneRun`), and components whose
   checking depends on the texts of the members and the interfaces they import
   (`NamedTogether`, which `builds` and `build_faults` satisfy and `macros` and
   `facade` do not). Modules may import one another here, in any way.
   `OneRunIsClean` is `InterfacesAreClean` again, and needs no second assumption:
   members of a component are not compared with one another (cache.ex:77), but
   with one process they were written by one check. `FilesInv` says what a run
   knows of the cache between the reads and writes of single files, `TogetherInv`
   that records of one component, wherever they are kept, come out of one check.
   The last three results are about runs that succeed, while sources change
   between them only (`Undisturbed`, an assumption on steps): a run that stores
   its interfaces and then fails, is refused or crashes leaves a cache newer than
   the published generation, and the BEAMs drift apart (`drift`); a component that
   failed is checked again although nothing about it changed. `SequentialInv` says
   that otherwise cache and generation hold the same records whenever the process
   is idle, and which of them a run has replaced in between; it gives
   `RebuildsOnlyAffected` (`OnlyAffectedRebuilt`). `BuiltInv` adds that what is
   decided is what a build from nothing would decide, code included, and gives
   `BeamsAgree` and `ImplementsCleanBuild` (`BeamsKeepAgreeing`, `BuildsAreClean`).
   `SequentialBuilds` has no assumption on steps: with one process, no fault,
   sources edited between runs and texts that check, the instance of `builds` for
   every import graph, every run does succeed, and all three hold.

7. `GuardLintProofs`, for any number of checks and any verdicts. `Inv` is
   `TypeOK` with four parts: `Monitored` (the caller monitors exactly while it
   waits, and what it hears fits), `LastStarted` (only the last server may be
   alive, and only inside its check), `Witnessed` (a server whose end was heard
   has no signal under way, and no message after the drain) and `OwnAnswer`
   (what the server reads and the caller holds is about its question).
   `ExitsDrained` needs the order in which the runtime tells of an end, link
   before monitor: hearing of it by the monitor means that the exit message is
   already there for a drain that does not wait. `AnswersOracle` needs that a
   check outlives its server (`ServerEnds`): the next question meets an empty
   port. `AnswersAreOwed` maps each step to one of `SolverOracle` or a stutter.
   Two more theorems are what `ChecksReturn` rests on. `NobodyIsForgotten` says
   that someone can always take a step for a caller that waits; `WaitInv` adds to
   `Inv` that a call is answered, still to be read, being worked on or followed by
   the end of its server (`Attended`), and that a server is asked once
   (`AskedOnce`). `StepsRunOut` says that every step lowers `StepsLeft`, a sum over
   what is left to do in the checks, the server, Z3 and the pipe: a step of one may
   make work for the others, and its weight pays for that (`Bargain`). No fairness
   is assumed in either. What remains for TLC is that together they give a
   leads-to.

8. `EditorParserProofs`, for every height of the stack and any length of file:
   TLC meets nests of six states, here they are as deep as one likes. `Parsing`
   is the invariant all of it rests on. The stack is `Linked`: next to one another
   lie only states of which the table leads from the one to the other (`Below`).
   And whatever token comes, the state on top knows what the grammar remembers of
   the last ones (`Meets`); in the middle of a chain of reductions it knows as much
   of it as the token that waits can tell apart, and no more. Both follow from
   what the 61 rows hold, which is stated once: `Entry` says which actions a row may
   have, `Handles` which tokens it must have one for (`TableIs`, from one lemma for
   each row). `Uncovers` follows a reduction down the stack.
   `TableParsesGrammar`: every step of the parser is a step of `Nesting` or none,
   with the groups that the states on the stack have opened (`Opened`) as its open
   ones. What the table shifts the grammar allows (`ShiftAllowed`), and what it has
   no action for the grammar refuses (`RejectRefused`).
   `BracesAgree` needs the counters in every outcome of the parser and not only
   while it reads (`CountsOpen`), and that a closer takes from them what its opener
   gave (`CountCloses`), which rests on the previous theorem: only a group that is
   open is closed.
   `RegexesAgree` relates the state on top and the last token the compiler kept to
   the same token (`LastTaken`), whichever outcome the cut of an operator has.
   `CommentsExtend` relates the scanner's state to the compiler's place in a comment
   (`InComment`). No rule of the 82 states that are in no comment leads into one, but
   for a first `#` (`LeadsElsewhere`), and in the others one character leads both on
   or ends both (`CommentSteps`, `CommentEnds`).
   `NoTokenIsStuck` and `ReductionsRunOut` are what `TokenConsumed` rests on. A
   reduction pops as many states as its rule has symbols, and the state it uncovers
   has a goto for what the rule makes: that was a by-product of following it down
   the stack (`UncoveredGoes`), and is stated for itself in `TokenHasStep`. A chain
   of reductions cannot go on, because a reduction that does not
   shorten the stack leads to a state of lower `Rank` (`RankFalls`,
   `ReductionsFall`): `ReductionsLeft` counts two for every state and the rank of
   the one on top.
   `KeywordsReserved` has two halves. That the trie takes each reserved word is a
   fact about letters, which no backend sees in a string: it is the theorem's
   hypothesis (`TrieTakesKeywords`), and the run, which reads every reserved word
   letter by letter, shows it. That the parse state has a use for the word wherever
   the compiler reserves it is proved for every state the parser can be in
   (`KeywordsHaveActions`): only after `--`, where a transition's event is
   expected, it has not, and that is the exception the property makes. The other
   states without the whole vocabulary are inside a string and after a `.`, and
   there the scanner's rules end no identifier (`NamesInBodies`).
   `EditorTypes` collects the types and the bounds on what is read ahead.
   `Opened` and `Tally` are recursive functions on a sequence; what they do with one
   element more is proved by induction with a set in the place of the predicate
   (`NaturalsBySets`, from the well-foundedness of the naturals), since the library's
   induction theorems cannot be instantiated.

Only model-checked: `SweepEnds`, `ChecksReturn` and `TokenConsumed`, which are
liveness under fairness, out of the provers' reach. Proved for each of them is
that someone can always take a step, and for the last two that a variant falls;
that a sweep goes through its phases in order, and that flock(2) serves every
waiter in the end, is left to the run. Every other property of a passing run is a
theorem under the assumptions named above, `KeywordsAgree` up to the hypothesis
about letters.

## 5. Findings

1. *Stale code under a fresh hash* (`stale`, `NoStaleBeam`). `scan_entry`
   hashes a source, `parse_unit` reads it again and compiles that, and
   `canonical_manifest_entries` hashes it a third time; the second read is
   compared with neither. An edit saved after the first read and undone before
   the third publishes the code of the edited text under the hash of the
   original, and each later sweep takes the short circuit on it. The design
   document (`docs/superpowers/specs/tooling/2026-07-30-unified-artifact-integrity-sweep.md:800`)
   says that a same-name stale BEAM is never considered fresh.
2. *BEAMs of other interfaces* (`drift`, `BeamsAgree`). The cache is stored
   before it is known whether the run publishes, and a published BEAM is reused
   by the hashes of its own text and interface. A run that checks a module
   against a new interface and is refused leaves a record with which the next
   run takes the old BEAM. `BeamsMatchInterfaces` is what does hold: text,
   interface and code of a module come out of one check. While every run is
   published, `BeamsAgree` holds too (`builds`, `BeamsKeepAgreeing`).
3. *Changes behind a façade* (`facade`, `PublishedChecks`). The recorded hashes
   are those of the named modules; the environment is all that these reach. A
   module that republishes another one keeps its hash when the other changes. A
   changed interface should invalidate consumers through the checked graph, says
   `docs/superpowers/specs/tooling/2026-08-03-interface-first-module-pipeline-design.md:512-513`.
4. *Changed macros* (`macros`, `ImplementsCleanBuild`). Expansion uses the macro
   rules of imported modules, which no hash that is compared covers. The same
   document (498-505) lists them in the cache key.

Not among the runs, but seen while modelling:

- The document of finding 1 says (474-475) that a competing writer waits and then
  reruns the sweep. The code does not rerun: the writer publishes what it
  compiled before the wait if the recorded hashes still agree with it, and fails
  otherwise. That is the property `PublicationsAdvance`.
- It also promises (477-478) a diagnostic when the lock times out.
  `await_kernel_lock` has no timeout, and `write_owner` runs outside the `try`
  that releases: when it raises, the lock lives on with the process, and others
  wait as long. `SweepEnds` is stated up to that.
- The comment of `cache.ex` (9-11) says that "a body-only change to a provider
  therefore rebuilds the provider alone, because its interface hash is unchanged by
  construction", and the one at `core/inductive.ex:374-375` that an unmarked body
  leaves the hash alone. The hash covers direct-call summaries and certificates
  (`module_pipeline/interface.ex:165-170`), which hold hashes of bodies
  (`totality_certificate.ex:34-42`), so that an edit of a body spreads to the modules
  that import it. `test/cure/compiler/incremental_test.exs` asserts that it does
  (394-404, 776-808, 833-868; the note at 26-30 calls it a deviation from the plan).
  The comments are out of date. What holds is `RebuildsOnlyAffected`: no change
  spreads past an interface hash that stays the same.
- Reuse does not compare the members of a component with one another, and two
  runs that store at once leave a mixture. With two runs of the three modules of
  `builds`, `InterfacesAreClean` fails: a component is reused with members that
  were checked against other interfaces of one another. The pipeline's document
  (492-493) has a digest over the component, which the code has not. The runs
  keep components of several modules to one run at a time.
- The exit message of a server may miss the drain: when the query and the stop
  both find no such process, neither waited for a signal, and the one of the link
  may still be under way when the flag is restored. If the flag was off, an
  elaborator that was never to be crashed by the lint (guard_lint.ex:237-244) is
  killed. The model has these steps; `ExitsDrained` states what holds besides.
- The comment at guard_lint.ex:196-198 says that a crash of Z3 is answered in
  `handle_call`. It is while a query reads; between requests the exit status has
  no clause and ends the server.
- A second query to a process whose first one timed out would read the first
  one's answer. No caller asks twice.
- Inside an interpolation the compiler scans each token with `tokens: []`, so
  every `/` there begins a regex: `"#{a / b}"` is not a division, against the
  comment at lexer.ex:1528-1530, and the error is swallowed. The clause for
  `:return` in `regex_literal_start?` never applies: that token's type is
  `:keyword`. The comment of `handle_newline` says parentheses, brackets and
  braces; only `(` and `$(` are counted.
- `src/tree-sitter-cure/README.md:17` and `grammar.js:11` say that the editor's
  token rules mirror the compiler's lexer. `SlashesAgree` lists where they
  differ about a `/` that begins a token for both: after `-->`, for instance, only
  the compiler reads a regex, because its last token is the `->` of it. A `/`
  inside a run of operator characters (`=/`) begins a token for at most one of
  them, and is not compared. They differ as well about `if?` and `x?y`, `--` with no
  name after it, a backslash before a newline in a string, prefixes of numbers,
  and runs of operator characters.

## 6. What is abstracted or left out

- Verification is modelled in full; the cached verification by size and
  modification time (artifacts.ex:820-845) is left for a module of its own.
- A sweep opens and verifies its prior generation in one step (`Begin`), where
  `open_verified_set` reads file by file; what it took from it is compared again
  later, with the sources' hashes and under the lock. What the short circuit
  returns may have been damaged or replaced on disk since: `SweepReturnsCurrent` is
  about its hashes.
- `current_source_digest` compares the multiset of source hashes; the model
  compares them per module, since a source's text begins with its module name.
- Interface files and a forced sweep appear as a sweep that finds nothing
  reusable. `copy_verified` stages files of another root and then runs the same
  publication; it is not modelled.
- Failures of `File.rm` in `remove_legacy_outputs` are ignored by the code; in
  the model a fault may stop the sweep there, which leaves the same files.
- `set_intended_generation` rewrites diagnostic text only.
- In `IncrementalBuild` the short circuit of a sweep whose sources are all
  unchanged is left out (it changes nothing, and exists only without external
  interface roots); external interfaces, macros' generated references and edits
  of the import graph are left out; a cache file is written in one step, but a
  run that loads while another stores may find a half-written one (`LoadMiss`).
- `reject_failed_run` looks at diagnostics, the model at interfaces: a component
  without an interface has a diagnostic, or is the shadow of one that has.
- The kernel, the elaborator and code generation: pure functions on unbounded
  terms, out of TLC's reach.
- In `SmtProcess` a write that breaks (`epipe`) fails at once (`QueryFails`). One
  that is only noticed later, by a server that reads already, ends it as the exit of
  Z3 does (`SolverExited`, `UnhandledExit`).
- In `GuardLint`: the text of a query; lines that come in parts (`noeol`); the
  exit message of a `start_link` that fails, which OTP takes out itself; a Z3 that
  goes on computing after its port was closed.
- In `EditorParser`: the runtime's error recovery and its reuse of subtrees after
  an edit; names, fields and aliases of symbols, which shape the tree and not the
  parse; `array.h` and `alloc.h`, which `parser.c` does not include; a NUL in a
  file. Of the compiler's lexer, indentation and literals are left out, and which
  operator characters a run is made of. `InterpolationsAgree` and `SlashesAgree` are
  about the compiler after the same tokens: a lexing error inside an interpolation
  ends it early there (lexer.ex:1100-1101), and a `/` inside one may swallow what the
  editor goes on reading.

Not modelled, and why: the elaborator, the kernel and the rest of the command
line keep no shared state; the temporal checker, the resolver and the termination
certificates are sequential algorithms whose inputs are not bounded by anything
in the code; the journal, the VM loader, `publication.ex`, the language server,
watch mode and the REPL are small and could follow (§7).

## 7. Plan

1. `ArtifactStore` (done).
2. `IncrementalBuild` (done). Still open: `RebuildsOnlyAffected` up to what a
   failed run leaves behind.
3. `SmtProcess` and `GuardLint` (done).
4. `EditorParser` (done). Still open: the recovery from errors.
5. `VmLoader`: two processes that load from a store whose pointer moves;
   composed with `PublishedSet`.
6. `Publication`, `VerifyCache`, `Journal`: small protocols, each with the
   hazards listed for it in `PROJECT.json`.
7. `TemporalChecker`: `check_safety`, `check_eventually`, `check_until` against
   the semantics of LTL on all small graphs.
8. `Resolver`, `SizeChange`, `Grade`: pure algorithms against reference
   definitions; the semiring laws and the size-change composition lemmas are
   worth proving.
9. The language server, the REPL's line editor, `Std.Actor`.
