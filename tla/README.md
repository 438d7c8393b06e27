# A formal model of goatest

goatest verifies a Go project: it runs the project's tests on a snapshot of the
repository, measures what each test covers, races them, mutates the code and
asks which tests notice. A verification takes long and is interrupted often, so
most of the program's difficulty is in what survives a process: checkpoints,
caches, evidence of earlier runs, temporary directories that belong to somebody.
These TLA+ modules model that core. TLC checks them on small instances, TLAPS
proves what matters most for every instance.

Paths below are relative to the repository's `internal/` unless they say
otherwise.

## 1. The system

| Component | State it keeps | Operations | What is hard |
|---|---|---|---|
| Run coordinator (`assure/run.go`) | round, digest, phase, control workspace, accepted repairs | up to three rounds of snapshot, cache check, discovery, baseline, race, probe, mutation, repair, finalize | two goroutines share one control workspace; every phase may end the run |
| Checkpoint controller (`assure/resume.go`) | the saved state in memory, enabled flag | open, resume and save each phase, discard | must agree with two files whatever fails |
| Checkpoint store (`cache/checkpoint.go`, `checkpoint/`) | base document, append-only journal, memoized base digests | get, put, append, delete | crashes between and inside file operations |
| Verdict cache and lease (`cache/`) | one report per input digest, an advisory lock | get, put, collect, flush, acquire, release | several processes, eviction beside a live run |
| Acceptances (`assure/run.go`, `config/`) | findings a human accepted until a date | read at start, applied to survivors | they expire while saved work rests on them |
| Baseline (`assure/baseline.go`) | per-target and per-suite measurements | checks, parallel measurement, serial commit | workers finish in any order, one may fail |
| Mutation phase (`assure/mutation.go`) | memoized controls, per-mutant evaluations | route, reuse, control, execute, retry, classify | worker pool, shared controls, measured budgets |
| Mutation evidence (`assure/mutation_evidence.go`, `evidence/`) | recorded kills and survivals with target keys | reuse, record, store | a survival is a claim about every reaching target |
| Build cache (`buildcache/`) | base and scratch layers of actions and objects | get, put, touch, collect, serve | a collector beside readers and writers |
| Native projection (`assure/buildcache.go`, `buildcache/native.go`) | generation, seed, running executions | begin, mark dirty, refresh, persist, close | drain without admitting more |
| Resource manager (`resource/`) | shared and exclusive providers with reference counts | acquire, release, close | stopping outside the lock |
| Temporary ownership (`tempowner/`, `keptledger/`, `app/temp.go`) | a lock file and a marker per directory, a ledger | claim, keep, release, sweep | sweeps of other processes |
| Repair (`repair/`, `assure/generation.go`, `app/fix.go`) | candidates, backups | generate, validate, apply, roll back | partial application |
| Reports, trace, retention, UI, configuration | files and sinks | write, rotate, render | mostly formatting; bounded sinks count drops |

How they interact: `app.Service.runAndWrite` acquires the cache lease, runs the
coordinator, lets the cache policy evict old digests, writes the report and then
deletes the checkpoint of the run's snapshot. The coordinator calls the
checkpoint controller at every phase boundary and hands `saveBaseline` and
`saveMutant` to the baseline and mutation workers as callbacks. The controller
calls the store, whose two files outlive the process. What a component must get
right is listed with its source line under `hazards` in `PROJECT.json`, with the
property that guards it, or a note where none does.

## 2. The modules

| Module | Models |
|---|---|
| `CheckpointJournal` | the checkpoint document, a journal line, and reading the two back, as pure definitions |
| `ResumableWork` | what a checkpoint promises, with no files: one saved state that changes in whole steps |
| `CheckpointRun` | one snapshot verified by a sequence of processes: coordinator, controller and store |
| `CheckpointRunProofs` | the inductive invariant of `CheckpointRun`, the theorems, and the refinement of `ResumableWork` |
| `AcceptanceResume` | expiring acceptances against resumed mutants and cached reports |
| `MutationRouting` | one mutant from the measurements to its verdict: which tests run, and why others need not |
| `MutationPhase` | the worker pool that answers the catalog: shared controls, budgets, the second run, saving and resuming |
| `MutationPhaseProofs` | its inductive invariant and theorems |
| `MCMutationPhase` | its bounded instance |
| `TempOwner` | processes that share a temporary root: claiming, keeping, sweeping, the ledger and its collection |
| `MCTempOwner` | its bounded instance, with a collector or with a shared directory |
| `MutationEvidence` | records of kills, survivals and unreached mutants that later runs of other contents reuse |
| `MutationEvidenceProofs` | its inductive invariant and theorems |
| `MCMutationEvidence` | behaviours of its tests |
| `BuildCacheLayers` | gets, puts and touches of two layers beside collections of them |
| `BuildCacheLayersProofs` | its inductive invariant and theorems |
| `MCBuildCacheLayers` | what its actions compile to |
| `NativeProjection` | the hard-linked cache directory of a run: preparation, admission, draining, refresh, collection |
| `DirectoryProofs` | the inductive invariants and theorems of `TempOwner` and `NativeProjection` |
| `RunRounds` | the rounds of whole runs: what is copied, digested, opened and closed; the lease and the verdict cache |
| `MCRunRounds` | the instances of its two runs |
| `RunRoundsProofs` | its inductive invariants and theorems |
| `RepairApply` | verify and fix applying batches of candidates beside a user |
| `MCRepairApply` | the symmetry of its bounded instance |
| `FindingProofs` | the inductive invariants and theorems of `AcceptanceResume` and `RepairApply` |
| `ImpactSelection` | the graph of what tests reach, and what verify --changed selects and mutates |
| `MCImpactSelection` | the files of its bounded instance |
| `SelectionProofs` | the inductive invariants and theorems of `MutationRouting` and `ImpactSelection` |

`CheckpointRun`, `AcceptanceResume`, `MutationPhase` and `MutationRouting` are the
inside of one step or of one digest of `RunRounds`; `MutationEvidence` is what the
mutation phase of one run leaves to that of another.

### CheckpointRun

State and code: `base`, `journal` and `torn` are the two files
(`checkpoint-v1.json`; the complete lines of `checkpoint-journal-v1.jsonl`;
whether it ends in a fragment). `memo` is `checkpointBaseDigests[path]`, a digest
being modelled by the document it is of. `mem` and `enabled` are the
controller's. `phase` is the coordinator's program counter, one value per
place where it consults the controller. `op` is the file operation the store
call under way does next, `todo` the units an append has still to write.
`cached` and `reported` are the verdict cache's report of the digest and the
run's report. `acked` is history: what the store calls that returned left saved.

A store call is split where it can be interrupted. `PutCheckpoint` is
`PutRename` and `PutUnjournal`; writing the temporary file changes nothing
anyone reads, so its failures are failures of `PutRename`. An append writes one
`AppendLine` after another; `Stop` and `AppendFails` may leave a fragment, all
or nothing of the line. `DeleteCheckpoint` is `DeleteBase` and `DeleteJournal`.
The controller holds its mutex over all of it, so nothing else moves meanwhile.
The coordinator's steps follow `run.go`: open (or delete and start cold), the
baseline with its reset when the inventory changed, checks, target batches,
suites, completion, race, catalog, probe, mutants, repair, `Put`, report. A
phase with findings discards the checkpoint and goes to the report.

A batch of new targets or a suite is journaled line by line (`TargetBatch`,
`SaveSuite`) if it extends the last saved state. The extension is found with
`reflect.DeepEqual`, which tells the empty lists of a decoded checkpoint from the nil
ones of a measured baseline (`assure/resume.go:157-193`), so the first save of a
process that resumed is a full put of the whole batch at once: `decoded` and
`FirstBatch`. A batch that consists of compilation failures alone is put in full too
when one mutant is replayed, which is left out with replay.

`Stop` stands for every way a process ends early. `Evict` is the cache policy,
which runs between the run and its report, at the end of `Put` and from
`goatest cache gc`; an interrupted `RemoveAll` may leave one file. `Damage` is a
file that rots while nobody runs.

Abstracted: the content of a unit (only whether it is saved is kept), the
messages, digests of unrelated inputs; `Valid` keeps what relates phases to one
another and not the instrumentation anchors of the packages (`checkpoint.go:213-222`,
`:246`), which only compare a unit's content with another's. Journal lines keep the identity of their
base and unit, which is what replay decides on. Left out: later rounds (they
have no checkpoint; `RunRounds` has them), replay and runs with resources (no
checkpoint, or another digest). A process that runs without the lease is not in
this module.

`ResumableWork` is the abstract specification, with one variable: what a process
that starts now would resume from. Where files may rot, one more step is allowed,
`Reappear`: a rotten journal hides what is saved, and once the cache policy has
taken the journal away, the older base is read again.

### AcceptanceResume

`accepted` and `listed` are the two readings of the clock in `run.go:267-268`;
`Tick` may fall between them. `saved` is the checkpoint's mutation results,
`cached` the cached report, `outcome` the evaluation under construction.
`Evaluate` is one mutant resolved by the mutation phase, whatever its route;
`Resume` appends the saved results as they are; `PutReport` and `PutRejected`
are the two outcomes of the audit in `cache.Put`. The configuration is in the
digest, so `expires` never changes.

### MutationRouting

What an execution really does with a mutant (`effect` of each target,
`suiteDoes` of the whole package suite) is chosen in `Init`, and the program
never reads it: it sees only what the measurements show. `MeasureBaseline` and
`MeasureSuite` are the coverage profiles of the baseline, `SelectProbes` is
`neededProbeSuitePackages`, `ProbeTargets` the probe phase, `RouteMutant` the
composition of `routeMutant` (`CoverageRoute`: coverage by file or by block,
then the two discharges), `applySuiteCoverageRouting` (`SuiteRoute`) and
`applyProbeRouting` (`ProbeRoute`), and `Settle` the early returns of
`evaluateMutationSeed`. `Shown` and `Reported` say what a measurement may show
of an execution; it may also fail, and a target in `blind` runs code its
profile does not see (a subprocess), about which nothing is promised. The
properties compare the verdict with the effects: a discharge, a skipped suite
or a cheaper order must not lose a kill.

A coverage profile is one of five values per target, which is all the routing
asks of it. Whether another mutant of the package needs the suite probe is a
nondeterministic choice. Left out: the order and the durations of witnesses,
replay of one mutant (it skips the probe), and how an execution ends other than
passing or failing, which is `MutationPhase`.

### MutationPhase

A worker is named by the mutant it has: `stage[m]` is its program counter, and
at most `Jobs` stages are busy. `plan[m]` is the set of groups `MutationRouting`
ends with (or one suite); a mutant settled without running anything has the
empty plan. `prior` is what earlier phases measured, `memo` and `took` are
`memoizedOriginalControl` with its `sync.Once`, `budget` is
`mutationExecutionTimeout`, the capped sum of what was measured. `Expires` and
`SecondControl` are `executeMutationUnderMeasuredBudget`: the second control is
not memoized, and its own error only means that nothing vouches for the expired
run. `Save` is the callback into the checkpoint, whose failures are the subject
of `CheckpointRun`. `Collect` is the end of the phase after every worker has
drained the queue, `Stop` the end of the process, `Rerun` a later process that
resumes `saved`. `runs`, `seen` and `asked` are history.

Groups run in any order, where the code follows a fixed schedule: a property
that holds for every order holds for that one. Left out: mutants the compiler
rejects, accepted findings (`AcceptanceResume`), evidence reused from earlier
runs and written by this one, and runs without a containment ceiling, which the
configuration never produces.

### TempOwner

A run is named by the scratch directory it makes, so a directory is a run or one
of the `Shared` ones, which have a fixed name and no sweep looks at (the native
build cache). `present`, `marker`, `lock` and `aged` are what the file system and
the clock know of a directory; `pc`, `todo` and `at` are where a process is,
what it has listed and what it has in hand. `ledger` is the repository's
`kept-temp-v1.json`, `loaded` the copy of whoever holds its lock (`holder`).
`leased` says which processes were given the repository's lease: a verification
and a collection have it to themselves, while a plan runs without one, and so
does a verification that could not lock the file. A plan keeps nothing, which
also makes it stand for the runs of other repositories that use the same
temporary root. `spared` and `recorded` are history.

The sweep is split where another process may come in between: the listing
(`List`), the judgement by the marker (`Spares`, `CondemnsUnclaimed`,
`Suspects`), the lock (`Probe`), its release (`Unlock`) and the removal
(`Remove`). Claiming is `Make`, `Claim` (the lock) and `Mark`; giving up is
`Finish` and then, for the shared directory first and the scratch second, either
`Keep`, `KeepReleases`, `Load` and `Append`, or `Release` and `Erase`. A
collection holds the ledger's lock from `CollectKept` to `SaveEntries`. A removal
is whole, or fails with the marker gone or not. `Die` ends a process anywhere and
frees its locks; `Damage` is a marker that can no longer be read. The ledger
starts with any content, since it is a file of the repository that people edit
and merge.

Abstracted: whether an entry is older than the TTL is a free choice; `Age` is
the passing of the 24 hours after which an unclaimed directory is removed, and
does not fall between the making of a directory and its marker. Left out: the
native directory that a run makes of its own when the shared one is taken (it is
claimed, swept, kept and removed like a scratch), sizes and symbolic links.

### MutationEvidence

`behaviour` is what every test would do with every program (the original or a
mutant) on every content: whether it fails, and whether it reads outside the
files its narrow key covers. It is chosen in `Init` among those in which an
execution that reads nothing else is a function of those files, and no guard of
the program reads it; only executions show it. `run[r]` follows
`runWithDependencies`: `OpenWorkspace` copies, `Digest` names the run by the
content of the repository and loads the store, `Measure` covers and routes, and
then each mutant is taken from a record (`ReuseKill`, `NeverReached`,
`ReuseVerdict`) or executed (`GroupKills`, `AllSurvive`, `SuiteSurvives`,
`AnswerUnrecorded`), which records it with the keys of the tests that ran.
`Watched` is the repository observer: a test that was seen to leave its closure
gets the wide key, a digest of the tree. Any execution of a test that stays inside may
get it too, which the code decides by what a log names (`repository_observation.go`):
a record under a wider key is only found less often. `Save` writes the whole store;
`SaveFails` leaves the old one. `Flush` and `Damage` take the store away. Two runs
may be at work because one could not get the lease. Left out: the fields a record
carries for the report, and the early return that keeps a replayed mutant from
the store.

### BuildCacheLayers

A layer is two sets of files with ages, `actions` and `objects`; `output` is what
an action compiles to, which nobody knows before it is put. A get is `Look` and
then `Serve` (with the touch of the action, the object and the file times it
refreshes), `LookFurther` (the scratch's object is missing, and the base has an action
of its own) or `Miss`; a put writes the object where no layer it may rest on has
it (`Put`), then the action (`PutAction`). A collection decides on a listing
(`List`: what is expired, what frees the layer, what a kept action still refers
to) and removes afterwards, one file at a time. `Tick` makes everything older.
The files that the go command opens after an answer are what `Served` programs
still hold.

### NativeProjection

`native` is the directory in the go command's own format, `projection` the fields
of `nativeCacheProjection`, `gate` who drains it. Preparation seeds it and works
in it uncounted (`PrepareIn`, `PrepUse`, `PrepPut`), and what it compiled is
promoted into the base layer when it succeeds (`Promoted`). A command that
persists marks the projection dirty (`Marked`); one that is admitted first waits
until nobody runs if a refresh or a collection is due (`Admission`, `Drained`,
`Refreshed`, `Reopen`), and falls back to the cache program when the projection
is unusable (`EnterPlain`). Meanwhile other runs put into and evict the base
layer, and at the end the next run takes the directory over.

### RunRounds

The repository is one of a few contents that edits and repairs change, also back to
what it was, so a digest is the content itself; `truth` is what a faultless
verification would find in it. A run
goes through the phases in the order of `After`. It copies the repository
(`OpenWorkspace`), digests it (`Digest`), serves what the cache has
(`CacheCheck`), acquires resources, and copies it again for the controls;
preparation (`Prepare`) goes on beside the baseline, in a goroutine of its own,
and `Settled` is the wait for it that closing needs. The baseline is collected twice:
its checks run in the control workspace (`CollectBaseline`), its targets and suites in
the prepared session, on the mutants' copy (`MeasureBaseline`). `AttemptRepairs` changes
the repository and begins another round, at most `MaxRounds`. `Final` compares the
digest once more and refuses stale evidence; `Put` stores, `Report` writes.
`Fail` is the error of any phase, `Die` the end of the process, `LeaseFails` the
run that goes on without the lease. A phase that finds something finds what is
true of the copy it worked in; which of the phases finds it, and whether a mutant stays
inconclusive, is a free choice. The verdict "defect" stands for every verdict a baseline
or a race with findings reports, none of which is compared with the digest again.

`raced` observes the contents about which nothing can be promised: those a digest named
while the copy of the run was of another, and those that came back after a run that had
named them copied its control from another (`mixed`).

Left out: the checkpoint (`CheckpointRun`) and the evidence of earlier runs
(`MutationEvidence`), hence what work saved by a run with such a control does to the
verdict of the run that resumes it; the cache entry `verify --changed` writes early;
replay.

### RepairApply

Files have four contents: what a candidate was written for, the candidate, what
a user made of it, and none. `fix` validates each candidate of its batch in a copy
of its own (`Validates`, `Rejects`), inspects every file (`Inspect`), and then for
one file after another checks (`Check`) and writes (`AtomicWrite`, `WriteFails`); on a
failure what was written is compared and taken back (`Rollback`, `Restore`,
`RestoreFails`). A round of `verify` applies the first candidate that passes, or
stores them. `author` observes whose candidate a file holds. Nothing excludes two
commands: `fix` takes no lease. The command line always runs `verify` without
applying (`app/service.go:385`); applying is the library's mode.

### ImpactSelection

A file has code, declarations that run nothing (constants, types), or both, and each of
these parts uses parts of its own file or of others; an edit changes which. Every test
file holds one target. `Reach` is what the outcome of a target depends on;
`Dependencies`, the packages its test binary links, and `CoveredFiles`, the files whose
code it runs, are what a run measures of it. `SaveGraph`
writes the graph, merged with what it did not run (`MergeGraph`); `SelectImpact`
asks git for the changed files and the graph for the targets they reach, and
broadens to everything when it does not know one of them; `MutationScope` is what
it mutates. Targets are discovered in the repository, their dependencies in the copy
(`Discovered`, `Depends`). A failure of git or of the graph is `SelectAll`, which may
happen at any time. Files are edited, taken back (`Revert`) and committed (`Commit`) at
any time, whatever a run has measured or is measuring.

`ran` observes, for every target, the files it reached when its entry of the graph was
written, with their contents, and those of them whose code ran. With it the properties
name the two cases in which the code leaves out a target that a change reaches
(section 5): a stale entry (`Current` fails) and a changed file of the target's own
package of which it ran nothing (`UsedUnrun`).

## 3. What TLC checks

| Run | Bounds | Checks | Shows |
|---|---|---|---|
| `Checkpoint` | 2 targets, 2 packages, 2 mutants, 3 processes, 2 faults (failing calls or rotting files) | `AlwaysRecoverable`, `CrashIsAtomic`, `DiskFollowsMemory`, `ImplementsResumableWork`, `Terminates` | the two files always yield what was acknowledged, or that and the write under way, and are refused only when they rotted; they implement the abstract saved state: a unit or the targets of one batch at a time, phases in order, a discarded phase takes along what rests on it; a rerun verification ends with its report and, where nothing failed, without a checkpoint |
| `AcceptanceResumed` | 2 mutants, clock to 2, 3 runs | `WrittenHonoursExpiry`, `OnlyExpiryBlocks` | an expired acceptance never reaches a written report; nothing else keeps a report back |
| `MutationRouted` | 2 targets, one of them in the mutant's package | `NoKillIsMissed`, `SkippedSuiteIsHarmless`, `PositiveDefeatsSilence` | routing loses no kill that a faithful measurement could have shown, whichever measurement failed |
| `MutationPhase` | 2 mutants, 2 groups (one mutant has at most one of them), 2 workers, ceiling 2, 2 processes | `VerdictIsEarned`, `RunsAreControlled`, `SecondRunIsVouched`, `ExpiryIsWeighed`, `SiblingsAreSaved`, `SavedIsSettled`, `Terminates` | a verdict rests on runs under a healthy control, an expired budget is never taken for an answer, an error costs only its own mutant, saved verdicts stand, and the phase ends |
| `TempOwner` | a verification, a plan, 1 fault, and a collector or a shared directory | `LiveIsSafe`, `OwnIsFree`, `KeptIsSpared`, `RecordsAreNotLost`, `AbandonedIsCollected`, `LiveSharedIsSafe` | no working scratch is taken, no claim refused and no record lost, whatever the ledger names and whoever dies; what the dead leave is removed in the end; without a collector the shared cache is used by the holder of its lock |
| `MutationEvidence` | 2 runs (symmetric), 2 targets and their suite, 1 mutant, 2 files, 2 starts, 1 edit, flush or damage | `KillIsCurrent`, `SurvivalIsCurrent`, `UnreachedIsCurrent`, `SaveForgetsNothing` | what is reused of an earlier run is what the tests of today would answer, although a test may read what its key does not cover; a save loses no record it has no newer one for |
| `BuildCacheLayers` | 1 program, 2 actions with equal or different outputs, 1 object allowed, 1 collection at a time | `ServedStays`, `KeptIsServed`, `BoundIsSoft` | a collection that begins after an answer leaves it its files; what a kept action names stays; a layer exceeds its bound only by what may not be touched yet |
| `NativeProjection` | 3 commands, 2 actions, 1 persisting command, 2 runs | `PathsStay`, `AdmittedSeesPersisted`, `DrainEnds` | nothing a working command was given goes away, whoever is admitted sees what was persisted, and no drain starves |
| `RunRounds` | 2 processes (symmetric), 2 contents that differ, 2 rounds, 2 starts | `ClosesWhatItOpened`, `AssuredIsTrue` | a run closes what it and its preparation opened, and stores and reports no assured verdict that is wrong, whatever is edited and edited back, but for the contents in `raced` |
| `RunRoundsEnd` | the same without symmetry; only repairs change the contents | `Terminates` | every run ends |
| `RepairApply` | 2 commands (symmetric), 3 files, 2 starts, 2 edits by the user | `NoResidue`, `EditsSurvive` | a batch is applied whole or leaves nothing, and what the user made of a file is not overwritten |
| `ImpactSelection` | 2 packages, 5 files, 6 parts, 2 targets, 2 edits, any reverts and commits, all files there to begin with | `LeftOutIsUntouched`, `MutantsMeetTheirTargets` | what is left out would see what it has seen, and nothing that changed, unless its entry is stale or a declaration of its own package changed; no other mutant of the change lacks the tests that reach it, and no mutant of a package with a changed test does |

Why the bounds are enough. Two units of each kind let an append be cut between
two lines, two mutants arrive in either order, and a unit be repeated. Three
processes let a second one resume and be stopped and a third one read what both
left; the journal's dangerous history (lines of an older base in front of a new
one) needs two. Two failing calls let the write that is cleaning up after a
failed write fail too. A third process or fault reaches no file contents a
proof does not cover: the safety properties of both modules are proved for
every bound. `MaxStarts`, `MaxFaults` and `MaxTime` are the only bounds, all in
guards. `Stop` and the error of a batch require a start to be left, so that a
bounded behaviour may always go on; `CHECK_DEADLOCK` is off because a finished
verification stops. `AllowMismatch` lets an inventory change between two
processes although the digest did not, which the controller guards against.

Routing looks at one mutant, so its instance needs a target the suite runs and
one it does not; a third target would repeat one of the two. In the phase two
workers are enough to share a control and to wait for it, and two mutants for one
to fail while the other is at work or still queued; two groups for a kill after a
pass and a pass after no answer. One of the two mutants has at most one group
(`MCInit`). A package's suite is a group that is alone in its plan, and the
instance has plans of one group without calling them suites. With a measured unit
of time before and up to two by the control, budgets fall below the ceiling, on it
and above it before they are capped. Two processes let one resume what the other
saved. `CHECK_DEADLOCK` is off in all of these because a finished phase, or an
answered mutant, stops.

Ownership is between two: the process a directory belongs to and one that sweeps
it, beside a collector, which is the only one that reads the ledger as well. The
lease keeps more from running at once, except that a fault lets a verification
go without it: one fault makes the second writer of the ledger, or the death
whose remains a sweep finds; more of them are the proofs' matter. `MCTempOwner`
keeps the collector and the shared directory apart, because a collection may take
that directory while it is used (section 5); a behaviour with the shared directory
has no collection, and so is not asked what is collected in the end; the ledger does
not name that directory to begin with. `CHECK_DEADLOCK` is off because runs end.

Evidence needs a run that records and one that reuses, an edit in between, and two
targets for one to be recorded and the other to reach the mutant only later; the
two files are the one a key covers and the one only the wide key does. The passing
run excludes edits between a run's copy and its digest (`RacingEdits = FALSE`;
section 5). `CHECK_DEADLOCK` is off because runs end.

In the build cache two actions with one output are the sharing that makes removing
an object dangerous, and a bound of one object forces a choice. Ages go to `Old`,
past which no rule distinguishes two files. Three assumptions are in the guards: a
request and a removal take less than a tick, the go command opens a file within the
touch interval after the answer (ADR 0005), and one collection of a layer runs at a
time (their lock). The projection needs three commands for one to drain, one to run
and one to arrive meanwhile; persisting commands are bounded by `MaxGeneration`. The
replay of one mutant, in which tests run beside preparation, is outside the run
(`Replay = FALSE`).

Two processes are a run and one it excludes, or fails to; two contents let a verdict
be wrong for one and right for the other, and an edit be taken back; two rounds are one
that repairs and the last. `MCInit` takes every two findings
that differ, in one order, for an edit may come first and swap them. In the liveness
run (`MCLiveness`) only repairs change the contents: whether a run ends does not
depend on who edits, since every phase may also fail.
Three files let a batch fail at the third one
with two to take back; there is one candidate per file, and no edit falls between
the comparison of a file and the rename that replaces it, which are two system calls
(`BetweenLookAndWrite`; section 5). The five files of the impact run are a package with a
test, a file with code and a constant, which its test may use or not, and a file that
nothing uses; and a package with declarations, which the code of the other may use, and
a test. Two edits let a narrow run follow another and a file go away and come back; taking
files back and committing them is not bounded.
`CHECK_DEADLOCK` is off where commands end.

Every module states its type invariant, `TypeOK` (with the component's name before it
where two components share a module of proofs). It is part of what the proofs
establish; it is in no configuration, and holds under all of them.

Fairness (`Checkpoint`): `WF(StoreStep \/ CoordinatorStep)`, one process
that is scheduled keeps going, which is the operating system's; and
`WF(phase = "down" /\ Start)`, the user reruns a verification that was stopped,
without which no program could terminate it. Faults, stops, damage and eviction
are never forced, and bounded; no fairness is assumed of a start after a run
that finished.

Fairness (`MutationPhase`): `WF(Work(m))` for each mutant, since a worker is a
goroutine the scheduler runs and every execution has a deadline, so none is
waited for without end; `WF(Collect)`, the loop that waits for the workers; and
`WF(Rerun)`, the user reruns a verification that failed or was stopped. `Stop`
is not forced.

Fairness (`TempOwner`): `WF(Step(p))` of each process, a scheduled process
keeps going, and for the collector also that somebody runs `goatest cache gc`
again, without which nothing would be collected (any later run sweeps as well);
`WF(Age(d))`, time passes. Deaths, failing calls and damage are bounded and not
forced.

Fairness (`NativeProjection`): `WF(Done(e))`, a command that was admitted ends, by
itself or at its deadline, and `WF(Reopen(e) \/ ReopenFails(e))`, who drains goes on
once nobody runs. Nothing is assumed of arrivals.

Fairness (`RunRounds`): `WF(Work(p))` and `WF(Prepare(p))`, both goroutines of a run
are scheduled and every command they wait for has a deadline. `Work` has none of the
failures: a waiter must get the lease because its holder lets go of it or dies, and a
round must close because what it waits for comes to an end. Edits, deaths and failures
are not forced.

## 4. What is proved

All proofs are TLAPS proofs without gaps, for every value of the constants that
satisfies the assumption of its module: `CheckpointAssumption` (the named absences
differ from every state and line, the bounds are naturals, the switches
booleans), `AcceptanceAssumption`, `RoutingAssumption` (a suite runs only
targets), `PhaseAssumption` (suites are groups; workers, ceiling and
processes are positive; `None` is none of the named values), `TempAssumption`
(runs, collectors and shared directories are disjoint, plans are runs, `None` is
none of them), `EvidenceAssumption` (the suite is no target and its
closure contains those of the targets; every behaviour is deterministic in the files
it reads), `LayersAssumption` (touch intervals
are positive, `None` is neither an age nor a layer), `RoundsAssumption` (there is a
content and a round, `None` is no content, process or verdict), `NativeAssumption`
and `RepairAssumption` (bounds are naturals, whoever is absent is no command and no
process), and the two of `ImpactSelection`: `FilesAssumption` (every file has a
package, every test file some code) and `TestsAssumption` (a test file is used by those
of its own package only).

Some theorems carry a hypothesis of their own, each the condition under which the
property is one, and each shown to be needed by the disagreement section 5 names:
`RacingEdits = FALSE` (in `MutationEvidence`: no edit falls between a run's copy and its
digest: item 5),
`Collectors = {}` (no collection of the ledger beside the runs: item 4),
`Replay = FALSE` (no test runs beside preparation: item 7) and `MaxObjects # 0` (a
bound is configured; zero means none).

Components that answer one question share a module of proofs: what becomes of a
directory that outlives its process (`DirectoryProofs`), what becomes of a finding
(`FindingProofs`), which tests may be left out (`SelectionProofs`).

`CheckpointRunProofs`. `CrashIsAtomic` is not inductive: from a state where the
journal holds lines of another base that happen to carry the base's digest, the
next rename would revive them. `IInv` says why that cannot be: while a
controller writes, the base on disk is the one it memoized, the journal is
`Clean` (every line extends it, each unit once, no mutant before its catalog)
and memory is the base with the journal applied, plus what is being appended;
when it does not, every line left on disk is tagged with a document whose
checks are complete and whose attempt count is no later than the base's
(`TagsAreChecked`, `Foreign`), and a rename always publishes a document no line
names (`TagsDiffer`), because a process counts its attempt before it writes and
a fresh one has no checks. `Inductive` proves `Spec => []IInv` with one lemma
per store operation and shared lemmas for coordinator steps that save, append,
give up or pass on. From it: `TypeCorrect`, `NeverRejected`
(`AlwaysRecoverable`), `Atomicity` (`CrashIsAtomic`) and `DiskHoldsMemory`
(`DiskFollowsMemory`).

`FilesImplementResumableWork` proves there that the two files implement the abstract
saved state. A save is decided in one step and published in a later one, so the
refinement needs to know, of a put under way, that what it will publish `Follows`
what is on disk (`Pending`), and which phases are finished where the coordinator
stands (`Ordered`). The step of the abstract specification is then found at the
rename, at the completion of each line, and where `IInv` says that a removal leaves
nothing behind; every other step of the run is a stutter. `StepIsWork` has one case
per step, with the lemmas for a base that is bare (`BareBase`), for the removal of a
journal whose lines are of another base (`UnjournaledIsWork`) and for files that are
discarded, evicted or rot (`ForgottenIsWork`).

`AcceptanceResume` (`FindingProofs`). `IInv` relates the readings of the clock: what is
active now is contained in what was listed, and that in what was accepted;
whatever is silenced was configured once; a stored report lists what it rests
on. From it: `WrittenReportsHonourExpiry` and `OnlyExpiryKeepsAReportBack`.

`MutationRouting` (`SelectionProofs`). The route is computed three times from less and from
more measurements, and the danger is that an early decision is not covered by a
later one. `RInv` therefore keeps, phase by phase, what the measurements are
allowed to show of the effects (`Shown`, `Reported`), and that a package whose
suite may be run was offered to the probe. The lemmas about the pure operators
carry the argument: a killing target with a faithful profile is not discharged
(`KillersStayRouted`), the suite and probe clauses never remove a target
(`LaterStagesOnlyAdd`), and what the final route runs as a suite was needed
before the probe (`OfferedBeforehand`). From it: the three safety properties of the
run and `SuiteRunsAreOffered` (every suite run of a probed mutant had been offered to
the probe), for any set of targets.

`MutationPhaseProofs`. None of the properties is inductive: a verdict given now
rests on groups that were run and removed from `left` long before. `PInv` says
for each mutant where every group of its plan is (`Place`: still to run, passed,
or unanswered), how often it ran and under which control (`Counts`), what the
worker holds at each stage (`AtWork`), what the last answer of a finished group
was (`Answers`), that an expired one was weighed (`Weighed`) and that a finished
mutant is saved (`Outcome`); and globally that a running control has exactly one
owner (`Owned`). A step moves one mutant; `Bystander` shows once and for all that
the others keep theirs, `OneWorker` and `OwnersStay` that a control keeps its
owner. From it: every safety property of the run and `SavedIsSettled`, for
any number of mutants, groups, workers and processes.

`TempOwner` (`DirectoryProofs`). A sweep acts on what it read earlier, so no property follows
from the state of the directory alone. `TInv` says what a stage of a process
proves about the directory it has in hand: one whose lock it is about to try had
a marker, hence is past its claim (`HasMarker`), and one it is about to remove had a
marker and a free lock, or was old and unmarked, hence belongs to a run that is
giving it up or is dead (`GivenUp`). Neither is ever undone, because a run's name
is used once. Only a run that will not mark its scratch any more can be kept
(`AfterKeep`), so whatever a sweep read as kept stays so. Whoever writes the
ledger holds its lock and has every record that must stay in its copy. From it:
`LiveScratchesAreSafe`, `OwnScratchIsFree`, `KeptScratchesAreSpared` and
`RecordsStay`, for any number of processes, any content of the ledger, and
without use of the lease. The name of a shared directory is used again and again, so
nothing of this carries over to it; `SInv` says instead that whoever is about to mark
it or works in it holds its lock, and that no sweep ever has one in hand.
`SharedIsHeld` follows among runs, of any number; with a collector it is false
(section 5).

`MutationEvidenceProofs`. A record names no content, and the content it was made on
is gone when it is reused. `Trust` therefore gives every record, in the store or in
the hands of a run, a witness (`Witnessed`): some content on which its tests did what
the record says, and under whose name each of its keys was made, a narrow one only
for a test that was not seen to leave its closure there. `KeyCarries` is the one place
where keys are compared: if the key is the same today, either all files agree or
those the test read do, and `Deterministic` does the rest. The lemmas about
recording (`WatchedIsSeen` and those after it) show that each way to record has a
witness, the content of the run that records. From it: `KillsAreCurrent`,
`SurvivalsAreCurrent` and `UnreachedAreCurrent`, for any number of runs, tests, files and
mutants, with runs that share the store without a lease. `SavesForgetNothing` needs
types alone, and holds whatever edits race.

`BuildCacheLayersProofs`. What protects a file from a collection changes while a
request goes on. `Protects` says what it is at each stage, unless a collection
listed the layer meanwhile: no collection of it is running (`get`, `put`); then the
age of the action that names the object, which is behind the touch interval by as
much as the answer is old; then that the running collection keeps that action.
`Collection` says that nothing a collection keeps needs anything it removes. From
it: `ResponsesStay`, `KeptActionsAreServed` and `BoundsAreSoft`, for any number of
programs, actions and outputs, and any touch intervals.

`RunRoundsProofs`. Two invariants. `Typed` says what a process has open at each
phase (`Shape`), with the preparation beside it; `RoundsCloseWhatTheyOpened` follows,
whatever edits race and whoever dies. `Truthful` says what the contents a run has
looked at have to do with each other (`Seen`): the copy is what the digest names, or the
content is one of those `raced` has; the control is too, or the repository has not been
that content since (`mixed`), so that the comparison of digests refuses. It carries the
control past the point where the round has closed it. An edit moves every run at once
(`TreeMoves`): what comes back under the name of a mixed run enters `raced`.
`AssuredVerdictsAreTrue` follows, without a hypothesis.

`NativeProjection` (`DirectoryProofs`). Nothing in the state of the directory says who
was given what of it, or that a refresh is due before it is needed. `NInv` says where
everybody is (`Apart`: nobody is admitted or drains while preparation is at work, and
nobody works before it has begun), that only who was admitted was given paths
(`Provided`), so that a collection after the drain takes nobody's, and that a
projection is stale before anything is persisted that it does not have (`Announced`),
preparation included, which is marked before it begins. From it: `GivenPathsStay` and
`PersistedIsSeen`, for any number of commands, actions and runs.

`RepairApply` (`FindingProofs`). `RInv` says how far a command is with its batch
(`Batched`: what is left, what it has applied, what it could not take back), that
whatever a command at work has written of its candidates is among what it applied or
could not take back, and that the file it is about to write is not the user's
(`Spared`). A rollback goes through all that was applied, so `BatchesLeaveNoResidue`
follows when it ends, although other processes write the same files;
`UserEditsSurvive` is a property of steps and follows from `Spared`. Both hold for any
number of processes and files.

`ImpactSelection` (`SelectionProofs`). The graph does not say what content it is of, and
its entries are of different ones. `Described` says, target by target, that there is some
content whose dependencies and covered files are its entry and whose reached files are
what `ran` has observed (`Describes`); merging keeps that, since a narrow run replaces
the entries of what it ran and no others (`SaveStep`). `Untouched` says that no changed
file leads by the graph to a target that a narrow run leaves out, and that it links no
package with a changed test. `SeenIsUnchanged` combines the two: what the target reached
in that content did not change, because its tests are of its own package
(`ReachLeavesTests`), every other package it reaches is among its dependencies
(`ReachedIsLinked`), and of its own package it is `UsedUnrun` that the properties except.
Where what was reached is as it was, no more is reached, by the leastness of closures
(`SameReach`, `ReachIsLeast`). From it: `LeftOutTargetsAreUntouched` and
`MutatedFilesMeetTheirTargets`, for any packages, files, parts, edits, reverts and commits.

Where files may rot, `AlwaysRecoverable` lets them be refused as long as nothing was
acknowledged since (`Readable` is the part of the invariant that says so of files
that did not).

Every safety invariant and action property that a run checks is stated by a theorem.
Only model-checked: liveness under fairness, which is out of the prover's reach
(`Terminates`, `AbandonedIsCollected`, `DrainEnds`).

## 5. Disagreements between code and documents

Each was met while modelling. Where a definition states what the document says, it
is in the module and named here with the constants under which TLC finds its
counterexample; these definitions are in no configuration, because they do not hold.

1. `docs/checkpoint-v1.md:192`: the checkpoint is deleted after the result is
   durably written. The coordinator discards it when the baseline or the race
   phase has findings or a repair was applied (`assure/run.go:638`, `:714`,
   `:862`), before `app/service.go:282` writes the report.
   `CheckpointRun!DeletedAfterReport`, with 1 package and 2 processes.
2. `docs/assurance-contract.md:488`: expired acceptances are ignored. A mutant
   saved as accepted is resumed as accepted after the expiry
   (`assure/mutation.go:155`). The report is then refused by its audit, the run
   ends in error, and the checkpoint that causes it is kept for every retry
   until the cache policy evicts it. The same happens when an acceptance expires
   between the two readings of the clock. `WrittenHonoursExpiry` shows that no
   such report is ever written. `AcceptanceResume!ExpiredIgnored`, with the
   constants of the run.
3. `docs/architecture.md:242`: no sweep takes a directory that is marked kept. A
   sweep reads the marker (`tempowner/sweep.go:109`) before it tries the lock
   (`:115`). When the owner marks the directory kept and lets go of the lock in
   between (`tempowner/tempowner.go:90-101`), the sweep gets the lock, calls the
   directory abandoned and removes it. `KeptIsSpared` shows that this is the
   only way: a directory kept before the listing is safe.
   `TempOwner!NoSweepTakesKept`, with no collector and no fault.
4. `docs/adr/0006-every-temporary-directory-has-an-owner.md:66`, `:71`: the lock
   is the liveness signal, lest a working directory be deleted. The collection
   of the ledger asks the marker alone (`app/temp.go:145`) and removes the
   directory (`:153`) without trying its lock. The shared native cache has a
   fixed name; a process that claims an expired keep of it between the two works
   in a directory that goes away. The repository's lease does not prevent it: a
   plan takes none. `TempOwner!LiveSharedIsSafe`, with a collector and no fault.
5. `docs/assurance-contract.md:5`: an assured verdict is evidence about a named
   snapshot. The mutants' workspace is copied at `assure/run.go:305`, and the
   digest that names the snapshot is computed at `:331` from the repository, after
   the go command has inspected the copy; the control workspace is copied later
   still. Two edits make the verdict one of another content. One falls between the copy
   and the digest: the old content is in the workspace and the new digest in the report,
   and the comparison at `:881` is of two digests of the repository. The other is in the
   repository when the control workspace is copied (`:433`, `:579`) and taken back before
   the comparison: the digests are equal, and the checks, the race detector and the
   original controls ran on another content. `RunRounds!AssuredIsTrue` excepts the
   contents of these two windows (`raced`) and does not hold without the exception. The
   records of the evidence store
   are named by the same digest: with `RacingEdits = TRUE` `MutationEvidence` loses
   `UnreachedIsCurrent`.
6. `docs/adr/0005-build-cache-goatest-owns.md:103-107`,
   `docs/configuration.md:135`: what a response named is there for a whole interval.
   A collection that listed the layer before a get touched its action still removes
   it (`buildcache/layer.go:358`). `BuildCacheLayers!ServedIsThere`. So does one of
   the layer that holds the object when the action was found in the other one, whose
   file time alone is refreshed. `ServedStays` says what remains.
7. `docs/adr/0017-project-controls-use-a-native-cache-projection.md`: what a
   successful preparation adds is promoted, and what tests compile is not. The
   promotion takes everything the directory has, which includes what a failed
   preparation or the tests of the previous run left in the shared one.
   `NativeProjection!PromotesItsDelta`. In a replay (`Replay = TRUE`) tests run
   beside preparation, which is not counted: a collection may remove what it was
   given, and `PathsStay` does not hold; nor does `AdmittedSeesPersisted`, since a refresh
   makes the directory current before preparation has persisted what it marked.
8. `docs/assurance-contract.md:12`: if the impact of a change cannot be determined
   safely, the scope broadens to full. The graph records neither the base nor the
   content it was measured on (`evidence/store.go`), so it is trusted although it
   belongs to another tree. After a commit that no run has passed, after an edit that a
   run has measured is taken back, and after an edit between the copy of a run and its
   question to git, a file differs from what was measured and is not among the changed
   ones: what the target reaches through it is unknown to the graph, and a change there
   leaves the target out (`Current`). Nor is a file found of which the target runs
   nothing, but uses a constant, a type or a variable: it has no executed block, whether
   it has others or not (`golang/coverage.go:133`), and a target's own package is removed
   from its dependencies (`golang/packages.go:102`), so that the change selects none of
   its own package's targets that only use the declaration, directly or through a package
   that imports it, as an external test may (`UsedUnrun`). The file itself is mutated
   without them. `LeftOutIsUntouched` and `MutantsMeetTheirTargets` except the two cases
   and do not hold without either exception.
9. `docs/adr/0010-whole-suite-reach-before-fallback.md:57`, `:60`: a positive
   infection of a target is never discarded for a cheaper route. When the
   mutant's own suite is known to reach it or to be infected, the route returns
   before it looks at the targets (`assure/mutation.go:1026`), and an infected
   target of another package is dropped. By `NoKillIsMissed` only targets whose
   profiles miss what they run are lost in this way.
10. `docs/assurance-contract.md:379`: an expiration ends that path without a
    retry. A budget below the ceiling buys a second control and one more run
    (`assure/mutation.go:720-725`), as line 242 of the same document says. Line 347
    has the original run under the derived deadline; it runs under the ceiling
    (`assure/mutation.go:687`).
11. `docs/adr/0017-project-controls-use-a-native-cache-projection.md:86-87`: a
    normal close removes the native projection whole. The shared one stays
    (`assure/buildcache.go:506-507`), and its prefix is in no sweep.
12. `docs/checkpoint-v1.md:25` and
    `docs/adr/0011-append-only-checkpoint-journal.md:67-69`: verification holds the
    lock, so no journal has two writers. A run that cannot lock the file goes on
    without it (`app/service.go:251`).
13. `docs/adr/0007-survived-evidence-is-universal.md:104`: only a contradiction
    removes a record. A save also drops the records of mutants that are not in this
    run's catalog (`assure/mutation_evidence.go:642`) and whatever another run has
    saved since this one loaded the store. `SaveForgetsNothing` excepts both. A kill
    by a package's suite writes no record (`assure/mutation.go:484`).
14. `docs/report-v1.md:84`: inconclusive findings are not reusable. Evidence does
    not reuse them, but the verdict cache serves the whole report that has them
    (`assure/run.go:1364`).

Without a document to disagree with, but worth knowing: a run that ends at the
baseline's findings reports without the final comparison of digests
(`assure/run.go:636-647`). The cache key of `verify --changed` contains the name of
the base and not the commit it stands for, so a verdict for one base may be served for
another with the same tree. `fix` takes no lease, and the rollback of one `fix` can
take away what another reported as applied; the candidates of a batch are validated
each in a copy without the others; a batch that a crash cut short cannot be completed
by the same command, whose inspection finds the part that is applied. A file is
compared and then renamed over (`repair/repair.go:201`, `:213`): an edit between the
two is lost.

## 6. Plan

Done: the checkpoint core (`CheckpointJournal`, `ResumableWork`,
`CheckpointRun`), `AcceptanceResume`, `MutationRouting`, `MutationPhase`,
`TempOwner`, `MutationEvidence`, `BuildCacheLayers`, `NativeProjection`, `RunRounds`,
`RepairApply` and `ImpactSelection`, each with its proofs.

Left: the parallel measurement of the baseline with its serial commit (ADR 0009), and
the early cache entry of `verify --changed`, in modules of their own; refinements of
abstract specifications of the components that have none (`ResumableWork` is the one
there is).

## 7. Not modelled

- The resource manager's own concurrency: a run acquires and releases its resources
  from one goroutine, with a manager of its own.
- The parallel workers of the baseline, whose result is committed in one order; a
  plan, which executes nothing; the packages of the race phase; replay.
- Trace recording: bounded sinks that only observe (ADR 0002).
- Retention of reports, traces and diagnostics: policies by age and count without
  concurrency. After a crash between the writes of the two report indexes
  `latest-full.json` may name a run that was collected since
  (`docs/limitations.md:147`).
- A process that dies after its directory was marked kept and before the ledger names
  it (`assure/keep_temp.go:29`): nothing collects it, and the code promises no more
  than to report it. `goatest cache flush` of directories.
- The saturation of sums of durations (`assure/mutation.go:874`): budgets are bounded
  naturals.
- Formatting and rendering (reports, UI), parsing of Go tool output, the mutation
  engine itself (an external module), the operating system's process handling, and
  the developer tools.

The components list of `PROJECT.json` gives the status and the reason for each part.
