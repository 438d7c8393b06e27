---------------------------- MODULE CheckpointRun ----------------------------
(***************************************************************************)
(* One input snapshot verified by a sequence of goatest processes, each    *)
(* holding the project's cache lease: the run coordinator of               *)
(* internal/assure/run.go (round one), the checkpoint controller of        *)
(* internal/assure/resume.go and the two files internal/cache/checkpoint.go*)
(* keeps.  A call of the store is split where a process can die or an I/O  *)
(* call can fail: PutCheckpoint publishes and then removes the journal,    *)
(* appends write one line after another, DeleteCheckpoint removes the base *)
(* and then the journal.  Everything the controller does under its mutex   *)
(* is otherwise one step.                                                  *)
(***************************************************************************)
EXTENDS CheckpointJournal

CONSTANTS Nothing,        \* nothing is saved
          MaxStarts,      \* processes started on this snapshot
          MaxFaults,      \* I/O calls that fail, over all processes
          AllowMismatch,  \* a rediscovered inventory may differ from the saved one
          AllowDamage     \* the files may rot while no process runs

ASSUME CheckpointAssumption ==
    /\ NoBase \notin State \cup {Damaged, Nothing}
    /\ Damaged \notin State \cup {Nothing}
    /\ Nothing \notin State
    /\ Malformed \notin Line
    /\ MaxStarts \in Nat /\ MaxFaults \in Nat
    /\ AllowMismatch \in BOOLEAN /\ AllowDamage \in BOOLEAN

VARIABLES
    base,      \* checkpoint-v1.json
    journal,   \* the newline-terminated lines of checkpoint-journal-v1.jsonl
    torn,      \* the journal ends in an unterminated fragment
    memo,      \* checkpointBaseDigests[path], NoBase when unset
    mem,       \* runCheckpointController.state
    enabled,   \* runCheckpointController.enabled
    decoded,   \* state.Baseline is still the one the files were decoded into
    op,        \* the store call under way: its next file operation
    todo,      \* the units the append under way has still to write
    phase,     \* where the run stands
    cached,    \* a report of this snapshot is in the verdict cache
    reported,  \* this run's report is written under .goatest/reports
    starts, faults,
    acked      \* what the store calls that returned left saved (history)

files   == <<base, journal, torn>>
control == <<mem, enabled, decoded, todo>>
result  == <<cached, reported>>
bounds  == <<starts, faults>>
vars    == <<base, journal, torn, memo, mem, enabled, decoded, op, todo, phase,
             cached, reported, starts, faults, acked>>

Phases == {"down", "check", "open", "cold", "baseline", "checks", "targets",
           "failing", "suites", "race", "catalog", "probe", "mutants",
           "repair", "write", "writeOther", "cleanup", "done"}
Ops == {"none", "rename", "unjournal", "append", "unbase", "undelete"}

\* The state the next process would resume from.
Recovered == IF Found(base, journal) THEN Applied(base, journal) ELSE Nothing

Init == /\ base = NoBase /\ journal = <<>> /\ torn = FALSE /\ memo = NoBase
        /\ mem = Fresh /\ enabled = FALSE /\ decoded = FALSE /\ op = "none" /\ todo = {}
        /\ phase = "down" /\ cached = FALSE /\ reported = FALSE
        /\ starts = 0 /\ faults = 0 /\ acked = Nothing

-----------------------------------------------------------------------------
(* The store's file operations.                                            *)

Fault == faults < MaxFaults /\ faults' = faults + 1

\* disableCheckpointLocked and discard: no more writes, then DeleteCheckpoint.
Disable == enabled' = FALSE /\ op' = "unbase"

\* A slip: the memoized digest is not refreshed by a put.
PutRenameStaleMemo ==
    /\ op = "rename" /\ Valid(mem)
    /\ base' = mem /\ memo' = (IF memo = NoBase THEN mem ELSE memo) /\ op' = "unjournal"
    /\ UNCHANGED <<journal, torn, control, phase, result, bounds, acked>>

\* PutCheckpoint validates, writes and syncs a temporary file and renames it.
PutRename ==
    /\ op = "rename" /\ Valid(mem)
    /\ base' = mem /\ memo' = mem /\ op' = "unjournal"
    /\ UNCHANGED <<journal, torn, control, phase, result, bounds, acked>>

\* A slip: a failed put is reported and otherwise ignored.
PutFailsGoOn ==
    /\ op = "rename" /\ Fault /\ op' = "none"
    /\ UNCHANGED <<files, memo, control, phase, result, starts, acked>>

\* Validation, or any call before the rename, fails: the old pair is untouched.
PutFails ==
    /\ op = "rename"
    /\ \/ ~Valid(mem) /\ UNCHANGED faults
       \/ Fault
    /\ Disable
    /\ UNCHANGED <<files, memo, mem, decoded, todo, phase, result, starts, acked>>

\* The compacted journal is removed and PutCheckpoint returns.
PutUnjournal ==
    /\ op = "unjournal"
    /\ journal' = <<>> /\ torn' = FALSE /\ op' = "none" /\ acked' = mem
    /\ UNCHANGED <<base, memo, control, phase, result, bounds>>

PutUnjournalFails ==
    /\ op = "unjournal" /\ Fault /\ Disable
    /\ UNCHANGED <<files, memo, mem, decoded, todo, phase, result, starts, acked>>

\* The base a journal line names: the memoized digest, else the file's.
Tag == IF memo = NoBase THEN base ELSE memo

\* A complete line after an unterminated fragment joins it into one bad line.
Written(u) == IF torn THEN Malformed ELSE [base |-> Tag, unit |-> u]

AppendLine(u) ==
    /\ op = "append" /\ u \in todo /\ Tag \in State
    /\ journal' = Append(journal, Written(u)) /\ torn' = FALSE
    /\ todo' = todo \ {u}
    /\ op' = IF todo' = {} THEN "none" ELSE "append"
    /\ acked' = [acked EXCEPT !.units = @ \cup {u}]
    /\ UNCHANGED <<base, memo, mem, enabled, decoded, phase, result, bounds>>

\* The write or its sync fails with none, some or all of the line on disk.
AppendFails(u) ==
    /\ op = "append" /\ u \in todo
    /\ \/ Fault
       \/ Tag \notin State /\ UNCHANGED faults
    /\ \/ UNCHANGED <<journal, torn>>
       \/ torn' = TRUE /\ UNCHANGED journal
       \/ Tag \in State /\ journal' = Append(journal, Written(u)) /\ torn' = FALSE
    /\ Disable
    /\ UNCHANGED <<base, memo, mem, decoded, todo, phase, result, starts, acked>>

DeleteBase ==
    /\ op = "unbase"
    /\ base' = NoBase /\ op' = "undelete" /\ acked' = Nothing
    /\ UNCHANGED <<journal, torn, memo, control, phase, result, bounds>>

\* Removing the base fails: DeleteCheckpoint returns and its caller goes on.
DeleteBaseFails ==
    /\ op = "unbase" /\ Fault /\ op' = "none"
    /\ UNCHANGED <<files, memo, control, phase, result, starts, acked>>

DeleteJournal ==
    /\ op = "undelete"
    /\ journal' = <<>> /\ torn' = FALSE /\ memo' = NoBase /\ op' = "none"
    /\ UNCHANGED <<base, control, phase, result, bounds, acked>>

DeleteJournalFails ==
    /\ op = "undelete" /\ Fault /\ op' = "none"
    /\ UNCHANGED <<files, memo, control, phase, result, starts, acked>>

StoreStep ==
    \/ PutRename \/ PutFails \/ PutUnjournal \/ PutUnjournalFails
    \/ \E u \in todo : AppendLine(u) \/ AppendFails(u)
    \/ DeleteBase \/ DeleteBaseFails \/ DeleteJournal \/ DeleteJournalFails

-----------------------------------------------------------------------------
(* The process: start, stop at any point, and the files while it is down.  *)
(* mem and todo are lost with it; they keep their value until the next      *)
(* process sets them, so that CrashIsAtomic can speak of the lost write.    *)

Start ==
    /\ phase \in {"down", "done"} /\ op = "none" /\ starts < MaxStarts
    /\ phase' = "check" /\ memo' = NoBase /\ todo' = {} /\ reported' = FALSE
    /\ starts' = starts + 1 /\ acked' = Recovered
    /\ decoded' = FALSE
    /\ UNCHANGED <<files, mem, enabled, op, cached, faults>>

\* A run error, a cancellation or a killed process; a write may be cut short.
Stop ==
    /\ phase \notin {"down", "done"} /\ starts < MaxStarts
    /\ phase' = "down" /\ op' = "none" /\ enabled' = FALSE
    /\ torn' \in IF op = "append" THEN {torn, TRUE} ELSE {torn}
    /\ UNCHANGED <<base, journal, memo, mem, decoded, todo, result, bounds, acked>>

Damage ==
    /\ AllowDamage /\ phase = "down" /\ faults < MaxFaults
    /\ faults' = faults + 1 /\ acked' = Nothing
    /\ \/ base \in State /\ base' = Damaged /\ UNCHANGED journal
       \/ \E i \in DOMAIN journal :
             /\ journal' = [journal EXCEPT ![i] = Malformed]
             /\ UNCHANGED base
    /\ UNCHANGED <<torn, memo, control, op, phase, result, starts>>

\* Cache GC, after the run and before its report or from another command, takes
\* the digest's directory by age or size; a RemoveAll cut short leaves a part.
Evict ==
    /\ op = "none" /\ phase \in {"down", "write", "writeOther"}
    /\ \/ base' = NoBase /\ journal' = <<>> /\ torn' = FALSE
       \/ base' = NoBase /\ UNCHANGED <<journal, torn>>
       \/ journal' = <<>> /\ torn' = FALSE /\ UNCHANGED base
    /\ cached' \in {cached, FALSE}
    /\ acked' = Recovered'
    /\ UNCHANGED <<memo, control, op, phase, reported, bounds>>

-----------------------------------------------------------------------------
(* The run coordinator, between two store calls.  Save is a full put of the *)
(* controller's state; a disabled controller saves nothing.  A put that     *)
(* saves anything after the opening one replaces the baseline in memory.    *)

Idle(p) == phase = p /\ op = "none"

Save(s) == IF enabled THEN mem' = s /\ op' = "rename" /\ decoded' = FALSE
                      ELSE UNCHANGED <<mem, op, decoded>>

\* What every coordinator step leaves alone.
Quiet == UNCHANGED <<files, starts, faults, acked>>

GoTo(p) == phase' = p /\ UNCHANGED <<memo, todo, enabled, result>> /\ Quiet

\* Race, mutation and everything resting on them, as the controller drops them.
NoMutation(s) == [s EXCEPT !.catalog = FALSE, !.probe = FALSE, !.finished = FALSE,
                           !.units = {u \in @ : ~IsMutant(u)}]

CacheHit  == Idle("check") /\ cached /\ GoTo("write") /\ UNCHANGED <<mem, op, decoded>>
CacheMiss == Idle("check") /\ GoTo("open") /\ UNCHANGED <<mem, op, decoded>>

OpenFound ==
    /\ Idle("open") /\ Found(base, journal)
    /\ mem' = [Applied(base, journal) EXCEPT !.attempts = @ + 1]
    /\ memo' = base /\ enabled' = TRUE /\ decoded' = TRUE /\ op' = "rename" /\ phase' = "baseline"
    /\ UNCHANGED <<todo, result>> /\ Quiet

OpenAbsent ==
    /\ \/ Idle("open") /\ Absent(base)
       \/ Idle("cold")
    /\ mem' = Fresh /\ enabled' = TRUE /\ decoded' = FALSE /\ op' = "rename" /\ phase' = "baseline"
    /\ UNCHANGED <<memo, todo, result>> /\ Quiet

\* A slip: the rejected files stay, and are read again.
OpenFailsRetries ==
    /\ Idle("open")
    /\ \/ ~Absent(base) /\ ~Found(base, journal) /\ UNCHANGED faults
       \/ Fault
    /\ UNCHANGED <<files, memo, op, phase, control, result, starts, acked>>

\* GetCheckpoint fails: the files are deleted and the run starts cold.
OpenFails ==
    /\ Idle("open")
    /\ \/ ~Absent(base) /\ ~Found(base, journal) /\ UNCHANGED faults
       \/ Fault
    /\ op' = "unbase" /\ phase' = "cold"
    /\ UNCHANGED <<files, memo, control, result, starts, acked>>

KeepBaseline == Idle("baseline") /\ GoTo("checks") /\ UNCHANGED <<mem, op, decoded>>

\* A saved target or suite is not in this run's inventory.
ResetBaseline ==
    /\ Idle("baseline") /\ AllowMismatch /\ enabled
    /\ mem.complete \/ \E u \in mem.units : ~IsMutant(u)
    /\ Save([Fresh EXCEPT !.attempts = mem.attempts])
    /\ GoTo("checks")

RunChecks ==
    /\ Idle("checks") /\ GoTo("targets")
    /\ IF mem.checks THEN UNCHANGED <<mem, op, decoded>>
       ELSE Save([mem EXCEPT !.checks = TRUE])

\* controller.discard; the run goes on to return a report of its findings.
Discard(p) ==
    /\ Disable /\ phase' = p
    /\ UNCHANGED <<memo, mem, decoded, todo, result>> /\ Quiet

ChecksReject == Idle("checks") /\ ~(enabled /\ mem.checks) /\ Discard("write")

\* A slip: the batch is all targets that ran, saved before or not.
TargetBatchAgain(S) ==
    /\ Idle("targets") /\ enabled /\ S # {} /\ S \subseteq {"target"} \X Targets
    /\ mem' = [mem EXCEPT !.units = @ \cup S] /\ todo' = S /\ op' = "append"
    /\ UNCHANGED <<memo, enabled, decoded, phase, result>> /\ Quiet

\* saveBaseline after a resume: the empty findings and suites that were decoded are
\* not the nil ones of a measured state, so no suffix is found and the first batch is
\* one full put, with all its units at once.
FirstBatch(S) ==
    /\ enabled /\ decoded /\ S # {} /\ S \cap mem.units = {}
    /\ \/ Idle("targets") /\ S \subseteq {"target"} \X Targets
       \/ Idle("suites") /\ ~mem.complete /\ \E p \in Packages : S = {<<"suite", p>>}
    /\ Save([mem EXCEPT !.units = @ \cup S]) /\ GoTo(phase)

\* The journal suffix of saveBaseline, one package's batch of new targets.
TargetBatch(S) ==
    /\ Idle("targets") /\ enabled /\ ~decoded /\ S # {}
    /\ S \subseteq ({"target"} \X Targets) \ mem.units
    /\ mem' = [mem EXCEPT !.units = @ \cup S] /\ todo' = S /\ op' = "append"
    /\ UNCHANGED <<memo, enabled, decoded, phase, result>> /\ Quiet

\* A batch that measured nothing is saved too, in full, and its error returned.
EmptyBatch ==
    /\ Idle("targets") /\ enabled /\ starts < MaxStarts
    /\ ~(({"target"} \X Targets) \subseteq mem.units)
    /\ Save(mem) /\ GoTo("failing")

RunError ==
    /\ Idle("failing") /\ starts < MaxStarts
    /\ phase' = "down" /\ enabled' = FALSE
    /\ UNCHANGED <<memo, mem, decoded, op, todo, result>> /\ Quiet

TargetsDone ==
    /\ Idle("targets")
    /\ enabled => ({"target"} \X Targets) \subseteq mem.units
    /\ GoTo("suites") /\ UNCHANGED <<mem, op, decoded>>

SaveSuite(p) ==
    /\ Idle("suites") /\ enabled /\ ~decoded /\ ~mem.complete
    /\ <<"suite", p>> \notin mem.units
    /\ mem' = [mem EXCEPT !.units = @ \cup {<<"suite", p>>}]
    /\ todo' = {<<"suite", p>>} /\ op' = "append"
    /\ UNCHANGED <<memo, enabled, decoded, phase, result>> /\ Quiet

\* checkpointNow(true): the suites become routing; only needed ones were run.
CompleteBaseline ==
    /\ Idle("suites")
    /\ Save([mem EXCEPT !.complete = TRUE, !.units = {u \in @ : ~IsSuite(u)}])
    /\ GoTo("race")

BaselineFindings == Idle("race") /\ Discard("write")

ResumeRace == Idle("race") /\ enabled /\ mem.race /\ GoTo("catalog") /\ UNCHANGED <<mem, op, decoded>>

\* A slip: the mutation work measured after the discarded race stays.
DiscardRaceOnly ==
    /\ Idle("race") /\ AllowMismatch /\ enabled /\ mem.race
    /\ Save([mem EXCEPT !.race = FALSE]) /\ GoTo("race")

DiscardRace ==
    /\ Idle("race") /\ AllowMismatch /\ enabled /\ mem.race
    /\ Save([NoMutation(mem) EXCEPT !.race = FALSE]) /\ GoTo("race")

RunRace ==
    /\ Idle("race") /\ ~(enabled /\ mem.race)
    /\ Save([mem EXCEPT !.race = TRUE]) /\ GoTo("catalog")

RaceFindings == Idle("catalog") /\ Discard("write")

ResumeCatalog == Idle("catalog") /\ (enabled => mem.catalog) /\ GoTo("probe") /\ UNCHANGED <<mem, op, decoded>>

NewCatalog ==
    /\ Idle("catalog") /\ enabled /\ (mem.catalog => AllowMismatch)
    /\ Save([NoMutation(mem) EXCEPT !.catalog = TRUE]) /\ GoTo("probe")

ResumeProbe == Idle("probe") /\ enabled /\ mem.probe /\ GoTo("mutants") /\ UNCHANGED <<mem, op, decoded>>

DiscardProbe ==
    /\ Idle("probe") /\ AllowMismatch /\ enabled /\ mem.probe
    /\ Save([NoMutation(mem) EXCEPT !.catalog = TRUE]) /\ GoTo("probe")

RunProbe ==
    /\ Idle("probe") /\ ~(enabled /\ mem.probe)
    /\ Save([mem EXCEPT !.probe = TRUE]) /\ GoTo("mutants")

\* A worker's verdict, in whatever order the workers finish.
SaveMutant(m) ==
    /\ Idle("mutants") /\ enabled /\ <<"mutant", m>> \notin mem.units
    /\ mem' = [mem EXCEPT !.units = @ \cup {<<"mutant", m>>}]
    /\ todo' = {<<"mutant", m>>} /\ op' = "append"
    /\ UNCHANGED <<memo, enabled, decoded, phase, result>> /\ Quiet

\* Unresolved mutants are never saved, so some may be missing.
CompleteMutation ==
    /\ Idle("mutants") /\ Save([mem EXCEPT !.finished = TRUE]) /\ GoTo("repair")

\* A repair changed the repository: later rounds and their report are of another snapshot.
RepairApplied == Idle("repair") /\ Discard("writeOther")

\* Run returns: the controller is gone, the checkpoint is not.
PutReport ==
    /\ Idle("repair") /\ cached' = TRUE /\ phase' = "write" /\ enabled' = FALSE
    /\ UNCHANGED <<memo, mem, decoded, op, todo, reported>> /\ Quiet

\* service.runAndWrite: the report first, the checkpoint of its snapshot after.
WriteReports ==
    /\ op = "none" /\ reported' = TRUE
    /\ \/ phase = "write" /\ phase' = "cleanup" /\ op' = "unbase"
       \/ phase = "writeOther" /\ phase' = "done" /\ UNCHANGED op
    /\ UNCHANGED <<memo, mem, enabled, decoded, todo, cached>> /\ Quiet

Finish == Idle("cleanup") /\ GoTo("done") /\ UNCHANGED <<mem, op, decoded>>

CoordinatorStep ==
    \/ CacheHit \/ CacheMiss \/ OpenFound \/ OpenAbsent \/ OpenFails
    \/ KeepBaseline \/ ResetBaseline \/ RunChecks \/ ChecksReject
    \/ \E S \in SUBSET ({"target"} \X Targets \cup {"suite"} \X Packages) : FirstBatch(S)
    \/ \E S \in SUBSET ({"target"} \X Targets) : TargetBatch(S)
    \/ EmptyBatch \/ RunError \/ TargetsDone
    \/ \E p \in Packages : SaveSuite(p)
    \/ CompleteBaseline \/ BaselineFindings
    \/ ResumeRace \/ DiscardRace \/ RunRace \/ RaceFindings
    \/ ResumeCatalog \/ NewCatalog \/ ResumeProbe \/ DiscardProbe \/ RunProbe
    \/ \E m \in Mutants : SaveMutant(m)
    \/ CompleteMutation \/ RepairApplied \/ PutReport \/ WriteReports \/ Finish

Next == StoreStep \/ CoordinatorStep \/ Start \/ Stop \/ Damage \/ Evict

Spec == Init /\ [][Next]_vars

\* One process runs until it is done, and the user reruns what did not finish;
\* nothing is assumed of faults, crashes or of a rerun after a finished run.
Fairness ==
    /\ WF_vars(StoreStep \/ CoordinatorStep)
    /\ WF_vars(phase = "down" /\ Start)

FairSpec == Spec /\ Fairness

-----------------------------------------------------------------------------
(* Properties.                                                             *)

\* The files, the controller and the store's memo hold states of checkpoint.State's
\* shape or their named absences.
Typed ==
    /\ base \in State \cup {NoBase, Damaged}
    /\ journal \in Seq(Line \cup {Malformed})
    /\ torn \in BOOLEAN /\ memo \in State \cup {NoBase}
    /\ mem \in State /\ enabled \in BOOLEAN /\ op \in Ops
    /\ todo \in SUBSET Unit /\ phase \in Phases
    /\ cached \in BOOLEAN /\ reported \in BOOLEAN
    /\ starts \in Nat /\ faults \in Nat
    /\ acked \in State \cup {Nothing}

\* Every variable has its type.
TypeOK == Typed /\ decoded \in BOOLEAN

\* Whatever the point a process dies or a call fails at, the two files never
\* form a pair GetCheckpoint rejects: a lost run is resumed, not started cold.
\* (Files that rot while nothing runs are the exception, and only they are.)
AlwaysRecoverable ==
    Absent(base) \/ Found(base, journal) \/ (AllowDamage /\ acked = Nothing)

\* What GetCheckpoint would return is exactly what the last successful store
\* call saved, or that plus the one write under way: no acknowledged unit is
\* lost, no discarded one comes back, no half-written state appears.
CrashIsAtomic ==
    \/ Recovered \in {acked, mem}
    \/ /\ acked # Nothing
       /\ \E u \in todo : Recovered = [acked EXCEPT !.units = @ \cup {u}]

\* Between two calls a controller that still writes has on disk precisely the
\* state it holds in memory, although most saves append a line instead of it.
DiskFollowsMemory == enabled /\ op = "none" => Recovered = mem

\* A run reaches its report however often it is stopped before, and then its
\* checkpoint is gone (where no call failed and no file rotted on the way).
Terminates ==
    <>[](phase = "done" /\ reported /\ (faults = 0 => Absent(base) /\ journal = <<>>))

\* docs/checkpoint-v1.md, completion lifecycle: a checkpoint is deleted after
\* the run's result is durably written (what the cache policy evicts apart).
DeletedAfterReport ==
    [][op = "unbase" /\ Found(base, journal) /\ Absent(base') => reported]_vars

Work == INSTANCE ResumableWork WITH saved <- Recovered, MayRot <- AllowDamage

\* The two files implement a single saved state that changes in whole steps:
\* attempts count up, a package's new targets are added alone or together, a
\* suite or a verdict alone, phases finish in order, and only a changed inventory
\* takes a finished phase back.
ImplementsResumableWork == Work!Work
=============================================================================
