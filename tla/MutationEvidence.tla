--------------------------- MODULE MutationEvidence ---------------------------
(***************************************************************************)
(* What one run learned about a mutant, used by a later one.                *)
(*                                                                         *)
(* A run copies the repository, names the copy by the content it digests,   *)
(* measures its tests and asks which of them notice each mutant.  What it   *)
(* executed it records with the behaviour keys of the tests: the files a    *)
(* test is built from, or the whole tree when an execution was seen to      *)
(* read outside them.  A later run, of another content, trusts a record     *)
(* only for tests whose keys are still the same.                            *)
(*                                                                         *)
(* What a test really does with a mutant is chosen in Init (behaviour) and  *)
(* never read by a guard of the program: an execution shows it.  Several    *)
(* runs share the store file, because a run that cannot get the lease goes  *)
(* on without it, and the repository is edited while they work.             *)
(***************************************************************************)
EXTENDS Naturals, FiniteSets

CONSTANTS
    Runs,         \* processes that verify the repository
    Targets,      \* the tests of one package
    Suite,        \* its package suite, run as a whole
    Mutants,
    Original,     \* no mutant at all
    Files,
    Closure,      \* Closure[t]: the files the narrow key of t covers
    Behaviours,   \* what the tests may turn out to do
    None,
    Damaged,      \* a store that does not decode
    RacingEdits,  \* whether an edit may fall between the copy and its digest
    MaxStarts,
    MaxEvents     \* edits, flushes and damages together

Tests   == Targets \cup {Suite}
Content == [Files -> 0..1]
Programs == Mutants \cup {Original}

\* Two contents a test was built from the same files of.
Agree(t, c, d) == \A f \in Closure[t] : c[f] = d[f]

Behaviour == [reads : [Tests -> [Programs -> [Content -> BOOLEAN]]],
              fails : [Tests -> [Programs -> [Content -> BOOLEAN]]]]

\* An execution that opens nothing outside the closure of its test does the
\* same on every content that agrees with its own on the closure.
Deterministic(b) ==
    \A t \in Tests, p \in Programs, c, d \in Content :
        ~b.reads[t][p][c] /\ Agree(t, c, d) =>
            /\ b.reads[t][p][d] = b.reads[t][p][c]
            /\ b.fails[t][p][d] = b.fails[t][p][c]

ASSUME EvidenceAssumption ==
    /\ Suite \notin Targets
    /\ Original \notin Mutants
    /\ Closure \in [Tests -> SUBSET Files]
    /\ \A t \in Targets : Closure[t] \subseteq Closure[Suite]
    /\ Behaviours \subseteq Behaviour
    /\ \A b \in Behaviours : Deterministic(b)
    /\ RacingEdits \in BOOLEAN
    /\ MaxStarts \in Nat /\ MaxEvents \in Nat

VARIABLES
    behaviour,    \* what every test does with every program and content
    content,      \* of the repository
    disk,         \* the store file
    run,          \* the runs
    starts, events \* bounds

vars == <<behaviour, content, disk, run, starts, events>>

-------------------------------------------------------------------------------
(* Keys, records and stores.                                                *)

Narrow(t, c) == [wide |-> FALSE, of |-> [f \in Closure[t] |-> c[f]]]
Whole(c)     == [wide |-> TRUE, of |-> c]

Key(t, c, wide) == IF wide THEN Whole(c) ELSE Narrow(t, c)

Outcomes == {"killed", "survived", "unreached"}

\* The tests a record may rest on: a killing group or the exhausted targets, or
\* the suite.
Bases == ((SUBSET Targets) \ {{}}) \cup {{Suite}}

Keys == {Narrow(t, c) : t \in Tests, c \in Content} \cup {Whole(c) : c \in Content}

Records == {d \in [outcome : Outcomes, keys : UNION {[B -> Keys] : B \in Bases}] :
              d.outcome = "unreached" <=> DOMAIN d.keys = {Suite}}

Stores == [Mutants -> Records \cup {None}]

NoRecords == [m \in Mutants |-> None]

-------------------------------------------------------------------------------
(* A run. *)

Phases == {"idle", "opened", "named", "measured", "unsaved"}

Answers == [by : Outcomes, reach : SUBSET Targets]

Idle == [phase |-> "idle", tree |-> None, named |-> None, covered |-> {},
         wide |-> {}, loaded |-> NoRecords, recorded |-> NoRecords,
         catalog |-> {}, todo |-> {}, reused |-> [m \in Mutants |-> None]]

Passed(r) == {t \in Targets : ~behaviour.fails[t][Original][run[r].tree]}

\* A recorded key against today's: a narrow one does not count for a test whose
\* own baseline was seen to read outside its closure.
MatchesTarget(r, t, key) ==
    IF key.wide
    THEN key = Whole(run[r].named)
    ELSE t \notin run[r].wide /\ key = Narrow(t, run[r].named)

\* The suite has a key only when every target of the package was measured and
\* passed, and a narrow one only when none of them read outside its closure.
SuiteIsKeyed(r) == Targets \subseteq run[r].covered \cap Passed(r)

MatchesSuite(r, key) ==
    /\ SuiteIsKeyed(r)
    /\ IF key.wide
       THEN key = Whole(run[r].named)
       ELSE Targets \cap run[r].wide = {} /\ key = Narrow(Suite, run[r].named)

\* A slip: one matching killer is enough.
ContainsAny(r, group, keys) ==
    \E t \in DOMAIN keys : t \in group \cap Passed(r) /\ MatchesTarget(r, t, keys[t])

\* Every recorded killer is in the group that would run, passes today and has
\* the key it had.
Contains(r, group, keys) ==
    \A t \in DOMAIN keys : t \in group \cap Passed(r) /\ MatchesTarget(r, t, keys[t])

\* A slip: the recorded targets are compared with today's the wrong way round.
ExhaustsRecorded(r, reach, keys) ==
    /\ reach # {}
    /\ \A t \in DOMAIN keys : t \in Targets => MatchesTarget(r, t, keys[t])

\* Every target that reaches the mutant today was exhausted under its key.
Exhausts(r, reach, keys) ==
    /\ reach # {}
    /\ \A t \in reach : /\ t \in run[r].covered \cap Passed(r) \cap DOMAIN keys
                        /\ MatchesTarget(r, t, keys[t])

\* The log of an execution of t names a directory, or a file outside the closure.
Leaves(r, p, t) == behaviour.reads[t][p][run[r].tree]

\* The tests that were seen to leave their closure.  One log watches a whole
\* execution and widens every test of it; a log that could not be taken or read
\* widens them too, which may be any.
Watched(r, p, tests) ==
    IF \E t \in tests : Leaves(r, p, t) THEN {tests} ELSE {{}, tests}

\* Several executions, each with its log.
WatchedEach(r, p, groups) ==
    {UNION {w[g] : g \in groups} : w \in {w \in [groups -> SUBSET UNION groups] :
        \A g \in groups : w[g] \in Watched(r, p, g)}}

TargetKeys(r, tests, W) ==
    [t \in tests |-> Key(t, run[r].named, t \in W \cup run[r].wide)]

KillRecord(r, group, W) ==
    IF group \subseteq Passed(r)
    THEN [outcome |-> "killed", keys |-> TargetKeys(r, group, W)]
    ELSE None

SurvivalRecord(r, tests, W) ==
    IF tests \subseteq run[r].covered \cap Passed(r)
    THEN [outcome |-> "survived", keys |-> TargetKeys(r, tests, W)]
    ELSE None

\* A slip: what the suite opened is not looked at.
SuiteRecordNarrow(r, wide) ==
    IF SuiteIsKeyed(r)
    THEN [outcome |-> "unreached", keys |-> [t \in {Suite} |-> Narrow(t, run[r].named)]]
    ELSE None

SuiteRecord(r, wide) ==
    IF SuiteIsKeyed(r)
    THEN [outcome |-> "unreached",
          keys |-> [t \in {Suite} |->
              Key(t, run[r].named, wide \/ Targets \cap run[r].wide # {})]]
    ELSE None

-------------------------------------------------------------------------------
(* Steps of a run. *)

\* The phase is left with one mutant less to answer; a record replaces what the
\* run recorded of the mutant before, and None records nothing.
Settle(r, m, record) ==
    /\ run' = [run EXCEPT ![r].todo = @ \ {m},
                          ![r].recorded[m] = IF record = None THEN @ ELSE record]
    /\ UNCHANGED <<behaviour, content, disk, starts, events>>

Reuse(r, m, reach) ==
    /\ run' = [run EXCEPT ![r].todo = @ \ {m},
                          ![r].reused[m] = [by |-> run[r].loaded[m].outcome, reach |-> reach]]
    /\ UNCHANGED <<behaviour, content, disk, starts, events>>

\* The workspace of a round is a copy of the repository.
OpenWorkspace(r) ==
    /\ run[r].phase = "idle" /\ starts < MaxStarts
    /\ run' = [run EXCEPT ![r].phase = "opened", ![r].tree = content]
    /\ starts' = starts + 1
    /\ UNCHANGED <<behaviour, content, disk, events>>

\* Its digest, and the digests every key is made of, are taken of the
\* repository itself.
Digest(r) ==
    /\ run[r].phase = "opened"
    /\ run' = [run EXCEPT ![r].phase = "named", ![r].named = content]
    /\ UNCHANGED <<behaviour, content, disk, starts, events>>

Loaded == IF disk = Damaged THEN NoRecords ELSE disk

\* The baseline is over: some targets have a coverage profile, some were seen
\* to read outside their closure.  The store is read, a damaged one as empty,
\* and the catalog says which mutants this content has.
Measure(r) ==
    /\ run[r].phase = "named"
    /\ \E covered \in SUBSET Targets, catalog \in SUBSET Mutants,
          W \in WatchedEach(r, Original, {{t} : t \in Targets}) :
          run' = [run EXCEPT ![r].phase = "measured", ![r].covered = covered, ![r].wide = W,
                             ![r].catalog = catalog, ![r].todo = catalog,
                             ![r].loaded = Loaded]
    /\ UNCHANGED <<behaviour, content, disk, starts, events>>

\* What the routing hands to the phase: today's groups, which are the reaching
\* targets by execution environment, and whether a target was discharged.  A target
\* without a coverage profile always reaches.
Routes(r) == {q \in [groups : SUBSET ((SUBSET Targets) \ {{}}), discharged : BOOLEAN] :
                /\ Targets \ run[r].covered \subseteq UNION q.groups
                /\ \A g, h \in q.groups : g # h => g \cap h = {}}

Reach(q) == UNION q.groups

Unrouted(q) == q.groups = {} /\ ~q.discharged

Working(r, m) == run[r].phase = "measured" /\ m \in run[r].todo

Has(r, m, outcome) == run[r].loaded[m] # None /\ run[r].loaded[m].outcome = outcome

KillIsKnown(r, m, q) ==
    /\ Has(r, m, "killed")
    /\ \E group \in q.groups : Contains(r, group, run[r].loaded[m].keys)

VerdictIsKnown(r, m, q) ==
    \/ Has(r, m, "survived") /\ Exhausts(r, Reach(q), run[r].loaded[m].keys)
    \/ Has(r, m, "unreached") /\ Unrouted(q) /\ MatchesSuite(r, run[r].loaded[m].keys[Suite])

\* What is not reused is found out.
Asks(r, m, q) ==
    Working(r, m) /\ q \in Routes(r) /\ ~KillIsKnown(r, m, q) /\ ~VerdictIsKnown(r, m, q)

ReuseKill(r, m) ==
    /\ Working(r, m)
    /\ \E q \in Routes(r) : KillIsKnown(r, m, q) /\ Reuse(r, m, Reach(q))

\* The original of the suite was measured and never comes near the mutant, which
\* is therefore no other program to it.
NeverReached(r, m) ==
    /\ Working(r, m)
    /\ \E q \in Routes(r) : Unrouted(q)
    /\ Leaves(r, m, Suite) = Leaves(r, Original, Suite)
    /\ ~behaviour.fails[Suite][m][run[r].tree] /\ ~behaviour.fails[Suite][Original][run[r].tree]
    /\ \E W \in Watched(r, Original, {Suite}) : Settle(r, m, SuiteRecord(r, W # {}))

ReuseVerdict(r, m) ==
    /\ Working(r, m)
    /\ \E q \in Routes(r) :
          ~KillIsKnown(r, m, q) /\ VerdictIsKnown(r, m, q) /\ Reuse(r, m, Reach(q))

\* An answer without a record: every target was discharged, the checkpoint had
\* the answer, the suite killed, a control was not healthy or a run expired.
AnswerUnrecorded(r, m) == Working(r, m) /\ Settle(r, m, None)

\* The suite runs to its end and does not fail.
SuiteSurvives(r, m) ==
    /\ \E q \in Routes(r) : Unrouted(q) /\ Asks(r, m, q)
    /\ ~behaviour.fails[Suite][m][run[r].tree]
    /\ \E W \in Watched(r, m, {Suite}) : Settle(r, m, SuiteRecord(r, W # {}))

\* A group of targets runs together and one of them fails.
GroupKills(r, m) ==
    \E q \in Routes(r) : \E group \in q.groups :
       /\ Asks(r, m, q)
       /\ \E t \in group : behaviour.fails[t][m][run[r].tree]
       /\ \E W \in Watched(r, m, group) : Settle(r, m, KillRecord(r, group, W))

\* Every group runs to its end and none fails.
AllSurvive(r, m) ==
    \E q \in Routes(r) :
       /\ Asks(r, m, q) /\ q.groups # {}
       /\ \A t \in Reach(q) : ~behaviour.fails[t][m][run[r].tree]
       /\ \E W \in WatchedEach(r, m, q.groups) : Settle(r, m, SurvivalRecord(r, Reach(q), W))

-------------------------------------------------------------------------------
(* The store. *)

\* A slip: what was reused is not carried over.
StoreRecorded(r) ==
    [m \in Mutants |-> IF m \notin run[r].catalog THEN None ELSE run[r].recorded[m]]

\* What a run writes: its own records, and those it loaded of mutants that are
\* still in the catalog.
Store(r) ==
    [m \in Mutants |->
        IF m \notin run[r].catalog THEN None
        ELSE IF run[r].recorded[m] # None THEN run[r].recorded[m] ELSE run[r].loaded[m]]

Save(r) ==
    /\ run[r].phase = "measured" /\ run[r].todo = {}
    /\ disk' = Store(r)
    /\ run' = [run EXCEPT ![r] = Idle]
    /\ UNCHANGED <<behaviour, content, starts, events>>

\* The temporary file could not be made or renamed, in the worst case after the
\* old store was removed; the run goes on without it.
SaveFails(r) ==
    /\ run[r].phase = "measured" /\ run[r].todo = {}
    /\ disk' \in {disk, NoRecords}
    /\ run' = [run EXCEPT ![r] = [Idle EXCEPT !.phase = "unsaved"]]
    /\ UNCHANGED <<behaviour, content, starts, events>>

\* Every other end: a report, an error, a cancellation, a death.
Stop(r) ==
    /\ run[r].phase # "idle"
    /\ run' = [run EXCEPT ![r] = Idle]
    /\ UNCHANGED <<behaviour, content, disk, starts, events>>

Edit ==
    /\ events < MaxEvents
    /\ RacingEdits \/ \A r \in Runs : run[r].phase # "opened"
    /\ content' \in Content \ {content}
    /\ events' = events + 1
    /\ UNCHANGED <<behaviour, disk, run, starts>>

Flush ==
    /\ events < MaxEvents /\ disk # NoRecords
    /\ disk' = NoRecords
    /\ events' = events + 1
    /\ UNCHANGED <<behaviour, content, run, starts>>

Damage ==
    /\ events < MaxEvents /\ disk # Damaged
    /\ disk' = Damaged
    /\ events' = events + 1
    /\ UNCHANGED <<behaviour, content, run, starts>>

Init ==
    /\ behaviour \in Behaviours
    /\ content \in Content
    /\ disk = NoRecords
    /\ run = [r \in Runs |-> Idle]
    /\ starts = 0 /\ events = 0

Step(r) ==
    \/ OpenWorkspace(r) \/ Digest(r) \/ Measure(r)
    \/ \E m \in Mutants : \/ ReuseKill(r, m) \/ NeverReached(r, m) \/ ReuseVerdict(r, m)
                          \/ AnswerUnrecorded(r, m) \/ SuiteSurvives(r, m)
                          \/ GroupKills(r, m) \/ AllSurvive(r, m)
    \/ Save(r) \/ SaveFails(r) \/ Stop(r)

Next == (\E r \in Runs : Step(r)) \/ Edit \/ Flush \/ Damage

Spec == Init /\ [][Next]_vars

-------------------------------------------------------------------------------
(* Properties. *)

\* Every field has its type; a run that works has a copy and a name for it, and
\* records rest on the tests their outcome is about.
TypeOK ==
    /\ behaviour \in Behaviours
    /\ content \in Content
    /\ disk \in Stores \cup {Damaged}
    /\ starts \in 0..MaxStarts /\ events \in 0..MaxEvents
    /\ \A r \in Runs :
          /\ run[r].phase \in Phases
          /\ run[r].phase \in {"opened", "named", "measured"} => run[r].tree \in Content
          /\ run[r].phase \in {"named", "measured"} => run[r].named \in Content
          /\ run[r].covered \subseteq Targets /\ run[r].wide \subseteq Targets
          /\ run[r].todo \subseteq run[r].catalog /\ run[r].catalog \subseteq Mutants
          /\ run[r].loaded \in Stores /\ run[r].recorded \in Stores
          /\ run[r].reused \in [Mutants -> Answers \cup {None}]

Reused(r, m, outcome) == run[r].reused[m] # None /\ run[r].reused[m].by = outcome

\* A kill taken from an earlier run is a kill today: of the targets that reach
\* the mutant one passes on the content this run names and fails on the mutant
\* of it (reuseKill, containsTargetSet).
KillIsCurrent ==
    \A r \in Runs, m \in Mutants : Reused(r, m, "killed") =>
        \E t \in run[r].reused[m].reach :
            /\ ~behaviour.fails[t][Original][run[r].named]
            /\ behaviour.fails[t][m][run[r].named]

\* A survival taken from an earlier run is a survival today: every target that
\* reaches the mutant in this run would pass on the mutant of the content this
\* run names, whatever reached it then (reuseVerdict, exhausts).
SurvivalIsCurrent ==
    \A r \in Runs, m \in Mutants : Reused(r, m, "survived") =>
        \A t \in run[r].reused[m].reach : ~behaviour.fails[t][m][run[r].named]

\* A mutant that is called unreached on the word of an earlier run is one the
\* package suite of today does not notice (suiteAnswers, suiteKeys).
UnreachedIsCurrent ==
    \A r \in Runs, m \in Mutants : Reused(r, m, "unreached") =>
        ~behaviour.fails[Suite][m][run[r].named]

\* A save loses the record of a mutant only to a newer one, to a catalog without
\* the mutant, or to another run's save since this one read the store.
SaveForgetsNothing ==
    [][\A r \in Runs, m \in Mutants :
          /\ run[r].phase = "measured" /\ run'[r].phase = "idle"
          /\ disk = run[r].loaded
          /\ m \in run[r].catalog /\ run[r].recorded[m] = None
          => disk'[m] = disk[m]]_vars

===============================================================================
