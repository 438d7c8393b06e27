------------------------- MODULE MutationEvidenceProofs -------------------------
(***************************************************************************)
(* What a later run takes from an earlier one is true of its own content,  *)
(* for any number of runs, tests, files and mutants.                        *)
(*                                                                         *)
(* A record does not say of which content it was made, and the store has   *)
(* none but those of other runs, of other contents. The invariant gives a  *)
(* record a witness: some content on which an execution showed what the    *)
(* record says, under whose name each of its keys was made, a narrow one   *)
(* only for a test that was not seen to leave its closure. A key that is   *)
(* still the same then carries the behaviour over to the content of today. *)
(***************************************************************************)
EXTENDS MutationEvidence, TLAPS

\* A key of t that carries over what t does with m: of all files, or of those
\* that t was built from when it opened no other.
Faithful(t, m, c, key) ==
    \E wide \in BOOLEAN : /\ key = Key(t, c, wide)
                          /\ wide \/ ~behaviour.reads[t][m][c]

\* The record was made on some content, on which its tests did what it says.
Witnessed(m, d) ==
    \E c \in Content :
        /\ \A t \in DOMAIN d.keys : Faithful(t, m, c, d.keys[t])
        /\ d.outcome = "killed" => \E t \in DOMAIN d.keys : behaviour.fails[t][m][c]
        /\ d.outcome # "killed" => \A t \in DOMAIN d.keys : ~behaviour.fails[t][m][c]

Honest(store) == \A m \in Mutants : store[m] # None => Witnessed(m, store[m])

States == [phase : Phases, tree : Content \cup {None}, named : Content \cup {None},
           covered : SUBSET Targets, wide : SUBSET Targets,
           loaded : Stores, recorded : Stores,
           catalog : SUBSET Mutants, todo : SUBSET Mutants,
           reused : [Mutants -> Answers \cup {None}]]

\* What a run has depends on how far it is.
Equipped(x) ==
    /\ x \in States
    /\ x.phase \in {"opened", "named", "measured"} => x.tree \in Content
    /\ x.phase \in {"named", "measured"} => x.named \in Content
    /\ x.phase # "measured" => x.reused = [m \in Mutants |-> None]
    /\ x.todo \subseteq x.catalog

Typed ==
    /\ behaviour \in Behaviours
    /\ content \in Content
    /\ disk \in Stores \cup {Damaged}
    /\ starts \in 0..MaxStarts /\ events \in 0..MaxEvents
    /\ run = [r \in Runs |-> run[r]]
    /\ \A r \in Runs : Equipped(run[r])

\* The copy, once it is named, is what it is called; nothing intervenes before.
WellNamed(x) ==
    /\ x.phase = "opened" => x.tree = content
    /\ x.phase \in {"named", "measured"} => x.named = x.tree

\* What is reused today would be found out today.
Current(x, m) ==
    LET answer == x.reused[m]
    IN  answer # None =>
          /\ answer.by = "killed" =>
                \E t \in answer.reach : /\ ~behaviour.fails[t][Original][x.named]
                                        /\ behaviour.fails[t][m][x.named]
          /\ answer.by = "survived" =>
                \A t \in answer.reach : ~behaviour.fails[t][m][x.named]
          /\ answer.by = "unreached" => ~behaviour.fails[Suite][m][x.named]

Trusty(x) ==
    /\ Honest(x.loaded) /\ Honest(x.recorded)
    /\ WellNamed(x)
    /\ \A m \in Mutants : Current(x, m)

\* What the properties follow from, when no edit falls between copy and name.
Trust ==
    /\ disk # Damaged => Honest(disk)
    /\ \A r \in Runs : Trusty(run[r])

-----------------------------------------------------------------------------
(* Keys. *)

\* What a key of today must be to match: of all files or of the closure.
Names(key, t, c) == IF key.wide THEN key = Whole(c) ELSE key = Narrow(t, c)

\* Every key is one.
LEMMA KeyTyped ==
    ASSUME NEW t \in Tests, NEW c \in Content, NEW wide \in BOOLEAN
    PROVE  Key(t, c, wide) \in Keys
BY DEF Key, Keys

\* A key that is the same on another content carries over what its test does
\* (containsTargetSet, exhausts): all files agree, or those the test read do.
LEMMA KeyCarries ==
    ASSUME NEW t \in Tests, NEW m \in Mutants, NEW c \in Content, NEW d \in Content,
           NEW key, behaviour \in Behaviours, Faithful(t, m, c, key), Names(key, t, d)
    PROVE  behaviour.fails[t][m][d] = behaviour.fails[t][m][c]
<1>1. PICK wide \in BOOLEAN : key = Key(t, c, wide) /\ (wide \/ ~behaviour.reads[t][m][c])
  BY DEF Faithful
<1>2. CASE wide
  <2>1. key = Whole(c) /\ key.wide
    BY <1>1, <1>2 DEF Key, Whole
  <2>2. Whole(c) = Whole(d)
    BY <2>1 DEF Names
  <2>3. c = d
    BY <2>2 DEF Whole
  <2> QED BY <2>3
<1>3. CASE ~wide
  <2>1. key = Narrow(t, c) /\ ~key.wide /\ ~behaviour.reads[t][m][c]
    BY <1>1, <1>3 DEF Key, Narrow
  <2>2. Narrow(t, c) = Narrow(t, d)
    BY <2>1 DEF Names
  <2>3. [f \in Closure[t] |-> c[f]] = [f \in Closure[t] |-> d[f]]
    BY <2>2 DEF Narrow
  <2>4. Agree(t, c, d)
    <3>1. ASSUME NEW f \in Closure[t] PROVE c[f] = d[f]
      <4>1. [g \in Closure[t] |-> c[g]][f] = [g \in Closure[t] |-> d[g]][f]
        BY <2>3
      <4> QED BY <4>1, <3>1
    <3> QED BY <3>1 DEF Agree
  <2>5. Deterministic(behaviour) /\ m \in Programs
    BY EvidenceAssumption DEF Programs
  <2> QED BY <2>1, <2>4, <2>5 DEF Deterministic
<1> QED BY <1>2, <1>3

-----------------------------------------------------------------------------
(* Records. *)

\* A test that its log does not widen was not seen to leave its closure.
LEMMA WatchedIsSeen ==
    ASSUME NEW r, NEW p, NEW tests, NEW W \in Watched(r, p, tests)
    PROVE  W \subseteq tests /\ \A t \in tests \ W : ~behaviour.reads[t][p][run[r].tree]
BY DEF Watched, Leaves

\* Nor was it when several executions were watched, each by its own log.
LEMMA WatchedEachIsSeen ==
    ASSUME NEW r, NEW p, NEW groups, NEW W \in WatchedEach(r, p, groups)
    PROVE  /\ W \subseteq UNION groups
           /\ \A t \in (UNION groups) \ W : ~behaviour.reads[t][p][run[r].tree]
<1>1. PICK w \in [groups -> SUBSET UNION groups] :
          /\ \A g \in groups : w[g] \in Watched(r, p, g)
          /\ W = UNION {w[g] : g \in groups}
  BY DEF WatchedEach
<1>2. ASSUME NEW t \in UNION groups, t \notin W
      PROVE  ~behaviour.reads[t][p][run[r].tree]
  <2>1. PICK g \in groups : t \in g
    OBVIOUS
  <2>2. t \notin w[g]
    BY <1>1, <1>2, <2>1
  <2> QED BY <1>1, <2>1, <2>2, WatchedIsSeen
<1> QED BY <1>1, <1>2

-----------------------------------------------------------------------------
(* Types, whatever edits race.                                             *)

\* A record, of tests whose keys are made under the name the run goes by.
LEMMA RecordTyped ==
    ASSUME NEW c \in Content, NEW B \in Bases, NEW outcome \in Outcomes, NEW keys,
           keys = [t \in B |-> keys[t]],
           \A t \in B : \E wide \in BOOLEAN : keys[t] = Key(t, c, wide),
           outcome = "unreached" <=> B = {Suite}
    PROVE  [outcome |-> outcome, keys |-> keys] \in Records
<1>1. ASSUME NEW t \in B PROVE keys[t] \in Keys
  <2>1. t \in Tests
    BY DEF Bases, Tests
  <2>2. PICK wide \in BOOLEAN : keys[t] = Key(t, c, wide)
    OBVIOUS
  <2> QED BY <2>1, <2>2, KeyTyped
<1>2. keys \in [B -> Keys]
  BY <1>1
<1>3. keys \in UNION {[C -> Keys] : C \in Bases}
  BY <1>2
<1> QED BY <1>3 DEF Records

\* What a phase records is a record or nothing.
LEMMA KillTyped ==
    ASSUME NEW r, run[r].named \in Content, NEW group \in SUBSET Targets, group # {}, NEW W
    PROVE  KillRecord(r, group, W) \in Records \cup {None}
<1>1. group \in Bases /\ group # {Suite}
  BY EvidenceAssumption DEF Bases
<1>2. DEFINE keys == TargetKeys(r, group, W)
<1>3. /\ keys = [t \in group |-> keys[t]]
      /\ \A t \in group : \E wide \in BOOLEAN : keys[t] = Key(t, run[r].named, wide)
  BY DEF TargetKeys, Key
<1>4. [outcome |-> "killed", keys |-> keys] \in Records
  <2> HIDE DEF keys
  <2> QED BY <1>1, <1>3, RecordTyped DEF Outcomes
<1> QED BY <1>4 DEF KillRecord

LEMMA SurvivalTyped ==
    ASSUME NEW r, run[r].named \in Content, NEW tests \in SUBSET Targets, tests # {}, NEW W
    PROVE  SurvivalRecord(r, tests, W) \in Records \cup {None}
<1>1. tests \in Bases /\ tests # {Suite}
  BY EvidenceAssumption DEF Bases
<1>2. DEFINE keys == TargetKeys(r, tests, W)
<1>3. /\ keys = [t \in tests |-> keys[t]]
      /\ \A t \in tests : \E wide \in BOOLEAN : keys[t] = Key(t, run[r].named, wide)
  BY DEF TargetKeys, Key
<1>4. [outcome |-> "survived", keys |-> keys] \in Records
  <2> HIDE DEF keys
  <2> QED BY <1>1, <1>3, RecordTyped DEF Outcomes
<1> QED BY <1>4 DEF SurvivalRecord

LEMMA SuiteTyped ==
    ASSUME NEW r, run[r].named \in Content, NEW wide \in BOOLEAN
    PROVE  SuiteRecord(r, wide) \in Records \cup {None}
<1>1. {Suite} \in Bases
  BY DEF Bases
<1>2. DEFINE keys == [t \in {Suite} |->
                        Key(t, run[r].named, wide \/ Targets \cap run[r].wide # {})]
<1>3. /\ keys = [t \in {Suite} |-> keys[t]]
      /\ \A t \in {Suite} : \E w \in BOOLEAN : keys[t] = Key(t, run[r].named, w)
  OBVIOUS
<1>4. [outcome |-> "unreached", keys |-> keys] \in Records
  <2> HIDE DEF keys
  <2> QED BY <1>1, <1>3, RecordTyped DEF Outcomes
<1> QED BY <1>4 DEF SuiteRecord

\* A run that is moved on, and nothing else of its kind.
LEMMA TypedMove ==
    ASSUME Typed, NEW r \in Runs, NEW x, Equipped(x), run' = [run EXCEPT ![r] = x],
           behaviour' = behaviour, content' = content, events' = events,
           disk' \in Stores \cup {Damaged}, starts' \in 0..MaxStarts
    PROVE  Typed'
<1>2. \A s \in Runs : run'[s] = IF s = r THEN x ELSE run[s]
  BY DEF Typed
<1>3. \A s \in Runs : Equipped(run'[s])
  BY <1>2 DEF Typed
<1>4. run' = [s \in Runs |-> run'[s]]
  BY DEF Typed
<1> QED BY <1>3, <1>4 DEF Typed

LEMMA SettleTyped ==
    ASSUME Typed, NEW r \in Runs, NEW m \in Mutants, Working(r, m),
           NEW record \in Records \cup {None}, Settle(r, m, record)
    PROVE  Typed'
<1> DEFINE x == [run[r] EXCEPT !.todo = @ \ {m},
                               !.recorded[m] = IF record = None THEN @ ELSE record]
<1>1. run' = [run EXCEPT ![r] = x]
  BY DEF Typed, Settle
<1>2. Equipped(x)
  <2>1. Equipped(run[r])
    BY DEF Typed
  <2>2. x.recorded \in Stores
    BY <2>1 DEF Equipped, States, Stores
  <2> QED BY <2>1, <2>2 DEF Equipped, States
<1> QED BY <1>1, <1>2, TypedMove DEF Settle, Typed

LEMMA ReuseTyped ==
    ASSUME Typed, NEW r \in Runs, NEW m \in Mutants, Working(r, m),
           NEW reach \in SUBSET Targets, run[r].loaded[m] \in Records, Reuse(r, m, reach)
    PROVE  Typed'
<1> DEFINE x == [run[r] EXCEPT !.todo = @ \ {m},
                   !.reused[m] = [by |-> run[r].loaded[m].outcome, reach |-> reach]]
<1>1. run' = [run EXCEPT ![r] = x]
  BY DEF Typed, Reuse
<1>2. Equipped(x)
  <2>1. Equipped(run[r]) /\ run[r].phase = "measured"
    BY DEF Typed, Working
  <2>2. run[r].loaded[m].outcome \in Outcomes
    BY DEF Records
  <2>3. x.reused \in [Mutants -> Answers \cup {None}]
    BY <2>1, <2>2 DEF Equipped, States, Answers
  <2> QED BY <2>1, <2>3 DEF Equipped, States
<1> QED BY <1>1, <1>2, TypedMove DEF Reuse, Typed

\* An answer of the phase, recorded or reused.
LEMMA AnswerTyped ==
    ASSUME Typed, NEW r \in Runs, NEW m \in Mutants,
           \/ ReuseKill(r, m) \/ NeverReached(r, m) \/ ReuseVerdict(r, m)
           \/ AnswerUnrecorded(r, m) \/ SuiteSurvives(r, m)
           \/ GroupKills(r, m) \/ AllSurvive(r, m)
    PROVE  Typed'
<1>1. Working(r, m)
  BY DEF ReuseKill, NeverReached, ReuseVerdict, AnswerUnrecorded, SuiteSurvives,
         GroupKills, AllSurvive, Asks
<1>2. run[r].named \in Content /\ run[r].loaded \in Stores
  BY <1>1 DEF Typed, Equipped, Working, States
<1>3. ASSUME NEW q \in Routes(r)
      PROVE  Reach(q) \in SUBSET Targets /\ \A g \in q.groups : g \in SUBSET Targets /\ g # {}
  BY DEF Routes, Reach
<1>4. CASE ReuseKill(r, m) \/ ReuseVerdict(r, m)
  <2>1. PICK q \in Routes(r) : /\ Reuse(r, m, Reach(q))
                               /\ KillIsKnown(r, m, q) \/ VerdictIsKnown(r, m, q)
    BY <1>4 DEF ReuseKill, ReuseVerdict
  <2>2. run[r].loaded[m] \in Records
    BY <1>2, <2>1 DEF KillIsKnown, VerdictIsKnown, Has, Stores
  <2> QED BY <1>1, <1>3, <2>1, <2>2, ReuseTyped
<1>5. CASE NeverReached(r, m) \/ SuiteSurvives(r, m)
  <2>1. PICK wide \in BOOLEAN : Settle(r, m, SuiteRecord(r, wide))
    BY <1>5 DEF NeverReached, SuiteSurvives
  <2> QED BY <1>1, <1>2, <2>1, SuiteTyped, SettleTyped
<1>6. CASE AnswerUnrecorded(r, m)
  BY <1>1, <1>6, SettleTyped DEF AnswerUnrecorded
<1>7. CASE GroupKills(r, m)
  <2>1. PICK q \in Routes(r) : \E group \in q.groups : \E W :
                                   Settle(r, m, KillRecord(r, group, W))
    BY <1>7 DEF GroupKills, Asks
  <2>2. PICK group \in q.groups : \E W : Settle(r, m, KillRecord(r, group, W))
    BY <2>1
  <2>3. PICK W : Settle(r, m, KillRecord(r, group, W))
    BY <2>2
  <2> QED BY <1>1, <1>2, <1>3, <2>3, KillTyped, SettleTyped
<1>8. CASE AllSurvive(r, m)
  <2>1. PICK q \in Routes(r) : /\ q.groups # {}
                               /\ \E W : Settle(r, m, SurvivalRecord(r, Reach(q), W))
    BY <1>8 DEF AllSurvive, Asks
  <2>2. PICK W : Settle(r, m, SurvivalRecord(r, Reach(q), W))
    BY <2>1
  <2>3. Reach(q) # {}
    BY <1>3, <2>1 DEF Reach
  <2> QED BY <1>1, <1>2, <1>3, <2>2, <2>3, SurvivalTyped, SettleTyped
<1> QED BY <1>4, <1>5, <1>6, <1>7, <1>8

LEMMA EmptyStore == NoRecords \in Stores
BY DEF NoRecords, Stores

LEMMA IdleEquipped == Equipped(Idle) /\ Equipped([Idle EXCEPT !.phase = "unsaved"])
BY EmptyStore DEF Idle, Equipped, States, Phases

\* What a run writes is a store.
LEMMA StoreTyped ==
    ASSUME Typed, NEW r \in Runs
    PROVE  Store(r) \in Stores
BY DEF Typed, Equipped, States, Store, Stores

\* The other steps of a run.
LEMMA RunTyped ==
    ASSUME Typed, NEW r \in Runs,
           OpenWorkspace(r) \/ Digest(r) \/ Measure(r) \/ Save(r) \/ SaveFails(r) \/ Stop(r)
    PROVE  Typed'
<1>1. Equipped(run[r])
  BY DEF Typed
<1>2. CASE OpenWorkspace(r)
  <2> DEFINE x == [run[r] EXCEPT !.phase = "opened", !.tree = content]
  <2>1. run' = [run EXCEPT ![r] = x]
    BY <1>2 DEF Typed, OpenWorkspace
  <2>2. Equipped(x)
    BY <1>1, <1>2 DEF Typed, OpenWorkspace, Equipped, States, Phases
  <2>3. starts' \in 0..MaxStarts
    BY <1>2, EvidenceAssumption DEF Typed, OpenWorkspace
  <2> QED BY <1>2, <2>1, <2>2, <2>3, TypedMove DEF Typed, OpenWorkspace
<1>3. CASE Digest(r)
  <2> DEFINE x == [run[r] EXCEPT !.phase = "named", !.named = content]
  <2>1. run' = [run EXCEPT ![r] = x]
    BY <1>3 DEF Typed, Digest
  <2>2. Equipped(x)
    BY <1>1, <1>3 DEF Typed, Digest, Equipped, States, Phases
  <2> QED BY <1>3, <2>1, <2>2, TypedMove DEF Typed, Digest
<1>4. CASE Measure(r)
  <2>1. PICK covered \in SUBSET Targets, catalog \in SUBSET Mutants,
             W \in WatchedEach(r, Original, {{t} : t \in Targets}) :
          run' = [run EXCEPT ![r].phase = "measured", ![r].covered = covered, ![r].wide = W,
                             ![r].catalog = catalog, ![r].todo = catalog,
                             ![r].loaded = Loaded]
    BY <1>4 DEF Measure
  <2> DEFINE x == [run[r] EXCEPT !.phase = "measured", !.covered = covered, !.wide = W,
                                 !.catalog = catalog, !.todo = catalog, !.loaded = Loaded]
  <2>2. run' = [run EXCEPT ![r] = x]
    BY <2>1 DEF Typed
  <2>3. W \subseteq Targets
    BY WatchedEachIsSeen
  <2>4. Loaded \in Stores
    BY EmptyStore DEF Typed, Loaded
  <2>5. Equipped(x)
    BY <1>1, <1>4, <2>3, <2>4 DEF Measure, Equipped, States, Phases
  <2> QED BY <1>4, <2>2, <2>5, TypedMove DEF Typed, Measure
<1>5. CASE Save(r)
  BY <1>5, IdleEquipped, StoreTyped, TypedMove DEF Typed, Save
<1>6. CASE SaveFails(r)
  BY <1>6, IdleEquipped, EmptyStore, TypedMove DEF Typed, SaveFails
<1>7. CASE Stop(r)
  BY <1>7, IdleEquipped, TypedMove DEF Typed, Stop
<1> QED BY <1>2, <1>3, <1>4, <1>5, <1>6, <1>7

LEMMA TypedStart == Init => Typed
BY EvidenceAssumption, IdleEquipped, EmptyStore DEF Init, Typed

LEMMA TypedStep == Typed /\ [Next]_vars => Typed'
<1> SUFFICES ASSUME Typed, [Next]_vars PROVE Typed'
  OBVIOUS
<1>1. CASE \E r \in Runs : Step(r)
  BY <1>1, RunTyped, AnswerTyped DEF Step
<1>2. CASE Edit
  BY <1>2, EvidenceAssumption DEF Typed, Edit
<1>3. CASE Flush \/ Damage
  BY <1>3, EvidenceAssumption, EmptyStore DEF Typed, Flush, Damage
<1>4. CASE UNCHANGED vars
  BY <1>4 DEF Typed, vars
<1> QED BY <1>1, <1>2, <1>3, <1>4 DEF Next

\* Every field has its type, whatever edits race with the runs.
THEOREM EvidenceTyped == Spec => []TypeOK
<1>1. Typed => TypeOK
  BY DEF Typed, Equipped, States, TypeOK
<1> QED BY <1>1, TypedStart, TypedStep, PTL DEF Spec

\* A save drops no record of a mutant that its run has, has learned nothing new of
\* and loaded as it is (Save, mergeRecords).
THEOREM SavesForgetNothing == Spec => SaveForgetsNothing
<1> DEFINE Kept == \A r \in Runs, m \in Mutants :
                      /\ run[r].phase = "measured" /\ run'[r].phase = "idle"
                      /\ disk = run[r].loaded
                      /\ m \in run[r].catalog /\ run[r].recorded[m] = None
                      => disk'[m] = disk[m]
<1>1. Typed /\ [Next]_vars => Kept
  <2> SUFFICES ASSUME Typed, [Next]_vars, NEW r \in Runs, NEW m \in Mutants,
                      run[r].phase = "measured", run'[r].phase = "idle",
                      disk = run[r].loaded, m \in run[r].catalog, run[r].recorded[m] = None
               PROVE  disk'[m] = disk[m]
    OBVIOUS
  <2>1. CASE \E s \in Runs : Save(s)
    <3>1. PICK s \in Runs : Save(s)
      BY <2>1
    <3>2. s = r
      BY <3>1 DEF Typed, Save
    <3> QED BY <3>1, <3>2 DEF Save, Store
  <2>2. CASE \E s \in Runs : SaveFails(s)
    <3>1. PICK s \in Runs : SaveFails(s)
      BY <2>2
    <3>2. run'[s].phase = "unsaved" /\ (s # r => run'[r] = run[r])
      BY <3>1 DEF Typed, SaveFails, Idle
    <3> QED BY <3>2
  <2>3. CASE \E s \in Runs : OpenWorkspace(s) \/ Digest(s) \/ Measure(s) \/ Stop(s)
    BY <2>3 DEF OpenWorkspace, Digest, Measure, Stop
  <2>4. CASE \E s \in Runs, n \in Mutants :
                \/ ReuseKill(s, n) \/ NeverReached(s, n) \/ ReuseVerdict(s, n)
                \/ AnswerUnrecorded(s, n) \/ SuiteSurvives(s, n)
                \/ GroupKills(s, n) \/ AllSurvive(s, n)
    <3>1. PICK s \in Runs, n \in Mutants :
                \/ ReuseKill(s, n) \/ NeverReached(s, n) \/ ReuseVerdict(s, n)
                \/ AnswerUnrecorded(s, n) \/ SuiteSurvives(s, n)
                \/ GroupKills(s, n) \/ AllSurvive(s, n)
      BY <2>4
    <3>2. CASE ReuseKill(s, n) \/ ReuseVerdict(s, n)
      BY <3>2 DEF ReuseKill, ReuseVerdict, Reuse
    <3>3. CASE NeverReached(s, n) \/ AnswerUnrecorded(s, n) \/ SuiteSurvives(s, n)
      BY <3>3 DEF NeverReached, AnswerUnrecorded, SuiteSurvives, Settle
    <3>4. CASE GroupKills(s, n)
      BY <3>4 DEF GroupKills, Settle
    <3>5. CASE AllSurvive(s, n)
      BY <3>5 DEF AllSurvive, Settle
    <3> QED BY <3>1, <3>2, <3>3, <3>4, <3>5
  <2>5. CASE Edit \/ Flush \/ Damage \/ UNCHANGED vars
    BY <2>5 DEF Edit, Flush, Damage, vars
  <2> QED BY <2>1, <2>2, <2>3, <2>4, <2>5 DEF Next, Step
<1>2. Kept => [Kept]_vars
  OBVIOUS
<1> QED BY <1>1, <1>2, TypedStart, TypedStep, PTL DEF Spec, SaveForgetsNothing

-----------------------------------------------------------------------------
(* Records have their witness, when the copy is what it is called.         *)

LEMMA WitnessMade ==
    ASSUME NEW m \in Mutants, NEW c \in Content, NEW B, NEW outcome, NEW keys,
           keys = [t \in B |-> keys[t]], \A t \in B : Faithful(t, m, c, keys[t]),
           outcome = "killed" => \E t \in B : behaviour.fails[t][m][c],
           outcome # "killed" => \A t \in B : ~behaviour.fails[t][m][c]
    PROVE  Witnessed(m, [outcome |-> outcome, keys |-> keys])
<1>1. DOMAIN keys = B
  OBVIOUS
<1> QED BY <1>1 DEF Witnessed

\* Keys that are widened by what was seen of an execution on the copy.
LEMMA KeysAreFaithful ==
    ASSUME NEW r, NEW m, NEW tests, NEW W, run[r].named = run[r].tree,
           \A t \in tests \ W : ~behaviour.reads[t][m][run[r].tree]
    PROVE  LET keys == TargetKeys(r, tests, W)
           IN  /\ keys = [t \in tests |-> keys[t]]
               /\ \A t \in tests : Faithful(t, m, run[r].tree, keys[t])
BY DEF TargetKeys, Faithful, Key

LEMMA KillWitnessed ==
    ASSUME NEW r, NEW m \in Mutants, NEW group, NEW W \in Watched(r, m, group),
           run[r].tree \in Content, run[r].named = run[r].tree,
           \E t \in group : behaviour.fails[t][m][run[r].tree],
           KillRecord(r, group, W) # None
    PROVE  Witnessed(m, KillRecord(r, group, W))
<1> DEFINE keys == TargetKeys(r, group, W)
<1>1. /\ keys = [t \in group |-> keys[t]]
      /\ \A t \in group : Faithful(t, m, run[r].tree, keys[t])
  BY WatchedIsSeen, KeysAreFaithful
<1>2. Witnessed(m, [outcome |-> "killed", keys |-> keys])
  <2> HIDE DEF keys
  <2> QED BY <1>1, WitnessMade
<1> QED BY <1>2 DEF KillRecord

LEMMA SurvivalWitnessed ==
    ASSUME NEW r, NEW m \in Mutants, NEW groups, NEW W \in WatchedEach(r, m, groups),
           run[r].tree \in Content, run[r].named = run[r].tree,
           \A t \in UNION groups : ~behaviour.fails[t][m][run[r].tree],
           SurvivalRecord(r, UNION groups, W) # None
    PROVE  Witnessed(m, SurvivalRecord(r, UNION groups, W))
<1> DEFINE keys == TargetKeys(r, UNION groups, W)
<1>1. /\ keys = [t \in UNION groups |-> keys[t]]
      /\ \A t \in UNION groups : Faithful(t, m, run[r].tree, keys[t])
  BY WatchedEachIsSeen, KeysAreFaithful
<1>2. Witnessed(m, [outcome |-> "survived", keys |-> keys])
  <2> HIDE DEF keys
  <2> QED BY <1>1, WitnessMade
<1> QED BY <1>2 DEF SurvivalRecord

LEMMA SuiteWitnessed ==
    ASSUME NEW r, NEW m \in Mutants, NEW W \in Watched(r, m, {Suite}),
           run[r].tree \in Content, run[r].named = run[r].tree,
           ~behaviour.fails[Suite][m][run[r].tree],
           SuiteRecord(r, W # {}) # None
    PROVE  Witnessed(m, SuiteRecord(r, W # {}))
<1> DEFINE wide == W # {} \/ Targets \cap run[r].wide # {}
           keys == [t \in {Suite} |-> Key(t, run[r].named, wide)]
<1>1. wide \/ ~behaviour.reads[Suite][m][run[r].tree]
  BY WatchedIsSeen
<1>2. /\ keys = [t \in {Suite} |-> keys[t]]
      /\ \A t \in {Suite} : Faithful(t, m, run[r].tree, keys[t])
  BY <1>1 DEF Faithful
<1>3. Witnessed(m, [outcome |-> "unreached", keys |-> keys])
  <2> HIDE DEF keys
  <2> QED BY <1>2, WitnessMade
<1> QED BY <1>3 DEF SuiteRecord

-----------------------------------------------------------------------------
(* What is taken from a record is true today.                              *)

LEMMA KillCarries ==
    ASSUME Typed, NEW r \in Runs, NEW m \in Mutants, Trusty(run[r]), Working(r, m),
           NEW q \in Routes(r), KillIsKnown(r, m, q)
    PROVE  \E t \in Reach(q) : /\ ~behaviour.fails[t][Original][run[r].named]
                               /\ behaviour.fails[t][m][run[r].named]
<1> DEFINE d == run[r].loaded[m]
           n == run[r].named
<1>1. d.outcome = "killed" /\ Witnessed(m, d)
  BY DEF KillIsKnown, Has, Trusty, Honest
<1>2. PICK c \in Content :
          /\ \A t \in DOMAIN d.keys : Faithful(t, m, c, d.keys[t])
          /\ \E t \in DOMAIN d.keys : behaviour.fails[t][m][c]
  BY <1>1 DEF Witnessed
<1>3. PICK t \in DOMAIN d.keys : behaviour.fails[t][m][c]
  BY <1>2
<1>4. PICK group \in q.groups : Contains(r, group, d.keys)
  BY DEF KillIsKnown
<1>5. t \in group /\ t \in Passed(r) /\ MatchesTarget(r, t, d.keys[t])
  BY <1>4 DEF Contains
<1>6. t \in Tests /\ t \in Reach(q)
  BY <1>5 DEF Passed, Tests, Reach
<1>7. n \in Content /\ n = run[r].tree /\ behaviour \in Behaviours
  BY DEF Typed, Equipped, Working, Trusty, WellNamed
<1>8. Names(d.keys[t], t, n)
  BY <1>5 DEF MatchesTarget, Names
<1>9. behaviour.fails[t][m][n] = behaviour.fails[t][m][c]
  <2> HIDE DEF d, n
  <2> QED BY <1>2, <1>6, <1>7, <1>8, KeyCarries
<1> QED BY <1>3, <1>5, <1>6, <1>7, <1>9 DEF Passed

LEMMA SurvivalCarries ==
    ASSUME Typed, NEW r \in Runs, NEW m \in Mutants, Trusty(run[r]), Working(r, m),
           Has(r, m, "survived"), NEW reach, Exhausts(r, reach, run[r].loaded[m].keys)
    PROVE  \A t \in reach : ~behaviour.fails[t][m][run[r].named]
<1> DEFINE d == run[r].loaded[m]
           n == run[r].named
<1>1. d.outcome = "survived" /\ Witnessed(m, d)
  BY DEF Has, Trusty, Honest
<1>2. PICK c \in Content :
          /\ \A t \in DOMAIN d.keys : Faithful(t, m, c, d.keys[t])
          /\ \A t \in DOMAIN d.keys : ~behaviour.fails[t][m][c]
  BY <1>1 DEF Witnessed
<1>3. n \in Content /\ behaviour \in Behaviours
  BY DEF Typed, Equipped, Working
<1>4. ASSUME NEW t \in reach PROVE ~behaviour.fails[t][m][n]
  <2>1. t \in DOMAIN d.keys /\ t \in Passed(r) /\ MatchesTarget(r, t, d.keys[t])
    BY DEF Exhausts
  <2>2. t \in Tests /\ Names(d.keys[t], t, n)
    BY <2>1 DEF MatchesTarget, Names, Passed, Tests
  <2>3. behaviour.fails[t][m][n] = behaviour.fails[t][m][c]
    <3> HIDE DEF d, n
    <3> QED BY <1>2, <1>3, <2>1, <2>2, KeyCarries
  <2> QED BY <1>2, <2>1, <2>3
<1> QED BY <1>4

LEMMA UnreachedCarries ==
    ASSUME Typed, NEW r \in Runs, NEW m \in Mutants, Trusty(run[r]), Working(r, m),
           Has(r, m, "unreached"), MatchesSuite(r, run[r].loaded[m].keys[Suite])
    PROVE  ~behaviour.fails[Suite][m][run[r].named]
<1> DEFINE d == run[r].loaded[m]
           n == run[r].named
<1>1. d.outcome = "unreached" /\ Witnessed(m, d) /\ d \in Records
  BY DEF Has, Trusty, Honest, Typed, Equipped, States, Stores
<1>2. Suite \in DOMAIN d.keys
  BY <1>1 DEF Records
<1>3. PICK c \in Content : /\ Faithful(Suite, m, c, d.keys[Suite])
                           /\ ~behaviour.fails[Suite][m][c]
  BY <1>1, <1>2 DEF Witnessed
<1>4. n \in Content /\ behaviour \in Behaviours /\ Suite \in Tests
  BY DEF Typed, Equipped, Working, Tests
<1>5. Names(d.keys[Suite], Suite, n)
  BY DEF MatchesSuite, Names
<1>6. behaviour.fails[Suite][m][n] = behaviour.fails[Suite][m][c]
  <2> HIDE DEF d, n
  <2> QED BY <1>3, <1>4, <1>5, KeyCarries
<1> QED BY <1>3, <1>6

-----------------------------------------------------------------------------
(* Every step keeps what a run trusts.                                     *)

\* Behaviour never changes, so that a store that was honest by it stays so.
LEMMA WitnessStays ==
    ASSUME behaviour' = behaviour
    PROVE  /\ \A m, d : Witnessed(m, d) <=> Witnessed(m, d)'
           /\ Honest(disk') => Honest(disk)'
<1>1. \A m, d : Witnessed(m, d) <=> Witnessed(m, d)'
  BY DEF Witnessed, Faithful
<1> QED BY <1>1 DEF Honest

\* So does what a run loaded, recorded and reuses.
LEMMA TrustyStays ==
    ASSUME behaviour' = behaviour, NEW r \in Runs, Trusty(run'[r]), WellNamed(run[r])'
    PROVE  Trusty(run[r])'
<1>1. Honest(run[r].loaded)' /\ Honest(run[r].recorded)'
  BY WitnessStays DEF Trusty, Honest
<1>2. ASSUME NEW m \in Mutants PROVE Current(run[r], m)'
  <2>1. Current(run'[r], m)
    BY DEF Trusty
  <2> QED BY <2>1 DEF Current
<1> QED BY <1>1, <1>2 DEF Trusty

\* Behaviour never changes, so that what was trusted of the one run that moves,
\* of the others and of the store is still true.
LEMMA TrustMove ==
    ASSUME Typed, Trust, NEW r \in Runs, NEW x, Trusty(x), run' = [run EXCEPT ![r] = x],
           behaviour' = behaviour, content' = content,
           disk' # Damaged => Honest(disk')
    PROVE  Trust'
<1>1. \A s \in Runs : run'[s] = IF s = r THEN x ELSE run[s]
  BY DEF Typed
<1>2. \A s \in Runs : Trusty(run'[s])
  BY <1>1 DEF Trust
<1>3. ASSUME NEW s \in Runs PROVE Trusty(run[s])'
  <2>1. Trusty(run'[s])
    BY <1>2
  <2>2. WellNamed(run[s])'
    BY <2>1 DEF Trusty, WellNamed
  <2> QED BY <2>1, <2>2, TrustyStays
<1>4. disk' # Damaged => Honest(disk)'
  BY WitnessStays
<1> QED BY <1>3, <1>4 DEF Trust

LEMMA NothingIsHonest == Honest(NoRecords)
BY DEF Honest, NoRecords

LEMMA IdleTrusts == Trusty(Idle) /\ Trusty([Idle EXCEPT !.phase = "unsaved"])
BY NothingIsHonest DEF Trusty, Idle, WellNamed, Current

LEMMA SettleTrusts ==
    ASSUME Typed, Trust, NEW r \in Runs, NEW m \in Mutants, Working(r, m), NEW record,
           record # None => Witnessed(m, record), Settle(r, m, record)
    PROVE  Trust'
<1> DEFINE x == [run[r] EXCEPT !.todo = @ \ {m},
                               !.recorded[m] = IF record = None THEN @ ELSE record]
<1>1. run' = [run EXCEPT ![r] = x]
  BY DEF Typed, Settle
<1>2. Equipped(run[r]) /\ Trusty(run[r])
  BY DEF Typed, Trust
<1>3. Honest(x.recorded)
  BY <1>2 DEF Equipped, States, Stores, Trusty, Honest
<1>4. WellNamed(x) /\ \A n \in Mutants : Current(x, n)
  BY <1>2 DEF Equipped, States, Trusty, WellNamed, Current
<1>5. Honest(x.loaded)
  BY <1>2 DEF Equipped, States, Trusty
<1>6. Trusty(x)
  BY <1>3, <1>4, <1>5 DEF Trusty
<1> QED
  <2> HIDE DEF x
  <2> QED BY <1>1, <1>6, TrustMove DEF Settle, Trust

LEMMA ReuseTrusts ==
    ASSUME Typed, Trust, NEW r \in Runs, NEW m \in Mutants, Working(r, m), NEW reach,
           run[r].loaded[m] # None,
           LET outcome == run[r].loaded[m].outcome IN
              /\ outcome = "killed" =>
                    \E t \in reach : /\ ~behaviour.fails[t][Original][run[r].named]
                                     /\ behaviour.fails[t][m][run[r].named]
              /\ outcome = "survived" => \A t \in reach : ~behaviour.fails[t][m][run[r].named]
              /\ outcome = "unreached" => ~behaviour.fails[Suite][m][run[r].named],
           Reuse(r, m, reach)
    PROVE  Trust'
<1> DEFINE answer == [by |-> run[r].loaded[m].outcome, reach |-> reach]
           x == [run[r] EXCEPT !.todo = @ \ {m}, !.reused[m] = answer]
<1>1. run' = [run EXCEPT ![r] = x]
  BY DEF Typed, Reuse
<1>2. Equipped(run[r]) /\ Trusty(run[r])
  BY DEF Typed, Trust
<1>3. x.reused[m] = answer /\ (\A n \in Mutants \ {m} : x.reused[n] = run[r].reused[n])
  BY <1>2 DEF Equipped, States
<1>4. x.named = run[r].named
  BY <1>2 DEF Equipped, States
<1>5. Current(x, m)
  <2>1. answer.by = run[r].loaded[m].outcome /\ answer.reach = reach
    OBVIOUS
  <2> HIDE DEF x, answer
  <2> QED BY <1>3, <1>4, <2>1 DEF Current
<1>6. ASSUME NEW n \in Mutants \ {m} PROVE Current(x, n)
  <2>1. Current(run[r], n)
    BY <1>2 DEF Trusty
  <2> HIDE DEF x
  <2> QED BY <1>3, <1>4, <2>1 DEF Current
<1>7. Honest(x.loaded) /\ Honest(x.recorded) /\ WellNamed(x)
  BY <1>2 DEF Equipped, States, Trusty, WellNamed
<1>8. Trusty(x)
  BY <1>5, <1>6, <1>7 DEF Trusty
<1> QED
  <2> HIDE DEF x
  <2> QED BY <1>1, <1>8, TrustMove DEF Reuse, Trust

LEMMA AnswerTrusts ==
    ASSUME Typed, Trust, NEW r \in Runs, NEW m \in Mutants,
           \/ ReuseKill(r, m) \/ NeverReached(r, m) \/ ReuseVerdict(r, m)
           \/ AnswerUnrecorded(r, m) \/ SuiteSurvives(r, m)
           \/ GroupKills(r, m) \/ AllSurvive(r, m)
    PROVE  Trust'
<1>1. Working(r, m)
  BY DEF ReuseKill, NeverReached, ReuseVerdict, AnswerUnrecorded, SuiteSurvives,
         GroupKills, AllSurvive, Asks
<1>2. Trusty(run[r]) /\ run[r].tree \in Content /\ run[r].named = run[r].tree
  BY <1>1 DEF Typed, Equipped, Working, Trust, Trusty, WellNamed
<1>3. CASE ReuseKill(r, m)
  <2>1. PICK q \in Routes(r) : KillIsKnown(r, m, q) /\ Reuse(r, m, Reach(q))
    BY <1>3 DEF ReuseKill
  <2>2. \E t \in Reach(q) : /\ ~behaviour.fails[t][Original][run[r].named]
                            /\ behaviour.fails[t][m][run[r].named]
    BY <1>1, <1>2, <2>1, KillCarries
  <2>3. run[r].loaded[m] # None /\ run[r].loaded[m].outcome = "killed"
    BY <2>1 DEF KillIsKnown, Has
  <2> QED BY <1>1, <2>1, <2>2, <2>3, ReuseTrusts
<1>4. CASE ReuseVerdict(r, m)
  <2>1. PICK q \in Routes(r) : VerdictIsKnown(r, m, q) /\ Reuse(r, m, Reach(q))
    BY <1>4 DEF ReuseVerdict
  <2>2. CASE Has(r, m, "survived") /\ Exhausts(r, Reach(q), run[r].loaded[m].keys)
    <3>1. \A t \in Reach(q) : ~behaviour.fails[t][m][run[r].named]
      BY <1>1, <1>2, <2>2, SurvivalCarries
    <3>2. run[r].loaded[m] # None /\ run[r].loaded[m].outcome = "survived"
      BY <2>2 DEF Has
    <3> QED BY <1>1, <2>1, <3>1, <3>2, ReuseTrusts
  <2>3. CASE Has(r, m, "unreached") /\ MatchesSuite(r, run[r].loaded[m].keys[Suite])
    <3>1. ~behaviour.fails[Suite][m][run[r].named]
      BY <1>1, <1>2, <2>3, UnreachedCarries
    <3>2. run[r].loaded[m] # None /\ run[r].loaded[m].outcome = "unreached"
      BY <2>3 DEF Has
    <3> QED BY <1>1, <2>1, <3>1, <3>2, ReuseTrusts
  <2> QED BY <2>1, <2>2, <2>3 DEF VerdictIsKnown
<1>5. CASE NeverReached(r, m)
  <2>1. PICK W \in Watched(r, Original, {Suite}) : Settle(r, m, SuiteRecord(r, W # {}))
    BY <1>5 DEF NeverReached
  <2>2. W \in Watched(r, m, {Suite}) /\ ~behaviour.fails[Suite][m][run[r].tree]
    BY <1>5, <2>1 DEF NeverReached, Watched
  <2> QED BY <1>1, <1>2, <2>1, <2>2, SuiteWitnessed, SettleTrusts
<1>6. CASE SuiteSurvives(r, m)
  <2>1. PICK W \in Watched(r, m, {Suite}) : Settle(r, m, SuiteRecord(r, W # {}))
    BY <1>6 DEF SuiteSurvives
  <2> QED BY <1>1, <1>2, <1>6, <2>1, SuiteWitnessed, SettleTrusts DEF SuiteSurvives
<1>7. CASE AnswerUnrecorded(r, m)
  BY <1>1, <1>7, SettleTrusts DEF AnswerUnrecorded
<1>8. CASE GroupKills(r, m)
  <2>1. PICK q \in Routes(r) : \E group \in q.groups :
            /\ \E t \in group : behaviour.fails[t][m][run[r].tree]
            /\ \E W \in Watched(r, m, group) : Settle(r, m, KillRecord(r, group, W))
    BY <1>8 DEF GroupKills, Asks
  <2>2. PICK group \in q.groups :
            /\ \E t \in group : behaviour.fails[t][m][run[r].tree]
            /\ \E W \in Watched(r, m, group) : Settle(r, m, KillRecord(r, group, W))
    BY <2>1
  <2>3. PICK W \in Watched(r, m, group) : Settle(r, m, KillRecord(r, group, W))
    BY <2>2
  <2>4. KillRecord(r, group, W) # None => Witnessed(m, KillRecord(r, group, W))
    BY <1>2, <2>2, KillWitnessed
  <2> QED BY <1>1, <2>3, <2>4, SettleTrusts
<1>9. CASE AllSurvive(r, m)
  <2>1. PICK q \in Routes(r) :
            /\ \A t \in Reach(q) : ~behaviour.fails[t][m][run[r].tree]
            /\ \E W \in WatchedEach(r, m, q.groups) : Settle(r, m, SurvivalRecord(r, Reach(q), W))
    BY <1>9 DEF AllSurvive, Asks
  <2>2. PICK W \in WatchedEach(r, m, q.groups) : Settle(r, m, SurvivalRecord(r, Reach(q), W))
    BY <2>1
  <2>3. SurvivalRecord(r, Reach(q), W) # None => Witnessed(m, SurvivalRecord(r, Reach(q), W))
    BY <1>2, <2>1, SurvivalWitnessed DEF Reach
  <2> QED BY <1>1, <2>2, <2>3, SettleTrusts
<1> QED BY <1>3, <1>4, <1>5, <1>6, <1>7, <1>8, <1>9

\* The merge of what was recorded with what was loaded adds nothing.
LEMMA StoreTrusts ==
    ASSUME NEW r \in Runs, Trusty(run[r])
    PROVE  Honest(Store(r))
BY DEF Trusty, Honest, Store

LEMMA RunTrusts ==
    ASSUME Typed, Trust, NEW r \in Runs,
           OpenWorkspace(r) \/ Digest(r) \/ Measure(r) \/ Save(r) \/ SaveFails(r) \/ Stop(r)
    PROVE  Trust'
<1>1. Equipped(run[r]) /\ Trusty(run[r])
  BY DEF Typed, Trust
<1>2. CASE OpenWorkspace(r)
  <2> DEFINE x == [run[r] EXCEPT !.phase = "opened", !.tree = content]
  <2>1. run' = [run EXCEPT ![r] = x]
    BY <1>2 DEF Typed, OpenWorkspace
  <2>2. Trusty(x)
    BY <1>1, <1>2 DEF OpenWorkspace, Equipped, States, Trusty, WellNamed, Current
  <2> QED BY <1>2, <2>1, <2>2, TrustMove DEF Trust, OpenWorkspace
<1>3. CASE Digest(r)
  <2> DEFINE x == [run[r] EXCEPT !.phase = "named", !.named = content]
  <2>1. run' = [run EXCEPT ![r] = x]
    BY <1>3 DEF Typed, Digest
  <2>2. \A m \in Mutants : x.reused[m] = None
    BY <1>1, <1>3 DEF Digest, Equipped, States
  <2>3. Trusty(x)
    BY <1>1, <1>3, <2>2 DEF Digest, Equipped, States, Trusty, WellNamed, Current
  <2> QED BY <1>3, <2>1, <2>3, TrustMove DEF Trust, Digest
<1>4. CASE Measure(r)
  <2>1. PICK covered \in SUBSET Targets, catalog \in SUBSET Mutants,
             W \in WatchedEach(r, Original, {{t} : t \in Targets}) :
          run' = [run EXCEPT ![r].phase = "measured", ![r].covered = covered, ![r].wide = W,
                             ![r].catalog = catalog, ![r].todo = catalog,
                             ![r].loaded = Loaded]
    BY <1>4 DEF Measure
  <2> DEFINE x == [run[r] EXCEPT !.phase = "measured", !.covered = covered, !.wide = W,
                                 !.catalog = catalog, !.todo = catalog, !.loaded = Loaded]
  <2>2. run' = [run EXCEPT ![r] = x]
    BY <2>1 DEF Typed
  <2>3. Honest(Loaded)
    BY NothingIsHonest DEF Trust, Loaded
  <2>4. Trusty(x)
    BY <1>1, <1>4, <2>3 DEF Measure, Equipped, States, Trusty, WellNamed, Current
  <2> QED BY <1>4, <2>2, <2>4, TrustMove DEF Trust, Measure
<1>5. CASE Save(r)
  BY <1>1, <1>5, IdleTrusts, StoreTrusts, TrustMove DEF Save
<1>6. CASE SaveFails(r)
  BY <1>6, IdleTrusts, NothingIsHonest, TrustMove DEF Trust, SaveFails
<1>7. CASE Stop(r)
  BY <1>7, IdleTrusts, TrustMove DEF Trust, Stop
<1> QED BY <1>2, <1>3, <1>4, <1>5, <1>6, <1>7

LEMMA TrustStart == Init => Trust
BY IdleTrusts, NothingIsHonest DEF Init, Trust

LEMMA TrustStep == RacingEdits = FALSE /\ Typed /\ Trust /\ [Next]_vars => Trust'
<1> SUFFICES ASSUME RacingEdits = FALSE, Typed, Trust, [Next]_vars PROVE Trust'
  OBVIOUS
<1>1. CASE \E r \in Runs : Step(r)
  BY <1>1, RunTrusts, AnswerTrusts DEF Step
<1>2. CASE Edit
  <2>1. \A r \in Runs : run[r].phase # "opened"
    BY <1>2 DEF Edit
  <2>a. behaviour' = behaviour /\ run' = run /\ disk' = disk
    BY <1>2 DEF Edit
  <2>2. ASSUME NEW r \in Runs PROVE Trusty(run[r])'
    <3>1. Trusty(run'[r]) /\ run'[r].phase # "opened"
      BY <2>a, <2>1 DEF Trust
    <3>2. WellNamed(run[r])'
      BY <3>1 DEF Trusty, WellNamed
    <3> QED BY <2>a, <3>1, <3>2, TrustyStays
  <2>3. disk' # Damaged => Honest(disk)'
    BY <2>a, WitnessStays DEF Trust
  <2> QED BY <2>2, <2>3 DEF Trust
<1>3. CASE Flush \/ Damage \/ UNCHANGED vars
  <2>1. disk' # Damaged => Honest(disk')
    BY <1>3, NothingIsHonest DEF Flush, Damage, Trust, vars
  <2>a. behaviour' = behaviour /\ run' = run /\ content' = content
    BY <1>3 DEF Flush, Damage, vars
  <2>2. disk' # Damaged => Honest(disk)'
    BY <2>a, <2>1, WitnessStays
  <2>3. ASSUME NEW r \in Runs PROVE Trusty(run[r])'
    <3>1. Trusty(run'[r])
      BY <2>a DEF Trust
    <3>2. WellNamed(run[r])'
      BY <2>a, <3>1 DEF Trusty, WellNamed
    <3> QED BY <2>a, <3>1, <3>2, TrustyStays
  <2> QED BY <2>2, <2>3 DEF Trust
<1> QED BY <1>1, <1>2, <1>3 DEF Next

-----------------------------------------------------------------------------
(* The theorems.                                                           *)

\* A record always has a witness, and what a run reuses is what it would have
\* found out, as long as no edit falls between a copy and its digest.
THEOREM EvidenceIsTrustworthy == RacingEdits = FALSE => (Spec => [](Typed /\ Trust))
<1> SUFFICES ASSUME RacingEdits = FALSE PROVE Spec => [](Typed /\ Trust)
  OBVIOUS
<1>1. Init => Typed /\ Trust
  BY TypedStart, TrustStart
<1>2. Typed /\ Trust /\ [Next]_vars => (Typed /\ Trust)'
  BY TypedStep, TrustStep
<1> QED BY <1>1, <1>2, PTL DEF Spec

\* A reused kill is one of today (reuseKill, containsTargetSet).
THEOREM KillsAreCurrent == RacingEdits = FALSE => (Spec => []KillIsCurrent)
<1>1. Trust => KillIsCurrent
  BY DEF Trust, Trusty, Current, KillIsCurrent, Reused
<1> QED BY <1>1, EvidenceIsTrustworthy, PTL

\* A reused survival is one of today (reuseVerdict, exhausts).
THEOREM SurvivalsAreCurrent == RacingEdits = FALSE => (Spec => []SurvivalIsCurrent)
<1>1. Trust => SurvivalIsCurrent
  BY DEF Trust, Trusty, Current, SurvivalIsCurrent, Reused
<1> QED BY <1>1, EvidenceIsTrustworthy, PTL

\* A mutant that its suite is said not to notice is not noticed today
\* (suiteAnswers, suiteKeys).
THEOREM UnreachedAreCurrent == RacingEdits = FALSE => (Spec => []UnreachedIsCurrent)
<1>1. Trust => UnreachedIsCurrent
  BY DEF Trust, Trusty, Current, UnreachedIsCurrent, Reused
<1> QED BY <1>1, EvidenceIsTrustworthy, PTL

=============================================================================
