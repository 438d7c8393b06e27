--------------------------- MODULE NativeProjection ---------------------------
(***************************************************************************)
(* The native projection of the build cache: a directory in the go          *)
(* command's own format, hard-linked to the base layer, that the tests of   *)
(* one run use instead of asking a cache program.  The directory outlives   *)
(* the run; the next run takes over what this one left in it.               *)
(*                                                                         *)
(* Tests are admitted through a gate, which drains the running ones before  *)
(* it refreshes or collects the directory.  Preparation, which compiles the *)
(* mutants, works in the same directory and is not counted; in an ordinary  *)
(* run no test runs beside it, in the replay of one mutant they do.         *)
(*                                                                         *)
(* Every action has an output of its own, so a native entry is an index and *)
(* its object: "link" when the object is the inode of the base layer, "own" *)
(* when the go command wrote it.                                            *)
(***************************************************************************)
EXTENDS Naturals, FiniteSets

CONSTANTS
    Executions,    \* commands that may run at one time
    Actions,
    NoCommand,
    Replay,        \* a run that replays one mutant
    MaxObjects,    \* build_max_bytes, in objects
    MaxGeneration, \* bounds how many persisting commands a run executes
    MaxRuns

ASSUME NativeAssumption ==
    /\ NoCommand \notin Executions
    /\ Replay \in BOOLEAN
    /\ MaxObjects \in Nat /\ MaxGeneration \in Nat /\ MaxRuns \in Nat \ {0}

VARIABLES
    base,       \* the actions in the base layer
    native,     \* what the native directory has of every action
    projection, \* the nativeCacheProjection of this run
    gate,       \* who holds admission
    exec,       \* what every command is doing
    prep        \* what preparation is doing

nativeVars == <<base, native, projection, gate, exec, prep>>

Fresh == [usable |-> TRUE, generation |-> 0, seeded |-> 0, seed |-> {}, due |-> FALSE,
          missed |-> {}, runs |-> 1]

Idle == [op |-> "idle", holds |-> {}, put |-> {}]

Entries == {a \in Actions : native[a] # "none"}

Running == {e \in Executions : exec[e].op = "running"}

Quiet == \A e \in Executions : exec[e].op = "idle"

\* Base entries linked in; repair may replace what the go command wrote.
Linked(actions) == [a \in Actions |-> IF a \in actions THEN "link" ELSE native[a]]

-------------------------------------------------------------------------------
(* Preparation. *)

\* The first preparation of a run seeds the directory, which may not repair
\* anything there; a round that finds it seeded only chooses its environment. An
\* empty seed has nothing to offer, so preparation persists, and what it will
\* persist is marked before it begins.
PrepareIn(seed, usable) ==
    /\ prep' = [Idle EXCEPT !.op = IF usable /\ seed # {} THEN "native" ELSE "persisting"]
    /\ projection' = [projection EXCEPT !.seed = seed, !.usable = usable,
          !.generation = IF usable /\ seed = {} THEN @ + 1 ELSE @]
    /\ UNCHANGED <<base, gate, exec>>

Seed ==
    /\ prep.op = "unseeded"
    /\ \A a \in base : native[a] # "own"
    /\ native' = Linked(base)
    /\ PrepareIn(base, TRUE)

\* An entry that is not the projection of a base entry, or a failing link: the run
\* goes on without, and links made so far stay.
SeedFails ==
    /\ prep.op = "unseeded"
    /\ \E made \in SUBSET {a \in base : native[a] # "own"} : native' = Linked(made)
    /\ PrepareIn({}, FALSE)

NextRound ==
    /\ prep.op = "prepared" /\ Quiet /\ projection.generation < MaxGeneration
    /\ PrepareIn(projection.seed, projection.usable)
    /\ UNCHANGED native

\* The go command finds an entry or compiles what is missing, and holds its path.
Uses(a) == native' = [native EXCEPT ![a] = IF @ = "none" THEN "own" ELSE @]

PrepUse(a) ==
    /\ prep.op = "native"
    /\ Uses(a)
    /\ prep' = [prep EXCEPT !.holds = @ \cup {a}]
    /\ UNCHANGED <<base, projection, gate, exec>>

PrepPut(a) ==
    /\ prep.op = "persisting" /\ a \notin base
    /\ base' = base \cup {a}
    /\ prep' = [prep EXCEPT !.put = @ \cup {a}]
    /\ UNCHANGED <<native, projection, gate, exec>>

\* What the seed did not list is promoted into the base layer: nothing of it when a
\* collection of the base holds the lock, and a part when the promotion fails.
Promoted == IF projection.usable THEN (Entries \ projection.seed) \ base ELSE {}

PrepSucceed ==
    /\ prep.op \in {"native", "persisting"}
    /\ \E promoted \in SUBSET Promoted :
          /\ base' = base \cup promoted
          /\ native' = Linked(promoted)
          /\ projection' = [projection EXCEPT !.seed = @ \cup promoted,
                                              !.missed = (@ \cup prep.put) \cap base]
    /\ prep' = [Idle EXCEPT !.op = "prepared"]
    /\ UNCHANGED <<gate, exec>>

PrepFail ==
    /\ prep.op \in {"native", "persisting"}
    /\ prep' = [Idle EXCEPT !.op = "failed"]
    /\ UNCHANGED <<base, native, projection, gate, exec>>

-------------------------------------------------------------------------------
(* Commands. *)

\* vet, build, list and compilations write into the base layer.
PersistStart(e) ==
    /\ exec[e].op = "idle" /\ prep.op \notin {"unseeded", "failed"}
    /\ projection.generation < MaxGeneration
    /\ exec' = [exec EXCEPT ![e].op = "persisting"]
    /\ UNCHANGED <<base, native, projection, gate, prep>>

PersistPut(e, a) ==
    /\ exec[e].op = "persisting" /\ a \notin base
    /\ base' = base \cup {a}
    /\ exec' = [exec EXCEPT ![e].put = @ \cup {a}]
    /\ UNCHANGED <<native, projection, gate, prep>>

\* A slip: what a command persisted is not announced.
MarkedNever(p, put) == [p EXCEPT !.missed = @ \cup (put \cap base)]

\* markNativeDirty; missed is what finished commands persisted and no refresh has
\* projected.
Marked(p, put) ==
    [p EXCEPT !.generation = @ + 1, !.missed = @ \cup (put \cap base)]

PersistEnd(e) ==
    /\ exec[e].op = "persisting" /\ projection.generation < MaxGeneration
    /\ projection' = Marked(projection, exec[e].put)
    /\ exec' = [exec EXCEPT ![e] = Idle]
    /\ UNCHANGED <<base, native, gate, prep>>

\* Tests run once preparation has settled, or beside it in a replay.
MayTest == prep.op = "prepared" \/ (Replay /\ prep.op \in {"native", "persisting"})

Stale == projection.seeded # projection.generation

\* A slip: a drain for a collection does not keep out who comes meanwhile.
AdmissionBeside(e) ==
    IF Stale \/ (projection.due /\ gate = NoCommand)
    THEN gate = NoCommand /\ gate' = e /\ exec' = [exec EXCEPT ![e].op = "draining"]
    ELSE gate' = gate /\ exec' = [exec EXCEPT ![e].op = "running"]

\* Whoever finds a refresh or a collection due keeps admission until all are done.
Admission(e) ==
    /\ gate = NoCommand
    /\ IF Stale \/ projection.due
       THEN gate' = e /\ exec' = [exec EXCEPT ![e].op = "draining"]
       ELSE gate' = gate /\ exec' = [exec EXCEPT ![e].op = "running"]

Enter(e) ==
    /\ exec[e].op = "idle" /\ MayTest /\ projection.usable
    /\ Admission(e)
    /\ UNCHANGED <<base, native, projection, prep>>

\* Without the projection a test asks the cache program.
EnterPlain(e) ==
    /\ exec[e].op = "idle" /\ MayTest /\ ~projection.usable
    /\ exec' = [exec EXCEPT ![e].op = "plain"]
    /\ UNCHANGED <<base, native, projection, gate, prep>>

\* The least recently used go until the rest fits.
Collections(files) ==
    LET there == {a \in Actions : files[a] # "none"}
    IN  IF Cardinality(there) <= MaxObjects THEN {files}
        ELSE {[a \in Actions |-> IF a \in kept THEN files[a] ELSE "none"] :
                 kept \in {k \in SUBSET there : Cardinality(k) = MaxObjects}}

\* A slip: the running ones are not waited for.
DrainedAtOnce == TRUE

Drained == Running = {}

Refreshed(p) ==
    [p EXCEPT !.seed = base, !.due = FALSE, !.missed = {}, !.seeded = p.generation]

\* A refresh makes the directory current and counts as a collection; a collection
\* that is due comes without one.
Reopen(e) ==
    /\ gate = e /\ Drained /\ projection.usable
    /\ IF Stale
       THEN /\ native' = Linked(base)
            /\ projection' = Refreshed(projection)
       ELSE /\ IF projection.due THEN native' \in Collections(native) ELSE native' = native
            /\ projection' = [projection EXCEPT !.due = FALSE]
    /\ gate' = NoCommand
    /\ exec' = [exec EXCEPT ![e].op = "running"]
    /\ UNCHANGED <<base, prep>>

\* Either fails half way, and the gate of this run stays shut.
ReopenFails(e) ==
    /\ gate = e /\ Drained
    /\ IF Stale THEN \E made \in SUBSET base : native' = Linked(made)
       ELSE native' \in Collections(native)
    /\ projection' = [projection EXCEPT !.usable = FALSE, !.seed = IF Stale THEN {} ELSE @]
    /\ gate' = NoCommand
    /\ exec' = [exec EXCEPT ![e].op = "plain"]
    /\ UNCHANGED <<base, prep>>

Use(e, a) ==
    /\ exec[e].op = "running"
    /\ Uses(a)
    /\ exec' = [exec EXCEPT ![e].holds = @ \cup {a}]
    /\ UNCHANGED <<base, projection, gate, prep>>

Done(e) ==
    /\ exec[e].op \in {"running", "plain"}
    /\ exec' = [exec EXCEPT ![e] = Idle]
    /\ UNCHANGED <<base, native, projection, gate, prep>>

-------------------------------------------------------------------------------
(* The world. *)

\* Other runs put into and collect the base; its inode is then another.
BasePut(a) ==
    /\ a \notin base
    /\ base' = base \cup {a}
    /\ UNCHANGED <<native, projection, gate, exec, prep>>

BaseEvict(a) ==
    /\ a \in base
    /\ base' = base \ {a}
    /\ native' = [native EXCEPT ![a] = IF @ = "link" THEN "own" ELSE @]
    /\ projection' = [projection EXCEPT !.missed = @ \ {a}]
    /\ UNCHANGED <<gate, exec, prep>>

\* The collection interval has passed.
Tick ==
    /\ ~projection.due
    /\ projection' = [projection EXCEPT !.due = TRUE]
    /\ UNCHANGED <<base, native, gate, exec, prep>>

\* The run ends, collects the shared directory if that is due, and the next run
\* that gets its lock begins with what is in it.
NextRun ==
    /\ prep.op \in {"prepared", "failed"} /\ Quiet /\ projection.runs < MaxRuns
    /\ IF projection.usable /\ projection.due THEN native' \in Collections(native) ELSE native' = native
    /\ projection' = [Fresh EXCEPT !.runs = projection.runs + 1]
    /\ prep' = [Idle EXCEPT !.op = "unseeded"]
    /\ UNCHANGED <<base, gate, exec>>

NativeInit ==
    /\ base \in SUBSET Actions
    /\ native = [a \in Actions |-> "none"]
    /\ projection = Fresh
    /\ gate = NoCommand
    /\ exec = [e \in Executions |-> Idle]
    /\ prep = [Idle EXCEPT !.op = "unseeded"]

NativeNext ==
    \/ Seed \/ SeedFails \/ NextRound \/ PrepSucceed \/ PrepFail
    \/ \E a \in Actions : PrepUse(a) \/ PrepPut(a) \/ BasePut(a) \/ BaseEvict(a)
    \/ \E e \in Executions :
          \/ PersistStart(e) \/ PersistEnd(e) \/ Enter(e) \/ EnterPlain(e)
          \/ Reopen(e) \/ ReopenFails(e) \/ Done(e)
          \/ \E a \in Actions : PersistPut(e, a) \/ Use(e, a)
    \/ Tick \/ NextRun

\* Admitted commands end, by themselves or at their timeout, and the waiter goes on.
NativeSpec ==
    /\ NativeInit /\ [][NativeNext]_nativeVars
    /\ \A e \in Executions :
          WF_nativeVars(Done(e)) /\ WF_nativeVars(Reopen(e) \/ ReopenFails(e))

-------------------------------------------------------------------------------
(* Properties. *)

\* Every field has its type; a link is one to what the base has.
NativeTypeOK ==
    /\ base \subseteq Actions
    /\ native \in [Actions -> {"none", "own", "link"}]
    /\ \A a \in Actions : native[a] = "link" => a \in base
    /\ projection.usable \in BOOLEAN /\ projection.due \in BOOLEAN
    /\ projection.generation \in Nat /\ projection.seeded <= projection.generation
    /\ projection.seed \subseteq Actions /\ projection.missed \subseteq base
    /\ projection.runs \in 1..MaxRuns
    /\ gate \in Executions \cup {NoCommand}
    /\ \A e \in Executions :
          /\ exec[e].op \in {"idle", "persisting", "draining", "running", "plain"}
          /\ (exec[e].op = "draining") = (gate = e)
    /\ prep.op \in {"unseeded", "native", "persisting", "prepared", "failed"}

\* Until a go command closes, every path it was given exists, be it a test or the
\* preparation that works uncounted in the same directory (ADR 0017: no native
\* object is removed while the count of executions is not zero).
PathsStay ==
    /\ \A e \in Executions : exec[e].op = "running" => exec[e].holds \subseteq Entries
    /\ prep.op = "native" => prep.holds \subseteq Entries

\* Whoever is admitted finds whatever a finished command of this run, preparation
\* included, has persisted (markNativeDirty, beginNative).
AdmittedSeesPersisted ==
    [][\A e \in Executions : exec[e].op # "running" /\ exec'[e].op = "running" =>
          projection'.missed = {}]_nativeVars

\* A drain ends: what arrives meanwhile waits behind it and cannot starve it.
DrainEnds == \A e \in Executions : exec[e].op = "draining" ~> exec[e].op # "draining"

\* ADR 0017 promotes the delta of a successful preparation: what tests or a failed
\* preparation compiled stays out of the base layer. It does not hold (see the
\* README): a promotion takes what an earlier command left in the directory.
PromotesItsDelta ==
    [][prep.op \in {"native", "persisting"} /\ prep'.op = "prepared" =>
          base' \ base \subseteq prep.holds]_nativeVars

===============================================================================
