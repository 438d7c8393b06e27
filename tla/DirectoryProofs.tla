--------------------------- MODULE DirectoryProofs ----------------------------
(*****************************************************************************)
(* The directories that outlive the process that made them: what the shared  *)
(* one holds for whoever uses it (NativeProjection), and who owns one        *)
(* (TempOwner).                                                              *)
(*****************************************************************************)
EXTENDS TempOwner, NativeProjection, TLAPS

-------------------------------------------------------------------------------
(*****************************************************************************)
(* The native projection keeps what it gave and shows what was persisted,    *)
(* for any number of commands, actions and runs. What a collection or a      *)
(* refresh may take away it takes when nobody runs, so the invariant says    *)
(* where everybody is while the gate is held, and that a projection is       *)
(* stale before anything is persisted that it does not have.                 *)
(*****************************************************************************)

Natives == {"none", "own", "link"}

Projections == [usable : BOOLEAN, generation : Nat, seeded : Nat, seed : SUBSET Actions,
                due : BOOLEAN, missed : SUBSET Actions, runs : 1..MaxRuns]

Preparations == [op : {"unseeded", "native", "persisting", "prepared", "failed"},
                 holds : SUBSET Actions, put : SUBSET Actions]

Commands == [op : {"idle", "persisting", "draining", "running", "plain"},
             holds : SUBSET Actions, put : SUBSET Actions]

\* What the directory has of the base layer is linked to what is there.
LinksHold == native \in [Actions -> Natives] /\ \A a \in Actions : native[a] = "link" => a \in base

\* What was persisted is known, and the projection is no newer than the generation.
InOrder(p) == p \in Projections /\ p.seeded <= p.generation

\* Who drains holds the gate.
Gated == /\ gate \in Executions \cup {NoCommand}
         /\ exec \in [Executions -> Commands]
         /\ \A e \in Executions : (exec[e].op = "draining") = (gate = e)

NTyped ==
    /\ base \subseteq Actions /\ LinksHold
    /\ InOrder(projection) /\ projection.missed \subseteq base
    /\ Gated
    /\ prep \in Preparations

\* Only who was admitted was given paths, and they are there.
Given(x) == x.op # "running" => x.holds = {}

\* Nobody is admitted or drains while preparation is at work, and nobody works
\* before it has begun.
Apart ==
    /\ \A e \in Executions : exec[e].op \in {"draining", "running", "plain"} => prep.op = "prepared"
    /\ prep.op = "unseeded" => Quiet

\* A projection that is not stale has whatever was persisted; what preparation puts
\* into the base layer makes it stale before.
Announced ==
    /\ projection.usable /\ ~Stale => projection.missed = {}
    /\ prep.op = "unseeded" => projection.missed = {}
    /\ prep.op = "persisting" /\ projection.usable => Stale
    /\ prep.op # "persisting" => prep.put = {}

Provided == (\A e \in Executions : Given(exec[e])) /\ PathsStay

NInv == Provided /\ Apart /\ Announced

-----------------------------------------------------------------------------
(* The directory.                                                          *)

\* Linking keeps what is there, and links to the base layer.
LEMMA LinkedHolds ==
    ASSUME LinksHold, NEW S, S \subseteq Actions, NEW B, base \subseteq B, S \subseteq B
    PROVE  /\ Linked(S) \in [Actions -> Natives]
           /\ \A a \in Actions : Linked(S)[a] = "link" => a \in B
           /\ \A a \in Actions : native[a] # "none" => Linked(S)[a] # "none"
BY DEF Linked, LinksHold, Natives

\* A collection leaves of the directory what it keeps as it is.
LEMMA CollectedHolds ==
    ASSUME LinksHold, NEW f \in Collections(native)
    PROVE  f \in [Actions -> Natives] /\ \A a \in Actions : f[a] = "link" => a \in base
<1> DEFINE there == {a \in Actions : native[a] # "none"}
<1>1. f = native \/ \E kept \in SUBSET there :
                       f = [a \in Actions |-> IF a \in kept THEN native[a] ELSE "none"]
  BY DEF Collections
<1>2. CASE f = native
  BY <1>2 DEF LinksHold
<1>3. CASE \E kept \in SUBSET there :
              f = [a \in Actions |-> IF a \in kept THEN native[a] ELSE "none"]
  BY <1>3 DEF LinksHold, Natives
<1> QED BY <1>1, <1>2, <1>3

\* A command that finds or compiles an entry takes none away.
LEMMA UsesHolds ==
    ASSUME LinksHold, NEW a \in Actions, Uses(a)
    PROVE  /\ native' \in [Actions -> Natives] /\ \A b \in Actions : native'[b] = "link" => b \in base
           /\ native'[a] # "none" /\ \A b \in Actions : native[b] # "none" => native'[b] # "none"
BY DEF LinksHold, Uses, Natives

-----------------------------------------------------------------------------
(* Types.                                                                  *)

\* A preparation begins.
LEMMA PrepareInTyped ==
    ASSUME NTyped, NEW seed \in SUBSET Actions, NEW usable \in BOOLEAN, PrepareIn(seed, usable)
    PROVE  /\ InOrder(projection') /\ projection'.missed = projection.missed
           /\ prep' \in Preparations /\ base' = base /\ gate' = gate /\ exec' = exec
           /\ projection'.seed = seed /\ projection'.usable = usable
           /\ projection'.seeded = projection.seeded
           /\ prep'.holds = {} /\ prep'.put = {}
           /\ \/ prep'.op = "native" /\ projection'.generation = projection.generation
              \/ prep'.op = "persisting" /\ (usable => projection'.generation = projection.generation + 1)
                 /\ projection'.generation >= projection.generation
<1> DEFINE g == IF usable /\ seed = {} THEN projection.generation + 1 ELSE projection.generation
<1>1. /\ projection \in Projections /\ projection.seeded <= projection.generation
  BY DEF NTyped, InOrder
<1>5. projection.generation \in Nat /\ projection.seeded \in Nat /\ g \in Nat
  BY <1>1 DEF Projections
<1>2. /\ prep' = [Idle EXCEPT !.op = IF usable /\ seed # {} THEN "native" ELSE "persisting"]
      /\ projection' = [projection EXCEPT !.seed = seed, !.usable = usable, !.generation = g]
      /\ UNCHANGED <<base, gate, exec>>
  BY DEF PrepareIn
<1>3. prep' \in Preparations /\ prep'.holds = {} /\ prep'.put = {}
  BY <1>2 DEF Idle, Preparations
<1>4. /\ projection' \in Projections /\ projection'.missed = projection.missed
      /\ projection'.seed = seed /\ projection'.usable = usable
      /\ projection'.seeded = projection.seeded
      /\ projection'.generation = g
  <2> HIDE DEF g
  <2> QED BY <1>1, <1>2, <1>5 DEF Projections
<1>6. InOrder(projection')
  BY <1>1, <1>4, <1>5 DEF InOrder
<1>7. prep'.op = IF usable /\ seed # {} THEN "native" ELSE "persisting"
  BY <1>2 DEF Idle
<1> QED BY <1>2, <1>3, <1>4, <1>5, <1>6, <1>7

\* The rounds of preparation.
LEMMA PreparationTyped ==
    ASSUME NTyped, Seed \/ SeedFails \/ NextRound \/ PrepSucceed \/ PrepFail
                   \/ \E a \in Actions : PrepUse(a) \/ PrepPut(a)
    PROVE  NTyped'
<1> USE DEF NTyped
<1>1. CASE Seed
  <2>1. NTyped /\ base \in SUBSET Actions /\ PrepareIn(base, TRUE)
    BY <1>1 DEF Seed
  <2>2. LinksHold'
    BY <1>1, <2>1, PrepareInTyped, LinkedHolds DEF Seed, LinksHold
  <2>3. /\ InOrder(projection') /\ projection'.missed = projection.missed
        /\ prep' \in Preparations /\ UNCHANGED <<base, gate, exec>>
    BY <2>1, PrepareInTyped
  <2> QED BY <2>1, <2>2, <2>3 DEF Gated
<1>2. CASE SeedFails
  <2>1. NTyped /\ PrepareIn({}, FALSE)
    BY <1>2 DEF SeedFails
  <2>2. PICK made \in SUBSET base : native' = Linked(made)
    BY <1>2 DEF SeedFails
  <2>3. LinksHold'
    BY <2>1, <2>2, PrepareInTyped, LinkedHolds DEF LinksHold
  <2>4. /\ InOrder(projection') /\ projection'.missed = projection.missed
        /\ prep' \in Preparations /\ UNCHANGED <<base, gate, exec>>
    BY <2>1, PrepareInTyped
  <2> QED BY <2>1, <2>3, <2>4 DEF Gated
<1>3. CASE NextRound
  <2>1. NTyped /\ PrepareIn(projection.seed, projection.usable) /\ native' = native
    BY <1>3 DEF NextRound
  <2>2. projection.seed \in SUBSET Actions /\ projection.usable \in BOOLEAN
    BY DEF InOrder, Projections
  <2>3. /\ InOrder(projection') /\ projection'.missed = projection.missed
        /\ prep' \in Preparations /\ UNCHANGED <<base, gate, exec>>
    BY <2>1, <2>2, PrepareInTyped
  <2> QED BY <2>1, <2>3 DEF Gated, LinksHold
<1>4. CASE PrepSucceed
  <2>1. PICK promoted \in SUBSET Promoted :
          /\ base' = base \cup promoted
          /\ native' = Linked(promoted)
          /\ projection' = [projection EXCEPT !.seed = @ \cup promoted,
                                              !.missed = (@ \cup prep.put) \cap base]
    BY <1>4 DEF PrepSucceed
  <2>2. promoted \subseteq Actions
    BY DEF Promoted, Entries
  <2>3. LinksHold' /\ base' \subseteq Actions
    BY <2>1, <2>2, LinkedHolds DEF LinksHold
  <2>4. InOrder(projection') /\ projection'.missed \subseteq base'
    BY <2>1, <2>2 DEF InOrder, Projections
  <2>5. prep' \in Preparations /\ UNCHANGED <<gate, exec>>
    BY <1>4 DEF PrepSucceed, Idle, Preparations
  <2> QED BY <2>3, <2>4, <2>5 DEF Gated
<1>5. CASE PrepFail
  BY <1>5 DEF PrepFail, Idle, Preparations, LinksHold, InOrder, Gated
<1>6. ASSUME NEW a \in Actions, PrepUse(a) PROVE NTyped'
  <2>1. LinksHold'
    BY <1>6, UsesHolds DEF PrepUse, LinksHold
  <2> QED BY <1>6, <2>1 DEF PrepUse, Preparations, InOrder, Gated
<1>7. ASSUME NEW a \in Actions, PrepPut(a) PROVE NTyped'
  BY <1>7 DEF PrepPut, Preparations, InOrder, Gated, LinksHold
<1> QED BY <1>1, <1>2, <1>3, <1>4, <1>5, <1>6, <1>7

\* One command moves, and holds or releases the gate.
LEMMA CommandMoves ==
    ASSUME Gated, NEW e \in Executions, NEW x \in Commands, exec' = [exec EXCEPT ![e] = x],
           gate' = IF x.op = "draining" THEN e ELSE IF gate = e THEN NoCommand ELSE gate,
           x.op = "draining" => gate = NoCommand
    PROVE  /\ Gated'
           /\ \A d \in Executions : exec'[d] = IF d = e THEN x ELSE exec[d]
BY NativeAssumption DEF Gated

\* What commands do.
LEMMA CommandTyped ==
    ASSUME NTyped, NEW e \in Executions,
           \/ PersistStart(e) \/ PersistEnd(e) \/ Enter(e) \/ EnterPlain(e)
           \/ Reopen(e) \/ ReopenFails(e) \/ Done(e)
           \/ \E a \in Actions : PersistPut(e, a) \/ Use(e, a)
    PROVE  /\ NTyped'
           /\ exec' = [exec EXCEPT ![e] = exec'[e]]
<1> USE DEF NTyped
<1>1. /\ exec[e] \in Commands /\ (exec[e].op = "draining" <=> gate = e) /\ Idle \in Commands
      /\ projection \in Projections /\ projection.seeded <= projection.generation
      /\ exec \in [Executions -> Commands]
  BY DEF Gated, InOrder, Idle, Commands
<1>2. CASE PersistStart(e) \/ EnterPlain(e)
  <2>1. PICK op \in {"persisting", "plain"} : exec' = [exec EXCEPT ![e] = [exec[e] EXCEPT !.op = op]]
    BY <1>2 DEF PersistStart, EnterPlain
  <2>2. [exec[e] EXCEPT !.op = op] \in Commands
    BY <1>1 DEF Commands
  <2>3. UNCHANGED <<base, native, projection, gate, prep>> /\ exec[e].op = "idle"
    BY <1>2 DEF PersistStart, EnterPlain
  <2>4. Gated'
    BY <1>1, <2>1, <2>2, <2>3, CommandMoves DEF Commands
  <2> QED BY <1>1, <2>1, <2>3, <2>4 DEF LinksHold, InOrder
<1>3. CASE Enter(e)
  <2>1. PICK op \in {"draining", "running"} :
           /\ exec' = [exec EXCEPT ![e] = [exec[e] EXCEPT !.op = op]]
           /\ gate' = IF op = "draining" THEN e ELSE gate
    BY <1>3 DEF Enter, Admission
  <2>2. [exec[e] EXCEPT !.op = op] \in Commands
    BY <1>1 DEF Commands
  <2>3. UNCHANGED <<base, native, projection, prep>> /\ exec[e].op = "idle" /\ gate = NoCommand
    BY <1>3 DEF Enter, Admission
  <2>4. Gated'
    BY <1>1, <2>1, <2>2, <2>3, CommandMoves DEF Commands
  <2> QED BY <1>1, <2>1, <2>3, <2>4 DEF LinksHold, InOrder
<1>4. CASE PersistEnd(e)
  <2>1. Gated' /\ exec' = [exec EXCEPT ![e] = exec'[e]]
    BY <1>1, <1>4, CommandMoves DEF PersistEnd, Idle
  <2> DEFINE g == projection.generation + 1
  <2>2. projection' = [projection EXCEPT !.generation = g,
                                         !.missed = @ \cup (exec[e].put \cap base)]
    BY <1>4 DEF PersistEnd, Marked
  <2>4. projection.generation \in Nat /\ projection.seeded \in Nat /\ g \in Nat
    BY <1>1 DEF Projections
  <2>3. /\ projection' \in Projections /\ projection'.missed \subseteq base
        /\ projection'.seeded = projection.seeded
        /\ projection'.generation = g
    <3> HIDE DEF g
    <3> QED BY <1>1, <2>2, <2>4 DEF Projections
  <2> QED BY <1>1, <1>4, <2>1, <2>3, <2>4 DEF PersistEnd, LinksHold, InOrder
<1>5. CASE Done(e)
  <2>1. Gated' /\ exec' = [exec EXCEPT ![e] = exec'[e]]
    BY <1>1, <1>5, CommandMoves DEF Done, Idle
  <2> QED BY <1>5, <2>1 DEF Done, LinksHold, InOrder
<1>6. CASE Reopen(e) \/ ReopenFails(e)
  <2>1. PICK op \in {"running", "plain"} : exec' = [exec EXCEPT ![e] = [exec[e] EXCEPT !.op = op]]
    BY <1>6 DEF Reopen, ReopenFails
  <2>2. [exec[e] EXCEPT !.op = op] \in Commands
    BY <1>1 DEF Commands
  <2>3. gate = e /\ gate' = NoCommand /\ UNCHANGED <<base, prep>>
    BY <1>6 DEF Reopen, ReopenFails
  <2>4. Gated'
    BY <1>1, <2>1, <2>2, <2>3, CommandMoves DEF Commands
  <2>5. native' = native \/ native' \in Collections(native) \/ \E made \in SUBSET base : native' = Linked(made)
    BY <1>6 DEF Reopen, ReopenFails
  <2>6. LinksHold'
    <3>1. CASE native' = native
      BY <2>3, <3>1 DEF LinksHold
    <3>2. CASE native' \in Collections(native)
      BY <2>3, <3>2, CollectedHolds DEF LinksHold
    <3>3. CASE \E made \in SUBSET base : native' = Linked(made)
      <4>1. PICK made \in SUBSET base : native' = Linked(made)
        BY <3>3
      <4> QED BY <2>3, <4>1, LinkedHolds DEF LinksHold
    <3> QED BY <2>5, <3>1, <3>2, <3>3
  <2>7. InOrder(projection') /\ projection'.missed \subseteq base
    <3>1. CASE Reopen(e) /\ Stale
      <4>1. projection' = Refreshed(projection)
        BY <3>1 DEF Reopen
      <4>2. /\ projection' \in Projections /\ projection'.missed = {}
            /\ projection'.seeded = projection'.generation /\ projection.generation \in Nat
        BY <1>1, <4>1 DEF Refreshed, Projections
      <4> QED BY <4>2 DEF InOrder, Projections
    <3>2. CASE Reopen(e) /\ ~Stale
      BY <1>1, <3>2 DEF Reopen, InOrder, Projections
    <3>3. CASE ReopenFails(e)
      BY <1>1, <3>3 DEF ReopenFails, InOrder, Projections
    <3> QED BY <1>6, <3>1, <3>2, <3>3
  <2> QED BY <1>1, <2>1, <2>3, <2>4, <2>6, <2>7
<1>7. ASSUME NEW a \in Actions, PersistPut(e, a) \/ Use(e, a)
      PROVE  NTyped' /\ exec' = [exec EXCEPT ![e] = exec'[e]]
  <2>1. PICK x \in {[exec[e] EXCEPT !.put = @ \cup {a}], [exec[e] EXCEPT !.holds = @ \cup {a}]} :
           exec' = [exec EXCEPT ![e] = x]
    BY <1>7 DEF PersistPut, Use
  <2>2. x \in Commands /\ x.op = exec[e].op
    BY <1>1, <2>1 DEF Commands
  <2>3. UNCHANGED <<projection, gate, prep>> /\ exec[e].op # "draining"
    BY <1>7 DEF PersistPut, Use
  <2>4. Gated'
    BY <1>1, <2>1, <2>2, <2>3, CommandMoves
  <2>5. LinksHold' /\ base' \subseteq Actions /\ projection'.missed \subseteq base'
    BY <1>7, UsesHolds DEF PersistPut, Use, LinksHold
  <2> QED BY <1>1, <2>1, <2>3, <2>4, <2>5 DEF InOrder
<1> QED BY <1>2, <1>3, <1>4, <1>5, <1>6, <1>7

\* The world, and the next run.
LEMMA WorldTyped ==
    ASSUME NTyped, Tick \/ NextRun \/ \E a \in Actions : BasePut(a) \/ BaseEvict(a)
    PROVE  NTyped'
<1> USE DEF NTyped
<1>1. CASE Tick
  BY <1>1 DEF Tick, InOrder, Projections, LinksHold, Gated
<1>2. CASE NextRun
  <2>1. LinksHold'
    BY <1>2, CollectedHolds DEF NextRun, LinksHold
  <2>2. projection.runs + 1 \in 1..MaxRuns
    BY <1>2, NativeAssumption DEF NextRun, InOrder, Projections
  <2>3. projection' = [Fresh EXCEPT !.runs = projection.runs + 1]
    BY <1>2 DEF NextRun
  <2>4. projection' \in Projections /\ projection'.missed = {}
    BY <2>2, <2>3 DEF Fresh, Projections
  <2>5. projection'.seeded = 0 /\ projection'.generation = 0
    BY <2>3 DEF Fresh
  <2>6. InOrder(projection')
    BY <2>4, <2>5 DEF InOrder
  <2> QED BY <1>2, <2>1, <2>4, <2>6 DEF NextRun, Idle, Preparations, Gated
<1>3. ASSUME NEW a \in Actions, BasePut(a) PROVE NTyped'
  BY <1>3 DEF BasePut, LinksHold, InOrder, Gated
<1>4. ASSUME NEW a \in Actions, BaseEvict(a) PROVE NTyped'
  BY <1>4 DEF BaseEvict, LinksHold, Natives, InOrder, Projections, Gated
<1> QED BY <1>1, <1>2, <1>3, <1>4

LEMMA NativeTypedStart == NativeInit => NTyped
<1> SUFFICES ASSUME NativeInit PROVE NTyped
  OBVIOUS
<1>1. Fresh \in Projections /\ InOrder(Fresh) /\ Fresh.missed = {}
  BY NativeAssumption DEF Fresh, Projections, InOrder
<1>2. Idle \in Commands /\ [Idle EXCEPT !.op = "unseeded"] \in Preparations
  BY DEF Idle, Commands, Preparations
<1> QED BY <1>1, <1>2, NativeAssumption DEF NativeInit, NTyped, LinksHold, Natives, Gated, Idle

LEMMA NativeTypedStep == NTyped /\ [NativeNext]_nativeVars => NTyped'
<1>1. NTyped /\ UNCHANGED nativeVars => NTyped'
  BY DEF NTyped, nativeVars, LinksHold, InOrder, Gated
<1> QED BY <1>1, PreparationTyped, CommandTyped, WorldTyped DEF NativeNext

\* Every field has its type, and a link is one to what the base layer has.
THEOREM NativeTyped == NativeSpec => []NativeTypeOK
<1>1. NTyped => NativeTypeOK
  BY DEF NTyped, NativeTypeOK, LinksHold, Natives, InOrder, Projections, Gated, Commands, Preparations
<1> QED BY <1>1, NativeTypedStart, NativeTypedStep, PTL DEF NativeSpec


-----------------------------------------------------------------------------
(* Paths stay, and what was persisted is seen, where no test runs beside   *)
(* preparation.                                                            *)

\* What commands and preparation are at, one step later.
LEMMA ApartStep == Replay = FALSE /\ NTyped /\ Apart /\ [NativeNext]_nativeVars => Apart'
<1> SUFFICES ASSUME Replay = FALSE, NTyped, Apart, [NativeNext]_nativeVars PROVE Apart'
  OBVIOUS
<1>1. exec \in [Executions -> Commands]
  BY DEF NTyped, Gated
<1>2. CASE Seed \/ SeedFails \/ NextRound
  <2>1. Quiet /\ exec' = exec
    BY <1>2 DEF Apart, Seed, SeedFails, NextRound, PrepareIn
  <2>2. prep'.op # "unseeded"
    BY <1>2 DEF Seed, SeedFails, NextRound, PrepareIn, Idle
  <2> QED BY <2>1, <2>2 DEF Apart, Quiet
<1>3. CASE PrepSucceed \/ PrepFail \/ \E a \in Actions : PrepUse(a) \/ PrepPut(a)
  <2>1. exec' = exec /\ prep.op \in {"native", "persisting"}
    BY <1>3 DEF PrepSucceed, PrepFail, PrepUse, PrepPut
  <2>2. prep'.op # "unseeded"
    BY <1>3 DEF PrepSucceed, PrepFail, PrepUse, PrepPut, NTyped, Preparations, Idle
  <2> QED BY <2>1, <2>2 DEF Apart
<1>4. ASSUME NEW e \in Executions,
             \/ PersistStart(e) \/ PersistEnd(e) \/ Enter(e) \/ EnterPlain(e)
             \/ Reopen(e) \/ ReopenFails(e) \/ Done(e)
             \/ \E a \in Actions : PersistPut(e, a) \/ Use(e, a)
      PROVE  Apart'
  <2>1. prep' = prep /\ exec' = [exec EXCEPT ![e] = exec'[e]]
    BY <1>4, CommandTyped DEF PersistStart, PersistEnd, Enter, EnterPlain, Reopen, ReopenFails,
                              Done, PersistPut, Use
  <2>2. gate = e => exec[e].op = "draining"
    BY DEF NTyped, Gated
  <2>3. prep.op # "unseeded"
    BY <1>4, <2>2 DEF PersistStart, PersistEnd, Enter, EnterPlain, Reopen, ReopenFails,
                      Done, PersistPut, Use, MayTest, Apart, Quiet
  <2>4. exec'[e].op \in {"draining", "running", "plain"} => prep.op = "prepared"
    <3>1. CASE PersistStart(e) \/ PersistEnd(e) \/ Done(e)
      BY <1>1, <3>1 DEF PersistStart, PersistEnd, Done, Idle, Commands
    <3>2. CASE Enter(e) \/ EnterPlain(e)
      BY <3>2 DEF Enter, EnterPlain, MayTest
    <3>3. CASE Reopen(e) \/ ReopenFails(e)
      BY <2>2, <3>3 DEF Reopen, ReopenFails, Apart
    <3>4. CASE \E a \in Actions : PersistPut(e, a) \/ Use(e, a)
      BY <1>1, <3>4 DEF PersistPut, Use, Apart, Commands
    <3> QED BY <1>4, <3>1, <3>2, <3>3, <3>4
  <2> QED BY <1>1, <2>1, <2>3, <2>4 DEF Apart
<1>5. CASE NextRun
  <2>1. Quiet /\ exec' = exec
    BY <1>5 DEF NextRun
  <2> QED BY <2>1 DEF Apart, Quiet
<1>6. CASE Tick \/ UNCHANGED nativeVars \/ \E a \in Actions : BasePut(a) \/ BaseEvict(a)
  BY <1>6 DEF Tick, BasePut, BaseEvict, nativeVars, Apart, Quiet
<1> QED BY <1>2, <1>3, <1>4, <1>5, <1>6 DEF NativeNext

\* A projection becomes stale before anything is persisted that it does not have.
LEMMA AnnouncedStep == NTyped /\ Apart /\ Announced /\ [NativeNext]_nativeVars => Announced'
<1> SUFFICES ASSUME NTyped, Apart, Announced, [NativeNext]_nativeVars PROVE Announced'
  OBVIOUS
<1>1. /\ projection \in Projections /\ projection.seeded <= projection.generation
      /\ projection.seeded \in Nat /\ projection.generation \in Nat /\ prep \in Preparations
      /\ projection.seed \in SUBSET Actions /\ projection.usable \in BOOLEAN
      /\ base \in SUBSET Actions
  BY DEF NTyped, InOrder, Projections
<1>2. ASSUME NEW seed \in SUBSET Actions, NEW usable \in BOOLEAN, PrepareIn(seed, usable),
             usable => projection.usable \/ projection.missed = {}
      PROVE  Announced'
  <2>1. /\ projection'.missed = projection.missed /\ projection'.usable = usable
        /\ projection'.seeded = projection.seeded
        /\ prep'.put = {} /\ prep'.op # "unseeded"
        /\ \/ prep'.op = "native" /\ projection'.generation = projection.generation
           \/ /\ prep'.op = "persisting"
              /\ usable => projection'.generation = projection.generation + 1
    BY <1>2, PrepareInTyped
  <2>2. CASE prep'.op = "native" /\ projection'.generation = projection.generation
    BY <1>2, <2>1, <2>2 DEF Announced, Stale
  <2>3. CASE prep'.op = "persisting" /\ (usable => projection'.generation = projection.generation + 1)
    BY <1>1, <2>1, <2>3 DEF Announced, Stale
  <2> QED BY <2>1, <2>2, <2>3
<1>3. CASE Seed \/ SeedFails \/ NextRound
  <2>1. CASE Seed
    BY <1>1, <1>2, <2>1 DEF Seed, Announced
  <2>2. CASE SeedFails
    BY <1>2, <2>2 DEF SeedFails
  <2>3. CASE NextRound
    BY <1>1, <1>2, <2>3 DEF NextRound
  <2> QED BY <1>3, <2>1, <2>2, <2>3
<1>4. CASE PrepSucceed
  <2>1. /\ projection'.seeded = projection.seeded /\ projection'.generation = projection.generation
        /\ projection'.usable = projection.usable
        /\ projection'.missed = (projection.missed \cup prep.put) \cap base
        /\ prep'.op = "prepared" /\ prep'.put = {} /\ prep.op \in {"native", "persisting"}
    BY <1>1, <1>4 DEF PrepSucceed, Projections, Idle
  <2> QED BY <2>1 DEF Announced, Stale
<1>5. CASE PrepFail \/ \E a \in Actions : PrepUse(a) \/ PrepPut(a)
  BY <1>1, <1>5 DEF PrepFail, PrepUse, PrepPut, Announced, Stale, Idle, Preparations
<1>6. ASSUME NEW e \in Executions,
             \/ PersistStart(e) \/ Enter(e) \/ EnterPlain(e) \/ Done(e)
             \/ \E a \in Actions : PersistPut(e, a) \/ Use(e, a)
      PROVE  Announced'
  BY <1>6 DEF PersistStart, Enter, EnterPlain, Done, PersistPut, Use, Announced, Stale
<1>7. ASSUME NEW e \in Executions, PersistEnd(e)
      PROVE  Announced'
  <2>1. /\ projection'.seeded = projection.seeded
        /\ projection'.generation = projection.generation + 1
        /\ prep' = prep /\ prep.op # "unseeded"
    BY <1>1, <1>7 DEF PersistEnd, Marked, Projections, Apart, Quiet
  <2> QED BY <1>1, <2>1 DEF Announced, Stale
<1>8. ASSUME NEW e \in Executions, Reopen(e) \/ ReopenFails(e)
      PROVE  Announced'
  <2>1. prep' = prep /\ prep.op = "prepared"
    BY <1>8 DEF Reopen, ReopenFails, NTyped, Gated, Apart
  <2>2. ~projection'.usable \/ projection'.missed = {}
        \/ (~Stale /\ projection'.missed = projection.missed /\ projection.usable)
    BY <1>1, <1>8 DEF Reopen, ReopenFails, Refreshed, Projections
  <2> QED BY <2>1, <2>2 DEF Announced
<1>9. CASE Tick \/ \E a \in Actions : BasePut(a) \/ BaseEvict(a)
  <2>1. /\ projection'.seeded = projection.seeded /\ projection'.generation = projection.generation
        /\ projection'.usable = projection.usable /\ projection'.missed \subseteq projection.missed
        /\ prep' = prep
    BY <1>1, <1>9 DEF Tick, BasePut, BaseEvict, Projections
  <2> QED BY <2>1 DEF Announced, Stale
<1>10. CASE NextRun
  BY <1>10 DEF NextRun, Announced, Stale, Fresh, Idle
<1>11. CASE UNCHANGED nativeVars
  BY <1>11 DEF nativeVars, Announced, Stale
<1> QED BY <1>3, <1>4, <1>5, <1>6, <1>7, <1>8, <1>9, <1>10, <1>11 DEF NativeNext

\* What is taken away is taken when nobody holds anything.
LEMMA PathsStep == NTyped /\ Apart /\ Provided /\ [NativeNext]_nativeVars => Provided'
<1> SUFFICES ASSUME NTyped, Apart, Provided, [NativeNext]_nativeVars PROVE Provided'
  OBVIOUS
<1>1. /\ exec \in [Executions -> Commands] /\ LinksHold /\ prep \in Preparations
      /\ base \subseteq Actions
  BY DEF NTyped, Gated
<1>2. ASSUME exec' = exec, prep'.op = "native" => prep'.holds \subseteq Entries',
             \A a \in Actions : native[a] # "none" => native'[a] # "none"
      PROVE  Provided'
  BY <1>2 DEF Provided, Given, PathsStay, Entries
<1>3. CASE Seed \/ SeedFails \/ NextRound
  <2>1. exec' = exec /\ prep'.holds = {}
    BY <1>3 DEF Seed, SeedFails, NextRound, PrepareIn, Idle
  <2>2. native' = native \/ \E S \in SUBSET base : native' = Linked(S)
    BY <1>3 DEF Seed, SeedFails, NextRound
  <2>3. \A a \in Actions : native[a] # "none" => native'[a] # "none"
    <3>1. CASE \E S \in SUBSET base : native' = Linked(S)
      <4>1. PICK S \in SUBSET base : native' = Linked(S)
        BY <3>1
      <4> QED BY <1>1, <4>1, LinkedHolds
    <3> QED BY <2>2, <3>1
  <2> QED BY <1>2, <2>1, <2>3
<1>4. CASE PrepSucceed
  <2>1. exec' = exec /\ prep'.op = "prepared"
    BY <1>4 DEF PrepSucceed, Idle
  <2>2. PICK S \in SUBSET Promoted : native' = Linked(S) /\ base' = base \cup S
    BY <1>4 DEF PrepSucceed
  <2>3. S \subseteq Actions
    BY DEF Promoted, Entries
  <2>4. \A a \in Actions : native[a] # "none" => native'[a] # "none"
    BY <1>1, <2>2, <2>3, LinkedHolds
  <2> QED BY <1>2, <2>1, <2>4
<1>5. CASE PrepFail \/ \E a \in Actions : PrepPut(a)
  <2>1. exec' = exec /\ native' = native /\ prep'.op # "native"
    BY <1>1, <1>5 DEF PrepFail, PrepPut, Idle, Preparations
  <2> QED BY <1>2, <2>1
<1>6. ASSUME NEW a \in Actions, PrepUse(a)
      PROVE  Provided'
  <2>1. exec' = exec /\ prep.op = "native" /\ prep'.holds = prep.holds \cup {a} /\ Uses(a)
    BY <1>1, <1>6 DEF PrepUse, Preparations
  <2>2. native'[a] # "none" /\ \A b \in Actions : native[b] # "none" => native'[b] # "none"
    BY <1>1, <2>1, UsesHolds
  <2>3. prep'.holds \subseteq Entries'
    BY <2>1, <2>2 DEF Provided, PathsStay, Entries
  <2> QED BY <1>2, <2>1, <2>2, <2>3
<1>7. ASSUME NEW e \in Executions,
             PersistStart(e) \/ PersistEnd(e) \/ Enter(e) \/ EnterPlain(e) \/ Done(e)
             \/ \E a \in Actions : PersistPut(e, a)
      PROVE  Provided'
  <2>1. native' = native /\ prep' = prep /\ exec' = [exec EXCEPT ![e] = exec'[e]]
    BY <1>7, CommandTyped DEF PersistStart, PersistEnd, Enter, EnterPlain, Done, PersistPut
  <2>2. exec'[e].holds = {}
    BY <1>1, <1>7 DEF PersistStart, PersistEnd, Enter, Admission, EnterPlain, Done, PersistPut,
                      Idle, Provided, Given, Commands
  <2> QED BY <1>1, <2>1, <2>2 DEF Provided, Given, PathsStay, Entries
<1>8. ASSUME NEW e \in Executions, Reopen(e) \/ ReopenFails(e)
      PROVE  Provided'
  <2>1. prep' = prep /\ exec' = [exec EXCEPT ![e] = exec'[e]] /\ Drained
    BY <1>8, CommandTyped DEF Reopen, ReopenFails
  <2>2. exec[e].op = "draining" /\ prep.op = "prepared"
    BY <1>8 DEF Reopen, ReopenFails, NTyped, Gated, Apart
  <2>3. exec'[e].holds = {}
    BY <1>1, <1>8, <2>2 DEF Reopen, ReopenFails, Provided, Given, Commands
  <2>4. \A d \in Executions : exec[d].op # "running"
    BY <2>1 DEF Drained, Running
  <2> QED BY <1>1, <2>1, <2>2, <2>3, <2>4 DEF Provided, Given, PathsStay
<1>9. ASSUME NEW e \in Executions, NEW a \in Actions, Use(e, a)
      PROVE  Provided'
  <2>1. /\ prep' = prep /\ exec' = [exec EXCEPT ![e] = exec'[e]] /\ Uses(a)
        /\ exec[e].op = "running" /\ exec'[e].op = "running"
        /\ exec'[e].holds = exec[e].holds \cup {a}
    BY <1>1, <1>9 DEF Use, Commands
  <2>2. native'[a] # "none" /\ \A b \in Actions : native[b] # "none" => native'[b] # "none"
    BY <1>1, <2>1, UsesHolds
  <2> QED BY <1>1, <2>1, <2>2 DEF Provided, Given, PathsStay, Entries
<1>10. CASE NextRun
  <2>1. exec' = exec /\ Quiet /\ prep'.op = "unseeded"
    BY <1>10 DEF NextRun, Idle
  <2> QED BY <2>1 DEF Provided, Given, PathsStay, Quiet
<1>11. CASE Tick \/ UNCHANGED nativeVars \/ \E a \in Actions : BasePut(a) \/ BaseEvict(a)
  <2>1. exec' = exec /\ prep' = prep
    BY <1>11 DEF Tick, BasePut, BaseEvict, nativeVars
  <2>2. \A a \in Actions : native[a] # "none" => native'[a] # "none"
    BY <1>1, <1>11 DEF Tick, BasePut, BaseEvict, nativeVars, LinksHold
  <2> QED BY <1>2, <2>1, <2>2 DEF Provided, PathsStay, Entries
<1> QED BY <1>3, <1>4, <1>5, <1>6, <1>7, <1>8, <1>9, <1>10, <1>11 DEF NativeNext

LEMMA NativeStart == NativeInit => NInv
BY DEF NativeInit, NInv, Provided, Given, PathsStay, Apart, Announced, Quiet, Stale, Fresh, Idle

\* The invariant of ordinary runs.
THEOREM NativeInductive == Replay = FALSE => (NativeSpec => [](NTyped /\ NInv))
<1> SUFFICES ASSUME Replay = FALSE PROVE NativeSpec => [](NTyped /\ NInv)
  OBVIOUS
<1>1. NTyped /\ NInv /\ [NativeNext]_nativeVars => (NTyped /\ NInv)'
  BY NativeTypedStep, ApartStep, AnnouncedStep, PathsStep DEF NInv
<1> QED BY <1>1, NativeTypedStart, NativeStart, PTL DEF NativeSpec

\* What a command or a preparation was given stays until it closes (beginNative,
\* collectNative): a collection waits until nobody runs.
THEOREM GivenPathsStay == Replay = FALSE => (NativeSpec => []PathsStay)
<1> SUFFICES ASSUME Replay = FALSE PROVE NativeSpec => []PathsStay
  OBVIOUS
<1>1. NInv => PathsStay
  BY DEF NInv, Provided
<1> QED BY <1>1, NativeInductive, PTL

\* Who is admitted sees what was persisted before (markNativeDirty, beginNative).
THEOREM PersistedIsSeen == Replay = FALSE => (NativeSpec => AdmittedSeesPersisted)
<1> SUFFICES ASSUME Replay = FALSE PROVE NativeSpec => AdmittedSeesPersisted
  OBVIOUS
<1> DEFINE Sees == \A e \in Executions :
                      exec[e].op # "running" /\ exec'[e].op = "running" => projection'.missed = {}
<1>1. NTyped /\ NInv /\ [NativeNext]_nativeVars => Sees
  <2> SUFFICES ASSUME NTyped, NInv, [NativeNext]_nativeVars, NEW e \in Executions,
                      exec[e].op # "running", exec'[e].op = "running"
               PROVE  projection'.missed = {}
    OBVIOUS
  <2>1. exec \in [Executions -> Commands] /\ projection \in Projections /\ Announced
    BY DEF NTyped, NInv, Gated, InOrder
  <2>2. CASE \E d \in Executions : Enter(d) \/ Reopen(d)
    <3>1. PICK d \in Executions : Enter(d) \/ Reopen(d)
      BY <2>2
    <3>2. d = e
      BY <2>1, <3>1 DEF Enter, Admission, Reopen
    <3>3. CASE Enter(e)
      <4>1. ~Stale /\ projection.usable /\ projection' = projection
        BY <2>1, <3>3 DEF Enter, Admission, Commands
      <4> QED BY <2>1, <4>1 DEF Announced
    <3>4. CASE Reopen(e)
      BY <2>1, <3>4 DEF Reopen, Refreshed, Projections, Announced
    <3> QED BY <3>1, <3>2, <3>3, <3>4
  <2>3. CASE \E d \in Executions : \/ PersistStart(d) \/ PersistEnd(d) \/ EnterPlain(d)
                                   \/ ReopenFails(d) \/ Done(d)
                                   \/ \E a \in Actions : PersistPut(d, a) \/ Use(d, a)
    <3>1. PICK d \in Executions : \/ PersistStart(d) \/ PersistEnd(d) \/ EnterPlain(d)
                                  \/ ReopenFails(d) \/ Done(d)
                                  \/ \E a \in Actions : PersistPut(d, a) \/ Use(d, a)
      BY <2>3
    <3>2. d = e
      BY <3>1, <2>1 DEF PersistStart, PersistEnd, EnterPlain, ReopenFails, Done, PersistPut, Use
    <3> QED BY <2>1, <3>1, <3>2 DEF PersistStart, PersistEnd, EnterPlain, ReopenFails, Done, PersistPut,
                                    Use, Idle, Commands
  <2>4. CASE Seed \/ SeedFails \/ NextRound \/ PrepSucceed \/ PrepFail \/ Tick \/ NextRun
             \/ UNCHANGED nativeVars
             \/ \E a \in Actions : PrepUse(a) \/ PrepPut(a) \/ BasePut(a) \/ BaseEvict(a)
    BY <2>4 DEF Seed, SeedFails, NextRound, PrepSucceed, PrepFail, Tick, NextRun, nativeVars, PrepareIn,
                PrepUse, PrepPut, BasePut, BaseEvict
  <2> QED BY <2>2, <2>3, <2>4 DEF NativeNext
<1>2. Sees => [Sees]_nativeVars
  OBVIOUS
<1> QED BY <1>1, <1>2, NativeInductive, PTL DEF NativeSpec, AdmittedSeesPersisted

-------------------------------------------------------------------------------
(*****************************************************************************)
(* The safety properties of TempOwner hold for any number of runs,           *)
(* collectors and faults. A sweep decides in three steps, and what it read   *)
(* in one may not hold in the next, so the invariant says what a decision    *)
(* rests on that cannot change any more:                                     *)
(*                                                                           *)
(*   - a run goes from Before to HasMarker to GivenUp and never back, and    *)
(*     whoever has its directory in hand has seen at least that stage;       *)
(*   - only a run that is AfterKeep is marked kept;                          *)
(*   - whoever is about to write the ledger holds its lock, and has loaded   *)
(*     every record that must not be lost.                                   *)
(*****************************************************************************)

\* The run has not made its directory.
Before(r) == pc[r] \in {"start", "list", "make"} \cup Sweeping
\* Its directory has had a marker.
HasMarker(r) == ~Before(r) /\ pc[r] \notin {"claim", "mark"}
\* It has begun to give its directory up, or is dead.
GivenUp(r) == HasMarker(r) /\ ~Working(r)
\* It will not mark its scratch directory kept any more.
AfterKeep(r) == \/ pc[r] = "ended"
                \/ pc[r] \in {"keptFree", "append", "save"} /\ at[r] = r
\* Whoever is there holds the lock of the ledger.
Locked == {"save", "entries", "rmEntry"}

\* A run, its directory and its record.
OwnInv(r) ==
    /\ Before(r) => r \notin present /\ marker[r] = None /\ lock[r] = None /\ ~aged[r]
    /\ pc[r] = "claim" => r \in present /\ marker[r] = None /\ lock[r] = None /\ ~aged[r]
    /\ pc[r] = "mark" => r \in present /\ marker[r] = None /\ lock[r] = r /\ ~aged[r]
    /\ Working(r) => r \in present /\ lock[r] = r /\ marker[r] # None /\ ~Kept(r)
    /\ Kept(r) => AfterKeep(r)
    /\ pc[r] \in {"claimShared", "markShared"} => at[r] \in Shared
    /\ pc[r] \in Leaving => at[r] \in {r} \cup Shared
    /\ r \in recorded => pc[r] = "ended" /\ (r \in present => ledger[r] = r)
    /\ r \in recorded /\ r \in present /\ holder # None => loaded[r] = r

\* What a process has in hand.
HandInv(p) ==
    /\ pc[p] = "probe" /\ at[p] \in Runs => HasMarker(at[p])
    /\ pc[p] \in {"unlock", "remove", "rmEntry"} /\ at[p] \in Runs => GivenUp(at[p])
    /\ pc[p] \in {"probe", "unlock", "remove"} => ~(at[p] \in spared[p] /\ Kept(at[p]))
    /\ \A d \in spared[p] : AfterKeep(d)
    /\ pc[p] \in Locked => holder = p

TInv == TypeOK /\ (\A r \in Runs : OwnInv(r)) /\ (\A p \in Procs : HandInv(p))

\* A removal, whole or failed, leaves the disk well-formed.
LEMMA RemovalTypes ==
    ASSUME TypeOK, NEW d \in Dirs \cup {None}, RemoveAll(d) \/ RemoveFails(d)
    PROVE  /\ present' \subseteq Dirs /\ marker' \in [Dirs -> Markers \cup {None}]
           /\ lock' \in [Dirs -> Procs \cup {None}] /\ aged' \in [Dirs -> BOOLEAN]
           /\ faults' \in 0 .. MaxFaults
<1>1. CASE RemoveAll(d)
  BY <1>1 DEF TypeOK, RemoveAll
<1>2. CASE RemoveFails(d)
  <2>1. faults' \in 0 .. MaxFaults
    BY <1>2, TempAssumption DEF TypeOK, RemoveFails, Fault
  <2> QED BY <1>2, <2>1 DEF TypeOK, RemoveFails
<1> QED BY <1>1, <1>2

\* So does a release, which takes one lock away and only from who holds it.
LEMMA FreeTypes ==
    ASSUME TypeOK, NEW p, NEW d, Free(p, d)
    PROVE  /\ lock' \in [Dirs -> Procs \cup {None}]
           /\ \A e \in Dirs : lock'[e] = IF e = d /\ lock[e] = p THEN None ELSE lock[e]
BY DEF TypeOK, Free

\* A marker that is written is one, and not the absence of one.
LEMMA NewMarker ==
    ASSUME NEW r \in Runs \cup {None}, NEW k \in BOOLEAN
    PROVE  [run |-> r, kept |-> k] \in Markers /\ [run |-> r, kept |-> k] # None
BY TempAssumption DEF Markers

\* A damaged marker is present and does not say kept.
LEMMA UnreadableMarker ==
    Unreadable \in Markers /\ Unreadable # None /\ Unreadable.kept = FALSE
<1>1. [run |-> None, kept |-> FALSE] \in Markers /\ [run |-> None, kept |-> FALSE] # None
  BY NewMarker
<1> QED BY <1>1 DEF Unreadable

\* Writing one keeps the markers well-formed.
LEMMA MarkingTypes ==
    ASSUME TypeOK, NEW d, NEW r \in Runs, NEW k \in BOOLEAN,
           marker' = [marker EXCEPT ![d] = [run |-> r, kept |-> k]]
    PROVE  marker' \in [Dirs -> Markers \cup {None}]
BY NewMarker DEF TypeOK

\* The vocabulary of the module is expanded in every step of what follows.
USE TempAssumption
USE DEF Procs, Dirs, Stages, Sweeping, Claiming, Opening, Leaving, Collecting, Locked,
        Before, HasMarker, Working, GivenUp, AfterKeep, Kept,
        hand, disk, records, history, Goto, Judged, Aside, Fault, Leave, Onward

-----------------------------------------------------------------------------
(* Every step keeps the invariant: of the types, of each run, and of each  *)
(* process, of which the step moves one.                                   *)

LEMMA AcquireKeeps == ASSUME TInv, NEW p \in Procs, Acquire(p) PROVE TInv'
<1>1. TypeOK'
  BY DEF TInv, TypeOK, Acquire
<1>2. ASSUME NEW r \in Runs PROVE OwnInv(r)'
  BY DEF TInv, TypeOK, OwnInv, HandInv, Acquire
<1>3. ASSUME NEW q \in Procs PROVE HandInv(q)'
  BY DEF TInv, TypeOK, OwnInv, HandInv, Acquire
<1> QED BY <1>1, <1>2, <1>3 DEF TInv

LEMMA GoesWithoutKeeps == ASSUME TInv, NEW p \in Procs, GoesWithout(p) PROVE TInv'
<1>1. TypeOK'
  BY DEF TInv, TypeOK, GoesWithout, Fault
<1>2. ASSUME NEW r \in Runs PROVE OwnInv(r)'
  BY DEF TInv, TypeOK, OwnInv, HandInv, GoesWithout, Fault
<1>3. ASSUME NEW q \in Procs PROVE HandInv(q)'
  BY DEF TInv, TypeOK, OwnInv, HandInv, GoesWithout, Fault
<1> QED BY <1>1, <1>2, <1>3 DEF TInv

LEMMA ListKeeps == ASSUME TInv, NEW p \in Procs, List(p) PROVE TInv'
<1>1. TypeOK'
  BY DEF TInv, TypeOK, List
<1>2. ASSUME NEW r \in Runs PROVE OwnInv(r)'
  BY DEF TInv, TypeOK, OwnInv, HandInv, List
<1>3. ASSUME NEW q \in Procs PROVE HandInv(q)'
  BY DEF TInv, TypeOK, OwnInv, HandInv, List
<1> QED BY <1>1, <1>2, <1>3 DEF TInv

LEMMA SparesKeeps == ASSUME TInv, NEW p \in Procs, Spares(p) PROVE TInv'
<1>1. TypeOK'
  BY DEF TInv, TypeOK, Spares
<1>2. ASSUME NEW r \in Runs PROVE OwnInv(r)'
  BY DEF TInv, TypeOK, OwnInv, HandInv, Spares
<1>3. ASSUME NEW q \in Procs PROVE HandInv(q)'
  BY DEF TInv, TypeOK, OwnInv, HandInv, Spares
<1> QED BY <1>1, <1>2, <1>3 DEF TInv

LEMMA CondemnsUnclaimedKeeps == ASSUME TInv, NEW p \in Procs, CondemnsUnclaimed(p) PROVE TInv'
<1>1. TypeOK'
  BY DEF TInv, TypeOK, CondemnsUnclaimed
<1>2. ASSUME NEW r \in Runs PROVE OwnInv(r)'
  BY DEF TInv, TypeOK, OwnInv, HandInv, CondemnsUnclaimed
<1>3. ASSUME NEW q \in Procs PROVE HandInv(q)'
  BY DEF TInv, TypeOK, OwnInv, HandInv, CondemnsUnclaimed
<1> QED BY <1>1, <1>2, <1>3 DEF TInv

LEMMA SuspectsKeeps == ASSUME TInv, NEW p \in Procs, Suspects(p) PROVE TInv'
<1>1. TypeOK'
  BY DEF TInv, TypeOK, Suspects
<1>2. ASSUME NEW r \in Runs PROVE OwnInv(r)'
  BY DEF TInv, TypeOK, OwnInv, HandInv, Suspects
<1>3. ASSUME NEW q \in Procs PROVE HandInv(q)'
  BY DEF TInv, TypeOK, OwnInv, HandInv, Suspects
<1> QED BY <1>1, <1>2, <1>3 DEF TInv

LEMMA ProbeKeeps == ASSUME TInv, NEW p \in Procs, Probe(p) PROVE TInv'
<1>1. TypeOK'
  BY DEF TInv, TypeOK, Probe
<1>2. ASSUME NEW r \in Runs PROVE OwnInv(r)'
  BY DEF TInv, TypeOK, OwnInv, HandInv, Probe
<1>3. ASSUME NEW q \in Procs PROVE HandInv(q)'
  BY DEF TInv, TypeOK, OwnInv, HandInv, Probe
<1> QED BY <1>1, <1>2, <1>3 DEF TInv

LEMMA UnlockKeeps == ASSUME TInv, NEW p \in Procs, Unlock(p) PROVE TInv'
<1>1. TypeOK'
  <2>1. lock' \in [Dirs -> Procs \cup {None}]
    BY FreeTypes DEF TInv, Unlock
  <2> QED BY <2>1 DEF TInv, TypeOK, Unlock
<1>2. ASSUME NEW r \in Runs PROVE OwnInv(r)'
  BY DEF TInv, TypeOK, OwnInv, HandInv, Unlock, Free
<1>3. ASSUME NEW q \in Procs PROVE HandInv(q)'
  BY DEF TInv, TypeOK, OwnInv, HandInv, Unlock, Free
<1> QED BY <1>1, <1>2, <1>3 DEF TInv

LEMMA RemoveKeeps == ASSUME TInv, NEW p \in Procs, Remove(p) PROVE TInv'
<1>1. TypeOK'
  BY RemovalTypes DEF TInv, TypeOK, Remove
<1>2. ASSUME NEW r \in Runs PROVE OwnInv(r)'
  BY DEF TInv, TypeOK, OwnInv, HandInv, Remove, RemoveAll, RemoveFails
<1>3. ASSUME NEW q \in Procs PROVE HandInv(q)'
  BY DEF TInv, TypeOK, OwnInv, HandInv, Remove, RemoveAll, RemoveFails
<1> QED BY <1>1, <1>2, <1>3 DEF TInv

LEMMA SweptKeeps == ASSUME TInv, NEW p \in Procs, Swept(p) PROVE TInv'
<1>1. TypeOK'
  BY DEF TInv, TypeOK, Swept
<1>2. ASSUME NEW r \in Runs PROVE OwnInv(r)'
  BY DEF TInv, TypeOK, OwnInv, HandInv, Swept
<1>3. ASSUME NEW q \in Procs PROVE HandInv(q)'
  BY DEF TInv, TypeOK, OwnInv, HandInv, Swept
<1> QED BY <1>1, <1>2, <1>3 DEF TInv

LEMMA MakeKeeps == ASSUME TInv, NEW p \in Runs, Make(p) PROVE TInv'
<1>1. TypeOK'
  BY DEF TInv, TypeOK, Make
<1>2. ASSUME NEW r \in Runs PROVE OwnInv(r)'
  BY DEF TInv, TypeOK, OwnInv, HandInv, Make
<1>3. ASSUME NEW q \in Procs PROVE HandInv(q)'
  BY DEF TInv, TypeOK, OwnInv, HandInv, Make
<1> QED BY <1>1, <1>2, <1>3 DEF TInv

LEMMA ClaimKeeps == ASSUME TInv, NEW p \in Runs, Claim(p) PROVE TInv'
<1>1. TypeOK'
  BY DEF TInv, TypeOK, Claim
<1>2. ASSUME NEW r \in Runs PROVE OwnInv(r)'
  BY DEF TInv, TypeOK, OwnInv, HandInv, Claim
<1>3. ASSUME NEW q \in Procs PROVE HandInv(q)'
  BY DEF TInv, TypeOK, OwnInv, HandInv, Claim
<1> QED BY <1>1, <1>2, <1>3 DEF TInv

LEMMA MarkKeeps == ASSUME TInv, NEW p \in Runs, Mark(p) PROVE TInv'
<1>1. TypeOK'
  <2>1. \/ marker' = marker
        \/ marker' = [marker EXCEPT ![p] = [run |-> p, kept |-> FALSE]]
    BY DEF Mark
  <2>2. marker' \in [Dirs -> Markers \cup {None}]
    BY <2>1, MarkingTypes DEF TInv, TypeOK
  <2>3. lock' \in [Dirs -> Procs \cup {None}]
    BY DEF TInv, TypeOK, Mark, Free
  <2> QED BY <2>2, <2>3 DEF TInv, TypeOK, Mark
<1>2. ASSUME NEW r \in Runs PROVE OwnInv(r)'
  <2>1. [run |-> p, kept |-> FALSE] # None
    BY NewMarker
  <2> QED BY <2>1 DEF TInv, TypeOK, OwnInv, HandInv, Mark, Free
<1>3. ASSUME NEW q \in Procs PROVE HandInv(q)'
  BY DEF TInv, TypeOK, OwnInv, HandInv, Mark, Free
<1> QED BY <1>1, <1>2, <1>3 DEF TInv

LEMMA DiscardKeeps == ASSUME TInv, NEW p \in Runs, Discard(p) PROVE TInv'
<1>1. TypeOK'
  BY RemovalTypes DEF TInv, TypeOK, Discard
<1>2. ASSUME NEW r \in Runs PROVE OwnInv(r)'
  BY DEF TInv, TypeOK, OwnInv, HandInv, Discard, RemoveAll, RemoveFails
<1>3. ASSUME NEW q \in Procs PROVE HandInv(q)'
  BY DEF TInv, TypeOK, OwnInv, HandInv, Discard, RemoveAll, RemoveFails
<1> QED BY <1>1, <1>2, <1>3 DEF TInv

LEMMA OpenSharedKeeps == ASSUME TInv, NEW p \in Runs, OpenShared(p) PROVE TInv'
<1>1. TypeOK'
  <2>1. pc' \in [Procs -> Stages] /\ at' \in [Procs -> Dirs \cup {None}] /\ present' \subseteq Dirs
    BY DEF TInv, TypeOK, OpenShared
  <2> QED BY <2>1 DEF TInv, TypeOK, OpenShared
<1>2. ASSUME NEW r \in Runs PROVE OwnInv(r)'
  BY DEF TInv, TypeOK, OwnInv, HandInv, OpenShared
<1>3. ASSUME NEW q \in Procs PROVE HandInv(q)'
  BY DEF TInv, TypeOK, OwnInv, HandInv, OpenShared
<1> QED BY <1>1, <1>2, <1>3 DEF TInv

LEMMA ClaimSharedKeeps == ASSUME TInv, NEW p \in Runs, ClaimShared(p) PROVE TInv'
<1>1. TypeOK'
  BY DEF TInv, TypeOK, ClaimShared
<1>2. ASSUME NEW r \in Runs PROVE OwnInv(r)'
  BY DEF TInv, TypeOK, OwnInv, HandInv, ClaimShared
<1>3. ASSUME NEW q \in Procs PROVE HandInv(q)'
  BY DEF TInv, TypeOK, OwnInv, HandInv, ClaimShared
<1> QED BY <1>1, <1>2, <1>3 DEF TInv

LEMMA MarkSharedKeeps == ASSUME TInv, NEW p \in Runs, MarkShared(p) PROVE TInv'
<1>1. TypeOK'
  <2>1. \/ marker' = marker
        \/ marker' = [marker EXCEPT ![at[p]] = [run |-> p, kept |-> FALSE]]
    BY DEF MarkShared
  <2>2. marker' \in [Dirs -> Markers \cup {None}]
    BY <2>1, MarkingTypes DEF TInv, TypeOK
  <2>3. lock' \in [Dirs -> Procs \cup {None}]
    BY FreeTypes DEF TInv, TypeOK, MarkShared
  <2>4. uses' \in [Runs -> Shared \cup {None}]
    BY DEF TInv, TypeOK, OwnInv, MarkShared
  <2> QED BY <2>2, <2>3, <2>4 DEF TInv, TypeOK, MarkShared
<1>2. ASSUME NEW r \in Runs PROVE OwnInv(r)'
  BY NewMarker DEF TInv, TypeOK, OwnInv, HandInv, MarkShared, Free
<1>3. ASSUME NEW q \in Procs PROVE HandInv(q)'
  <2>1. at[p] \in Shared
    BY DEF TInv, OwnInv, MarkShared
  <2>2. \A r \in Runs : marker'[r] = marker[r]
    BY <2>1 DEF TInv, TypeOK, MarkShared
  <2> QED BY <2>1, <2>2 DEF TInv, TypeOK, OwnInv, HandInv, MarkShared, Free
<1> QED BY <1>1, <1>2, <1>3 DEF TInv

LEMMA FinishKeeps == ASSUME TInv, NEW p \in Runs, Finish(p) PROVE TInv'
<1>1. TypeOK'
  BY DEF TInv, TypeOK, Finish
<1>2. ASSUME NEW r \in Runs PROVE OwnInv(r)'
  BY DEF TInv, TypeOK, OwnInv, HandInv, Finish
<1>3. ASSUME NEW q \in Procs PROVE HandInv(q)'
  BY DEF TInv, TypeOK, OwnInv, HandInv, Finish
<1> QED BY <1>1, <1>2, <1>3 DEF TInv

LEMMA KeepKeeps == ASSUME TInv, NEW p \in Runs, Keep(p) PROVE TInv'
<1>1. TypeOK'
  <2>1. \/ marker' = marker
        \/ marker' = [marker EXCEPT ![at[p]] = [run |-> p, kept |-> TRUE]]
    BY DEF Keep
  <2>2. marker' \in [Dirs -> Markers \cup {None}]
    BY <2>1, MarkingTypes DEF TInv, TypeOK
  <2> QED BY <2>2 DEF TInv, TypeOK, Keep
<1>2. ASSUME NEW r \in Runs PROVE OwnInv(r)'
  BY NewMarker DEF TInv, TypeOK, OwnInv, HandInv, Keep
<1>3. ASSUME NEW q \in Procs PROVE HandInv(q)'
  BY NewMarker DEF TInv, TypeOK, OwnInv, HandInv, Keep
<1> QED BY <1>1, <1>2, <1>3 DEF TInv

LEMMA KeepReleasesKeeps == ASSUME TInv, NEW p \in Runs, KeepReleases(p) PROVE TInv'
<1>1. TypeOK'
  <2>1. lock' \in [Dirs -> Procs \cup {None}]
    BY FreeTypes DEF TInv, KeepReleases
  <2>2. pc' \in [Procs -> Stages] /\ at' \in [Procs -> Dirs \cup {None}]
    BY DEF TInv, TypeOK, KeepReleases
  <2> QED BY <2>1, <2>2 DEF TInv, TypeOK, KeepReleases
<1>2. ASSUME NEW r \in Runs PROVE OwnInv(r)'
  BY DEF TInv, TypeOK, OwnInv, HandInv, KeepReleases, Free
<1>3. ASSUME NEW q \in Procs PROVE HandInv(q)'
  BY DEF TInv, TypeOK, OwnInv, HandInv, KeepReleases, Free
<1> QED BY <1>1, <1>2, <1>3 DEF TInv

LEMMA LoadKeeps == ASSUME TInv, NEW p \in Runs, Load(p) PROVE TInv'
<1>1. TypeOK'
  BY DEF TInv, TypeOK, Load
<1>2. ASSUME NEW r \in Runs PROVE OwnInv(r)'
  BY DEF TInv, TypeOK, OwnInv, HandInv, Load
<1>3. ASSUME NEW q \in Procs PROVE HandInv(q)'
  BY DEF TInv, TypeOK, OwnInv, HandInv, Load
<1> QED BY <1>1, <1>2, <1>3 DEF TInv

LEMMA GivesUpKeeps == ASSUME TInv, NEW p \in Runs, GivesUp(p) PROVE TInv'
<1>1. TypeOK'
  BY DEF TInv, TypeOK, GivesUp
<1>2. ASSUME NEW r \in Runs PROVE OwnInv(r)'
  BY DEF TInv, TypeOK, OwnInv, HandInv, GivesUp
<1>3. ASSUME NEW q \in Procs PROVE HandInv(q)'
  BY DEF TInv, TypeOK, OwnInv, HandInv, GivesUp
<1> QED BY <1>1, <1>2, <1>3 DEF TInv

LEMMA AppendKeeps == ASSUME TInv, NEW p \in Runs, Append(p) PROVE TInv'
<1>1. TypeOK'
  BY DEF TInv, TypeOK, Append
<1>2. ASSUME NEW r \in Runs PROVE OwnInv(r)'
  BY DEF TInv, TypeOK, OwnInv, HandInv, Append
<1>3. ASSUME NEW q \in Procs PROVE HandInv(q)'
  <2>1. /\ pc'[p] \in {"ended", "keep", "free"} /\ (at[p] = p => pc'[p] = "ended")
        /\ \A r \in Procs : r # p => pc'[r] = pc[r] /\ at'[r] = at[r]
        /\ UNCHANGED <<marker, spared>>
    BY DEF TInv, TypeOK, Append
  <2>2. \A d \in spared[q] : AfterKeep(d)'
    BY <2>1 DEF TInv, TypeOK, HandInv, Append
  <2>3. \A r \in Runs : GivenUp(r) => GivenUp(r)'
    BY <2>1 DEF Append
  <2>4. \A r \in Runs : HasMarker(r) => HasMarker(r)'
    BY <2>1
  <2>5. pc'[q] \notin Locked
    BY <2>1 DEF TInv, HandInv, Append
  <2> QED BY <2>1, <2>2, <2>3, <2>4, <2>5 DEF TInv, TypeOK, HandInv
<1> QED BY <1>1, <1>2, <1>3 DEF TInv

LEMMA ReleaseKeeps == ASSUME TInv, NEW p \in Runs, Release(p) PROVE TInv'
<1>1. TypeOK'
  <2>1. lock' \in [Dirs -> Procs \cup {None}]
    BY FreeTypes DEF TInv, Release
  <2>2. pc' \in [Procs -> Stages] /\ at' \in [Procs -> Dirs \cup {None}]
    BY DEF TInv, TypeOK, Release
  <2> QED BY <2>1, <2>2 DEF TInv, TypeOK, Release
<1>2. ASSUME NEW r \in Runs PROVE OwnInv(r)'
  BY DEF TInv, TypeOK, OwnInv, HandInv, Release, Free
<1>3. ASSUME NEW q \in Procs PROVE HandInv(q)'
  <2>1. /\ pc'[p] \in {"erase", "keep", "free"} /\ (at[p] = p => pc'[p] = "erase")
        /\ \A r \in Procs : r # p => pc'[r] = pc[r] /\ at'[r] = at[r]
        /\ UNCHANGED <<marker, holder, spared>>
    BY DEF TInv, TypeOK, Release
  <2>2. \A d \in spared[q] : d # p /\ AfterKeep(d)'
    BY <2>1 DEF TInv, TypeOK, HandInv, Release
  <2>3. \A r \in Runs : GivenUp(r) => GivenUp(r)'
    BY <2>1 DEF Release
  <2>4. \A r \in Runs : HasMarker(r) => HasMarker(r)'
    BY <2>1
  <2> QED BY <2>1, <2>2, <2>3, <2>4 DEF TInv, TypeOK, HandInv
<1> QED BY <1>1, <1>2, <1>3 DEF TInv

LEMMA EraseKeeps == ASSUME TInv, NEW p \in Runs, Erase(p) PROVE TInv'
<1>1. TypeOK'
  BY RemovalTypes DEF TInv, TypeOK, Erase
<1>2. ASSUME NEW r \in Runs PROVE OwnInv(r)'
  BY DEF TInv, TypeOK, OwnInv, HandInv, Erase, RemoveAll, RemoveFails
<1>3. ASSUME NEW q \in Procs PROVE HandInv(q)'
  BY DEF TInv, TypeOK, OwnInv, HandInv, Erase, RemoveAll, RemoveFails
<1> QED BY <1>1, <1>2, <1>3 DEF TInv

LEMMA CollectKeptKeeps == ASSUME TInv, NEW p \in Collectors, CollectKept(p) PROVE TInv'
<1>1. TypeOK'
  BY DEF TInv, TypeOK, CollectKept
<1>2. ASSUME NEW r \in Runs PROVE OwnInv(r)'
  BY DEF TInv, TypeOK, OwnInv, HandInv, CollectKept
<1>3. ASSUME NEW q \in Procs PROVE HandInv(q)'
  BY DEF TInv, TypeOK, OwnInv, HandInv, CollectKept
<1> QED BY <1>1, <1>2, <1>3 DEF TInv

LEMMA CollectGivesUpKeeps == ASSUME TInv, NEW p \in Collectors, CollectGivesUp(p) PROVE TInv'
<1>1. TypeOK'
  BY DEF TInv, TypeOK, CollectGivesUp
<1>2. ASSUME NEW r \in Runs PROVE OwnInv(r)'
  BY DEF TInv, TypeOK, OwnInv, HandInv, CollectGivesUp
<1>3. ASSUME NEW q \in Procs PROVE HandInv(q)'
  BY DEF TInv, TypeOK, OwnInv, HandInv, CollectGivesUp
<1> QED BY <1>1, <1>2, <1>3 DEF TInv

LEMMA DropEntryKeeps == ASSUME TInv, NEW p \in Collectors, DropEntry(p) PROVE TInv'
<1>1. TypeOK'
  BY DEF TInv, TypeOK, DropEntry
<1>2. ASSUME NEW r \in Runs PROVE OwnInv(r)'
  BY DEF TInv, TypeOK, OwnInv, HandInv, DropEntry
<1>3. ASSUME NEW q \in Procs PROVE HandInv(q)'
  BY DEF TInv, TypeOK, OwnInv, HandInv, DropEntry
<1> QED BY <1>1, <1>2, <1>3 DEF TInv

LEMMA KeepEntryKeeps == ASSUME TInv, NEW p \in Collectors, KeepEntry(p) PROVE TInv'
<1>1. TypeOK'
  BY DEF TInv, TypeOK, KeepEntry
<1>2. ASSUME NEW r \in Runs PROVE OwnInv(r)'
  BY DEF TInv, TypeOK, OwnInv, HandInv, KeepEntry
<1>3. ASSUME NEW q \in Procs PROVE HandInv(q)'
  BY DEF TInv, TypeOK, OwnInv, HandInv, KeepEntry
<1> QED BY <1>1, <1>2, <1>3 DEF TInv

LEMMA ExpireEntryKeeps == ASSUME TInv, NEW p \in Collectors, ExpireEntry(p) PROVE TInv'
<1>1. TypeOK'
  BY DEF TInv, TypeOK, ExpireEntry, Vouched
<1>2. ASSUME NEW r \in Runs PROVE OwnInv(r)'
  BY DEF TInv, TypeOK, OwnInv, HandInv, ExpireEntry, Vouched
<1>3. ASSUME NEW q \in Procs PROVE HandInv(q)'
  BY DEF TInv, TypeOK, OwnInv, HandInv, ExpireEntry, Vouched
<1> QED BY <1>1, <1>2, <1>3 DEF TInv

LEMMA RemoveEntryKeeps == ASSUME TInv, NEW p \in Collectors, RemoveEntry(p) PROVE TInv'
<1>1. TypeOK'
  BY RemovalTypes DEF TInv, TypeOK, RemoveEntry
<1>2. ASSUME NEW r \in Runs PROVE OwnInv(r)'
  BY DEF TInv, TypeOK, OwnInv, HandInv, RemoveEntry, RemoveAll, RemoveFails
<1>3. ASSUME NEW q \in Procs PROVE HandInv(q)'
  BY DEF TInv, TypeOK, OwnInv, HandInv, RemoveEntry, RemoveAll, RemoveFails
<1> QED BY <1>1, <1>2, <1>3 DEF TInv

LEMMA SaveEntriesKeeps == ASSUME TInv, NEW p \in Collectors, SaveEntries(p) PROVE TInv'
<1>1. TypeOK'
  BY DEF TInv, TypeOK, SaveEntries
<1>2. ASSUME NEW r \in Runs PROVE OwnInv(r)'
  BY DEF TInv, TypeOK, OwnInv, HandInv, SaveEntries
<1>3. ASSUME NEW q \in Procs PROVE HandInv(q)'
  BY DEF TInv, TypeOK, OwnInv, HandInv, SaveEntries
<1> QED BY <1>1, <1>2, <1>3 DEF TInv

LEMMA AgainKeeps == ASSUME TInv, NEW p \in Collectors, Again(p) PROVE TInv'
<1>1. TypeOK'
  BY DEF TInv, TypeOK, Again
<1>2. ASSUME NEW r \in Runs PROVE OwnInv(r)'
  BY DEF TInv, TypeOK, OwnInv, HandInv, Again
<1>3. ASSUME NEW q \in Procs PROVE HandInv(q)'
  BY DEF TInv, TypeOK, OwnInv, HandInv, Again
<1> QED BY <1>1, <1>2, <1>3 DEF TInv

LEMMA DieKeeps == ASSUME TInv, NEW p \in Procs, Die(p) PROVE TInv'
<1>1. TypeOK'
  BY DEF TInv, TypeOK, Die
<1>2. ASSUME NEW r \in Runs PROVE OwnInv(r)'
  BY DEF TInv, TypeOK, OwnInv, HandInv, Die
<1>3. ASSUME NEW q \in Procs PROVE HandInv(q)'
  BY DEF TInv, TypeOK, OwnInv, HandInv, Die
<1> QED BY <1>1, <1>2, <1>3 DEF TInv

LEMMA DamageKeeps == ASSUME TInv, NEW d \in Dirs, Damage(d) PROVE TInv'
<1>1. Unreadable \in Markers /\ Unreadable # None /\ Unreadable.kept = FALSE
  BY UnreadableMarker
<1>2. TypeOK'
  BY <1>1 DEF TInv, TypeOK, Damage
<1>3. ASSUME NEW r \in Runs PROVE OwnInv(r)'
  BY <1>1 DEF TInv, TypeOK, OwnInv, Damage
<1>4. ASSUME NEW q \in Procs PROVE HandInv(q)'
  BY <1>1 DEF TInv, TypeOK, OwnInv, HandInv, Damage
<1> QED BY <1>2, <1>3, <1>4 DEF TInv

LEMMA AgeKeeps == ASSUME TInv, NEW d \in Dirs, Age(d) PROVE TInv'
<1>1. TypeOK'
  BY DEF TInv, TypeOK, Age
<1>2. ASSUME NEW r \in Runs PROVE OwnInv(r)'
  BY DEF TInv, TypeOK, OwnInv, Age
<1>3. ASSUME NEW q \in Procs PROVE HandInv(q)'
  BY DEF TInv, TypeOK, HandInv, Age
<1> QED BY <1>1, <1>2, <1>3 DEF TInv

-----------------------------------------------------------------------------
\* Nothing exists and nothing is in hand.
LEMMA OwnersStart == Init => TInv
<1> SUFFICES ASSUME Init PROVE TInv
  OBVIOUS
<1>1. TypeOK
  BY DEF Init, TypeOK
<1>2. ASSUME NEW r \in Runs PROVE OwnInv(r)
  BY <1>1 DEF Init, OwnInv
<1>3. ASSUME NEW q \in Procs PROVE HandInv(q)
  BY <1>1 DEF Init, HandInv
<1> QED BY <1>1, <1>2, <1>3 DEF TInv

\* One step of any process, of time or of decay.
LEMMA OwnersStep == TInv /\ [Next]_vars => TInv'
<1> SUFFICES ASSUME TInv, [Next]_vars PROVE TInv'
  OBVIOUS
<1>1. ASSUME NEW p \in Procs, Sweep(p) PROVE TInv'
  BY <1>1, AcquireKeeps, GoesWithoutKeeps, ListKeeps, SparesKeeps, CondemnsUnclaimedKeeps, SuspectsKeeps, ProbeKeeps,
     UnlockKeeps, RemoveKeeps, SweptKeeps DEF Sweep
<1>2. ASSUME NEW p \in Runs, Open(p) PROVE TInv'
  BY <1>2, MakeKeeps, ClaimKeeps, MarkKeeps, DiscardKeeps, OpenSharedKeeps,
     ClaimSharedKeeps, MarkSharedKeeps DEF Open
<1>3. ASSUME NEW p \in Runs, Close(p) PROVE TInv'
  BY <1>3, FinishKeeps, KeepKeeps, KeepReleasesKeeps, LoadKeeps, GivesUpKeeps,
     AppendKeeps, ReleaseKeeps, EraseKeeps DEF Close
<1>4. ASSUME NEW p \in Collectors, Collect(p) PROVE TInv'
  BY <1>4, CollectKeptKeeps, CollectGivesUpKeeps, DropEntryKeeps, KeepEntryKeeps,
     ExpireEntryKeeps, RemoveEntryKeeps, SaveEntriesKeeps, AgainKeeps DEF Collect
<1>5. CASE UNCHANGED vars
  <2>1. TypeOK'
    BY <1>5 DEF TInv, TypeOK, vars
  <2>2. ASSUME NEW r \in Runs PROVE OwnInv(r)'
    BY <1>5 DEF TInv, OwnInv, vars
  <2>3. ASSUME NEW q \in Procs PROVE HandInv(q)'
    BY <1>5 DEF TInv, HandInv, vars
  <2> QED BY <2>1, <2>2, <2>3 DEF TInv
<1> QED BY <1>1, <1>2, <1>3, <1>4, <1>5, DieKeeps, AgeKeeps, DamageKeeps DEF Next, Step

\* The invariant holds in every reachable state.
THEOREM OwnersInductive == Spec => []TInv
BY OwnersStart, OwnersStep, PTL DEF Spec

\* No sweep and no collection takes the scratch directory of a running
\* verification (tempowner.Sweep, collectKeptTemporaries).
THEOREM LiveScratchesAreSafe == Spec => []LiveIsSafe
<1>1. TInv => LiveIsSafe
  BY DEF TInv, OwnInv, LiveIsSafe
<1> QED BY <1>1, OwnersInductive, PTL

\* A run is never refused the directory it has just made (tempowner.Claim).
THEOREM OwnScratchIsFree == Spec => []OwnIsFree
<1>1. TInv => OwnIsFree
  BY DEF TInv, OwnInv, OwnIsFree
<1> QED BY <1>1, OwnersInductive, PTL

\* A directory kept before a sweep began stays out of its hands while its
\* marker lasts (classify).
THEOREM KeptScratchesAreSpared == Spec => []KeptIsSpared
<1>1. TInv => KeptIsSpared
  BY DEF TInv, HandInv, KeptIsSpared
<1> QED BY <1>1, OwnersInductive, PTL

\* A recorded keep stays in the ledger while its directory exists
\* (keptledger.Update).
THEOREM RecordsStay == Spec => []RecordsAreNotLost
<1>1. TInv => RecordsAreNotLost
  BY DEF TInv, TypeOK, OwnInv, RecordsAreNotLost
<1> QED BY <1>1, OwnersInductive, PTL

-----------------------------------------------------------------------------
(* The directory of a fixed name, which the runs share with one another.   *)
(* Whoever is about to mark it, or works in it, holds its lock; a sweep    *)
(* has only scratch directories in hand; and a run that has not come to    *)
(* claim a shared directory uses none.                                     *)

SharedInv(r) ==
    /\ pc[r] \in {"start", "list", "make", "open", "claimShared", "markShared"} \cup Sweeping \cup Claiming =>
          uses[r] = None
    /\ pc[r] = "markShared" => at[r] \in present /\ lock[at[r]] = r
    /\ pc[r] = "work" /\ uses[r] # None => uses[r] \in present /\ lock[uses[r]] = r
    /\ todo[r] \subseteq Runs
    /\ pc[r] \in {"probe", "unlock", "remove"} => at[r] \in Runs

SInv == \A r \in Runs : SharedInv(r)

\* A sweep leaves the shared directories alone.
LEMMA SweepShares ==
    ASSUME TInv, SInv, NEW p \in Runs, Sweep(p)
    PROVE  SInv'
<1> SUFFICES ASSUME NEW r \in Runs PROVE SharedInv(r)'
  BY DEF SInv
<1> USE DEF TInv, TypeOK, OwnInv, SInv, SharedInv
<1>1. CASE Acquire(p)
  BY <1>1 DEF Acquire
<1>2. CASE GoesWithout(p)
  BY <1>2 DEF GoesWithout
<1>3. CASE List(p)
  BY <1>3 DEF List
<1>4. CASE Spares(p)
  BY <1>4 DEF Spares
<1>5. CASE CondemnsUnclaimed(p)
  BY <1>5 DEF CondemnsUnclaimed
<1>6. CASE Suspects(p)
  BY <1>6 DEF Suspects
<1>7. CASE Probe(p)
  BY <1>7 DEF Probe
<1>8. CASE Unlock(p)
  BY <1>8 DEF Unlock, Free
<1>9. CASE Remove(p)
  BY <1>9 DEF Remove, RemoveAll, RemoveFails
<1>10. CASE Swept(p)
  BY <1>10 DEF Swept
<1> QED BY <1>1, <1>2, <1>3, <1>4, <1>5, <1>6, <1>7, <1>8, <1>9, <1>10 DEF Sweep

\* A run that opens claims a shared directory nobody holds.
LEMMA OpenShares ==
    ASSUME TInv, SInv, NEW p \in Runs, Open(p)
    PROVE  SInv'
<1> SUFFICES ASSUME NEW r \in Runs PROVE SharedInv(r)'
  BY DEF SInv
<1> USE DEF TInv, TypeOK, OwnInv, SInv, SharedInv
<1>1. CASE Make(p)
  BY <1>1 DEF Make
<1>2. CASE Claim(p)
  BY <1>2 DEF Claim
<1>3. CASE Mark(p)
  BY <1>3 DEF Mark, Free
<1>4. CASE Discard(p)
  BY <1>4 DEF Discard, RemoveAll, RemoveFails
<1>5. CASE OpenShared(p)
  BY <1>5 DEF OpenShared
<1>6. CASE ClaimShared(p)
  BY <1>6 DEF ClaimShared
<1>7. CASE MarkShared(p)
  BY <1>7 DEF MarkShared, Free
<1> QED BY <1>1, <1>2, <1>3, <1>4, <1>5, <1>6, <1>7 DEF Open

\* A run that leaves releases what it held.
LEMMA CloseShares ==
    ASSUME TInv, SInv, NEW p \in Runs, Close(p)
    PROVE  SInv'
<1> SUFFICES ASSUME NEW r \in Runs PROVE SharedInv(r)'
  BY DEF SInv
<1> USE DEF TInv, TypeOK, OwnInv, SInv, SharedInv
<1>1. CASE Finish(p)
  BY <1>1 DEF Finish
<1>2. CASE Keep(p)
  BY <1>2 DEF Keep
<1>3. CASE KeepReleases(p)
  BY <1>3 DEF KeepReleases, Free
<1>4. CASE Load(p)
  BY <1>4 DEF Load
<1>5. CASE GivesUp(p)
  BY <1>5 DEF GivesUp
<1>6. CASE Append(p)
  BY <1>6 DEF Append
<1>7. CASE Release(p)
  BY <1>7 DEF Release, Free
<1>8. CASE Erase(p)
  BY <1>8 DEF Erase, RemoveAll, RemoveFails
<1> QED BY <1>1, <1>2, <1>3, <1>4, <1>5, <1>6, <1>7, <1>8 DEF Close

LEMMA SharedStart == Init => SInv
BY DEF Init, SInv, SharedInv

LEMMA SharedStep ==
    ASSUME Collectors = {}, TInv, SInv, [Next]_vars
    PROVE  SInv'
<1>1. ASSUME NEW p \in Runs, Step(p) PROVE SInv'
  BY <1>1, SweepShares, OpenShares, CloseShares DEF Step
<1>2. ASSUME NEW p \in Runs, Die(p) PROVE SInv'
  <2> SUFFICES ASSUME NEW r \in Runs PROVE SharedInv(r)'
    BY DEF SInv
  <2> QED BY <1>2 DEF Die, TInv, TypeOK, OwnInv, SInv, SharedInv
<1>3. ASSUME NEW d \in Dirs, Age(d) \/ Damage(d) PROVE SInv'
  BY <1>3 DEF Age, Damage, SInv, SharedInv
<1>4. CASE UNCHANGED vars
  BY <1>4 DEF vars, SInv, SharedInv
<1> QED BY <1>1, <1>2, <1>3, <1>4 DEF Next

\* A run that uses the shared native build cache holds its lock, and the directory
\* is there, for every number of runs and faults: what claimSharedNativeBuildCache
\* gives one run it gives no other, and no sweep takes it. The hypothesis is that
\* nobody collects: a collection removes what the ledger names without asking for
\* the lock, and the ledger may name a shared directory.
THEOREM SharedIsHeld == Collectors = {} => (Spec => []LiveSharedIsSafe)
<1> SUFFICES ASSUME Collectors = {} PROVE Spec => []LiveSharedIsSafe
  OBVIOUS
<1>1. TInv /\ SInv /\ [Next]_vars => (TInv /\ SInv)'
  BY OwnersStep, SharedStep
<1>2. Init => TInv /\ SInv
  BY OwnersStart, SharedStart
<1>3. TInv /\ SInv => LiveSharedIsSafe
  BY DEF SInv, SharedInv, LiveSharedIsSafe
<1> QED BY <1>1, <1>2, <1>3, PTL DEF Spec

===============================================================================
