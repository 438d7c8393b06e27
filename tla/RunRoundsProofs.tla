---------------------------- MODULE RunRoundsProofs ----------------------------
(***************************************************************************)
(* A round closes what it opened, and an assured verdict is true of the    *)
(* content it names, for any number of processes, rounds and contents.     *)
(*                                                                         *)
(* A verdict is put together from looks at a repository that goes on        *)
(* changing: the mutants and the tests are of the copy, the checks and the  *)
(* race detector of a control that is copied later. The invariant says that *)
(* both are of the content the digest names, or that the repository is not  *)
(* that content now, so that the last comparison of digests refuses; and    *)
(* that it otherwise is one of the contents AssuredIsTrue excepts. It       *)
(* carries the control past the point where the round has closed it.        *)
(***************************************************************************)
EXTENDS RunRounds, TLAPS

Stages == Phases \cup {"idle", "waiting", "closing", "final", "put", "report"}

States == [at : Stages, round : 0..(MaxRounds - 1), copy : Trees \cup {None},
           control : Trees \cup {None}, digest : Trees \cup {None},
           prep : {"none", "running", "ready", "failed", "used"}, provided : BOOLEAN,
           verdict : Verdicts \cup {"applied", "failed", None}, mixed : BOOLEAN]

\* Nothing is open.
Closed(x) == x.copy = None /\ x.control = None /\ x.prep = "none" /\ ~x.provided

\* The phases in which the copy has its name, and those in which the control is open.
Named == {"cache", "discover", "acquire", "baseline"}
Controlled == {"settle", "measure", "graph", "race", "probe", "mutate", "repair"}

Shape(x) ==
    /\ x \in States
    /\ x.at \in {"idle", "waiting", "open", "final", "put", "report"} => Closed(x)
    /\ x.at \in Phases \ {"open"} => x.copy \in Trees
    /\ x.prep # "none" => x.copy \in Trees
    /\ x.at \in Named \cup Controlled => x.digest \in Trees
    /\ x.at \in (Phases \ {"repair"}) \cup {"waiting"} => x.verdict = None
    /\ x.at \in {"repair", "final", "put"} => x.verdict \in {"insufficient", "assured"}
    /\ x.at \in {"closing", "report"} => x.verdict # None
    /\ x.at = "report" => x.verdict # "applied"
    /\ x.verdict = "assured" => x.digest \in Trees

Typed ==
    /\ truth \in [Trees -> Findings] /\ tree \in Trees
    /\ lease \in Processes \cup {None}
    /\ stored \in [Trees -> Verdicts \cup {None}]
    /\ latest.verdict \in Verdicts \cup {"error", None} /\ raced \subseteq Trees
    /\ run = [p \in Processes |-> run[p]]
    /\ \A p \in Processes : Shape(run[p])

\* A content that is excepted, or that an assured verdict is true of.
Fine(d) == d \in raced \/ truth[d] = "sound"

\* The phases after the tests of the copy, and those after the race detector.
Measured == {"graph", "race", "probe", "mutate", "repair"}
Examined == {"probe", "mutate", "repair"}

\* What a run has looked at.
Seen(x) ==
    /\ x.at \in {"waiting", "open", "inspect", "digest"} => ~x.mixed
    /\ x.at \in Named \cup Controlled => x.copy = x.digest \/ x.digest \in raced
    /\ x.mixed => tree # x.digest \/ x.digest \in raced
    /\ x.at \in Controlled => x.control \in Trees /\ (x.control = x.digest \/ x.mixed)
    /\ x.at \in Measured => truth[x.copy] # "failing"
    /\ x.at \in Examined => truth[x.control] # "broken"
    /\ x.at = "repair" /\ x.verdict = "assured" => truth[x.copy] # "gap"
    /\ x.at \in {"closing", "final"} /\ x.verdict = "assured" => Fine(x.digest) \/ x.mixed
    /\ x.at \in {"put", "report"} /\ x.verdict = "assured" => Fine(x.digest)

Truthful == AssuredIsTrue /\ \A p \in Processes : Seen(run[p])

-----------------------------------------------------------------------------
(* Phases.                                                                 *)

\* The phases of a round, and each is followed by the next.
LEMMA PhaseNames ==
    Phases = {"open", "inspect", "digest", "cache", "discover", "acquire", "baseline",
              "settle", "measure", "graph", "race", "probe", "mutate", "repair"}
BY DEF Phases, After

LEMMA NextPhase ==
    /\ After["open"] = "inspect" /\ After["inspect"] = "digest" /\ After["digest"] = "cache"
    /\ After["cache"] = "discover" /\ After["discover"] = "acquire"
    /\ After["acquire"] = "baseline" /\ After["baseline"] = "settle"
    /\ After["settle"] = "measure" /\ After["measure"] = "graph" /\ After["graph"] = "race" 
    /\ After["race"] = "probe" /\ After["probe"] = "mutate" /\ After["mutate"] = "repair"
BY DEF After

-----------------------------------------------------------------------------
(* A step of one process.                                                  *)

LEMMA RunMoves ==
    ASSUME Typed, NEW p \in Processes, NEW x, Shape(x), run' = [run EXCEPT ![p] = x]
    PROVE  /\ run' = [q \in Processes |-> run'[q]]
           /\ \A q \in Processes : run'[q] = IF q = p THEN x ELSE run[q]
           /\ \A q \in Processes : Shape(run'[q])
BY DEF Typed

\* What was seen is still so while the excepted contents grow, and when the repository
\* becomes a content another control was copied for, that content is excepted.
LEMMA SeenStays ==
    ASSUME NEW q \in Processes, Seen(run'[q]), truth' = truth, raced \subseteq raced',
           run'[q].mixed => tree' = tree \/ tree' # run'[q].digest \/ run'[q].digest \in raced'
    PROVE  Seen(run[q])'
BY DEF Seen, Fine, Trees

\* A step in which the repository stays as it is.
LEMMA QuietStep ==
    ASSUME Typed, Truthful, NEW p \in Processes, NEW x, Shape(x), Seen(x),
           run' = [run EXCEPT ![p] = x], truth' = truth, tree' = tree, raced \subseteq raced', AssuredIsTrue'
    PROVE  Truthful'
<1>1. \A q \in Processes : Seen(run'[q])
  BY RunMoves DEF Truthful
<1>2. \A q \in Processes : Seen(run[q])'
  BY <1>1, SeenStays
<1> QED BY <1>2 DEF Truthful

-----------------------------------------------------------------------------
(* Types, and that a round closes what it opened, whatever edits race.     *)

USE DEF Named, Controlled, Stages, Verdicts

LEMMA TypedMove ==
    ASSUME Typed, NEW p \in Processes, NEW x, Shape(x), run' = [run EXCEPT ![p] = x],
           truth' = truth, tree' \in Trees, lease' \in Processes \cup {None},
           stored' \in [Trees -> Verdicts \cup {None}], latest'.verdict \in Verdicts \cup {"error", None},
           raced' \subseteq Trees
    PROVE  Typed'
<1>1. \A q \in Processes : Shape(run[q])'
  BY RunMoves DEF Shape, States, Closed, Trees
<1> QED BY <1>1, RunMoves DEF Typed

\* A process with nothing open, between rounds.
LEMMA ClosedShape ==
    ASSUME NEW x \in States, Closed(x),
           x.at \in {"idle", "waiting", "open", "final", "put", "report"},
           x.at \in {"open", "waiting"} => x.verdict = None,
           x.at \in {"final", "put"} => x.verdict \in {"insufficient", "assured"},
           x.at = "report" => x.verdict \notin {None, "applied"},
           x.verdict = "assured" => x.digest \in Trees
    PROVE  Shape(x)
<1>1. x.at \notin (Phases \ {"open"}) \cup Named \cup Controlled \cup {"closing", "repair"}
  BY PhaseNames
<1>2. x.prep = "none"
  BY DEF Closed
<1> QED BY <1>1, <1>2 DEF Shape

\* A process in a round, which has its copy.
LEMMA OpenShape ==
    ASSUME NEW x \in States, x.copy \in Trees, x.at \in Phases \ {"open"},
           x.at \in Named \cup Controlled => x.digest \in Trees,
           x.at # "repair" => x.verdict = None,
           x.at = "repair" => x.verdict \in {"insufficient", "assured"}
    PROVE  Shape(x)
<1>1. x.at \notin {"idle", "waiting", "open", "final", "put", "report", "closing"}
  BY PhaseNames
<1>2. x.verdict = "assured" => x.at \in Named \cup Controlled
  BY RoundsAssumption
<1> QED BY <1>1, <1>2 DEF Shape

\* A process that closes its round has a verdict.
LEMMA ClosingShape ==
    ASSUME NEW x \in States, x.at = "closing", x.verdict # None,
           x.prep # "none" => x.copy \in Trees,
           x.verdict = "assured" => x.digest \in Trees
    PROVE  Shape(x)
<1>1. x.at \notin Phases
  BY PhaseNames
<1> QED BY <1>1 DEF Shape

\* Between two phases, what is open stays open.
LEMMA AdvanceShape ==
    ASSUME NEW y \in States, y.copy \in Trees, y.at \in Phases \ {"repair"},
           y.at \in {"digest"} \cup Named \cup Controlled => y.digest \in Trees,
           y.at # "mutate" => y.verdict = None,
           y.at = "mutate" => y.verdict \in {"insufficient", "assured"}
    PROVE  Shape([y EXCEPT !.at = After[@]])
<1> DEFINE x == [y EXCEPT !.at = After[@]]
<1>1. /\ x.at = After[y.at]
      /\ x.copy = y.copy /\ x.digest = y.digest /\ x.verdict = y.verdict
  BY DEF States
<1>2. /\ After[y.at] \in Phases \ {"open"}
      /\ After[y.at] \in Named \cup Controlled => y.at \in {"digest"} \cup Named \cup Controlled
      /\ After[y.at] = "repair" <=> y.at = "mutate"
  BY PhaseNames, NextPhase
<1>3. x \in States
  BY <1>2 DEF States
<1> HIDE DEF x
<1>4. Shape(x)
  BY <1>1, <1>2, <1>3, OpenShape
<1> QED BY <1>4 DEF x

\* A round that is left has a verdict.
LEMMA LeaveShape ==
    ASSUME NEW y, Shape(y), y.at \in Phases,
           NEW verdict \in Verdicts \cup {"applied", "failed"},
           verdict = "assured" => y.digest \in Trees
    PROVE  Shape([y EXCEPT !.at = "closing", !.verdict = verdict])
<1> DEFINE x == [y EXCEPT !.at = "closing", !.verdict = verdict]
<1>1. y \in States /\ (y.prep # "none" => y.copy \in Trees)
  BY DEF Shape
<1>2. x \in States /\ x.at = "closing" /\ x.verdict = verdict /\ x.copy = y.copy /\ x.digest = y.digest
      /\ x.prep = y.prep
  BY <1>1 DEF States
<1>3. verdict # None
  BY RoundsAssumption
<1> HIDE DEF x
<1>4. Shape(x)
  BY <1>1, <1>2, <1>3, ClosingShape
<1> QED BY <1>4 DEF x

\* A process at rest has nothing open.
LEMMA IdleIs ==
    /\ Idle \in States /\ Closed(Idle) /\ Idle.at = "idle" /\ Idle.verdict = None
    /\ Idle.digest = None /\ Idle.round = 0 /\ Idle.mixed = FALSE
BY RoundsAssumption DEF States, Closed, Idle

LEMMA IdleShape == Shape(Idle)
BY IdleIs, ClosedShape, RoundsAssumption

\* What a process that is not in a round becomes.
LEMMA NewShape ==
    ASSUME NEW y \in States, Closed(y), NEW at \in {"idle", "waiting", "open", "final", "put", "report"},
           NEW verdict \in Verdicts \cup {"applied", "failed", None},
           at \in {"open", "waiting"} => verdict = None,
           at \in {"final", "put"} => verdict \in {"insufficient", "assured"},
           at = "report" => verdict \notin {None, "applied"},
           verdict = "assured" => y.digest \in Trees
    PROVE  Shape([y EXCEPT !.at = at, !.verdict = verdict])
<1> DEFINE x == [y EXCEPT !.at = at, !.verdict = verdict]
<1>1. at \in Stages
  BY PhaseNames
<1>2. x \in States
  BY <1>1 DEF States
<1>3. /\ x.at = at /\ x.verdict = verdict /\ x.digest = y.digest /\ x.copy = y.copy
      /\ x.control = y.control /\ x.prep = y.prep /\ x.provided = y.provided
  BY DEF States
<1>4. Closed(x)
  BY <1>3 DEF Closed
<1> HIDE DEF x
<1>5. Shape(x)
  BY <1>2, <1>3, <1>4, ClosedShape
<1> QED BY <1>5 DEF x

\* A verdict changes nothing else of a process.
LEMMA GivenVerdict ==
    ASSUME NEW y \in States, NEW verdict \in Verdicts, NEW z, z = [y EXCEPT !.verdict = verdict]
    PROVE  /\ z \in States /\ z.verdict = verdict
           /\ z.at = y.at /\ z.copy = y.copy /\ z.digest = y.digest
           /\ z.control = y.control /\ z.mixed = y.mixed
<1> HIDE DEF Verdicts, Stages
<1> QED BY DEF States

\* The same process elsewhere, with the verdict it has.
LEMMA SameVerdict ==
    ASSUME NEW y \in States, Closed(y), NEW at \in {"idle", "waiting", "open", "final", "put", "report"},
           at \in {"open", "waiting"} => y.verdict = None,
           at \in {"final", "put"} => y.verdict \in {"insufficient", "assured"},
           at = "report" => y.verdict \notin {None, "applied"},
           y.verdict = "assured" => y.digest \in Trees
    PROVE  Shape([y EXCEPT !.at = at])
<1>1. [y EXCEPT !.at = at] = [y EXCEPT !.at = at, !.verdict = y.verdict]
  BY DEF States
<1>2. y.verdict \in Verdicts \cup {"applied", "failed", None}
  BY DEF States
<1> QED BY <1>1, <1>2, NewShape

-----------------------------------------------------------------------------
(* The phases of a round. Every lemma says what the process becomes, so that *)
(* what it has seen can be told of the same state.                         *)

\* What the shape of a process in a round says.
LEMMA InRound ==
    ASSUME NEW y, Shape(y), y.at \in Phases \ {"open"}
    PROVE  /\ y \in States /\ y.copy \in Trees
           /\ y.at \in Named \cup Controlled => y.digest \in Trees
           /\ y.at # "repair" => y.verdict = None
           /\ y.at = "repair" => y.verdict \in {"insufficient", "assured"}
BY DEF Shape

\* A phase that keeps to what the round has.
LEMMA KeepsShape ==
    ASSUME NEW y, Shape(y), y.at \in Phases \ {"open", "digest", "mutate", "repair"}
    PROVE  Shape([y EXCEPT !.at = After[@]])
BY InRound, AdvanceShape

\* The copy is made.
LEMMA OpenedShape ==
    ASSUME Typed, NEW y, Shape(y), y.at = "open"
    PROVE  Shape([[y EXCEPT !.copy = tree] EXCEPT !.at = After[@]])
<1> DEFINE z == [y EXCEPT !.copy = tree]
<1>1. y \in States /\ y.verdict = None /\ tree \in Trees
  BY PhaseNames DEF Shape, Typed
<1>2. z \in States /\ z.copy = tree /\ z.at = "open" /\ z.verdict = None
  BY <1>1 DEF States
<1> HIDE DEF z
<1>3. Shape([z EXCEPT !.at = After[@]])
  BY <1>1, <1>2, PhaseNames, AdvanceShape
<1> QED BY <1>3 DEF z

\* The copy is given its name.
LEMMA DigestedShape ==
    ASSUME Typed, NEW y, Shape(y), y.at = "digest"
    PROVE  Shape([[y EXCEPT !.digest = tree] EXCEPT !.at = After[@]])
<1> DEFINE z == [y EXCEPT !.digest = tree]
<1>1. y \in States /\ y.copy \in Trees /\ y.verdict = None /\ tree \in Trees
  BY PhaseNames, InRound DEF Typed
<1>2. z \in States /\ z.copy \in Trees /\ z.digest = tree /\ z.at = "digest" /\ z.verdict = None
  BY <1>1 DEF States
<1> HIDE DEF z
<1>3. Shape([z EXCEPT !.at = After[@]])
  BY <1>1, <1>2, PhaseNames, AdvanceShape
<1> QED BY <1>3 DEF z

\* The resources are there, and preparation has begun.
LEMMA AcquiredShape ==
    ASSUME NEW y, Shape(y), y.at = "acquire"
    PROVE  Shape([[y EXCEPT !.provided = TRUE, !.prep = "running"] EXCEPT !.at = After[@]])
<1> DEFINE z == [y EXCEPT !.provided = TRUE, !.prep = "running"]
<1>1. y \in States /\ y.copy \in Trees /\ y.verdict = None /\ y.digest \in Trees
  BY PhaseNames, InRound
<1>2. z \in States /\ z.copy \in Trees /\ z.digest \in Trees /\ z.at = "acquire" /\ z.verdict = None
  BY <1>1 DEF States
<1> HIDE DEF z
<1>3. Shape([z EXCEPT !.at = After[@]])
  BY <1>2, PhaseNames, AdvanceShape
<1> QED BY <1>3 DEF z

\* The control is open, and its checks pass, or end the round.
LEMMA ControlShape ==
    ASSUME Typed, NEW y, Shape(y), y.at = "baseline", NEW mixed \in BOOLEAN
    PROVE  /\ Shape([[y EXCEPT !.control = tree, !.mixed = mixed] EXCEPT !.at = After[@]])
           /\ Shape([[y EXCEPT !.control = tree, !.mixed = mixed] EXCEPT !.at = "closing", !.verdict = "defect"])
<1> DEFINE z == [y EXCEPT !.control = tree, !.mixed = mixed]
<1>1. y \in States /\ y.copy \in Trees /\ y.verdict = None /\ y.digest \in Trees /\ tree \in Trees
  BY PhaseNames, InRound DEF Typed
<1>2. z \in States /\ z.copy \in Trees /\ z.digest \in Trees /\ z.at = "baseline" /\ z.verdict = None
  BY <1>1 DEF States
<1> HIDE DEF z
<1>3. Shape([z EXCEPT !.at = After[@]])
  BY <1>2, PhaseNames, AdvanceShape
<1>4. Shape(z)
  BY <1>2, PhaseNames, OpenShape
<1>5. Shape([z EXCEPT !.at = "closing", !.verdict = "defect"])
  BY <1>2, <1>4, PhaseNames, LeaveShape
<1> QED BY <1>3, <1>5 DEF z

\* The session is handed to the round.
LEMMA AcceptedShape ==
    ASSUME NEW y, Shape(y), y.at = "settle"
    PROVE  Shape([[y EXCEPT !.prep = "used"] EXCEPT !.at = After[@]])
<1> DEFINE z == [y EXCEPT !.prep = "used"]
<1>1. y \in States /\ y.copy \in Trees /\ y.verdict = None /\ y.digest \in Trees
  BY PhaseNames, InRound
<1>2. z \in States /\ z.copy \in Trees /\ z.digest \in Trees /\ z.at = "settle" /\ z.verdict = None
  BY <1>1 DEF States
<1> HIDE DEF z
<1>3. Shape([z EXCEPT !.at = After[@]])
  BY <1>2, PhaseNames, AdvanceShape
<1> QED BY <1>3 DEF z

\* The mutants are executed, and there is a verdict.
LEMMA EvaluatedShape ==
    ASSUME NEW y, Shape(y), y.at = "mutate", NEW verdict \in {"insufficient", "assured"}
    PROVE  Shape([[y EXCEPT !.verdict = verdict] EXCEPT !.at = After[@]])
<1> DEFINE z == [y EXCEPT !.verdict = verdict]
<1>1. y \in States /\ y.copy \in Trees /\ y.digest \in Trees
  BY PhaseNames, InRound
<1>2. z \in States /\ z.copy \in Trees /\ z.digest \in Trees /\ z.at = "mutate" /\ z.verdict = verdict
  <2>1. z = [y EXCEPT !.verdict = verdict] /\ verdict \in Verdicts
    OBVIOUS
  <2> HIDE DEF z
  <2> QED BY <1>1, <2>1, GivenVerdict
<1> HIDE DEF z
<1>3. Shape([z EXCEPT !.at = After[@]])
  BY <1>2, PhaseNames, AdvanceShape
<1> QED BY <1>3 DEF z

\* Preparation ends, one way or another.
LEMMA PreparedShape ==
    ASSUME NEW y, Shape(y), y.prep = "running", NEW result \in {"ready", "failed"}
    PROVE  Shape([y EXCEPT !.prep = result])
<1> DEFINE z == [y EXCEPT !.prep = result]
<1>1. y \in States /\ y.copy \in Trees
  BY DEF Shape
<1>2. ~Closed(y)
  BY DEF Closed
<1>3. /\ z \in States /\ z.copy = y.copy /\ z.digest = y.digest /\ z.at = y.at
      /\ z.verdict = y.verdict
  BY <1>1 DEF States
<1> HIDE DEF z
<1>4. Shape(z)
  BY <1>1, <1>2, <1>3 DEF Shape
<1> QED BY <1>4 DEF z

\* The cache answers with what it holds.
LEMMA HitShape ==
    ASSUME NEW digest \in Trees, NEW verdict \in Verdicts \cup {"failed"}
    PROVE  Shape([Idle EXCEPT !.at = "report", !.verdict = verdict, !.digest = digest])
<1> DEFINE z == [Idle EXCEPT !.at = "report", !.verdict = verdict, !.digest = digest]
<1>1. z \in States
  BY IdleIs DEF States
<1>2. Closed(z) /\ z.at = "report" /\ z.verdict = verdict /\ z.digest = digest
  BY DEF Closed, Idle
<1> HIDE DEF z
<1>3. Shape(z)
  BY <1>1, <1>2, ClosedShape, RoundsAssumption
<1> QED BY <1>3 DEF z

-----------------------------------------------------------------------------
(* What the phases of a round have seen.                                   *)

\* From one phase to the next, a run has seen what it had, and what the phase found.
LEMMA AdvanceSeen ==
    ASSUME NEW z \in States, z.at \in Phases \ {"repair"},
           z.at \in {"open", "inspect"} => ~z.mixed,
           z.at \in {"digest"} \cup Named \cup Controlled => z.copy = z.digest \/ z.digest \in raced,
           z.mixed => tree # z.digest \/ z.digest \in raced,
           z.at \in {"baseline"} \cup Controlled => z.control \in Trees /\ (z.control = z.digest \/ z.mixed),
           z.at \in {"measure"} \cup Measured => truth[z.copy] # "failing",
           z.at \in {"race"} \cup Examined => truth[z.control] # "broken",
           z.at # "mutate" => z.verdict = None,
           z.at = "mutate" /\ z.verdict = "assured" => truth[z.copy] # "gap"
    PROVE  Seen([z EXCEPT !.at = After[@]])
<1> DEFINE x == [z EXCEPT !.at = After[@]]
<1>1. /\ x.at = After[z.at] /\ x.copy = z.copy /\ x.digest = z.digest /\ x.verdict = z.verdict
      /\ x.control = z.control /\ x.mixed = z.mixed
  BY DEF States
<1>2. /\ After[z.at] \in {"waiting", "open", "inspect", "digest"} => z.at \in {"open", "inspect"}
      /\ After[z.at] \in Named \cup Controlled => z.at \in {"digest"} \cup Named \cup Controlled
      /\ After[z.at] \in Controlled => z.at \in {"baseline"} \cup Controlled
      /\ After[z.at] \in Measured => z.at \in {"measure"} \cup Measured
      /\ After[z.at] \in Examined => z.at \in {"race"} \cup Examined
      /\ After[z.at] \in Phases
      /\ z.at = "mutate" => After[z.at] = "repair"
  BY PhaseNames, NextPhase DEF Measured, Examined
<1> HIDE DEF x
<1>3. x.at \notin {"closing", "final", "put", "report"}
  BY <1>1, <1>2, PhaseNames
<1>4. x.verdict = "assured" => z.at = "mutate"
  BY <1>1, RoundsAssumption
<1>5. Seen(x)
  BY <1>1, <1>2, <1>3, <1>4 DEF Seen
<1> QED BY <1>5 DEF x

\* What a run has seen before a phase that looks at nothing new.
LEMMA KeepsWhatSeen ==
    ASSUME NEW y, Seen(y), y.at \in Phases \ {"repair"}
    PROVE  /\ y.at \in {"open", "inspect"} => ~y.mixed
           /\ y.at \in Named \cup Controlled => y.copy = y.digest \/ y.digest \in raced
           /\ y.mixed => tree # y.digest \/ y.digest \in raced
           /\ y.at \in Controlled => y.control \in Trees /\ (y.control = y.digest \/ y.mixed)
           /\ y.at \in Measured => truth[y.copy] # "failing"
           /\ y.at \in Examined => truth[y.control] # "broken"
BY DEF Seen

\* A phase that keeps to what the round has, and has found nothing against it.
LEMMA KeepsSeen ==
    ASSUME NEW y, Shape(y), Seen(y), y.at \in Phases \ {"open", "digest", "baseline", "mutate", "repair"},
           y.at = "measure" => truth[y.copy] # "failing",
           y.at = "race" => truth[y.control] # "broken"
    PROVE  Seen([y EXCEPT !.at = After[@]])
<1>1. y \in States /\ y.verdict = None
  BY InRound
<1>2. y.at \in Phases \ {"repair"} /\ y.at \notin {"digest", "baseline", "mutate"}
  OBVIOUS
<1> QED BY <1>1, <1>2, KeepsWhatSeen, AdvanceSeen

\* A round that is left keeps what it has seen if it is answered for.
LEMMA LeaveSeen ==
    ASSUME NEW y \in States, NEW verdict,
           y.mixed => tree # y.digest \/ y.digest \in raced,
           verdict = "assured" => Fine(y.digest) \/ y.mixed
    PROVE  Seen([y EXCEPT !.at = "closing", !.verdict = verdict])
<1> DEFINE x == [y EXCEPT !.at = "closing", !.verdict = verdict]
<1>1. x.at = "closing" /\ x.digest = y.digest /\ x.verdict = verdict /\ x.mixed = y.mixed
  BY DEF States
<1> HIDE DEF x
<1>2. Seen(x)
  BY <1>1 DEF Seen, Measured, Examined
<1> QED BY <1>2 DEF x

\* What a step of a process that leaves the repository alone makes of it: a state that
\* is well formed, and that has seen what it says if every state had.
Moves(p) ==
    \E x : run' = [run EXCEPT ![p] = x] /\ Shape(x) /\ (Truthful => Seen(x))

\* The phases that keep to what the round has.
LEMMA KeepingMoves ==
    ASSUME Typed, NEW p \in Processes,
           InspectWorkspace(p) \/ Discover(p) \/ BuildGraph(p) \/ ProbeTargets(p)
    PROVE  Moves(p)
<1>1. Shape(run[p]) /\ run[p].at \in {"inspect", "discover", "graph", "probe"}
  BY DEF Typed, InspectWorkspace, Discover, BuildGraph, ProbeTargets
<1>2. Shape([run[p] EXCEPT !.at = After[@]])
  BY <1>1, KeepsShape, PhaseNames
<1>3. Truthful => Seen([run[p] EXCEPT !.at = After[@]])
  BY <1>1, KeepsSeen, PhaseNames DEF Truthful
<1>4. run' = [run EXCEPT ![p] = [run[p] EXCEPT !.at = After[@]]]
  BY DEF InspectWorkspace, Discover, BuildGraph, ProbeTargets, Advance, Become
<1> QED BY <1>2, <1>3, <1>4 DEF Moves

LEMMA OpenMoves ==
    ASSUME Typed, NEW p \in Processes, OpenWorkspace(p)
    PROVE  Moves(p)
<1> DEFINE z == [run[p] EXCEPT !.copy = tree]
<1>1. Shape(run[p]) /\ run[p].at = "open" /\ run[p] \in States /\ run[p].verdict = None /\ tree \in Trees
  BY PhaseNames DEF Typed, OpenWorkspace, Shape
<1>2. z \in States /\ z.at = "open" /\ z.copy = tree /\ z.verdict = None /\ z.mixed = run[p].mixed
  BY <1>1 DEF States
<1>3. run' = [run EXCEPT ![p] = [z EXCEPT !.at = After[@]]]
  BY DEF OpenWorkspace, Advance, Become
<1>4. Shape([z EXCEPT !.at = After[@]])
  BY <1>1, OpenedShape
<1> HIDE DEF z
<1>5. ASSUME Truthful PROVE ~z.mixed
  BY <1>1, <1>2, <1>5 DEF Truthful, Seen
<1>6. Truthful => Seen([z EXCEPT !.at = After[@]])
  BY <1>2, <1>5, AdvanceSeen, PhaseNames DEF Measured, Examined
<1> QED BY <1>3, <1>4, <1>6 DEF Moves

\* The copy is given its name, or the content that is named is one of the excepted.
LEMMA DigestMoves ==
    ASSUME Typed, NEW p \in Processes, Digest(p)
    PROVE  \E x : /\ run' = [run EXCEPT ![p] = x] /\ Shape(x)
                  /\ Truthful /\ run'[p] = x => Seen(run[p])'
<1> DEFINE z == [run[p] EXCEPT !.digest = tree]
           x == [z EXCEPT !.at = After[@]]
<1>1. Shape(run[p]) /\ run[p].at = "digest" /\ tree \in Trees
  BY DEF Typed, Digest
<1>2. run[p] \in States /\ run[p].verdict = None
  BY <1>1, InRound, PhaseNames
<1>3. z \in States /\ z.at = "digest" /\ z.copy = run[p].copy /\ z.digest = tree /\ z.verdict = None
      /\ z.mixed = run[p].mixed
  BY <1>1, <1>2 DEF States
<1>4. run' = [run EXCEPT ![p] = x]
  BY DEF Digest, Advance, Become
<1>5. Shape(x)
  BY <1>1, DigestedShape
<1> HIDE DEF z
<1>6. x.at = "cache" /\ x.copy = z.copy /\ x.digest = tree /\ x.verdict = None /\ x.mixed = run[p].mixed
  BY <1>3, NextPhase DEF States
<1> HIDE DEF x
<1>7. ASSUME Truthful, run'[p] = x PROVE Seen(run[p])'
  <2>1. ~x.mixed
    BY <1>1, <1>6, <1>7 DEF Truthful, Seen
  <2>2. x.copy = tree \/ tree \in raced'
    BY <1>3, <1>6 DEF Digest
  <2> QED BY <1>6, <1>7, <2>1, <2>2, RoundsAssumption DEF Seen, Measured, Examined
<1> QED BY <1>4, <1>5, <1>7

LEMMA AcquireMoves ==
    ASSUME Typed, NEW p \in Processes, AcquireResources(p)
    PROVE  Moves(p)
<1> DEFINE z == [run[p] EXCEPT !.provided = TRUE, !.prep = "running"]
<1>1. Shape(run[p]) /\ run[p].at = "acquire"
  BY DEF Typed, AcquireResources
<1>2. run[p] \in States /\ run[p].verdict = None
  BY <1>1, InRound, PhaseNames
<1>3. /\ z \in States /\ z.at = "acquire" /\ z.copy = run[p].copy /\ z.digest = run[p].digest
      /\ z.verdict = None /\ z.mixed = run[p].mixed
  BY <1>1, <1>2 DEF States
<1>4. run' = [run EXCEPT ![p] = [z EXCEPT !.at = After[@]]]
  BY DEF AcquireResources, Advance, Become
<1>5. Shape([z EXCEPT !.at = After[@]])
  BY <1>1, AcquiredShape
<1> HIDE DEF z
<1>6. ASSUME Truthful
      PROVE  /\ z.copy = z.digest \/ z.digest \in raced
             /\ z.mixed => tree # z.digest \/ z.digest \in raced
  BY <1>1, <1>3, <1>6 DEF Truthful, Seen
<1>7. Truthful => Seen([z EXCEPT !.at = After[@]])
  BY <1>3, <1>6, AdvanceSeen, PhaseNames DEF Measured, Examined
<1> QED BY <1>4, <1>5, <1>7 DEF Moves

\* A verdict that is served is of the content that was asked about.
LEMMA CacheMoves ==
    ASSUME Typed, NEW p \in Processes, CacheCheck(p)
    PROVE  Moves(p)
<1>1. Shape(run[p]) /\ run[p].at = "cache"
  BY DEF Typed, CacheCheck
<1>2. run[p].digest \in Trees
  BY <1>1, InRound, PhaseNames
<1>3. CASE run' = [run EXCEPT ![p] = [run[p] EXCEPT !.at = After[@]]]
  <2>1. Shape([run[p] EXCEPT !.at = After[@]])
    BY <1>1, KeepsShape, PhaseNames
  <2>2. Truthful => Seen([run[p] EXCEPT !.at = After[@]])
    BY <1>1, KeepsSeen, PhaseNames DEF Truthful
  <2> QED BY <1>3, <2>1, <2>2 DEF Moves
<1>4. CASE stored[run[p].digest] # None
           /\ \E verdict \in {stored[run[p].digest], "failed"} :
                 run' = [run EXCEPT ![p] = [Idle EXCEPT !.at = "report", !.verdict = verdict,
                                                        !.digest = run[p].digest]]
  <2>1. PICK verdict \in {stored[run[p].digest], "failed"} :
                 run' = [run EXCEPT ![p] = [Idle EXCEPT !.at = "report", !.verdict = verdict,
                                                        !.digest = run[p].digest]]
    BY <1>4
  <2> DEFINE x == [Idle EXCEPT !.at = "report", !.verdict = verdict, !.digest = run[p].digest]
  <2>2. verdict \in Verdicts \cup {"failed"}
    BY <1>2, <1>4 DEF Typed
  <2>3. Shape(x)
    BY <1>2, <2>2, HitShape
  <2>4. x.at = "report" /\ x.verdict = verdict /\ x.digest = run[p].digest /\ ~x.mixed
    BY DEF Idle
  <2>5. run' = [run EXCEPT ![p] = x]
    BY <2>1
  <2> HIDE DEF x
  <2>6. ASSUME Truthful PROVE Seen(x)
    <3>1. verdict = "assured" => Fine(run[p].digest)
      BY <1>2, <2>6 DEF Truthful, AssuredIsTrue, Fine
    <3> QED BY <2>4, <3>1 DEF Seen, Measured, Examined
  <2> QED BY <2>3, <2>5, <2>6 DEF Moves
<1> QED BY <1>3, <1>4 DEF CacheCheck, Advance, Become

\* The control is of what the repository is: of what the digest names, or mixed with it.
LEMMA BaselineMoves ==
    ASSUME Typed, NEW p \in Processes, CollectBaseline(p)
    PROVE  Moves(p)
<1> DEFINE z == [run[p] EXCEPT !.control = tree, !.mixed = tree # run[p].digest]
<1>1. Shape(run[p]) /\ run[p].at = "baseline" /\ tree \in Trees /\ (tree # run[p].digest) \in BOOLEAN
  BY DEF Typed, CollectBaseline
<1>2. run[p] \in States /\ run[p].verdict = None
  BY <1>1, InRound, PhaseNames
<1>3. /\ z \in States /\ z.at = "baseline" /\ z.copy = run[p].copy /\ z.digest = run[p].digest
      /\ z.verdict = None /\ z.control = tree /\ z.mixed = (tree # z.digest)
  BY <1>1, <1>2 DEF States
<1>4. /\ Shape([z EXCEPT !.at = After[@]])
      /\ Shape([z EXCEPT !.at = "closing", !.verdict = "defect"])
  BY <1>1, ControlShape
<1>5. \/ run' = [run EXCEPT ![p] = [z EXCEPT !.at = "closing", !.verdict = "defect"]]
      \/ run' = [run EXCEPT ![p] = [z EXCEPT !.at = After[@]]]
  BY DEF CollectBaseline, Leave, Advance, Become
<1> HIDE DEF z
<1>6. ASSUME Truthful PROVE z.copy = z.digest \/ z.digest \in raced
  BY <1>1, <1>3, <1>6 DEF Truthful, Seen
<1>7. CASE run' = [run EXCEPT ![p] = [z EXCEPT !.at = After[@]]]
  <2>1. Truthful => Seen([z EXCEPT !.at = After[@]])
    BY <1>1, <1>3, <1>6, AdvanceSeen, PhaseNames DEF Measured, Examined
  <2> QED BY <1>4, <1>7, <2>1 DEF Moves
<1>8. CASE run' = [run EXCEPT ![p] = [z EXCEPT !.at = "closing", !.verdict = "defect"]]
  <2>1. Seen([z EXCEPT !.at = "closing", !.verdict = "defect"])
    BY <1>3, LeaveSeen
  <2> QED BY <1>4, <1>8, <2>1 DEF Moves
<1> QED BY <1>5, <1>7, <1>8

\* A round that is left without an answer.
LEMMA LeaveMoves ==
    ASSUME Typed, NEW p \in Processes, run[p].at \in Phases, NEW verdict \in {"defect", "failed"},
           Leave(p, run[p], verdict)
    PROVE  Moves(p)
<1>1. Shape(run[p]) /\ run[p] \in States
  BY DEF Typed, Shape
<1>2. Shape([run[p] EXCEPT !.at = "closing", !.verdict = verdict])
  BY <1>1, LeaveShape
<1>3. ASSUME Truthful PROVE run[p].mixed => tree # run[p].digest \/ run[p].digest \in raced
  BY <1>3 DEF Truthful, Seen
<1>4. Truthful => Seen([run[p] EXCEPT !.at = "closing", !.verdict = verdict])
  BY <1>1, <1>3, LeaveSeen
<1> QED BY <1>2, <1>4 DEF Leave, Become, Moves

LEMMA AcceptMoves ==
    ASSUME Typed, NEW p \in Processes, AcceptPreparation(p)
    PROVE  Moves(p)
<1> DEFINE z == [run[p] EXCEPT !.prep = "used"]
<1>1. Shape(run[p]) /\ run[p].at = "settle"
  BY DEF Typed, AcceptPreparation
<1>2. run[p] \in States /\ run[p].verdict = None
  BY <1>1, InRound, PhaseNames
<1>3. CASE Leave(p, run[p], "failed")
  BY <1>1, <1>3, LeaveMoves, PhaseNames
<1>4. CASE Advance(p, z)
  <2>1. /\ z \in States /\ z.at = "settle" /\ z.copy = run[p].copy /\ z.digest = run[p].digest
        /\ z.verdict = None /\ z.control = run[p].control /\ z.mixed = run[p].mixed
    BY <1>1, <1>2 DEF States
  <2>2. run' = [run EXCEPT ![p] = [z EXCEPT !.at = After[@]]]
    BY <1>4 DEF Advance, Become
  <2>3. Shape([z EXCEPT !.at = After[@]])
    BY <1>1, AcceptedShape
  <2> HIDE DEF z
  <2>4. ASSUME Truthful
        PROVE  /\ z.copy = z.digest \/ z.digest \in raced
               /\ z.mixed => tree # z.digest \/ z.digest \in raced
               /\ z.control \in Trees /\ (z.control = z.digest \/ z.mixed)
    BY <1>1, <2>1, <2>4 DEF Truthful, Seen
  <2>5. Truthful => Seen([z EXCEPT !.at = After[@]])
    BY <2>1, <2>4, AdvanceSeen, PhaseNames DEF Measured, Examined
  <2> QED BY <2>2, <2>3, <2>5 DEF Moves
<1> QED BY <1>3, <1>4 DEF AcceptPreparation

\* A phase that looks at a copy, and goes on or leaves with what it found.
LEMMA LookMoves ==
    ASSUME Typed, NEW p \in Processes, MeasureBaseline(p) \/ CollectRace(p)
    PROVE  Moves(p)
<1>1. Shape(run[p]) /\ run[p].at \in {"measure", "race"} /\ run[p].at \in Phases
  BY PhaseNames DEF Typed, MeasureBaseline, CollectRace
<1>2. CASE Leave(p, run[p], "defect")
  BY <1>1, <1>2, LeaveMoves
<1>3. CASE /\ Advance(p, run[p])
           /\ run[p].at = "measure" => truth[run[p].copy] # "failing"
           /\ run[p].at = "race" => truth[run[p].control] # "broken"
  <2>1. Shape([run[p] EXCEPT !.at = After[@]])
    BY <1>1, KeepsShape, PhaseNames
  <2>2. Truthful => Seen([run[p] EXCEPT !.at = After[@]])
    BY <1>1, <1>3, KeepsSeen, PhaseNames DEF Truthful
  <2> QED BY <1>3, <2>1, <2>2 DEF Advance, Become, Moves
<1> QED BY <1>2, <1>3 DEF MeasureBaseline, CollectRace

\* What is assured had no mutant left in the copy.
LEMMA EvaluateMoves ==
    ASSUME Typed, NEW p \in Processes, EvaluateMutations(p)
    PROVE  Moves(p)
<1>1. Shape(run[p]) /\ run[p].at = "mutate"
  BY DEF Typed, EvaluateMutations
<1>2. run[p] \in States
  BY <1>1, InRound, PhaseNames
<1>3. PICK verdict \in {"insufficient", "assured"} :
          /\ verdict = "assured" => truth[run[p].copy] # "gap"
          /\ Advance(p, [run[p] EXCEPT !.verdict = verdict])
  BY DEF EvaluateMutations
<1> DEFINE z == [run[p] EXCEPT !.verdict = verdict]
<1>4. /\ z \in States /\ z.at = "mutate" /\ z.copy = run[p].copy /\ z.digest = run[p].digest
      /\ z.verdict = verdict /\ z.control = run[p].control /\ z.mixed = run[p].mixed
  <2>1. z = [run[p] EXCEPT !.verdict = verdict] /\ verdict \in Verdicts
    OBVIOUS
  <2>2. run[p].at = "mutate" /\ run[p] \in States
    BY <1>1, <1>2
  <2> HIDE DEF z
  <2> QED BY <2>1, <2>2, GivenVerdict
<1>5. run' = [run EXCEPT ![p] = [z EXCEPT !.at = After[@]]]
  BY <1>3 DEF Advance, Become
<1>6. Shape([z EXCEPT !.at = After[@]])
  BY <1>1, EvaluatedShape
<1> HIDE DEF z
<1>7. ASSUME Truthful
      PROVE  /\ z.copy = z.digest \/ z.digest \in raced
             /\ z.mixed => tree # z.digest \/ z.digest \in raced
             /\ z.control \in Trees /\ (z.control = z.digest \/ z.mixed)
             /\ truth[z.copy] # "failing" /\ truth[z.control] # "broken"
             /\ verdict = "assured" => truth[z.copy] # "gap"
  BY <1>1, <1>3, <1>4, <1>7 DEF Truthful, Seen, Measured, Examined
<1>8. Truthful => Seen([z EXCEPT !.at = After[@]])
  BY <1>4, <1>7, AdvanceSeen, PhaseNames
<1> QED BY <1>5, <1>6, <1>8 DEF Moves

\* Preparation is in the background of all this.
LEMMA PrepareMoves ==
    ASSUME Typed, NEW p \in Processes, Prepare(p)
    PROVE  Moves(p)
<1>1. Shape(run[p]) /\ run[p].prep = "running" /\ run[p] \in States
  BY DEF Typed, Prepare, Shape
<1>2. PICK result \in {"ready", "failed"} : run' = [run EXCEPT ![p] = [run[p] EXCEPT !.prep = result]]
  BY DEF Prepare, Become
<1> DEFINE x == [run[p] EXCEPT !.prep = result]
<1>3. Shape(x)
  BY <1>1, PreparedShape
<1>4. /\ x.at = run[p].at /\ x.copy = run[p].copy /\ x.digest = run[p].digest
      /\ x.verdict = run[p].verdict /\ x.control = run[p].control /\ x.mixed = run[p].mixed
  BY <1>1 DEF States
<1>5. run' = [run EXCEPT ![p] = x]
  BY <1>2
<1> HIDE DEF x
<1>6. ASSUME Truthful PROVE Seen(x)
  BY <1>4, <1>6 DEF Truthful, Seen
<1> QED BY <1>3, <1>5, <1>6 DEF Moves

-----------------------------------------------------------------------------
(* Between the rounds.                                                     *)

\* What a process that is not in a round has seen.
LEMMA NewSeen ==
    ASSUME NEW y \in States, NEW at \in {"idle", "waiting", "open", "final", "put", "report"}, NEW verdict,
           at \in {"waiting", "open"} => ~y.mixed,
           y.mixed => tree # y.digest \/ y.digest \in raced,
           at = "final" /\ verdict = "assured" => Fine(y.digest) \/ y.mixed,
           at \in {"put", "report"} /\ verdict = "assured" => Fine(y.digest)
    PROVE  Seen([y EXCEPT !.at = at, !.verdict = verdict])
<1> DEFINE x == [y EXCEPT !.at = at, !.verdict = verdict]
<1>1. x.at = at /\ x.digest = y.digest /\ x.verdict = verdict /\ x.mixed = y.mixed
  BY DEF States
<1> HIDE DEF x
<1>2. Seen(x)
  BY <1>1 DEF Seen, Measured, Examined
<1> QED BY <1>2 DEF x

LEMMA SameSeen ==
    ASSUME NEW y \in States, NEW at \in {"idle", "waiting", "open", "final", "put", "report"},
           at \in {"waiting", "open"} => ~y.mixed,
           y.mixed => tree # y.digest \/ y.digest \in raced,
           at = "final" /\ y.verdict = "assured" => Fine(y.digest) \/ y.mixed,
           at \in {"put", "report"} /\ y.verdict = "assured" => Fine(y.digest)
    PROVE  Seen([y EXCEPT !.at = at])
<1>1. [y EXCEPT !.at = at] = [y EXCEPT !.at = at, !.verdict = y.verdict]
  BY DEF States
<1> QED BY <1>1, NewSeen

LEMMA IdleSeen == Seen(Idle)
BY RoundsAssumption DEF Seen, Idle, Measured, Examined

LEMMA StartMoves ==
    ASSUME Typed, NEW p \in Processes, Start(p) \/ AcquireLease(p) \/ LeaseFails(p)
    PROVE  Moves(p)
<1> DEFINE y == run[p]
<1>1. Shape(y) /\ y \in States
  BY DEF Typed, Shape
<1>2. CASE Start(p)
  <2>1. Shape([Idle EXCEPT !.at = "waiting"])
    BY IdleIs, SameVerdict, RoundsAssumption
  <2>2. Seen([Idle EXCEPT !.at = "waiting"])
    BY IdleIs, SameSeen
  <2> QED BY <1>2, <2>1, <2>2 DEF Start, Become, Moves
<1>3. CASE AcquireLease(p)
  <2>1. y.at = "waiting" /\ Closed(y) /\ y.verdict = None
    BY <1>1, <1>3 DEF AcquireLease, Shape
  <2>2. Shape([y EXCEPT !.at = "open"])
    BY <1>1, <2>1, SameVerdict, RoundsAssumption
  <2>3. ASSUME Truthful PROVE Seen([y EXCEPT !.at = "open"])
    <3>1. ~y.mixed
      BY <2>1, <2>3 DEF Truthful, Seen
    <3> QED BY <1>1, <3>1, SameSeen
  <2> QED BY <1>3, <2>2, <2>3 DEF AcquireLease, Become, Moves
<1>4. CASE LeaseFails(p)
  <2>1. \A at \in {"open", "idle"} : Shape([Idle EXCEPT !.at = at])
    BY IdleIs, SameVerdict, RoundsAssumption
  <2>2. \A at \in {"open", "idle"} : Seen([Idle EXCEPT !.at = at])
    BY IdleIs, SameSeen
  <2> QED BY <1>4, <2>1, <2>2 DEF LeaseFails, Become, Moves
<1> QED BY <1>2, <1>3, <1>4

\* What is still what it was when the round began is what the checks passed on.
LEMMA FinalMoves ==
    ASSUME Typed, NEW p \in Processes, Final(p)
    PROVE  Moves(p)
<1> DEFINE y == run[p]
<1>1. Shape(y) /\ y \in States /\ y.at = "final"
  BY DEF Typed, Shape, Final
<1>2. Closed(y) /\ y.verdict \in {"insufficient", "assured"}
      /\ (y.verdict = "assured" => y.digest \in Trees)
  BY <1>1 DEF Shape
<1>3. CASE tree = y.digest /\ run' = [run EXCEPT ![p] = [y EXCEPT !.at = "put"]]
  <2>1. Shape([y EXCEPT !.at = "put"])
    BY <1>1, <1>2, SameVerdict, RoundsAssumption
  <2>2. ASSUME Truthful
        PROVE  /\ y.mixed => y.digest \in raced
               /\ y.verdict = "assured" => Fine(y.digest)
    BY <1>1, <1>3, <2>2 DEF Truthful, Seen, Fine
  <2>3. Truthful => Seen([y EXCEPT !.at = "put"])
    BY <1>1, <2>2, SameSeen
  <2> QED BY <1>3, <2>1, <2>3 DEF Moves
<1>4. CASE run' = [run EXCEPT ![p] = [y EXCEPT !.at = "report", !.verdict = "failed"]]
  <2>1. Shape([y EXCEPT !.at = "report", !.verdict = "failed"])
    BY <1>1, <1>2, NewShape, RoundsAssumption
  <2>2. ASSUME Truthful PROVE y.mixed => tree # y.digest \/ y.digest \in raced
    BY <2>2 DEF Truthful, Seen
  <2>3. Truthful => Seen([y EXCEPT !.at = "report", !.verdict = "failed"])
    BY <1>1, <2>2, NewSeen
  <2> QED BY <1>4, <2>1, <2>3 DEF Moves
<1> QED BY <1>3, <1>4 DEF Final, StillCurrent, Become

LEMMA EndMoves ==
    ASSUME Typed, NEW p \in Processes, Put(p) \/ Report(p) \/ Die(p)
    PROVE  Moves(p)
<1> DEFINE y == run[p]
<1>1. Shape(y) /\ y \in States
  BY DEF Typed, Shape
<1>2. CASE Put(p)
  <2>1. y.at = "put" /\ Closed(y) /\ y.verdict \in {"insufficient", "assured"}
        /\ (y.verdict = "assured" => y.digest \in Trees)
    BY <1>1, <1>2 DEF Put, Shape
  <2>2. Shape([y EXCEPT !.at = "report"])
    BY <1>1, <2>1, SameVerdict, RoundsAssumption
  <2>3. ASSUME Truthful
        PROVE  /\ y.mixed => tree # y.digest \/ y.digest \in raced
               /\ y.verdict = "assured" => Fine(y.digest)
    BY <2>1, <2>3 DEF Truthful, Seen
  <2>4. Truthful => Seen([y EXCEPT !.at = "report"])
    BY <1>1, <2>3, SameSeen
  <2> QED BY <1>2, <2>2, <2>4 DEF Put, Become, Moves
<1>3. CASE Report(p) \/ Die(p)
  BY <1>3, IdleShape, IdleSeen DEF Report, Die, Become, Moves
<1> QED BY <1>2, <1>3

\* What a round becomes when it is closed.
LEMMA CloseMoves ==
    ASSUME Typed, NEW p \in Processes, Close(p)
    PROVE  Moves(p)
<1> DEFINE y == run[p]
           Done(verdict) == [Idle EXCEPT !.prep = IF y.prep = "running" THEN "running" ELSE "none",
                                         !.verdict = verdict, !.digest = y.digest, !.round = y.round,
                                         !.mixed = y.mixed]
<1>1. Shape(y) /\ y \in States /\ y.at = "closing" /\ y.prep # "running"
  BY DEF Typed, Close, Settled, Shape
<1>2. PICK verdict \in {y.verdict, "failed"} :
          Become(p, CASE verdict = "applied" /\ LastRound(p) ->
                           [Done(verdict) EXCEPT !.at = "report", !.verdict = "insufficient"]
                    [] verdict = "applied" /\ ~LastRound(p) ->
                           [Idle EXCEPT !.at = "open", !.round = y.round + 1, !.prep = Done(verdict).prep]
                    [] verdict \in {"failed", "defect"} -> [Done(verdict) EXCEPT !.at = "report"]
                    [] OTHER -> [Done(verdict) EXCEPT !.at = "final"])
  BY DEF Close
<1>3. verdict \in Verdicts \cup {"applied", "failed"} /\ verdict # None
      /\ (verdict = "assured" => y.digest \in Trees)
  BY <1>1, <1>2, RoundsAssumption DEF Shape, States
<1>4. /\ Done(verdict).prep = "none" /\ Closed(Done(verdict)) /\ Done(verdict) \in States
      /\ Done(verdict).digest = y.digest /\ Done(verdict).verdict = verdict
      /\ Done(verdict).mixed = y.mixed
  <2>1. Done(verdict) = [Idle EXCEPT !.prep = "none", !.verdict = verdict, !.digest = y.digest,
                                     !.round = y.round, !.mixed = y.mixed]
    BY <1>1
  <2>2. y.digest \in Trees \cup {None} /\ y.round \in 0..(MaxRounds - 1) /\ y.mixed \in BOOLEAN
    BY <1>1 DEF States
  <2> HIDE DEF Done
  <2>3. Idle \in States /\ Closed(Idle)
    BY IdleIs
  <2> HIDE DEF Idle
  <2> QED BY <1>3, <2>1, <2>2, <2>3 DEF States, Closed
<1>5. ASSUME Truthful
      PROVE  /\ y.mixed => tree # y.digest \/ y.digest \in raced
             /\ verdict = "assured" => Fine(y.digest) \/ y.mixed
  BY <1>1, <1>2, <1>5 DEF Truthful, Seen
<1>6. ASSUME NEW x, run' = [run EXCEPT ![p] = x], Shape(x), Truthful => Seen(x) PROVE Moves(p)
  BY <1>6 DEF Moves
<1>7. CASE verdict = "applied" /\ LastRound(p)
  <2> DEFINE x == [Done(verdict) EXCEPT !.at = "report", !.verdict = "insufficient"]
  <2>1. run' = [run EXCEPT ![p] = x]
    BY <1>2, <1>7 DEF Become
  <2> HIDE DEF Done
  <2>2. Shape(x)
    BY <1>4, NewShape, RoundsAssumption
  <2>3. Truthful => Seen(x)
    BY <1>4, <1>5, NewSeen
  <2> QED BY <1>6, <2>1, <2>2, <2>3
<1>8. CASE verdict = "applied" /\ ~LastRound(p)
  <2> DEFINE x == [Idle EXCEPT !.at = "open", !.round = y.round + 1, !.prep = "none"]
  <2>1. run' = [run EXCEPT ![p] = x]
    BY <1>2, <1>4, <1>8 DEF Become
  <2>2. y.round + 1 \in 0..(MaxRounds - 1)
    BY <1>1, <1>8, RoundsAssumption DEF LastRound, States
  <2>3. x \in States /\ Closed(x) /\ x.at = "open" /\ x.verdict = None /\ ~x.mixed
    BY <2>2, RoundsAssumption DEF States, Closed, Idle, Phases, After
  <2> HIDE DEF x
  <2>4. Shape(x)
    BY <2>3, ClosedShape, RoundsAssumption
  <2>5. Seen(x)
    BY <2>3, RoundsAssumption DEF Seen, Measured, Examined
  <2> QED BY <1>6, <2>1, <2>4, <2>5
<1>9. CASE verdict \in {"failed", "defect"}
  <2> DEFINE x == [Done(verdict) EXCEPT !.at = "report"]
  <2>1. run' = [run EXCEPT ![p] = x]
    BY <1>2, <1>9 DEF Become
  <2> HIDE DEF Done
  <2>2. Shape(x)
    BY <1>4, <1>9, SameVerdict, RoundsAssumption
  <2>3. Truthful => Seen(x)
    BY <1>4, <1>5, <1>9, SameSeen
  <2> QED BY <1>6, <2>1, <2>2, <2>3
<1>10. CASE verdict \notin {"applied", "failed", "defect"}
  <2> DEFINE x == [Done(verdict) EXCEPT !.at = "final"]
  <2>1. run' = [run EXCEPT ![p] = x]
    BY <1>2, <1>10 DEF Become
  <2> HIDE DEF Done
  <2>2. Shape(x)
    BY <1>3, <1>4, <1>10, SameVerdict, RoundsAssumption
  <2>3. Truthful => Seen(x)
    BY <1>4, <1>5, SameSeen
  <2> QED BY <1>6, <2>1, <2>2, <2>3
<1> QED BY <1>7, <1>8, <1>9, <1>10

\* A round is left for another once its repair is applied, and for good otherwise.
\* What was assured was examined in the copy and in the control, which are what the
\* digest names unless one of the two windows was met.
LEMMA RepairMoves ==
    ASSUME Typed, NEW p \in Processes, AttemptRepairs(p)
    PROVE  Moves(p)
<1> DEFINE y == run[p]
<1>1. Shape(y) /\ y.at = "repair"
  BY DEF Typed, AttemptRepairs
<1>2. y \in States /\ y.verdict \in {"insufficient", "assured"} /\ y.digest \in Trees
  BY <1>1, InRound, PhaseNames
<1>3. PICK verdict \in {"applied", y.verdict} :
          run' = [run EXCEPT ![p] = [y EXCEPT !.at = "closing", !.verdict = verdict]]
  BY DEF AttemptRepairs, Leave, Become
<1>4. Shape([y EXCEPT !.at = "closing", !.verdict = verdict])
  BY <1>1, <1>2, LeaveShape, PhaseNames
<1>5. ASSUME Truthful PROVE Seen([y EXCEPT !.at = "closing", !.verdict = verdict])
  <2>1. Seen(y)
    BY <1>5 DEF Truthful
  <2>2. ASSUME verdict = "assured", y.digest \notin raced, ~y.mixed PROVE truth[y.digest] = "sound"
    <3>1. y.copy = y.digest /\ y.control = y.digest /\ y.verdict = "assured"
      BY <1>1, <1>3, <2>1, <2>2 DEF Seen
    <3>2. truth[y.digest] \notin {"failing", "broken", "gap"}
      BY <1>1, <2>1, <3>1 DEF Seen, Measured, Examined
    <3> QED BY <1>2, <3>2 DEF Typed, Findings
  <2>3. y.mixed => tree # y.digest \/ y.digest \in raced
    BY <2>1 DEF Seen
  <2> QED BY <1>2, <2>2, <2>3, LeaveSeen DEF Fine
<1> QED BY <1>3, <1>4, <1>5 DEF Moves

\* A phase may fail.
LEMMA FailMoves ==
    ASSUME Typed, NEW p \in Processes, Fail(p)
    PROVE  Moves(p)
BY LeaveMoves DEF Fail, Running

-----------------------------------------------------------------------------
(* Every step.                                                             *)

\* The actions of a process that leave the repository alone.
Beside(p) ==
    \/ Start(p) \/ AcquireLease(p) \/ LeaseFails(p) \/ Close(p) \/ Final(p) \/ Put(p) \/ Report(p) \/ Die(p)
    \/ OpenWorkspace(p) \/ InspectWorkspace(p) \/ Digest(p) \/ CacheCheck(p) \/ Discover(p)
    \/ AcquireResources(p) \/ Prepare(p) \/ CollectBaseline(p) \/ AcceptPreparation(p)
    \/ MeasureBaseline(p) \/ BuildGraph(p) \/ CollectRace(p) \/ ProbeTargets(p) \/ EvaluateMutations(p)
    \/ Fail(p)

LEMMA Cases ==
    ASSUME [Next]_vars
    PROVE  \/ \E p \in Processes : Beside(p) \/ AttemptRepairs(p)
           \/ Edit \/ (\E d \in Trees : Forget(d)) \/ UNCHANGED vars
BY DEF Next, Step, Work, Beside

LEMMA BesideMoves ==
    ASSUME Typed, NEW p \in Processes, Beside(p)
    PROVE  \E x : run' = [run EXCEPT ![p] = x] /\ Shape(x) /\ (Truthful /\ ~Digest(p) => Seen(x))
BY StartMoves, FinalMoves, EndMoves, CloseMoves, KeepingMoves, OpenMoves, DigestMoves, AcquireMoves,
   CacheMoves, BaselineMoves, AcceptMoves, LookMoves, EvaluateMoves, PrepareMoves, FailMoves
   DEF Beside, Moves

\* What else such an action changes, and what it leaves in the cache and reports.
LEMMA BesideWorld ==
    ASSUME Typed, NEW p \in Processes, Beside(p)
    PROVE  /\ truth' = truth /\ tree' = tree
           /\ raced \subseteq raced' /\ raced' \subseteq Trees
           /\ lease' \in Processes \cup {None}
           /\ \/ stored' = stored
              \/ /\ run[p].at = "put" /\ run[p].digest \in Trees \cup {None}
                 /\ run[p].verdict \in Verdicts
                 /\ stored' = [stored EXCEPT ![run[p].digest] = run[p].verdict]
           /\ \/ latest' = latest
              \/ /\ run[p].at = "report" /\ latest'.verdict \in Verdicts \cup {"error"}
                 /\ latest'.verdict # "error" => latest' = [digest |-> run[p].digest, verdict |-> run[p].verdict]
<1>1. Shape(run[p]) /\ run[p] \in States /\ lease \in Processes \cup {None} /\ raced \subseteq Trees
  BY DEF Typed, Shape
<1>2. CASE Put(p)
  <2>1. run[p].at = "put" /\ run[p].digest \in Trees \cup {None} /\ run[p].verdict \in Verdicts
    BY <1>1, <1>2 DEF Put, Shape, States
  <2> QED BY <1>1, <1>2, <2>1 DEF Put
<1>3. CASE Report(p)
  <2>1. run[p].at = "report" /\ run[p].verdict \in Verdicts \cup {"failed"}
    BY <1>1, <1>3 DEF Report, Shape, States
  <2> QED BY <1>1, <1>3, <2>1 DEF Report, Reported
<1>4. CASE Start(p) \/ AcquireLease(p) \/ LeaseFails(p) \/ Close(p) \/ Final(p) \/ Die(p)
  BY <1>1, <1>4 DEF Start, AcquireLease, LeaseFails, Close, Final, Die
<1>5. CASE \/ OpenWorkspace(p) \/ InspectWorkspace(p) \/ CacheCheck(p) \/ Discover(p)
           \/ AcquireResources(p) \/ Prepare(p) \/ CollectBaseline(p) \/ AcceptPreparation(p)
           \/ MeasureBaseline(p) \/ BuildGraph(p) \/ CollectRace(p) \/ ProbeTargets(p)
           \/ EvaluateMutations(p) \/ Fail(p)
  <2>1. Still
    BY <1>5 DEF OpenWorkspace, InspectWorkspace, CacheCheck, Discover, AcquireResources, Prepare,
                CollectBaseline, AcceptPreparation, MeasureBaseline, BuildGraph, CollectRace, ProbeTargets,
                EvaluateMutations, Fail
  <2> QED BY <1>1, <2>1 DEF Still
<1>6. CASE Digest(p)
  BY <1>1, <1>6 DEF Digest, Typed
<1> QED BY <1>2, <1>3, <1>4, <1>5, <1>6 DEF Beside

\* A change of the repository excepts the content it comes back to, if a control was
\* copied from something else for it.
LEMMA TreeChanges ==
    ASSUME Typed, ChangeTree
    PROVE  /\ tree' \in Trees /\ raced \subseteq raced' /\ raced' \subseteq Trees
           /\ \A q \in Processes : run[q].mixed => tree' # run[q].digest \/ run[q].digest \in raced'
BY DEF ChangeTree, Typed

LEMMA TypedStart == Init => Typed
<1> SUFFICES ASSUME Init PROVE Typed
  OBVIOUS
<1>1. 1 \in Trees
  BY RoundsAssumption DEF Trees
<1>2. \A p \in Processes : run[p] = Idle
  BY DEF Init
<1> QED BY <1>1, <1>2, IdleShape DEF Init, Typed

LEMMA TypedStep == Typed /\ [Next]_vars => Typed'
<1> SUFFICES ASSUME Typed, [Next]_vars PROVE Typed'
  OBVIOUS
<1>1. ASSUME NEW p \in Processes, Beside(p) PROVE Typed'
  <2>1. PICK x : run' = [run EXCEPT ![p] = x] /\ Shape(x)
    BY <1>1, BesideMoves
  <2>2. truth' = truth /\ tree' \in Trees /\ lease' \in Processes \cup {None} /\ raced' \subseteq Trees
    BY <1>1, BesideWorld DEF Typed
  <2>3. stored' \in [Trees -> Verdicts \cup {None}] /\ latest'.verdict \in Verdicts \cup {"error", None}
    <3>1. run[p].verdict \in Verdicts => stored' \in [Trees -> Verdicts \cup {None}]
      BY <1>1, BesideWorld DEF Typed
    <3>2. stored' = stored \/ run[p].verdict \in Verdicts
      BY <1>1, BesideWorld
    <3> QED BY <1>1, <3>1, <3>2, BesideWorld DEF Typed
  <2> QED BY <2>1, <2>2, <2>3, TypedMove
<1>2. ASSUME NEW p \in Processes, AttemptRepairs(p) PROVE Typed'
  <2>1. PICK x : run' = [run EXCEPT ![p] = x] /\ Shape(x)
    BY <1>2, RepairMoves DEF Moves
  <2>2. truth' = truth /\ lease' = lease /\ stored' = stored /\ latest' = latest
    BY <1>2 DEF AttemptRepairs
  <2>3. tree' \in Trees /\ raced' \subseteq Trees
    BY <1>2, TreeChanges DEF AttemptRepairs, Typed
  <2> QED BY <2>1, <2>2, <2>3, TypedMove DEF Typed
<1>3. CASE Edit
  <2>1. tree' \in Trees /\ raced' \subseteq Trees
    BY <1>3, TreeChanges DEF Edit
  <2> QED BY <1>3, <2>1 DEF Edit, Typed, Shape, States, Closed, Trees
<1>4. ASSUME NEW d \in Trees, Forget(d) PROVE Typed'
  BY <1>4 DEF Forget, Typed, Shape, States, Closed, Trees
<1>5. CASE UNCHANGED vars
  BY <1>5 DEF vars, Typed, Shape, States, Closed, Trees
<1> QED BY <1>1, <1>2, <1>3, <1>4, <1>5, Cases

\* The shape of every process, and the types of the cache and of the report, hold in
\* every state, whatever edits race, fails or dies.
THEOREM RoundsInductive == Spec => []Typed
BY TypedStart, TypedStep, PTL DEF Spec

\* Every field has its type.
THEOREM RoundsTyped == Spec => []TypeOK
<1>1. Typed => TypeOK
  BY DEF Typed, Shape, States, TypeOK
<1> QED BY <1>1, RoundsInductive, PTL

\* Preparation works only in a workspace that is open, and a run answers, or begins
\* its next round, with everything of the last one closed (closeRound), for every
\* number of processes, rounds and contents and whatever edits race.
THEOREM RoundsCloseWhatTheyOpened == Spec => []ClosesWhatItOpened
<1>1. ASSUME Typed PROVE ClosesWhatItOpened
  <2> SUFFICES ASSUME NEW p \in Processes
               PROVE  /\ run[p].prep = "running" => run[p].copy # None
                      /\ run[p].at \in {"open", "final", "put", "report"} => Closed(run[p])
    BY DEF ClosesWhatItOpened, Closed
  <2>1. Shape(run[p])
    BY <1>1 DEF Typed
  <2> QED BY <2>1, RoundsAssumption DEF Shape
<1> QED BY <1>1, RoundsInductive, PTL

-----------------------------------------------------------------------------
(* That an assured verdict is true of every content but the excepted.      *)

\* What is stored and what is reported is what a run had seen.
LEMMA BesideAnswers ==
    ASSUME Typed, Truthful, NEW p \in Processes, Beside(p)
    PROVE  AssuredIsTrue'
<1>1. Seen(run[p]) /\ Trees' = Trees /\ truth' = truth /\ raced \subseteq raced'
  BY BesideWorld DEF Truthful, Trees
<1>2. ASSUME NEW d \in Trees \ raced', stored'[d] = "assured" PROVE truth[d] = "sound"
  <2>1. CASE stored' = stored
    BY <1>1, <1>2, <2>1 DEF Truthful, AssuredIsTrue
  <2>2. CASE run[p].at = "put" /\ stored' = [stored EXCEPT ![run[p].digest] = run[p].verdict]
    <3>1. stored'[d] = IF d = run[p].digest THEN run[p].verdict ELSE stored[d]
      BY <2>2 DEF Typed
    <3> QED BY <1>1, <1>2, <2>2, <3>1 DEF Truthful, AssuredIsTrue, Seen, Fine
  <2> QED BY <2>1, <2>2, BesideWorld
<1>3. ASSUME latest'.verdict = "assured", latest'.digest \notin raced' PROVE truth[latest'.digest] = "sound"
  <2>1. CASE latest' = latest
    BY <1>1, <1>3, <2>1 DEF Truthful, AssuredIsTrue
  <2>2. CASE run[p].at = "report" /\ latest'.digest = run[p].digest /\ run[p].verdict = "assured"
    BY <1>1, <1>3, <2>2 DEF Seen, Fine
  <2>3. latest' = latest \/ latest' = [digest |-> run[p].digest, verdict |-> run[p].verdict]
    BY <1>3, BesideWorld
  <2>4. latest' = latest \/ run[p].at = "report"
    BY BesideWorld
  <2> QED BY <1>3, <2>1, <2>2, <2>3, <2>4
<1> QED BY <1>1, <1>2, <1>3 DEF AssuredIsTrue

\* The repository becomes another content.
LEMMA TreeMoves ==
    ASSUME Typed, Truthful, ChangeTree, truth' = truth, stored' = stored, latest' = latest,
           \A q \in Processes : Seen(run'[q]),
           \A q \in Processes : run'[q].mixed = run[q].mixed /\ run'[q].digest = run[q].digest
    PROVE  Truthful'
<1>1. AssuredIsTrue'
  BY TreeChanges DEF Truthful, AssuredIsTrue, Trees
<1>2. \A q \in Processes : Seen(run[q])'
  BY TreeChanges, SeenStays
<1> QED BY <1>1, <1>2 DEF Truthful

LEMMA TruthStart == Init => Truthful
BY IdleSeen, RoundsAssumption DEF Init, Truthful, AssuredIsTrue

LEMMA TruthStep ==
    ASSUME Typed, Truthful, [Next]_vars
    PROVE  Truthful'
<1>1. ASSUME NEW p \in Processes, Beside(p), ~Digest(p) PROVE Truthful'
  <2>1. PICK x : run' = [run EXCEPT ![p] = x] /\ Shape(x) /\ Seen(x)
    BY <1>1, BesideMoves
  <2> QED BY <1>1, <2>1, BesideWorld, BesideAnswers, QuietStep
<1>2. ASSUME NEW p \in Processes, Digest(p) PROVE Truthful'
  <2>1. PICK x : run' = [run EXCEPT ![p] = x] /\ Shape(x) /\ (run'[p] = x => Seen(run[p])')
    BY <1>2, DigestMoves
  <2>2. \A q \in Processes : run'[q] = IF q = p THEN x ELSE run[q]
    BY <2>1, RunMoves
  <2>3. Beside(p)
    BY <1>2 DEF Beside
  <2>4. \A q \in Processes \ {p} : Seen(run[q])'
    BY <2>2, <2>3, BesideWorld, SeenStays DEF Truthful
  <2> QED BY <2>1, <2>2, <2>3, <2>4, BesideAnswers DEF Truthful
<1>3. ASSUME NEW p \in Processes, AttemptRepairs(p) PROVE Truthful'
  <2>1. PICK x : run' = [run EXCEPT ![p] = x] /\ Shape(x) /\ Seen(x)
    BY <1>3, RepairMoves DEF Moves
  <2>2. \A q \in Processes : run'[q] = IF q = p THEN x ELSE run[q]
    BY <2>1, RunMoves
  <2>3. \A q \in Processes : Seen(run'[q])
    BY <2>1, <2>2 DEF Truthful
  <2>4. run'[p].mixed = run[p].mixed /\ run'[p].digest = run[p].digest
    <3>1. run[p] \in States
      BY DEF Typed, Shape
    <3>2. \E verdict : run' = [run EXCEPT ![p] = [run[p] EXCEPT !.at = "closing", !.verdict = verdict]]
      BY <1>3 DEF AttemptRepairs, Leave, Become
    <3> QED BY <3>1, <3>2 DEF Typed, States
  <2>5. CASE ChangeTree
    BY <1>3, <2>2, <2>3, <2>4, <2>5, TreeMoves DEF AttemptRepairs
  <2>6. CASE UNCHANGED <<tree, raced>>
    <3>1. truth' = truth /\ AssuredIsTrue'
      BY <1>3, <2>6 DEF AttemptRepairs, Truthful, AssuredIsTrue, Trees
    <3> QED BY <2>1, <2>6, <3>1, QuietStep
  <2> QED BY <1>3, <2>5, <2>6 DEF AttemptRepairs
<1>4. CASE Edit
  BY <1>4, TreeMoves DEF Edit, Truthful
<1>5. ASSUME NEW d \in Trees, Forget(d) PROVE Truthful'
  <2>1. AssuredIsTrue'
    BY <1>5, RoundsAssumption DEF Forget, Typed, Truthful, AssuredIsTrue, Trees
  <2>2. \A q \in Processes : Seen(run[q])'
    BY <1>5 DEF Forget, Truthful, Seen, Fine, Trees
  <2> QED BY <2>1, <2>2 DEF Truthful
<1>6. CASE UNCHANGED vars
  BY <1>6 DEF vars, Truthful, AssuredIsTrue, Seen, Fine, Trees
<1> QED BY <1>1, <1>2, <1>3, <1>4, <1>5, <1>6, Cases

\* A verdict that assures is true of the content it names: the one that is stored to
\* be served to others, and the one that is reported, for every number of processes,
\* rounds and contents, whoever edits, takes an edit back, repairs, fails or dies
\* beside it (assuranceInputs, refusing stale evidence). Excepted are the contents of
\* which a run was given another copy before their digest, and those that came back
\* after a control was copied from another.
THEOREM AssuredVerdictsAreTrue == Spec => []AssuredIsTrue
<1>1. Init => Typed /\ Truthful
  BY TypedStart, TruthStart
<1>2. Typed /\ Truthful /\ [Next]_vars => (Typed /\ Truthful)'
  BY TypedStep, TruthStep
<1>3. Typed /\ Truthful => AssuredIsTrue
  BY DEF Truthful
<1> QED BY <1>1, <1>2, <1>3, PTL DEF Spec

================================================================================
