------------------------------- MODULE RunRounds -------------------------------
(***************************************************************************)
(* The rounds of a run: what it copies of the repository, what it opens and *)
(* closes on the way to a verdict, and the verdict cache that serves the    *)
(* verdict to later runs of the same content.                               *)
(*                                                                         *)
(* The repository is one of a few contents that edits and repairs change,   *)
(* also back to what it was: its digest is the content itself.  A run looks *)
(* at it several times: it copies it for the mutants, computes its digest,  *)
(* copies it once more for the controls, and computes the digest again      *)
(* before it answers.                                                       *)
(*                                                                         *)
(* Processes exclude one another by the lease of the cache, and one that    *)
(* fails to lock runs without it.  Any step may fail, and a process may die.*)
(***************************************************************************)
EXTENDS Naturals

CONSTANTS
    Processes,
    None,
    MaxTree,     \* bounds the contents the repository goes through
    MaxRounds,   \* maximumRounds
    MaxStarts    \* bounds how often a run starts

Trees == 1..MaxTree

VARIABLES
    truth,  \* what a faultless verification would find in every content
    tree,   \* the content of the repository
    run,    \* what every process is doing
    lease,  \* who holds the lease of the cache
    stored, \* the verdict cache
    latest, \* the report that was written last
    starts,
    raced   \* contents that a digest named although the run looked at another (an observer)

vars == <<truth, tree, run, lease, stored, latest, starts, raced>>

\* A content is sound, is rejected by a check or by the race detector, has failing
\* tests, or has mutants that survive.
Findings == {"sound", "broken", "failing", "gap"}

\* What a report says; an error that is reported has none.
Verdicts == {"assured", "insufficient", "defect"}

ASSUME RoundsAssumption ==
    /\ None \notin Processes /\ None \notin Trees
    /\ None \notin Verdicts \cup {"applied", "failed", "error"}
    /\ MaxTree \in Nat \ {0} /\ MaxRounds \in Nat \ {0} /\ MaxStarts \in Nat

\* "mixed" observes that the control was not copied from what the digest names.
Idle == [at |-> "idle", round |-> 0, copy |-> None, control |-> None, digest |-> None,
         prep |-> "none", provided |-> FALSE, verdict |-> None, mixed |-> FALSE]

\* The phases of a round and what follows each of them.
After == [open |-> "inspect", inspect |-> "digest", digest |-> "cache", cache |-> "discover",
          discover |-> "acquire", acquire |-> "baseline", baseline |-> "settle", settle |-> "measure",
          measure |-> "graph", graph |-> "race", race |-> "probe", probe |-> "mutate", mutate |-> "repair"]

Phases == DOMAIN After \cup {"repair"}

Become(p, state) == run' = [run EXCEPT ![p] = state]

Advance(p, state) == Become(p, [state EXCEPT !.at = After[@]])

\* The round is over; everything it opened is closed before the verdict is used.
Leave(p, state, verdict) == Become(p, [state EXCEPT !.at = "closing", !.verdict = verdict])

Running(p) == run[p].at \in Phases

-------------------------------------------------------------------------------
(* The process. *)

Start(p) ==
    /\ run[p].at = "idle" /\ starts < MaxStarts
    /\ starts' = starts + 1
    /\ Become(p, [Idle EXCEPT !.at = "waiting"])
    /\ UNCHANGED <<truth, tree, lease, stored, latest, raced>>

\* The lock is polled.
AcquireLease(p) ==
    /\ run[p].at = "waiting" /\ lease = None
    /\ lease' = p
    /\ Become(p, [run[p] EXCEPT !.at = "open"])
    /\ UNCHANGED <<truth, tree, stored, latest, starts, raced>>

\* A lock that cannot be had at all does not keep the run from its work, though it
\* will report an error; an interrupted waiter gives up.
LeaseFails(p) ==
    /\ run[p].at = "waiting"
    /\ \E at \in {"open", "idle"} : Become(p, [Idle EXCEPT !.at = at])
    /\ UNCHANGED <<truth, tree, lease, stored, latest, starts, raced>>

\* A slip: the receipt is awaited of a preparation that was never begun.
SettledOnceBegun(p) == run[p].prep \in {"ready", "failed"}

\* A slip: a cancelled preparation is not awaited.
SettledAtOnce(p) == TRUE

Settled(p) == run[p].prep # "running"

LastRound(p) == run[p].round + 1 = MaxRounds

\* closeRound: preparation is cancelled and awaited, and the control, the resources
\* and the workspace are closed, which may fail. An applied repair is verified by
\* another round.
Close(p) ==
    /\ run[p].at = "closing" /\ Settled(p)
    /\ \E verdict \in {run[p].verdict, "failed"} :
          LET closed == [Idle EXCEPT !.prep = IF run[p].prep = "running" THEN "running" ELSE "none",
                                     !.verdict = verdict, !.digest = run[p].digest, !.round = run[p].round,
                                     !.mixed = run[p].mixed]
          IN  Become(p, CASE verdict = "applied" /\ LastRound(p) ->
                                 [closed EXCEPT !.at = "report", !.verdict = "insufficient"]
                          [] verdict = "applied" /\ ~LastRound(p) ->
                                 [Idle EXCEPT !.at = "open", !.round = run[p].round + 1, !.prep = closed.prep]
                          [] verdict \in {"failed", "defect"} -> [closed EXCEPT !.at = "report"]
                          [] OTHER -> [closed EXCEPT !.at = "final"])
    /\ UNCHANGED <<truth, tree, lease, stored, latest, starts, raced>>

\* A slip: the digest is not taken again.
StillCurrentAlways(p) == TRUE

StillCurrent(p) == tree = run[p].digest

\* The repository must be what it was when the round began.
Final(p) ==
    /\ run[p].at = "final"
    /\ Become(p, IF StillCurrent(p) THEN [run[p] EXCEPT !.at = "put"]
                 ELSE [run[p] EXCEPT !.at = "report", !.verdict = "failed"])
    /\ UNCHANGED <<truth, tree, lease, stored, latest, starts, raced>>

Put(p) ==
    /\ run[p].at = "put"
    /\ stored' = [stored EXCEPT ![run[p].digest] = run[p].verdict]
    /\ Become(p, [run[p] EXCEPT !.at = "report"])
    /\ UNCHANGED <<truth, tree, lease, latest, starts, raced>>

\* A run that failed, or had no lease, reports an error whatever it found.
Reported(p) ==
    IF lease = p /\ run[p].verdict # "failed" THEN [digest |-> run[p].digest, verdict |-> run[p].verdict]
    ELSE [digest |-> None, verdict |-> "error"]

Report(p) ==
    /\ run[p].at = "report"
    /\ latest' = Reported(p)
    /\ lease' = IF lease = p THEN None ELSE lease
    /\ Become(p, Idle)
    /\ UNCHANGED <<truth, tree, stored, starts, raced>>

Die(p) ==
    /\ run[p].at # "idle"
    /\ Become(p, Idle)
    /\ lease' = IF lease = p THEN None ELSE lease
    /\ UNCHANGED <<truth, tree, stored, latest, starts, raced>>

-------------------------------------------------------------------------------
(* A round. *)

Still == UNCHANGED <<truth, tree, lease, stored, latest, starts, raced>>

OpenWorkspace(p) ==
    /\ run[p].at = "open"
    /\ Advance(p, [run[p] EXCEPT !.copy = tree])
    /\ Still

\* The go command reads the module in the copy, so the digest is taken much later.
InspectWorkspace(p) ==
    /\ run[p].at = "inspect"
    /\ Advance(p, run[p])
    /\ Still

Digest(p) ==
    /\ run[p].at = "digest"
    /\ Advance(p, [run[p] EXCEPT !.digest = tree])
    /\ raced' = IF run[p].copy = tree THEN raced ELSE raced \cup {tree}
    /\ UNCHANGED <<truth, tree, lease, stored, latest, starts>>

\* The first round is answered from the cache, unless resources are configured; the
\* workspace is closed first, which may fail.
CacheCheck(p) ==
    /\ run[p].at = "cache"
    /\ LET cached == stored[run[p].digest]
       IN  \/ /\ run[p].round = 0 /\ cached # None
              /\ \E verdict \in {cached, "failed"} :
                    Become(p, [Idle EXCEPT !.at = "report", !.verdict = verdict, !.digest = run[p].digest])
           \/ Advance(p, run[p])
    /\ Still

\* Discovery and impact selection keep to what the round has.
Discover(p) ==
    /\ run[p].at = "discover"
    /\ Advance(p, run[p])
    /\ Still

AcquireResources(p) ==
    /\ run[p].at = "acquire"
    /\ Advance(p, [run[p] EXCEPT !.provided = TRUE, !.prep = "running"])
    /\ Still

\* Preparation works on its own, until it has a session, fails or is cancelled.
Prepare(p) ==
    /\ run[p].prep = "running"
    /\ \E result \in IF run[p].at = "closing" THEN {"failed"} ELSE {"ready", "failed"} :
          Become(p, [run[p] EXCEPT !.prep = result])
    /\ Still

\* The control workspace is opened beside it, and the checks run there. They find
\* some of what is broken, the race detector the rest.
CollectBaseline(p) ==
    /\ run[p].at = "baseline"
    /\ LET opened == [run[p] EXCEPT !.control = tree, !.mixed = tree # run[p].digest]
       IN  \/ truth[tree] = "broken" /\ Leave(p, opened, "defect")
           \/ Advance(p, opened)
    /\ Still

AcceptPreparation(p) ==
    /\ run[p].at = "settle" /\ run[p].prep \in {"ready", "failed"}
    /\ IF run[p].prep = "ready" THEN Advance(p, [run[p] EXCEPT !.prep = "used"])
       ELSE Leave(p, run[p], "failed")
    /\ Still

\* The targets and the suites run in the prepared session, on the mutants' copy.
MeasureBaseline(p) ==
    /\ run[p].at = "measure"
    /\ IF truth[run[p].copy] = "failing" THEN Leave(p, run[p], "defect") ELSE Advance(p, run[p])
    /\ Still

BuildGraph(p) ==
    /\ run[p].at = "graph"
    /\ Advance(p, run[p])
    /\ Still

ProbeTargets(p) ==
    /\ run[p].at = "probe"
    /\ Advance(p, run[p])
    /\ Still

CollectRace(p) ==
    /\ run[p].at = "race"
    /\ \/ truth[run[p].control] \in {"broken", "failing"} /\ Leave(p, run[p], "defect")
       \/ truth[run[p].control] # "broken" /\ Advance(p, run[p])
    /\ Still

\* The mutants of the copy are executed; any of them may stay inconclusive. A verdict
\* that is an error, for a mutant without a disposition, is among the insufficient.
EvaluateMutations(p) ==
    /\ run[p].at = "mutate"
    /\ \E verdict \in IF truth[run[p].copy] = "gap" THEN {"insufficient"} ELSE {"insufficient", "assured"} :
          Advance(p, [run[p] EXCEPT !.verdict = verdict])
    /\ Still

\* The repository has another content, which a run may have named and then copied its
\* control from something else.
ChangeTree ==
    /\ tree' \in Trees \ {tree}
    /\ raced' = raced \cup {t \in {tree'} : \E p \in Processes : run[p].mixed /\ run[p].digest = t}

\* A candidate for a finding is validated and applied, or there is none.
AttemptRepairs(p) ==
    /\ run[p].at = "repair"
    /\ \/ run[p].verdict # "assured" /\ ChangeTree /\ Leave(p, run[p], "applied")
       \/ UNCHANGED <<tree, raced>> /\ Leave(p, run[p], run[p].verdict)
    /\ UNCHANGED <<truth, lease, stored, latest, starts>>

\* Every phase may fail, or be cancelled, on its way.
Fail(p) ==
    /\ Running(p)
    /\ Leave(p, run[p], "failed")
    /\ Still

-------------------------------------------------------------------------------
(* The world. *)

\* Anyone edits the repository, or takes an edit back, at any time.
Edit ==
    /\ ChangeTree
    /\ UNCHANGED <<truth, run, lease, stored, latest, starts>>

\* A bound or a flush removes it.
Forget(d) ==
    /\ stored[d] # None
    /\ stored' = [stored EXCEPT ![d] = None]
    /\ UNCHANGED <<truth, tree, run, lease, latest, starts, raced>>

Init ==
    /\ truth \in [Trees -> Findings]
    /\ tree = 1
    /\ run = [p \in Processes |-> Idle]
    /\ lease = None
    /\ stored = [d \in Trees |-> None]
    /\ latest = [digest |-> None, verdict |-> None]
    /\ starts = 0 /\ raced = {}

Work(p) ==
    \/ AcquireLease(p) \/ Close(p) \/ Final(p) \/ Put(p) \/ Report(p)
    \/ OpenWorkspace(p) \/ InspectWorkspace(p) \/ Digest(p) \/ CacheCheck(p) \/ Discover(p)
    \/ AcquireResources(p)
    \/ CollectBaseline(p) \/ AcceptPreparation(p) \/ MeasureBaseline(p) \/ BuildGraph(p) \/ CollectRace(p)
    \/ ProbeTargets(p) \/ EvaluateMutations(p) \/ AttemptRepairs(p)

Step(p) == Work(p) \/ LeaseFails(p) \/ Fail(p)

Next ==
    \/ \E p \in Processes : Start(p) \/ Step(p) \/ Prepare(p) \/ Die(p)
    \/ Edit \/ \E d \in Trees : Forget(d)

\* Every command has its timeout, and the scheduler runs both goroutines. Nothing has
\* to fail or to be interrupted for a run to end.
Spec ==
    /\ Init /\ [][Next]_vars
    /\ \A p \in Processes : WF_vars(Work(p)) /\ WF_vars(Prepare(p))

-------------------------------------------------------------------------------
(* Properties. *)

\* Every field has its type.
TypeOK ==
    /\ truth \in [Trees -> Findings] /\ tree \in Trees
    /\ lease \in Processes \cup {None}
    /\ stored \in [Trees -> Verdicts \cup {None}]
    /\ latest.verdict \in Verdicts \cup {"error", None} /\ raced \subseteq Trees
    /\ \A p \in Processes :
          /\ run[p].at \in Phases \cup {"idle", "waiting", "closing", "final", "put", "report"}
          /\ run[p].round \in 0..(MaxRounds - 1)
          /\ {run[p].copy, run[p].control, run[p].digest} \subseteq Trees \cup {None}
          /\ run[p].prep \in {"none", "running", "ready", "failed", "used"}
          /\ run[p].verdict \in Verdicts \cup {"applied", "failed", None}

\* Preparation works in the workspace while it is open, and a run answers, and its
\* next round begins, with everything closed (closeRound, settlePreparation).
ClosesWhatItOpened ==
    \A p \in Processes :
        /\ run[p].prep = "running" => run[p].copy # None
        /\ run[p].at \in {"open", "final", "put", "report"} =>
              run[p].copy = None /\ run[p].control = None /\ run[p].prep = "none" /\ ~run[p].provided

\* An assured verdict names a content that is: the one that is stored to be served to
\* others, and the one that is reported, whoever else edited, took an edit back,
\* repaired, collected or ran beside it (assuranceInputs, refusing stale evidence).
\* Only two windows of the code are excepted: an edit between the copy and its digest,
\* and a control copied from an edit that was then taken back.
AssuredIsTrue ==
    /\ \A d \in Trees \ raced : stored[d] = "assured" => truth[d] = "sound"
    /\ latest.verdict = "assured" /\ latest.digest \notin raced => truth[latest.digest] = "sound"

\* A run ends: it waits neither for a lease nor for a preparation for ever.
Terminates == \A p \in Processes : run[p].at # "idle" ~> run[p].at = "idle"

===============================================================================
