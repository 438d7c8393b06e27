---------------------------- MODULE MutationPhase ----------------------------
(***************************************************************************)
(* The mutation phase (assure/mutation.go): a pool of workers answers the  *)
(* mutants of the catalog. Routing has given each mutant the groups it runs *)
(* against: targets that share a package and an environment, or, when no   *)
(* target reaches it, its package's suite. Before a group runs, the        *)
(* original code is run once (the control, shared by every mutant that     *)
(* needs the same request); its duration and those measured earlier are    *)
(* the mutant's budget. A mutant that exhausts a budget below the ceiling  *)
(* buys a second control of its own and, when that one is healthy, one     *)
(* more run under the ceiling.                                             *)
(*                                                                         *)
(* Verdicts are checkpointed as they come; an infrastructure error ends the *)
(* phase once every worker has drained the queue, and a later process      *)
(* resumes with what was saved.                                            *)
(***************************************************************************)
EXTENDS Integers, FiniteSets

CONSTANTS Mutants,      \* the executable mutants of the catalog
          Groups,       \* requests that may need a control
          Suites,       \* those that are a package's whole suite
          Jobs,         \* workers
          Ceiling,      \* the containment ceiling, in units of time
          MaxProcesses, \* bound on the processes of a behaviour
          None          \* no verdict, no group, no outcome

ASSUME PhaseAssumption ==
    /\ Suites \subseteq Groups
    /\ Jobs \in Nat \ {0} /\ Ceiling \in Nat \ {0} /\ MaxProcesses \in Nat \ {0}
    /\ None \notin Groups
    /\ None \notin {"killed", "survived", "inconclusive", "expired", "error",
                    "healthy", "failed", "running", "refused"}

VARIABLES plan,      \* the groups of each mutant
          prior,     \* what baseline and probe measured for each group
          process,   \* which process this is
          phase,     \* running, or how the phase ended
          stage,     \* what the worker that has the mutant does next
          left,      \* groups of the mutant still to be run
          at,        \* the group under way
          budget,    \* the time its next run may take
          unknown,   \* groups that gave no answer
          verdict,   \* the evaluation of the mutant in this process
          memo,      \* the shared control of each group
          took,      \* how long it ran
          saved,     \* the verdicts in the checkpoint
          runs,      \* history: runs of the mutant in the group
          seen,      \* history: what the last of them answered
          asked      \* history: what the mutant's own second control said

setup == <<plan, prior>>
work == <<left, at, budget, unknown>>
history == <<runs, seen, asked>>
vars == <<setup, process, phase, stage, work, verdict, memo, took, saved, history>>

Verdicts == {"killed", "survived", "inconclusive"}
Controls == {"healthy", "failed", "expired", "error"}
Outcomes == {"killed", "survived", "inconclusive", "expired", "error"}
Idle == {"queued", "finished", "erred"}
Stages == Idle \cup {"routed", "control", "measuring", "exec", "second", "retry", "answered"}
Durations == 0 .. Ceiling

\* A sum of samples never exceeds the ceiling (mutationExecutionTimeout).
Capped(d) == IF d < Ceiling THEN d ELSE Ceiling

Plans == (SUBSET (Groups \ Suites)) \cup {{s} : s \in Suites}

-----------------------------------------------------------------------------
\* A process starts with what its predecessors saved and nothing else.
Fresh(state) ==
    /\ phase' = "running"
    /\ stage' = [m \in Mutants |-> IF state[m] = None THEN "queued" ELSE "finished"]
    /\ verdict' = state
    /\ left' = [m \in Mutants |-> {}] /\ at' = [m \in Mutants |-> None]
    /\ budget' = [m \in Mutants |-> 0] /\ unknown' = [m \in Mutants |-> {}]
    /\ memo' = [g \in Groups |-> None] /\ took' = [g \in Groups |-> 0]
    /\ runs' = [m \in Mutants |-> [g \in Groups |-> 0]]
    /\ seen' = [m \in Mutants |-> [g \in Groups |-> None]]
    /\ asked' = [m \in Mutants |-> [g \in Groups |-> None]]

Init ==
    /\ plan \in [Mutants -> Plans] /\ prior \in [Groups -> 0 .. 1]
    /\ process = 1 /\ phase = "running"
    /\ stage = [m \in Mutants |-> "queued"]
    /\ verdict = [m \in Mutants |-> None] /\ saved = [m \in Mutants |-> None]
    /\ left = [m \in Mutants |-> {}] /\ at = [m \in Mutants |-> None]
    /\ budget = [m \in Mutants |-> 0] /\ unknown = [m \in Mutants |-> {}]
    /\ memo = [g \in Groups |-> None] /\ took = [g \in Groups |-> 0]
    /\ runs = [m \in Mutants |-> [g \in Groups |-> 0]]
    /\ seen = [m \in Mutants |-> [g \in Groups |-> None]]
    /\ asked = [m \in Mutants |-> [g \in Groups |-> None]]

Busy == {m \in Mutants : stage[m] \notin Idle}

\* A worker is named by the mutant it has; a free one takes any queued mutant.
Take(m) ==
    /\ phase = "running" /\ stage[m] = "queued" /\ Cardinality(Busy) < Jobs
    /\ stage' = [stage EXCEPT ![m] = "routed"]
    /\ left' = [left EXCEPT ![m] = plan[m]]
    /\ UNCHANGED <<setup, process, phase, at, budget, unknown, verdict, memo, took, saved, history>>

\* The group gave no answer: the mutant goes on to its next one.
Unanswered(m, g) ==
    /\ left' = [left EXCEPT ![m] = @ \ {g}]
    /\ unknown' = [unknown EXCEPT ![m] = @ \cup {g}]
    /\ stage' = [stage EXCEPT ![m] = "routed"]

\* Without a measured duration there is no control and no run.
Unavailable(m) ==
    /\ phase = "running" /\ stage[m] = "routed"
    /\ \E g \in left[m] : prior[g] = 0 /\ Unanswered(m, g)
    /\ UNCHANGED <<setup, process, phase, at, budget, verdict, memo, took, saved, history>>

Choose(m) ==
    /\ phase = "running" /\ stage[m] = "routed"
    /\ \E g \in left[m] : prior[g] > 0 /\ at' = [at EXCEPT ![m] = g]
    /\ stage' = [stage EXCEPT ![m] = "control"]
    /\ UNCHANGED <<setup, process, phase, left, budget, unknown, verdict, memo, took, saved, history>>

\* A slip: whoever asks for a control runs it.
StartControlTwice(m) ==
    /\ phase = "running" /\ stage[m] = "control" /\ memo[at[m]] \in {None, "running"}
    /\ memo' = [memo EXCEPT ![at[m]] = "running"]
    /\ stage' = [stage EXCEPT ![m] = "measuring"]
    /\ UNCHANGED <<setup, process, phase, work, verdict, took, saved, history>>

\* The first worker to ask for a control runs it, the others wait (sync.Once).
StartControl(m) ==
    /\ phase = "running" /\ stage[m] = "control" /\ memo[at[m]] = None
    /\ memo' = [memo EXCEPT ![at[m]] = "running"]
    /\ stage' = [stage EXCEPT ![m] = "measuring"]
    /\ UNCHANGED <<setup, process, phase, work, verdict, took, saved, history>>

\* A slip: a control that errs is not remembered, and who waits for it waits on.
MeasureControlLost(m) ==
    /\ phase = "running" /\ stage[m] = "measuring"
    /\ \E outcome \in Controls, d \in Durations :
          /\ memo' = [memo EXCEPT ![at[m]] = IF outcome = "error" THEN "running" ELSE outcome]
          /\ took' = [took EXCEPT ![at[m]] = d]
    /\ stage' = [stage EXCEPT ![m] = "control"]
    /\ UNCHANGED <<setup, process, phase, work, verdict, saved, history>>

\* The control runs under the ceiling itself.
MeasureControl(m) ==
    /\ phase = "running" /\ stage[m] = "measuring"
    /\ \E outcome \in Controls, d \in Durations :
          /\ memo' = [memo EXCEPT ![at[m]] = outcome]
          /\ took' = [took EXCEPT ![at[m]] = d]
    /\ stage' = [stage EXCEPT ![m] = "control"]
    /\ UNCHANGED <<setup, process, phase, work, verdict, saved, history>>

ControlHealthy(m) ==
    /\ phase = "running" /\ stage[m] = "control" /\ memo[at[m]] = "healthy"
    /\ budget' = [budget EXCEPT ![m] = Capped(prior[at[m]] + took[at[m]])]
    /\ stage' = [stage EXCEPT ![m] = "exec"]
    /\ UNCHANGED <<setup, process, phase, left, at, unknown, verdict, memo, took, saved, history>>

ControlUnhealthy(m) ==
    /\ phase = "running" /\ stage[m] = "control" /\ memo[at[m]] \in {"failed", "expired"}
    /\ Unanswered(m, at[m])
    /\ UNCHANGED <<setup, process, phase, at, budget, verdict, memo, took, saved, history>>

\* An error of the shared control is an error of every mutant that needs it.
ControlErrs(m) ==
    /\ phase = "running" /\ stage[m] = "control" /\ memo[at[m]] = "error"
    /\ stage' = [stage EXCEPT ![m] = "erred"]
    /\ UNCHANGED <<setup, process, phase, work, verdict, memo, took, saved, history>>

-----------------------------------------------------------------------------
(* The mutant runs.                                                        *)

Ran(m, outcome) ==
    /\ runs' = [runs EXCEPT ![m][at[m]] = @ + 1]
    /\ seen' = [seen EXCEPT ![m][at[m]] = outcome]
    /\ UNCHANGED asked

Answer(m, v) ==
    /\ verdict' = [verdict EXCEPT ![m] = v]
    /\ stage' = [stage EXCEPT ![m] = "answered"]

Running(m) == phase = "running" /\ stage[m] \in {"exec", "retry"}

\* One failing group is proof enough.
Kills(m) ==
    /\ Running(m) /\ Ran(m, "killed") /\ Answer(m, "killed")
    /\ UNCHANGED <<setup, process, phase, work, memo, took, saved>>

\* A slip: the first group that passes answers for all.
PassesForAll(m) ==
    /\ Running(m) /\ Ran(m, "survived")
    /\ left' = [left EXCEPT ![m] = {}]
    /\ stage' = [stage EXCEPT ![m] = "routed"]
    /\ UNCHANGED <<setup, process, phase, at, budget, unknown, verdict, memo, took, saved>>

Passes(m) ==
    /\ Running(m) /\ Ran(m, "survived")
    /\ left' = [left EXCEPT ![m] = @ \ {at[m]}]
    /\ stage' = [stage EXCEPT ![m] = "routed"]
    /\ UNCHANGED <<setup, process, phase, at, budget, unknown, verdict, memo, took, saved>>

\* A slip: a budget one unit below the ceiling passes for the ceiling.
ExpiresAlmost(m) ==
    /\ Running(m) /\ Ran(m, "expired")
    /\ IF stage[m] = "exec" /\ budget[m] + 1 < Ceiling
       THEN /\ stage' = [stage EXCEPT ![m] = "second"]
            /\ UNCHANGED <<left, unknown>>
       ELSE Unanswered(m, at[m])
    /\ UNCHANGED <<setup, process, phase, at, budget, verdict, memo, took, saved>>

\* A budget below the ceiling was a guess, and has just been falsified.
Expires(m) ==
    /\ Running(m) /\ Ran(m, "expired")
    /\ IF stage[m] = "exec" /\ budget[m] < Ceiling
       THEN /\ stage' = [stage EXCEPT ![m] = "second"]
            /\ UNCHANGED <<left, unknown>>
       ELSE Unanswered(m, at[m])
    /\ UNCHANGED <<setup, process, phase, at, budget, verdict, memo, took, saved>>

Undecided(m) ==
    /\ Running(m) /\ Ran(m, "inconclusive") /\ Unanswered(m, at[m])
    /\ UNCHANGED <<setup, process, phase, at, budget, verdict, memo, took, saved>>

RunErrs(m) ==
    /\ Running(m) /\ Ran(m, "error")
    /\ stage' = [stage EXCEPT ![m] = "erred"]
    /\ UNCHANGED <<setup, process, phase, work, verdict, memo, took, saved>>

\* A slip: the second control is asked of the memo, which always answers healthy.
SecondControlMemoized(m) ==
    /\ phase = "running" /\ stage[m] = "second"
    /\ budget' = [budget EXCEPT ![m] = Ceiling]
    /\ stage' = [stage EXCEPT ![m] = "retry"]
    /\ UNCHANGED <<setup, process, phase, left, at, unknown, verdict, memo, took, saved, history>>

\* The second control is not shared, and even an error of it only means that
\* nothing vouches for the expired run.
SecondControl(m) ==
    /\ phase = "running" /\ stage[m] = "second"
    /\ \E outcome \in Controls, d \in Durations :
          IF outcome = "healthy" /\ d > 0
          THEN /\ budget' = [budget EXCEPT ![m] = Ceiling]
               /\ stage' = [stage EXCEPT ![m] = "retry"]
               /\ asked' = [asked EXCEPT ![m][at[m]] = "healthy"]
               /\ UNCHANGED <<left, unknown>>
          ELSE /\ Unanswered(m, at[m])
               /\ asked' = [asked EXCEPT ![m][at[m]] = "refused"]
               /\ UNCHANGED budget
    /\ UNCHANGED <<setup, process, phase, at, verdict, memo, took, saved, runs, seen>>

\* No group killed it: it survived if every group was able to say so.
Concluded(m) == IF unknown[m] = {} THEN "survived" ELSE "inconclusive"

Conclude(m) ==
    /\ phase = "running" /\ stage[m] = "routed" /\ left[m] = {}
    /\ Answer(m, Concluded(m))
    /\ UNCHANGED <<setup, process, phase, work, memo, took, saved, history>>

\* The verdict goes to the checkpoint, and the worker to its next mutant.
Save(m) ==
    /\ phase = "running" /\ stage[m] = "answered"
    /\ saved' = [saved EXCEPT ![m] = verdict[m]]
    /\ stage' = [stage EXCEPT ![m] = "finished"]
    /\ UNCHANGED <<setup, process, phase, work, verdict, memo, took, history>>

-----------------------------------------------------------------------------
\* A slip: the phase ends with its first error.
CollectEarly ==
    /\ phase = "running"
    /\ \/ \A m \in Mutants : stage[m] \in {"finished", "erred"}
       \/ \E m \in Mutants : stage[m] = "erred"
    /\ phase' = IF \E m \in Mutants : stage[m] = "erred" THEN "failed" ELSE "done"
    /\ UNCHANGED <<setup, process, stage, work, verdict, memo, took, saved, history>>

\* Every worker has drained the queue: one error is an error of the phase.
Collect ==
    /\ phase = "running" /\ \A m \in Mutants : stage[m] \in {"finished", "erred"}
    /\ phase' = IF \E m \in Mutants : stage[m] = "erred" THEN "failed" ELSE "done"
    /\ UNCHANGED <<setup, process, stage, work, verdict, memo, took, saved, history>>

\* The process dies. A further one is left, so that a behaviour may go on.
Stop ==
    /\ phase = "running" /\ process < MaxProcesses
    /\ phase' = "stopped"
    /\ UNCHANGED <<setup, process, stage, work, verdict, memo, took, saved, history>>

\* A slip: the queue is built before the saved verdicts are looked at.
RerunAll ==
    /\ phase \in {"failed", "stopped"} /\ process < MaxProcesses
    /\ process' = process + 1
    /\ Fresh([m \in Mutants |-> None])
    /\ UNCHANGED <<setup, saved>>

\* The verification is run again, on the same snapshot and measurements.
Rerun ==
    /\ phase \in {"failed", "stopped"} /\ process < MaxProcesses
    /\ process' = process + 1
    /\ Fresh(saved)
    /\ UNCHANGED <<setup, saved>>

Control(m) == \/ Unavailable(m) \/ Choose(m) \/ StartControl(m) \/ MeasureControl(m)
              \/ ControlHealthy(m) \/ ControlUnhealthy(m) \/ ControlErrs(m)
Execute(m) == \/ Kills(m) \/ Passes(m) \/ Expires(m) \/ Undecided(m) \/ RunErrs(m)
              \/ SecondControl(m)
Work(m) == Take(m) \/ Control(m) \/ Execute(m) \/ Conclude(m) \/ Save(m)

Next == (\E m \in Mutants : Work(m)) \/ Collect \/ Stop \/ Rerun

\* Workers are goroutines and every run has a deadline; a stopped or failed
\* verification is run again.
Fairness == /\ \A m \in Mutants : WF_vars(Work(m))
            /\ WF_vars(Collect) /\ WF_vars(Rerun)

Spec == Init /\ [][Next]_vars
FairSpec == Spec /\ Fairness

-----------------------------------------------------------------------------
(* Properties.                                                             *)

TypeOK ==
    /\ plan \in [Mutants -> SUBSET Groups] /\ prior \in [Groups -> Nat]
    /\ process \in 1 .. MaxProcesses /\ phase \in {"running", "failed", "done", "stopped"}
    /\ stage \in [Mutants -> Stages]
    /\ left \in [Mutants -> SUBSET Groups] /\ at \in [Mutants -> Groups \cup {None}]
    /\ budget \in [Mutants -> Durations] /\ unknown \in [Mutants -> SUBSET Groups]
    /\ verdict \in [Mutants -> Verdicts \cup {None}]
    /\ memo \in [Groups -> Controls \cup {None, "running"}] /\ took \in [Groups -> Durations]
    /\ saved \in [Mutants -> Verdicts \cup {None}]
    /\ runs \in [Mutants -> [Groups -> Nat]]
    /\ seen \in [Mutants -> [Groups -> Outcomes \cup {None}]]
    /\ asked \in [Mutants -> [Groups -> {None, "healthy", "refused"}]]

Resumed(m) == saved[m] # None /\ \A g \in Groups : runs[m][g] = 0

\* A verdict is what the runs of this process showed: killed when one failed,
\* survived when every group of the plan passed, inconclusive when none killed
\* and one could not answer (evaluateMutationSeed, 503-567).
VerdictIsEarned ==
    \A m \in Mutants : verdict[m] # None /\ ~Resumed(m) =>
        \/ verdict[m] = "killed" /\ \E g \in plan[m] : seen[m][g] = "killed"
        \/ verdict[m] = "survived" /\ \A g \in plan[m] : seen[m][g] = "survived"
        \/ /\ verdict[m] = "inconclusive"
           /\ \A g \in plan[m] : seen[m][g] # "killed"
           /\ \E g \in plan[m] : seen[m][g] # "survived"

\* No mutant runs in a group whose original was not seen to pass in the same
\* process, and the control that says so is run once (memoizedOriginalControl).
RunsAreControlled ==
    /\ \A m \in Mutants, g \in Groups : runs[m][g] > 0 => memo[g] = "healthy"
    /\ \A m, n \in Mutants : stage[m] = "measuring" /\ stage[n] = "measuring" /\ at[m] = at[n]
                             => m = n

\* A group runs a mutant at most twice, and the second time only because the
\* first expired and a control of its own was healthy
\* (executeMutationUnderMeasuredBudget).
SecondRunIsVouched ==
    \A m \in Mutants, g \in Groups :
        /\ runs[m][g] <= 2
        /\ runs[m][g] = 2 => asked[m][g] = "healthy"
        /\ asked[m][g] = "healthy" /\ runs[m][g] = 1 => stage[m] = "retry" /\ at[m] = g

\* An expired budget is never an answer by itself: it counts only when it was
\* the ceiling, or when a later control of the same request was not healthy
\* (containmentAfterHealthyControl).
ExpiryIsWeighed ==
    \A m \in Mutants : \A g \in unknown[m] :
        seen[m][g] = "expired" => \/ Capped(prior[g] + took[g]) = Ceiling
                                  \/ runs[m][g] = 2 \/ asked[m][g] = "refused"

\* However the phase ends, every verdict reached in it is in the checkpoint: an
\* error of one mutant never costs its siblings theirs (evaluateMutationSeeds).
SiblingsAreSaved ==
    phase \in {"failed", "done"} =>
        \A m \in Mutants : saved[m] = verdict[m] /\ (stage[m] # "erred" => saved[m] # None)

\* A mutant whose verdict is saved is never run again and its verdict never
\* changes, in this process or a later one (EvaluateMutations, 153-161).
SavedIsSettled ==
    [][\A m \in Mutants : saved[m] # None =>
          /\ saved'[m] = saved[m]
          /\ runs'[m] # runs[m] => process' # process]_vars

\* The phase ends: no worker waits for a control nobody runs, and mutants that
\* share one do not wait for each other.
Terminates == <>[](phase \in {"failed", "done"})
=============================================================================
