------------------------ MODULE MutationPhaseProofs ------------------------
(***************************************************************************)
(* What the mutation phase answers, for every catalog, every grouping, any *)
(* number of workers and any number of processes (MutationPhase).          *)
(***************************************************************************)
EXTENDS MutationPhase, TLAPS

-----------------------------------------------------------------------------
(* The inductive invariant: what is known of one mutant at each stage.     *)

InGroup == {"control", "measuring", "exec", "second", "retry"}
Working == InGroup \cup {"routed"}

\* The groups still to be run, those without an answer and the rest partition
\* the plan, and the one under way is still to be run.
Place(m) ==
    /\ left[m] \subseteq plan[m] /\ unknown[m] \subseteq plan[m] \ left[m]
    /\ stage[m] \in InGroup => at[m] \in left[m]
    /\ stage[m] = "queued" => unknown[m] = {}

Counts(m) == \A g \in Groups :
    /\ runs[m][g] \in 0 .. 2
    /\ runs[m][g] = 0 <=> seen[m][g] = None
    /\ runs[m][g] > 0 => memo[g] = "healthy"
    /\ runs[m][g] = 0 => asked[m][g] = None
    /\ runs[m][g] = 2 => asked[m][g] = "healthy"
    /\ asked[m][g] = "healthy" /\ runs[m][g] = 1 => stage[m] = "retry" /\ at[m] = g
    /\ stage[m] = "queued" => runs[m][g] = 0

AtWork(m) ==
    /\ stage[m] \in {"control", "measuring", "exec"} => runs[m][at[m]] = 0
    /\ stage[m] = "exec" => /\ memo[at[m]] = "healthy"
                            /\ budget[m] = Capped(prior[at[m]] + took[at[m]])
    /\ stage[m] \in {"second", "retry"} => runs[m][at[m]] = 1 /\ seen[m][at[m]] = "expired"
    /\ stage[m] = "second" => asked[m][at[m]] = None
    /\ stage[m] = "retry" => asked[m][at[m]] = "healthy" /\ budget[m] = Ceiling

Answers(m) ==
    stage[m] \in Working => \A g \in plan[m] :
        /\ g \in unknown[m] => seen[m][g] \notin {"killed", "survived"}
        /\ g \notin left[m] \cup unknown[m] => seen[m][g] = "survived"
        /\ g \in left[m] => \/ seen[m][g] = None
                            \/ stage[m] \in {"second", "retry"} /\ g = at[m]

Weighed(m) == \A g \in unknown[m] :
    seen[m][g] = "expired" => \/ Capped(prior[g] + took[g]) = Ceiling
                              \/ runs[m][g] = 2 \/ asked[m][g] = "refused"

Earned(m) ==
    \/ verdict[m] = "killed" /\ \E g \in plan[m] : seen[m][g] = "killed"
    \/ verdict[m] = "survived" /\ \A g \in plan[m] : seen[m][g] = "survived"
    \/ /\ verdict[m] = "inconclusive"
       /\ \A g \in plan[m] : seen[m][g] # "killed"
       /\ \E g \in plan[m] : seen[m][g] # "survived"

Outcome(m) ==
    /\ stage[m] \in {"answered", "finished"} <=> verdict[m] # None
    /\ saved[m] = IF stage[m] = "finished" THEN verdict[m] ELSE None
    /\ verdict[m] # None => Earned(m) \/ Resumed(m)

MInv(m) == Place(m) /\ Counts(m) /\ AtWork(m) /\ Answers(m) /\ Weighed(m) /\ Outcome(m)

\* A control under way has one owner.
Owned ==
    /\ \A m \in Mutants : stage[m] = "measuring" => memo[at[m]] = "running"
    /\ \A m, n \in Mutants : stage[m] = "measuring" /\ stage[n] = "measuring" /\ at[m] = at[n]
                             => m = n

Ended == phase \in {"failed", "done"} => \A m \in Mutants : stage[m] \in {"finished", "erred"}

PInv == TypeOK /\ Ended /\ Owned /\ \A m \in Mutants : MInv(m)

-----------------------------------------------------------------------------
(* A worker touches its own mutant and, at most, a control nobody has used. *)

Same(m) ==
    /\ stage'[m] = stage[m] /\ left'[m] = left[m] /\ at'[m] = at[m]
    /\ budget'[m] = budget[m] /\ unknown'[m] = unknown[m]
    /\ verdict'[m] = verdict[m] /\ saved'[m] = saved[m]
    /\ runs'[m] = runs[m] /\ seen'[m] = seen[m] /\ asked'[m] = asked[m]

ControlsKept == \A g \in Groups : memo[g] = "healthy" => memo'[g] = "healthy" /\ took'[g] = took[g]

Alone(n) ==
    /\ TypeOK' /\ phase = "running" /\ phase' = "running" /\ UNCHANGED setup
    /\ ControlsKept /\ \A m \in Mutants \ {n} : Same(m)

\* The other mutants notice nothing of a worker's step.
LEMMA Bystander ==
    ASSUME TypeOK, NEW n \in Mutants, Alone(n), NEW m \in Mutants \ {n}, MInv(m)
    PROVE  MInv(m)'
<1>1. /\ Same(m) /\ plan' = plan /\ prior' = prior /\ ControlsKept
      /\ plan[m] \subseteq Groups /\ unknown[m] \subseteq Groups /\ at[m] \in Groups \cup {None}
  BY DEF Alone, TypeOK, setup
<1>2. stage[m] \in InGroup => at[m] \in Groups
  BY <1>1 DEF MInv, Place
<1>3. Place(m)'
  BY <1>1 DEF MInv, Place, Same
<1>4. Counts(m)'
  BY <1>1 DEF MInv, Counts, Same, ControlsKept
<1>5. AtWork(m)'
  BY <1>1, <1>2 DEF MInv, AtWork, Same, ControlsKept, InGroup, Capped
<1>6. Answers(m)'
  BY <1>1 DEF MInv, Answers, Same
<1>7. Weighed(m)'
  <2> SUFFICES ASSUME NEW g \in unknown[m], seen[m][g] = "expired"
               PROVE  \/ Capped(prior[g] + took'[g]) = Ceiling
                      \/ runs[m][g] = 2 \/ asked[m][g] = "refused"
    BY <1>1 DEF Weighed, Same, Capped
  <2>1. g \in Groups /\ seen[m][g] # None
    BY <1>1, PhaseAssumption
  <2>2. runs[m][g] > 0
    BY <2>1 DEF MInv, Counts
  <2>3. took'[g] = took[g]
    BY <1>1, <2>1, <2>2 DEF MInv, Counts, ControlsKept
  <2> QED BY <2>3 DEF MInv, Weighed
<1>8. Outcome(m)'
  BY <1>1 DEF MInv, Outcome, Same, Earned, Resumed
<1> QED BY <1>3, <1>4, <1>5, <1>6, <1>7, <1>8 DEF MInv

\* What a step of one worker has to show.
LEMMA OneWorker ==
    ASSUME PInv, NEW n \in Mutants, Alone(n), MInv(n)', Owned'
    PROVE  PInv'
<1>1. \A m \in Mutants : MInv(m)'
  BY Bystander DEF PInv
<1>2. Ended'
  BY DEF Ended, Alone
<1> QED BY <1>1, <1>2 DEF PInv, Alone

\* Controls keep their owners while nobody starts or ends one.
LEMMA OwnersStay ==
    ASSUME PInv, NEW n \in Mutants, Alone(n), memo' = memo, stage'[n] # "measuring"
    PROVE  Owned'
BY DEF PInv, Owned, Alone, Same
-----------------------------------------------------------------------------
(* One lemma per step, and in it one step per part of the invariant.       *)

\* What every step of a worker may use.
Known(n) ==
    /\ TypeOK /\ Place(n) /\ Counts(n) /\ AtWork(n) /\ Answers(n) /\ Weighed(n) /\ Outcome(n)
    /\ plan[n] \subseteq Groups
    /\ stage[n] \in InGroup => at[n] \in Groups /\ at[n] \in left[n]
    /\ \A g \in left[n] : stage[n] = "routed" => seen[n][g] = None /\ runs[n][g] = 0

LEMMA Standing == ASSUME PInv, NEW n \in Mutants PROVE Known(n)
<1>1. TypeOK /\ Place(n) /\ Counts(n) /\ AtWork(n) /\ Answers(n) /\ Weighed(n) /\ Outcome(n)
  BY DEF PInv, MInv
<1>2. plan[n] \subseteq Groups
  BY <1>1 DEF TypeOK
<1>3. stage[n] \in InGroup => at[n] \in Groups /\ at[n] \in left[n]
  BY <1>1, <1>2 DEF Place
<1>4. ASSUME NEW g \in left[n], stage[n] = "routed" PROVE seen[n][g] = None /\ runs[n][g] = 0
  <2>1. g \in plan[n] /\ g \in Groups
    BY <1>1, <1>2 DEF Place
  <2> QED BY <1>1, <1>4, <2>1 DEF Answers, Working, Counts
<1> QED BY <1>1, <1>2, <1>3, <1>4 DEF Known

\* A free worker takes a queued mutant: nothing is answered yet.
LEMMA TakeKeeps == ASSUME PInv, NEW n \in Mutants, Take(n) PROVE PInv'
<1>k. Known(n)
  BY Standing
<1>1. TypeOK'
  BY <1>k, PhaseAssumption DEF Known, Take, setup, history, TypeOK, Stages, Idle, InGroup
<1>2. ControlsKept /\ \A m \in Mutants \ {n} : Same(m)
  BY <1>k DEF Known, Take, setup, history, TypeOK, ControlsKept, Same
<1>3. Alone(n)
  BY <1>1, <1>2 DEF Take, setup, history, Alone
<1>b. /\ stage[n] = "queued" /\ left'[n] = plan[n] /\ unknown'[n] = {} /\ plan' = plan
      /\ \A g \in plan[n] : seen'[n][g] = None
  BY <1>k DEF Known, Take, setup, history, TypeOK, Place, Counts
<1>4. Place(n)'
  BY <1>k, PhaseAssumption DEF Known, Take, setup, history, TypeOK, Place, InGroup
<1>5. Counts(n)'
  BY <1>k, PhaseAssumption DEF Known, Take, setup, history, TypeOK, Counts, AtWork, InGroup
<1>6. AtWork(n)'
  BY <1>k, PhaseAssumption DEF Known, Take, setup, history, TypeOK, AtWork, Counts, InGroup
<1>7. Answers(n)'
  BY <1>b DEF Answers
<1>8. Weighed(n)'
  BY <1>k, PhaseAssumption DEF Known, Take, setup, history, TypeOK, Weighed, AtWork, Place, InGroup, Capped, Durations
<1>9. Outcome(n)'
  BY <1>k, PhaseAssumption DEF Known, Take, setup, history, TypeOK, Outcome, Answers, Place, Counts, Earned, Resumed, InGroup, Working
<1>10. Owned'
  BY <1>3, <1>k, OwnersStay DEF Known, Take, setup, history, TypeOK
<1>11. MInv(n)'
  BY <1>4, <1>5, <1>6, <1>7, <1>8, <1>9 DEF MInv
<1> QED BY <1>3, <1>11, <1>10, OneWorker

\* A group that was never measured gives no answer; it has not run either.
LEMMA UnavailableKeeps == ASSUME PInv, NEW n \in Mutants, Unavailable(n) PROVE PInv'
<1>k. Known(n)
  BY Standing
<1>1. TypeOK'
  BY <1>k, PhaseAssumption DEF Known, Unavailable, Unanswered, setup, history, TypeOK, Stages, Idle, InGroup
<1>2. ControlsKept /\ \A m \in Mutants \ {n} : Same(m)
  BY <1>k DEF Known, Unavailable, Unanswered, setup, history, TypeOK, ControlsKept, Same
<1>3. Alone(n)
  BY <1>1, <1>2 DEF Unavailable, Unanswered, setup, history, Alone
<1>4. Place(n)'
  BY <1>k, PhaseAssumption DEF Known, Unavailable, Unanswered, setup, history, TypeOK, Place, InGroup
<1>5. Counts(n)'
  BY <1>k, PhaseAssumption DEF Known, Unavailable, Unanswered, setup, history, TypeOK, Counts, AtWork, InGroup
<1>6. AtWork(n)'
  BY <1>k, PhaseAssumption DEF Known, Unavailable, Unanswered, setup, history, TypeOK, AtWork, Counts, InGroup
<1>7. Answers(n)'
  BY <1>k, PhaseAssumption DEF Known, Unavailable, Unanswered, setup, history, TypeOK, Answers, Place, InGroup, Working
<1>8. Weighed(n)'
  BY <1>k, PhaseAssumption DEF Known, Unavailable, Unanswered, setup, history, TypeOK, Weighed, AtWork, Place, InGroup, Capped, Durations
<1>9. Outcome(n)'
  BY <1>k, PhaseAssumption DEF Known, Unavailable, Unanswered, setup, history, TypeOK, Outcome, Answers, Place, Counts, Earned, Resumed, InGroup, Working
<1>10. Owned'
  BY <1>3, <1>k, OwnersStay DEF Known, Unavailable, Unanswered, setup, history, TypeOK
<1>11. MInv(n)'
  BY <1>4, <1>5, <1>6, <1>7, <1>8, <1>9 DEF MInv
<1> QED BY <1>3, <1>11, <1>10, OneWorker

\* The next group has not run yet.
LEMMA ChooseKeeps == ASSUME PInv, NEW n \in Mutants, Choose(n) PROVE PInv'
<1>k. Known(n)
  BY Standing
<1>1. TypeOK'
  BY <1>k, PhaseAssumption DEF Known, Choose, setup, history, TypeOK, Stages, Idle, InGroup
<1>2. ControlsKept /\ \A m \in Mutants \ {n} : Same(m)
  BY <1>k DEF Known, Choose, setup, history, TypeOK, ControlsKept, Same
<1>3. Alone(n)
  BY <1>1, <1>2 DEF Choose, setup, history, Alone
<1>4. Place(n)'
  BY <1>k, PhaseAssumption DEF Known, Choose, setup, history, TypeOK, Place, InGroup
<1>5. Counts(n)'
  BY <1>k, PhaseAssumption DEF Known, Choose, setup, history, TypeOK, Counts, AtWork, InGroup
<1>6. AtWork(n)'
  BY <1>k, PhaseAssumption DEF Known, Choose, setup, history, TypeOK, AtWork, Counts, InGroup
<1>7. Answers(n)'
  BY <1>k, PhaseAssumption DEF Known, Choose, setup, history, TypeOK, Answers, Place, InGroup, Working
<1>8. Weighed(n)'
  BY <1>k, PhaseAssumption DEF Known, Choose, setup, history, TypeOK, Weighed, AtWork, Place, InGroup, Capped, Durations
<1>9. Outcome(n)'
  BY <1>k, PhaseAssumption DEF Known, Choose, setup, history, TypeOK, Outcome, Answers, Place, Counts, Earned, Resumed, InGroup, Working
<1>10. Owned'
  BY <1>3, <1>k, OwnersStay DEF Known, Choose, setup, history, TypeOK
<1>11. MInv(n)'
  BY <1>4, <1>5, <1>6, <1>7, <1>8, <1>9 DEF MInv
<1> QED BY <1>3, <1>11, <1>10, OneWorker

\* Nobody else is measuring the control: it would be running.
LEMMA StartControlKeeps == ASSUME PInv, NEW n \in Mutants, StartControl(n) PROVE PInv'
<1>k. Known(n)
  BY Standing
<1>1. TypeOK'
  BY <1>k, PhaseAssumption DEF Known, StartControl, setup, work, history, TypeOK, Stages, Idle, InGroup
<1>2. Owned'
  BY <1>k, PhaseAssumption DEF Known, StartControl, setup, work, history, TypeOK, PInv, Owned, InGroup
<1>3. ControlsKept /\ \A m \in Mutants \ {n} : Same(m)
  BY <1>k, PhaseAssumption DEF Known, StartControl, setup, work, history, TypeOK, ControlsKept, Same, InGroup
<1>4. Alone(n)
  BY <1>1, <1>3 DEF StartControl, setup, work, history, Alone
<1>5. Place(n)'
  BY <1>k, PhaseAssumption DEF Known, StartControl, setup, work, history, TypeOK, Place, InGroup
<1>6. Counts(n)'
  BY <1>k, PhaseAssumption DEF Known, StartControl, setup, work, history, TypeOK, Counts, AtWork, InGroup
<1>7. AtWork(n)'
  BY <1>k, PhaseAssumption DEF Known, StartControl, setup, work, history, TypeOK, AtWork, Counts, InGroup
<1>8. Answers(n)'
  BY <1>k, PhaseAssumption DEF Known, StartControl, setup, work, history, TypeOK, Answers, Place, InGroup, Working
<1>9. Weighed(n)'
  BY <1>k, PhaseAssumption DEF Known, StartControl, setup, work, history, TypeOK, Weighed, AtWork, Place, InGroup, Capped, Durations
<1>10. Outcome(n)'
  BY <1>k, PhaseAssumption DEF Known, StartControl, setup, work, history, TypeOK, Outcome, Answers, Place, Counts, Earned, Resumed, InGroup, Working
<1>11. MInv(n)'
  BY <1>5, <1>6, <1>7, <1>8, <1>9, <1>10 DEF MInv
<1> QED BY <1>4, <1>11, <1>2, OneWorker

\* Only its owner ends a control, and no run rests on one that is under way.
LEMMA MeasureControlKeeps == ASSUME PInv, NEW n \in Mutants, MeasureControl(n) PROVE PInv'
<1>k. Known(n)
  BY Standing
<1>1. TypeOK'
  BY <1>k, PhaseAssumption DEF Known, MeasureControl, setup, work, history, TypeOK, Stages, Idle, InGroup, Controls, Durations
<1>2. ControlsKept /\ \A m \in Mutants \ {n} : Same(m)
  BY <1>k DEF Known, MeasureControl, setup, work, history, TypeOK, ControlsKept, Same, PInv, Owned
<1>3. Alone(n)
  BY <1>1, <1>2 DEF MeasureControl, setup, work, history, Alone
<1>4. Place(n)'
  BY <1>k, PhaseAssumption DEF Known, MeasureControl, setup, work, history, TypeOK, Place, InGroup
<1>5. Counts(n)'
  BY <1>k, PhaseAssumption DEF Known, MeasureControl, setup, work, history, TypeOK, Counts, AtWork, InGroup
<1>6. AtWork(n)'
  BY <1>k, PhaseAssumption DEF Known, MeasureControl, setup, work, history, TypeOK, AtWork, Counts, InGroup
<1>7. Answers(n)'
  BY <1>k, PhaseAssumption DEF Known, MeasureControl, setup, work, history, TypeOK, Answers, Place, InGroup, Working
<1>8. Weighed(n)'
  BY <1>k, PhaseAssumption DEF Known, MeasureControl, setup, work, history, TypeOK, Weighed, AtWork, Place, InGroup, Capped, Durations
<1>9. Outcome(n)'
  BY <1>k, PhaseAssumption DEF Known, MeasureControl, setup, work, history, TypeOK, Outcome, Answers, Place, Counts, Earned, Resumed, InGroup, Working
<1>10. Owned'
  BY <1>k DEF Known, MeasureControl, setup, work, history, TypeOK, PInv, Owned, InGroup
<1>11. MInv(n)'
  BY <1>4, <1>5, <1>6, <1>7, <1>8, <1>9 DEF MInv
<1> QED BY <1>3, <1>11, <1>10, OneWorker

\* The budget of a run comes from the control just read.
LEMMA ControlHealthyKeeps == ASSUME PInv, NEW n \in Mutants, ControlHealthy(n) PROVE PInv'
<1>k. Known(n)
  BY Standing
<1>1. TypeOK'
  BY <1>k, PhaseAssumption DEF Known, ControlHealthy, setup, history, TypeOK, Stages, Idle, InGroup, Durations, Capped
<1>2. ControlsKept /\ \A m \in Mutants \ {n} : Same(m)
  BY <1>k DEF Known, ControlHealthy, setup, history, TypeOK, ControlsKept, Same
<1>3. Alone(n)
  BY <1>1, <1>2 DEF ControlHealthy, setup, history, Alone
<1>4. Place(n)'
  BY <1>k, PhaseAssumption DEF Known, ControlHealthy, setup, history, TypeOK, Place, InGroup
<1>5. Counts(n)'
  BY <1>k, PhaseAssumption DEF Known, ControlHealthy, setup, history, TypeOK, Counts, AtWork, InGroup
<1>6. AtWork(n)'
  BY <1>k, PhaseAssumption DEF Known, ControlHealthy, setup, history, TypeOK, AtWork, Counts, InGroup
<1>7. Answers(n)'
  BY <1>k, PhaseAssumption DEF Known, ControlHealthy, setup, history, TypeOK, Answers, Place, InGroup, Working
<1>8. Weighed(n)'
  BY <1>k, PhaseAssumption DEF Known, ControlHealthy, setup, history, TypeOK, Weighed, AtWork, Place, InGroup, Capped, Durations
<1>9. Outcome(n)'
  BY <1>k, PhaseAssumption DEF Known, ControlHealthy, setup, history, TypeOK, Outcome, Answers, Place, Counts, Earned, Resumed, InGroup, Working
<1>10. Owned'
  BY <1>3, <1>k, OwnersStay DEF Known, ControlHealthy, setup, history, TypeOK
<1>11. MInv(n)'
  BY <1>4, <1>5, <1>6, <1>7, <1>8, <1>9 DEF MInv
<1> QED BY <1>3, <1>11, <1>10, OneWorker

\* No run without a healthy control.
LEMMA ControlUnhealthyKeeps == ASSUME PInv, NEW n \in Mutants, ControlUnhealthy(n) PROVE PInv'
<1>k. Known(n)
  BY Standing
<1>1. TypeOK'
  BY <1>k, PhaseAssumption DEF Known, ControlUnhealthy, Unanswered, setup, history, TypeOK, Stages, Idle, InGroup
<1>2. ControlsKept /\ \A m \in Mutants \ {n} : Same(m)
  BY <1>k DEF Known, ControlUnhealthy, Unanswered, setup, history, TypeOK, ControlsKept, Same
<1>3. Alone(n)
  BY <1>1, <1>2 DEF ControlUnhealthy, Unanswered, setup, history, Alone
<1>b. /\ unknown'[n] = unknown[n] \cup {at[n]} /\ seen[n][at[n]] = None
      /\ UNCHANGED <<prior, took, seen, runs, asked>>
  BY <1>k DEF Known, ControlUnhealthy, Unanswered, setup, history, TypeOK, AtWork, Counts, InGroup
<1>4. Place(n)'
  BY <1>k, PhaseAssumption DEF Known, ControlUnhealthy, Unanswered, setup, history, TypeOK, Place, InGroup
<1>5. Counts(n)'
  BY <1>k, PhaseAssumption DEF Known, ControlUnhealthy, Unanswered, setup, history, TypeOK, Counts, AtWork, InGroup
<1>6. AtWork(n)'
  BY <1>k, PhaseAssumption DEF Known, ControlUnhealthy, Unanswered, setup, history, TypeOK, AtWork, Counts, InGroup
<1>7. Answers(n)'
  BY <1>k, PhaseAssumption DEF Known, ControlUnhealthy, Unanswered, setup, history, TypeOK, Answers, Place, InGroup, Working
<1>8. Weighed(n)'
  BY <1>b, <1>k, PhaseAssumption DEF Known, Weighed, Capped
<1>9. Outcome(n)'
  BY <1>k, PhaseAssumption DEF Known, ControlUnhealthy, Unanswered, setup, history, TypeOK, Outcome, Answers, Place, Counts, Earned, Resumed, InGroup, Working
<1>10. Owned'
  BY <1>3, <1>k, OwnersStay DEF Known, ControlUnhealthy, Unanswered, setup, history, TypeOK
<1>11. MInv(n)'
  BY <1>4, <1>5, <1>6, <1>7, <1>8, <1>9 DEF MInv
<1> QED BY <1>3, <1>11, <1>10, OneWorker

\* An error leaves the mutant without a verdict.
LEMMA ControlErrsKeeps == ASSUME PInv, NEW n \in Mutants, ControlErrs(n) PROVE PInv'
<1>k. Known(n)
  BY Standing
<1>1. TypeOK'
  BY <1>k, PhaseAssumption DEF Known, ControlErrs, setup, work, history, TypeOK, Stages, Idle, InGroup
<1>2. ControlsKept /\ \A m \in Mutants \ {n} : Same(m)
  BY <1>k DEF Known, ControlErrs, setup, work, history, TypeOK, ControlsKept, Same
<1>3. Alone(n)
  BY <1>1, <1>2 DEF ControlErrs, setup, work, history, Alone
<1>4. Place(n)'
  BY <1>k, PhaseAssumption DEF Known, ControlErrs, setup, work, history, TypeOK, Place, InGroup
<1>5. Counts(n)'
  BY <1>k, PhaseAssumption DEF Known, ControlErrs, setup, work, history, TypeOK, Counts, AtWork, InGroup
<1>6. AtWork(n)'
  BY <1>k, PhaseAssumption DEF Known, ControlErrs, setup, work, history, TypeOK, AtWork, Counts, InGroup
<1>7. Answers(n)'
  BY <1>k, PhaseAssumption DEF Known, ControlErrs, setup, work, history, TypeOK, Answers, Place, InGroup, Working
<1>8. Weighed(n)'
  BY <1>k, PhaseAssumption DEF Known, ControlErrs, setup, work, history, TypeOK, Weighed, AtWork, Place, InGroup, Capped, Durations
<1>9. Outcome(n)'
  BY <1>k, PhaseAssumption DEF Known, ControlErrs, setup, work, history, TypeOK, Outcome, Answers, Place, Counts, Earned, Resumed, InGroup, Working
<1>10. Owned'
  BY <1>3, <1>k, OwnersStay DEF Known, ControlErrs, setup, work, history, TypeOK
<1>11. MInv(n)'
  BY <1>4, <1>5, <1>6, <1>7, <1>8, <1>9 DEF MInv
<1> QED BY <1>3, <1>11, <1>10, OneWorker

\* A run that fails answers the mutant.
LEMMA KillsKeeps == ASSUME PInv, NEW n \in Mutants, Kills(n) PROVE PInv'
<1>k. Known(n)
  BY Standing
<1>1. TypeOK'
  BY <1>k, PhaseAssumption DEF Known, Kills, Running, Ran, Answer, setup, work, TypeOK, Stages, Idle, InGroup, Verdicts, Outcomes
<1>2. ControlsKept /\ \A m \in Mutants \ {n} : Same(m)
  BY <1>k DEF Known, Kills, Running, Ran, Answer, setup, work, TypeOK, ControlsKept, Same
<1>3. Alone(n)
  BY <1>1, <1>2 DEF Kills, Running, Ran, Answer, setup, work, Alone
<1>4. Place(n)'
  BY <1>k, PhaseAssumption DEF Known, Kills, Running, Ran, Answer, setup, work, TypeOK, Place, InGroup
<1>5. Counts(n)'
  BY <1>k, PhaseAssumption DEF Known, Kills, Running, Ran, Answer, setup, work, TypeOK, Counts, AtWork, InGroup
<1>6. AtWork(n)'
  BY <1>k, PhaseAssumption DEF Known, Kills, Running, Ran, Answer, setup, work, TypeOK, AtWork, Counts, InGroup
<1>7. Answers(n)'
  BY <1>k, PhaseAssumption DEF Known, Kills, Running, Ran, Answer, setup, work, TypeOK, Answers, Place, InGroup, Working
<1>8. Weighed(n)'
  BY <1>k, PhaseAssumption DEF Known, Kills, Running, Ran, Answer, setup, work, TypeOK, Weighed, AtWork, Place, InGroup, Capped, Durations
<1>9. Outcome(n)'
  BY <1>k, PhaseAssumption DEF Known, Kills, Running, Ran, Answer, setup, work, TypeOK, Outcome, Answers, Place, Counts, Earned, Resumed, InGroup, Working
<1>10. Owned'
  BY <1>3, <1>k, OwnersStay DEF Known, Kills, Running, Ran, Answer, setup, work, TypeOK
<1>11. MInv(n)'
  BY <1>4, <1>5, <1>6, <1>7, <1>8, <1>9 DEF MInv
<1> QED BY <1>3, <1>11, <1>10, OneWorker

\* A run that passes leaves the other groups to be run.
LEMMA PassesKeeps == ASSUME PInv, NEW n \in Mutants, Passes(n) PROVE PInv'
<1>k. Known(n)
  BY Standing
<1>1. TypeOK'
  BY <1>k, PhaseAssumption DEF Known, Passes, Running, Ran, setup, TypeOK, Stages, Idle, InGroup, Outcomes
<1>2. ControlsKept /\ \A m \in Mutants \ {n} : Same(m)
  BY <1>k DEF Known, Passes, Running, Ran, setup, TypeOK, ControlsKept, Same
<1>3. Alone(n)
  BY <1>1, <1>2 DEF Passes, Running, Ran, setup, Alone
<1>4. Place(n)'
  BY <1>k, PhaseAssumption DEF Known, Passes, Running, Ran, setup, TypeOK, Place, InGroup
<1>5. Counts(n)'
  BY <1>k, PhaseAssumption DEF Known, Passes, Running, Ran, setup, TypeOK, Counts, AtWork, InGroup
<1>6. AtWork(n)'
  BY <1>k, PhaseAssumption DEF Known, Passes, Running, Ran, setup, TypeOK, AtWork, Counts, InGroup
<1>7. Answers(n)'
  BY <1>k, PhaseAssumption DEF Known, Passes, Running, Ran, setup, TypeOK, Answers, Place, InGroup, Working
<1>8. Weighed(n)'
  BY <1>k, PhaseAssumption DEF Known, Passes, Running, Ran, setup, TypeOK, Weighed, AtWork, Place, InGroup, Capped, Durations
<1>9. Outcome(n)'
  BY <1>k, PhaseAssumption DEF Known, Passes, Running, Ran, setup, TypeOK, Outcome, Answers, Place, Counts, Earned, Resumed, InGroup, Working
<1>10. Owned'
  BY <1>3, <1>k, OwnersStay DEF Known, Passes, Running, Ran, setup, TypeOK
<1>11. MInv(n)'
  BY <1>4, <1>5, <1>6, <1>7, <1>8, <1>9 DEF MInv
<1> QED BY <1>3, <1>11, <1>10, OneWorker

\* An expired budget counts as unknown only at the ceiling or after a retry.
LEMMA ExpiresKeeps == ASSUME PInv, NEW n \in Mutants, Expires(n) PROVE PInv'
<1>k. Known(n)
  BY Standing
<1>a. /\ runs' = [runs EXCEPT ![n][at[n]] = @ + 1] /\ seen' = [seen EXCEPT ![n][at[n]] = "expired"]
      /\ stage[n] \in InGroup /\ \E t \in {"second", "routed"} : stage' = [stage EXCEPT ![n] = t]
      /\ left' = left \/ left' = [left EXCEPT ![n] = @ \ {at[n]}]
      /\ unknown' = unknown \/ unknown' = [unknown EXCEPT ![n] = @ \cup {at[n]}]
      /\ UNCHANGED <<plan, prior, process, phase, at, budget, verdict, memo, took, saved, asked>>
  BY DEF Expires, Running, Ran, Unanswered, setup, InGroup
<1>b. /\ runs' \in [Mutants -> [Groups -> Nat]]
      /\ seen' \in [Mutants -> [Groups -> Outcomes \cup {None}]]
  BY <1>a, <1>k DEF Known, TypeOK, Outcomes
<1>c. stage' \in [Mutants -> Stages]
  BY <1>a, <1>k DEF Known, TypeOK, Stages, Idle
<1>d. /\ left \in [Mutants -> SUBSET Groups] /\ unknown \in [Mutants -> SUBSET Groups]
      /\ at[n] \in Groups /\ budget \in [Mutants -> 0 .. Ceiling]
  BY <1>a, <1>k DEF Known, TypeOK, InGroup, Durations
<1>e. left' \in [Mutants -> SUBSET Groups] /\ unknown' \in [Mutants -> SUBSET Groups]
  BY <1>a, <1>d
<1>1. TypeOK'
  BY <1>a, <1>b, <1>c, <1>d, <1>e, <1>k DEF Known, TypeOK
<1>2. ControlsKept /\ \A m \in Mutants \ {n} : Same(m)
  BY <1>k DEF Known, Expires, Running, Ran, Unanswered, setup, TypeOK, ControlsKept, Same
<1>3. Alone(n)
  BY <1>1, <1>2 DEF Expires, Running, Ran, Unanswered, setup, Alone
<1>4. Place(n)'
  BY <1>k, PhaseAssumption DEF Known, Expires, Running, Ran, Unanswered, setup, TypeOK, Place, InGroup
<1>5. Counts(n)'
  BY <1>k, PhaseAssumption DEF Known, Expires, Running, Ran, Unanswered, setup, TypeOK, Counts, AtWork, InGroup
<1>6. AtWork(n)'
  BY <1>k, PhaseAssumption DEF Known, Expires, Running, Ran, Unanswered, setup, TypeOK, AtWork, Counts, InGroup
<1>7. Answers(n)'
  BY <1>k, PhaseAssumption DEF Known, Expires, Running, Ran, Unanswered, setup, TypeOK, Answers, Place, InGroup, Working
<1>8. Weighed(n)'
  BY <1>k, PhaseAssumption DEF Known, Expires, Running, Ran, Unanswered, setup, TypeOK, Weighed, AtWork, Place, InGroup, Capped, Durations
<1>9. Outcome(n)'
  BY <1>k, PhaseAssumption DEF Known, Expires, Running, Ran, Unanswered, setup, TypeOK, Outcome, Answers, Place, Counts, Earned, Resumed, InGroup, Working
<1>10. Owned'
  BY <1>3, <1>k, OwnersStay DEF Known, Expires, Running, Ran, Unanswered, setup, TypeOK
<1>11. MInv(n)'
  BY <1>4, <1>5, <1>6, <1>7, <1>8, <1>9 DEF MInv
<1> QED BY <1>3, <1>11, <1>10, OneWorker

\* A run without an answer.
LEMMA UndecidedKeeps == ASSUME PInv, NEW n \in Mutants, Undecided(n) PROVE PInv'
<1>k. Known(n)
  BY Standing
<1>1. TypeOK'
  BY <1>k, PhaseAssumption DEF Known, Undecided, Running, Ran, Unanswered, setup, TypeOK, Stages, Idle, InGroup, Outcomes
<1>2. ControlsKept /\ \A m \in Mutants \ {n} : Same(m)
  BY <1>k DEF Known, Undecided, Running, Ran, Unanswered, setup, TypeOK, ControlsKept, Same
<1>3. Alone(n)
  BY <1>1, <1>2 DEF Undecided, Running, Ran, Unanswered, setup, Alone
<1>4. Place(n)'
  BY <1>k, PhaseAssumption DEF Known, Undecided, Running, Ran, Unanswered, setup, TypeOK, Place, InGroup
<1>5. Counts(n)'
  BY <1>k, PhaseAssumption DEF Known, Undecided, Running, Ran, Unanswered, setup, TypeOK, Counts, AtWork, InGroup
<1>6. AtWork(n)'
  BY <1>k, PhaseAssumption DEF Known, Undecided, Running, Ran, Unanswered, setup, TypeOK, AtWork, Counts, InGroup
<1>7. Answers(n)'
  BY <1>k, PhaseAssumption DEF Known, Undecided, Running, Ran, Unanswered, setup, TypeOK, Answers, Place, InGroup, Working
<1>8. Weighed(n)'
  BY <1>k, PhaseAssumption DEF Known, Undecided, Running, Ran, Unanswered, setup, TypeOK, Weighed, AtWork, Place, InGroup, Capped, Durations
<1>9. Outcome(n)'
  BY <1>k, PhaseAssumption DEF Known, Undecided, Running, Ran, Unanswered, setup, TypeOK, Outcome, Answers, Place, Counts, Earned, Resumed, InGroup, Working
<1>10. Owned'
  BY <1>3, <1>k, OwnersStay DEF Known, Undecided, Running, Ran, Unanswered, setup, TypeOK
<1>11. MInv(n)'
  BY <1>4, <1>5, <1>6, <1>7, <1>8, <1>9 DEF MInv
<1> QED BY <1>3, <1>11, <1>10, OneWorker

\* A run that errs.
LEMMA RunErrsKeeps == ASSUME PInv, NEW n \in Mutants, RunErrs(n) PROVE PInv'
<1>k. Known(n)
  BY Standing
<1>1. TypeOK'
  BY <1>k, PhaseAssumption DEF Known, RunErrs, Running, Ran, setup, work, TypeOK, Stages, Idle, InGroup, Outcomes
<1>2. ControlsKept /\ \A m \in Mutants \ {n} : Same(m)
  BY <1>k DEF Known, RunErrs, Running, Ran, setup, work, TypeOK, ControlsKept, Same
<1>3. Alone(n)
  BY <1>1, <1>2 DEF RunErrs, Running, Ran, setup, work, Alone
<1>4. Place(n)'
  BY <1>k, PhaseAssumption DEF Known, RunErrs, Running, Ran, setup, work, TypeOK, Place, InGroup
<1>5. Counts(n)'
  BY <1>k, PhaseAssumption DEF Known, RunErrs, Running, Ran, setup, work, TypeOK, Counts, AtWork, InGroup
<1>6. AtWork(n)'
  BY <1>k, PhaseAssumption DEF Known, RunErrs, Running, Ran, setup, work, TypeOK, AtWork, Counts, InGroup
<1>7. Answers(n)'
  BY <1>k, PhaseAssumption DEF Known, RunErrs, Running, Ran, setup, work, TypeOK, Answers, Place, InGroup, Working
<1>8. Weighed(n)'
  BY <1>k, PhaseAssumption DEF Known, RunErrs, Running, Ran, setup, work, TypeOK, Weighed, AtWork, Place, InGroup, Capped, Durations
<1>9. Outcome(n)'
  BY <1>k, PhaseAssumption DEF Known, RunErrs, Running, Ran, setup, work, TypeOK, Outcome, Answers, Place, Counts, Earned, Resumed, InGroup, Working
<1>10. Owned'
  BY <1>3, <1>k, OwnersStay DEF Known, RunErrs, Running, Ran, setup, work, TypeOK
<1>11. MInv(n)'
  BY <1>4, <1>5, <1>6, <1>7, <1>8, <1>9 DEF MInv
<1> QED BY <1>3, <1>11, <1>10, OneWorker

\* The second control either vouches for one more run or for nothing.
LEMMA SecondControlKeeps == ASSUME PInv, NEW n \in Mutants, SecondControl(n) PROVE PInv'
<1>k. Known(n)
  BY Standing
<1>a. /\ stage[n] = "second" /\ \E t \in {"retry", "routed"} : stage' = [stage EXCEPT ![n] = t]
      /\ left' = left \/ left' = [left EXCEPT ![n] = @ \ {at[n]}]
      /\ unknown' = unknown \/ unknown' = [unknown EXCEPT ![n] = @ \cup {at[n]}]
      /\ budget' = budget \/ budget' = [budget EXCEPT ![n] = Ceiling]
      /\ \E r \in {"healthy", "refused"} : asked' = [asked EXCEPT ![n][at[n]] = r]
      /\ UNCHANGED <<plan, prior, process, phase, at, verdict, memo, took, saved, runs, seen>>
  BY DEF SecondControl, Unanswered, setup
<1>b. /\ asked' \in [Mutants -> [Groups -> {None, "healthy", "refused"}]]
      /\ stage' \in [Mutants -> Stages]
  BY <1>a, <1>k DEF Known, TypeOK, InGroup, Stages, Idle
<1>d. /\ left \in [Mutants -> SUBSET Groups] /\ unknown \in [Mutants -> SUBSET Groups]
      /\ at[n] \in Groups /\ budget \in [Mutants -> 0 .. Ceiling]
  BY <1>a, <1>k DEF Known, TypeOK, InGroup, Durations
<1>e. left' \in [Mutants -> SUBSET Groups] /\ unknown' \in [Mutants -> SUBSET Groups]
  BY <1>a, <1>d
<1>c. budget' \in [Mutants -> Durations]
  BY <1>a, <1>d, PhaseAssumption DEF Durations
<1>1. TypeOK'
  BY <1>a, <1>b, <1>c, <1>d, <1>e, <1>k DEF Known, TypeOK
<1>2. ControlsKept /\ \A m \in Mutants \ {n} : Same(m)
  BY <1>k DEF Known, SecondControl, Unanswered, setup, TypeOK, ControlsKept, Same
<1>3. Alone(n)
  BY <1>1, <1>2 DEF SecondControl, Unanswered, setup, Alone
<1>f. /\ plan' = plan /\ at' = at /\ seen' = seen /\ stage[n] = "second"
      /\ at[n] \in left[n] /\ seen[n][at[n]] = "expired"
      /\ \/ stage'[n] = "retry" /\ left'[n] = left[n] /\ unknown'[n] = unknown[n]
         \/ /\ stage'[n] = "routed" /\ left'[n] = left[n] \ {at[n]}
            /\ unknown'[n] = unknown[n] \cup {at[n]}
  BY <1>k DEF Known, SecondControl, Unanswered, setup, TypeOK, AtWork, InGroup
<1>4. Place(n)'
  BY <1>k, PhaseAssumption DEF Known, SecondControl, Unanswered, setup, TypeOK, Place, InGroup
<1>5. Counts(n)'
  BY <1>k, PhaseAssumption DEF Known, SecondControl, Unanswered, setup, TypeOK, Counts, AtWork, InGroup
<1>6. AtWork(n)'
  BY <1>k, PhaseAssumption DEF Known, SecondControl, Unanswered, setup, TypeOK, AtWork, Counts, InGroup
<1>7. Answers(n)'
  BY <1>f, <1>k DEF Known, Answers, InGroup, Working
<1>8. Weighed(n)'
  BY <1>k, PhaseAssumption DEF Known, SecondControl, Unanswered, setup, TypeOK, Weighed, AtWork, Place, InGroup, Capped, Durations
<1>9. Outcome(n)'
  BY <1>k, PhaseAssumption DEF Known, SecondControl, Unanswered, setup, TypeOK, Outcome, Answers, Place, Counts, Earned, Resumed, InGroup, Working
<1>10. Owned'
  BY <1>3, <1>k, OwnersStay DEF Known, SecondControl, Unanswered, setup, TypeOK
<1>11. MInv(n)'
  BY <1>4, <1>5, <1>6, <1>7, <1>8, <1>9 DEF MInv
<1> QED BY <1>3, <1>11, <1>10, OneWorker

\* Nothing is left to run: every group passed or one gave no answer.
LEMMA ConcludeKeeps == ASSUME PInv, NEW n \in Mutants, Conclude(n) PROVE PInv'
<1>k. Known(n)
  BY Standing
<1>1. TypeOK'
  BY <1>k, PhaseAssumption DEF Known, Conclude, Answer, Concluded, setup, work, history, TypeOK, Stages, Idle, InGroup, Verdicts
<1>2. ControlsKept /\ \A m \in Mutants \ {n} : Same(m)
  BY <1>k DEF Known, Conclude, Answer, Concluded, setup, work, history, TypeOK, ControlsKept, Same
<1>3. Alone(n)
  BY <1>1, <1>2 DEF Conclude, Answer, Concluded, setup, work, history, Alone
<1>4. Place(n)'
  BY <1>k, PhaseAssumption DEF Known, Conclude, Answer, Concluded, setup, work, history, TypeOK, Place, InGroup
<1>5. Counts(n)'
  BY <1>k, PhaseAssumption DEF Known, Conclude, Answer, Concluded, setup, work, history, TypeOK, Counts, AtWork, InGroup
<1>6. AtWork(n)'
  BY <1>k, PhaseAssumption DEF Known, Conclude, Answer, Concluded, setup, work, history, TypeOK, AtWork, Counts, InGroup
<1>7. Answers(n)'
  BY <1>k, PhaseAssumption DEF Known, Conclude, Answer, Concluded, setup, work, history, TypeOK, Answers, Place, InGroup, Working
<1>8. Weighed(n)'
  BY <1>k, PhaseAssumption DEF Known, Conclude, Answer, Concluded, setup, work, history, TypeOK, Weighed, AtWork, Place, InGroup, Capped, Durations
<1>9. Outcome(n)'
  BY <1>k, PhaseAssumption DEF Known, Conclude, Answer, Concluded, setup, work, history, TypeOK, Outcome, Answers, Place, Counts, Earned, Resumed, InGroup, Working
<1>10. Owned'
  BY <1>3, <1>k, OwnersStay DEF Known, Conclude, Answer, Concluded, setup, work, history, TypeOK
<1>11. MInv(n)'
  BY <1>4, <1>5, <1>6, <1>7, <1>8, <1>9 DEF MInv
<1> QED BY <1>3, <1>11, <1>10, OneWorker

\* The verdict is saved as it is.
LEMMA SaveKeeps == ASSUME PInv, NEW n \in Mutants, Save(n) PROVE PInv'
<1>k. Known(n)
  BY Standing
<1>1. TypeOK'
  BY <1>k, PhaseAssumption DEF Known, Save, setup, work, history, TypeOK, Stages, Idle, InGroup
<1>2. ControlsKept /\ \A m \in Mutants \ {n} : Same(m)
  BY <1>k DEF Known, Save, setup, work, history, TypeOK, ControlsKept, Same
<1>3. Alone(n)
  BY <1>1, <1>2 DEF Save, setup, work, history, Alone
<1>4. Place(n)'
  BY <1>k, PhaseAssumption DEF Known, Save, setup, work, history, TypeOK, Place, InGroup
<1>5. Counts(n)'
  BY <1>k, PhaseAssumption DEF Known, Save, setup, work, history, TypeOK, Counts, AtWork, InGroup
<1>6. AtWork(n)'
  BY <1>k, PhaseAssumption DEF Known, Save, setup, work, history, TypeOK, AtWork, Counts, InGroup
<1>7. Answers(n)'
  BY <1>k, PhaseAssumption DEF Known, Save, setup, work, history, TypeOK, Answers, Place, InGroup, Working
<1>8. Weighed(n)'
  BY <1>k, PhaseAssumption DEF Known, Save, setup, work, history, TypeOK, Weighed, AtWork, Place, InGroup, Capped, Durations
<1>9. Outcome(n)'
  BY <1>k, PhaseAssumption DEF Known, Save, setup, work, history, TypeOK, Outcome, Answers, Place, Counts, Earned, Resumed, InGroup, Working
<1>10. Owned'
  BY <1>3, <1>k, OwnersStay DEF Known, Save, setup, work, history, TypeOK
<1>11. MInv(n)'
  BY <1>4, <1>5, <1>6, <1>7, <1>8, <1>9 DEF MInv
<1> QED BY <1>3, <1>11, <1>10, OneWorker

-----------------------------------------------------------------------------
(* The phase as a whole.                                                   *)

\* Every worker is done, or the process dies: nothing else moves.
LEMMA EndKeeps == PInv /\ (Collect \/ Stop) => PInv'
<1> SUFFICES ASSUME PInv, Collect \/ Stop PROVE PInv'
  OBVIOUS
<1>1. /\ UNCHANGED <<plan, prior, process, stage, left, at, budget, unknown, verdict, memo,
                     took, saved, runs, seen, asked>>
      /\ phase' \in {"failed", "done", "stopped"}
      /\ phase' \in {"failed", "done"} => \A m \in Mutants : stage[m] \in {"finished", "erred"}
  BY DEF Collect, Stop, setup, work, history
<1>2. TypeOK'
  BY <1>1 DEF PInv, TypeOK
<1>3. Ended' /\ Owned'
  BY <1>1 DEF PInv, Ended, Owned
<1>4. \A m \in Mutants : MInv(m)'
  BY <1>1 DEF PInv, MInv, Place, Counts, AtWork, Answers, Weighed, Outcome, Earned, Resumed
<1> QED BY <1>2, <1>3, <1>4 DEF PInv

\* A new process knows the saved verdicts and nothing else.
LEMMA RerunKeeps == PInv /\ Rerun => PInv'
<1> SUFFICES ASSUME PInv, Rerun PROVE PInv'
  OBVIOUS
<1>1. TypeOK /\ \A m \in Mutants : Outcome(m)
  BY DEF PInv, MInv
<1>2. TypeOK'
  BY <1>1, PhaseAssumption DEF Rerun, Fresh, setup, TypeOK, Stages, Idle, Durations
<1>3. Ended' /\ Owned'
  BY DEF Rerun, Fresh, Ended, Owned
<1>4. ASSUME NEW m \in Mutants PROVE MInv(m)'
  <2>1. /\ stage'[m] = IF saved[m] = None THEN "queued" ELSE "finished"
        /\ verdict'[m] = saved[m] /\ saved' = saved /\ plan' = plan
        /\ left'[m] = {} /\ unknown'[m] = {}
        /\ \A g \in Groups : runs'[m][g] = 0 /\ seen'[m][g] = None /\ asked'[m][g] = None
    BY DEF Rerun, Fresh, setup
  <2>2. Place(m)' /\ Counts(m)' /\ AtWork(m)' /\ Answers(m)' /\ Weighed(m)'
    BY <2>1 DEF Place, Counts, AtWork, Answers, Weighed, InGroup, Working
  <2>3. Outcome(m)'
    BY <2>1 DEF Outcome, Resumed
  <2> QED BY <2>2, <2>3 DEF MInv
<1> QED BY <1>2, <1>3, <1>4 DEF PInv

LEMMA PhaseStarts == Init => PInv
<1> SUFFICES ASSUME Init PROVE PInv
  OBVIOUS
<1>1. plan \in [Mutants -> SUBSET Groups]
  <2>1. ASSUME NEW p \in Plans PROVE p \in SUBSET Groups
    <3>1. p \in SUBSET (Groups \ Suites) \/ p \in {{s} : s \in Suites}
      BY DEF Plans
    <3>2. CASE p \in SUBSET (Groups \ Suites)
      BY <3>2
    <3>3. CASE p \in {{s} : s \in Suites}
      <4>1. PICK s \in Suites : p = {s}
        BY <3>3
      <4> QED BY <4>1, PhaseAssumption
    <3> QED BY <3>1, <3>2, <3>3
  <2> QED BY <2>1 DEF Init
<1>2. TypeOK
  BY <1>1, PhaseAssumption DEF Init, TypeOK, Stages, Idle, Durations
<1>3. Ended /\ Owned
  BY DEF Init, Ended, Owned
<1>4. \A m \in Mutants : MInv(m)
  BY DEF Init, MInv, Place, Counts, AtWork, Answers, Weighed, Outcome, InGroup, Working
<1> QED BY <1>2, <1>3, <1>4 DEF PInv

LEMMA PhaseSteps == PInv /\ [Next]_vars => PInv'
<1> SUFFICES ASSUME PInv, [Next]_vars PROVE PInv'
  OBVIOUS
<1>1. CASE \E m \in Mutants : Take(m) \/ Conclude(m) \/ Save(m)
  BY <1>1, TakeKeeps, ConcludeKeeps, SaveKeeps
<1>2. CASE \E m \in Mutants : Control(m)
  BY <1>2, UnavailableKeeps, ChooseKeeps, StartControlKeeps, MeasureControlKeeps,
     ControlHealthyKeeps, ControlUnhealthyKeeps, ControlErrsKeeps DEF Control
<1>3. CASE \E m \in Mutants : Execute(m)
  BY <1>3, KillsKeeps, PassesKeeps, ExpiresKeeps, UndecidedKeeps, RunErrsKeeps,
     SecondControlKeeps DEF Execute
<1>4. CASE Collect \/ Stop
  BY <1>4, EndKeeps
<1>5. CASE Rerun
  BY <1>5, RerunKeeps
<1>6. CASE UNCHANGED vars
  BY <1>6 DEF PInv, vars, setup, work, history, TypeOK, Ended, Owned, MInv, Place, Counts,
              AtWork, Answers, Weighed, Outcome, Earned, Resumed
<1> QED BY <1>1, <1>2, <1>3, <1>4, <1>5, <1>6 DEF Next, Work

-----------------------------------------------------------------------------
(* The theorems.                                                           *)

\* The invariant holds throughout.
THEOREM PhaseInductive == Spec => []PInv
<1> QED BY PhaseStarts, PhaseSteps, PTL DEF Spec

\* A verdict is what the runs of the process showed.
THEOREM VerdictsAreEarned == Spec => []VerdictIsEarned
<1>1. PInv => VerdictIsEarned
  BY DEF PInv, MInv, Outcome, Earned, VerdictIsEarned
<1> QED BY <1>1, PhaseInductive, PTL

\* No mutant runs without a healthy control, and a control has one owner.
THEOREM RunsRestOnControls == Spec => []RunsAreControlled
<1>1. PInv => RunsAreControlled
  BY DEF PInv, MInv, Counts, Owned, RunsAreControlled
<1> QED BY <1>1, PhaseInductive, PTL

\* A second run of a mutant in a group is vouched for, and the last.
THEOREM SecondRunsAreVouched == Spec => []SecondRunIsVouched
<1>1. PInv => SecondRunIsVouched
  BY DEF PInv, MInv, Counts, SecondRunIsVouched
<1> QED BY <1>1, PhaseInductive, PTL

\* An expired budget is never taken for an answer without a second control.
THEOREM ExpiriesAreWeighed == Spec => []ExpiryIsWeighed
<1>1. PInv => ExpiryIsWeighed
  BY DEF PInv, MInv, Weighed, ExpiryIsWeighed
<1> QED BY <1>1, PhaseInductive, PTL

\* A failing phase saves what its other mutants answered.
THEOREM NoSiblingIsLost == Spec => []SiblingsAreSaved
<1>1. PInv => SiblingsAreSaved
  BY DEF PInv, Ended, MInv, Outcome, SiblingsAreSaved
<1> QED BY <1>1, PhaseInductive, PTL

\* A saved verdict is never asked again and never changes.
THEOREM SavedVerdictsStand == Spec => SavedIsSettled
<1> DEFINE Stands == \A m \in Mutants : saved[m] # None =>
                        /\ saved'[m] = saved[m]
                        /\ runs'[m] # runs[m] => process' # process
<1>1. PInv /\ [Next]_vars => Stands
  <2> SUFFICES ASSUME PInv, [Next]_vars, NEW m \in Mutants, saved[m] # None
               PROVE  saved'[m] = saved[m] /\ (runs'[m] # runs[m] => process' # process)
    OBVIOUS
  <2>1. TypeOK /\ stage[m] = "finished"
    BY DEF PInv, MInv, Outcome
  <2>2. CASE UNCHANGED vars \/ Collect \/ Stop
    BY <2>2 DEF vars, history, Collect, Stop
  <2>3. CASE Rerun
    BY <2>1, <2>3 DEF Rerun, TypeOK
  <2>4. CASE \E n \in Mutants : Take(n) \/ Control(n) \/ Conclude(n)
    BY <2>4 DEF Take, Control, Conclude, Unavailable, Choose, StartControl, MeasureControl,
                ControlHealthy, ControlUnhealthy, ControlErrs, history
  <2>5. CASE \E n \in Mutants : Execute(n)
    <3>1. PICK n \in Mutants : Execute(n)
      BY <2>5
    <3>2. n # m /\ saved' = saved
      BY <2>1, <3>1 DEF Execute, Kills, Passes, Expires, Undecided, RunErrs, SecondControl, Running
    <3>3. runs'[m] = runs[m]
      BY <2>1, <3>1, <3>2 DEF Execute, Kills, Passes, Expires, Undecided, RunErrs,
                              SecondControl, Ran, TypeOK
    <3> QED BY <3>2, <3>3
  <2>6. CASE \E n \in Mutants : Save(n)
    BY <2>1, <2>6 DEF Save, history, TypeOK
  <2> QED BY <2>2, <2>3, <2>4, <2>5, <2>6 DEF Next, Work
<1>2. Stands => [Stands]_vars
  OBVIOUS
<1> QED BY <1>1, PhaseInductive, PTL DEF Spec, SavedIsSettled
=============================================================================
