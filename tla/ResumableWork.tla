---------------------------- MODULE ResumableWork ----------------------------
(***************************************************************************)
(* What the checkpoint promises a run, with no files in it: one saved      *)
(* state that survives the process.  A save takes effect at once or not at *)
(* all; the saved units grow by a suite, by a verdict or by a batch of new *)
(* targets, change wholesale only when an inventory changed, and a phase   *)
(* once recorded as finished stays finished until the inventory it rests   *)
(* on changes.                                                             *)
(***************************************************************************)
EXTENDS CheckpointJournal

CONSTANTS Nothing,    \* nothing is saved
          MayRot      \* what is saved may rot, and reappear when the rotten part goes

VARIABLE saved

InitWork == saved = Nothing

\* An attempt opens: the count grows by one, or a first attempt begins.
Attempt ==
    \/ saved # Nothing /\ saved' = [saved EXCEPT !.attempts = @ + 1]
    \/ saved' = Fresh

\* Completed units become durable: one of any kind, or new targets of a baseline
\* whose checks are saved, together.
Record ==
    /\ saved # Nothing
    /\ \E U \in SUBSET (Unit \ saved.units) :
          /\ \/ \E u \in Unit : U = {u}
             \/ saved.checks /\ U \subseteq {"target"} \X Targets
          /\ saved' = [saved EXCEPT !.units = @ \cup U]

\* A phase boundary becomes durable; only completing the baseline drops units,
\* and the units it drops are the partial suites folded into the routing.
Boundary ==
    /\ saved # Nothing
    /\ \/ ~saved.checks /\ saved' = [saved EXCEPT !.checks = TRUE]
       \/ saved.checks /\ saved' = [saved EXCEPT !.complete = TRUE,
                                        !.units = {u \in @ : ~IsSuite(u)}]
       \/ saved.complete /\ saved' = [saved EXCEPT !.race = TRUE]
       \/ saved.race /\ saved' = [saved EXCEPT !.catalog = TRUE]
       \/ saved.catalog /\ saved' = [saved EXCEPT !.probe = TRUE]
       \/ saved.catalog /\ saved' = [saved EXCEPT !.finished = TRUE]

NoMutation(s) == [s EXCEPT !.catalog = FALSE, !.probe = FALSE, !.finished = FALSE,
                           !.units = {u \in @ : ~IsMutant(u)}]

\* A changed inventory discards its own phase and every phase resting on it.
Invalidate ==
    /\ saved # Nothing
    /\ \/ saved' = [Fresh EXCEPT !.attempts = saved.attempts]
       \/ saved' = [NoMutation(saved) EXCEPT !.race = FALSE]
       \/ saved.catalog /\ saved' = [NoMutation(saved) EXCEPT !.catalog = TRUE]

Forget == saved' = Nothing

\* The cache policy takes back what it can still spare: units, never a phase.
Shrink ==
    /\ saved # Nothing
    /\ \E U \in SUBSET saved.units : saved' = [saved EXCEPT !.units = U]

\* Files that rot hide what was saved until what is rotten has been removed.
Reappear == MayRot /\ saved = Nothing /\ saved' \in State

NextWork == Attempt \/ Record \/ Boundary \/ Invalidate \/ Forget \/ Shrink \/ Reappear

Work == InitWork /\ [][NextWork]_saved
=============================================================================
