--------------------------- MODULE SelectionProofs ----------------------------
(*****************************************************************************)
(* Which tests may be left out: of a mutant's (MutationRouting), and of a    *)
(* verify --changed (ImpactSelection).                                       *)
(*****************************************************************************)
EXTENDS MutationRouting, ImpactSelection, TLAPS

-------------------------------------------------------------------------------
(*****************************************************************************)
(* MutationRouting, for every set of targets and every way they may fail to  *)
(* notice a mutant.                                                          *)
(*****************************************************************************)

\* Whoever coverage routes to the mutant, discharged or not.
Reached == IF mutant.position # "block" THEN Candidates
           ELSE {t \in Candidates : cover[t] # "misses"}

\* The facts a step may rely on: each measurement describes the execution it
\* was taken from, unless the target is blind.
Measured ==
    /\ SuiteRunsOwn
    /\ phase # "baseline" => \A t \in Targets \ blind : cover[t] \in Shown(effect[t])
    /\ \A t \in Targets : probe[t] \in TargetReports(t)
    /\ suiteProbe \in {"unmeasured"} \cup SuiteReports
    /\ suite = "misses" => suiteDoes = "silent" \/ Own \cap blind # {}

Offered(facts) == LET r == SuiteRoute(CoverageRoute(facts))
                  IN mutant.probed /\ Nobody(r) /\ r.coverage # "unreached"

Killed == \/ plan = "groups" /\ \E t \in route.reaching : effect[t] = "kills"
          \/ plan = "suite" /\ suiteDoes = "kills"

\* What has been decided so far, and from what.
Decided ==
    /\ phase \in {"probe", "route", "execute", "done"} => (Offered(probe) => needed)
    /\ phase \in {"route", "execute", "done"} => (~needed => suiteProbe = "unmeasured")
    /\ phase \notin {"execute", "done"} => plan = "none"
    /\ phase \in {"execute", "done"} =>
          /\ route = ProbeRoute(SuiteRoute(CoverageRoute(probe)))
          /\ plan = Settle(route)
    /\ phase # "done" => verdict = "none"
    /\ phase = "done" => (verdict = "survived" => ~Killed)

RInv == TypeOK /\ Measured /\ Decided

-----------------------------------------------------------------------------
\* A route is a partition: a proof moves a target from reaching to discharged
\* and the measurements of the probe never change who is in either.
LEMMA CoverageRoutePartitions ==
    ASSUME NEW facts
    PROVE  LET r == CoverageRoute(facts)
           IN /\ r.reaching \cup r.discharged = Reached
              /\ r.coverage = "" /\ r.probe = ""
              /\ r \in Route
<1>1. CASE mutant.position # "block"
  BY <1>1 DEF CoverageRoute, Reached, NoRoute, Candidates, Route
<1>2. CASE mutant.position = "block"
  BY <1>2 DEF CoverageRoute, Reached, NoRoute, Candidates, Route, BranchDischarged, NeverInfected
<1> QED BY <1>1, <1>2

\* The later stages keep every target of the coverage route where it was.
LEMMA LaterStagesOnlyAdd ==
    ASSUME TypeOK, NEW r \in Route
    PROVE  LET s == SuiteRoute(r)  p == ProbeRoute(s)
           IN /\ s \in Route /\ p \in Route
              /\ s.reaching = r.reaching /\ s.discharged = r.discharged /\ s.probe = r.probe
              /\ r.reaching \subseteq p.reaching /\ p.discharged = r.discharged
<1> DEFINE s == SuiteRoute(r)
           q == SuiteProbed(s)
<1>1. /\ s \in Route /\ s.reaching = r.reaching /\ s.discharged = r.discharged
      /\ s.probe = r.probe
  BY DEF SuiteRoute, Route
<1> HIDE DEF s
<1>2. q \in Route /\ q.reaching = s.reaching /\ q.discharged = s.discharged
  BY <1>1 DEF SuiteProbed, Route, TypeOK, Probes
<1>3. Recovered(q) \subseteq Targets
  BY DEF Recovered
<1>4. ProbeRoute(s) = IF SuiteAnswers(q) THEN q ELSE [q EXCEPT !.reaching = @ \cup Recovered(q)]
  BY DEF ProbeRoute
<1> HIDE DEF q
<1> DEFINE p == ProbeRoute(s)
<1>5. /\ p \in Route /\ q.reaching \subseteq p.reaching /\ p.discharged = q.discharged
  <2>1. CASE SuiteAnswers(q)
    BY <1>2, <1>4, <2>1
  <2>2. CASE ~SuiteAnswers(q)
    <3>1. p = [q EXCEPT !.reaching = q.reaching \cup Recovered(q)]
      BY <1>4, <2>2
    <3>2. q.reaching \cup Recovered(q) \subseteq Targets
      BY <1>2, <1>3 DEF Route
    <3> HIDE DEF p
    <3> QED BY <1>2, <3>1, <3>2 DEF Route
  <2> QED BY <2>1, <2>2
<1> QED BY <1>1, <1>2, <1>5 DEF s

\* Which packages need a suite probe does not depend on what the probe finds.
LEMMA OfferedBeforehand ==
    ASSUME NEW f, NEW g
    PROVE  Offered(f) = Offered(g)
<1> DEFINE r == CoverageRoute(f)
           q == CoverageRoute(g)
<1>1. /\ r.reaching \cup r.discharged = Reached /\ q.reaching \cup q.discharged = Reached
      /\ r \in Route /\ q \in Route /\ r.coverage = "" /\ q.coverage = ""
  BY CoverageRoutePartitions
<1> HIDE DEF r, q
<1>2. Nobody(r) = Nobody(q)
  BY <1>1 DEF Nobody
<1>3. Nobody(SuiteRoute(r)) = Nobody(r) /\ Nobody(SuiteRoute(q)) = Nobody(q)
  BY <1>1 DEF Nobody, SuiteRoute, Route
<1>4. SuiteRoute(r).coverage = SuiteRoute(q).coverage
  BY <1>1, <1>2 DEF SuiteRoute, Route
<1> QED BY <1>2, <1>3, <1>4 DEF Offered, r, q

\* A target whose measurements are faithful and that would kill the mutant is
\* never discharged.
LEMMA KillersStayRouted ==
    ASSUME TypeOK, Measured, phase # "baseline",
           NEW t \in Targets \ blind, effect[t] = "kills"
    PROVE  t \in CoverageRoute(probe).reaching
<1>1. cover[t] \in Shown("kills") /\ probe[t] \in {"unmeasured", Reported("kills")}
  BY DEF Measured, TargetReports
<1>2. Reported("kills") = IF mutant.probed THEN "infected" ELSE "clean"
  BY DEF Reported, Differs
<1>3. t \in Candidates
  BY <1>1 DEF Shown, Candidates, Coverages
<1>4. CASE mutant.position # "block"
  BY <1>3, <1>4 DEF CoverageRoute, NoRoute
<1>5. CASE mutant.position = "block"
  <2>1. cover[t] # "misses" /\ (mutant.proof = "usable" => cover[t] \in {"inexact", "enters"})
    BY <1>1, <1>5 DEF Shown
  <2>2. mutant.probed => probe[t] # "clean"
    BY <1>1, <1>2
  <2> QED
    BY <1>3, <1>5, <2>1, <2>2 DEF CoverageRoute, NoRoute, BranchDischarged, NeverInfected, Infects
<1> QED BY <1>4, <1>5

-----------------------------------------------------------------------------
(* The steps.                                                              *)

LEMMA InitEstablishes == Init => RInv
<1> SUFFICES ASSUME Init PROVE RInv
  OBVIOUS
<1>1. TypeOK
  BY DEF Init, TypeOK, Suites, Probes, Plans, Phases, Coverages, NoRoute, Route
<1>2. Measured
  BY DEF Init, Measured, TargetReports
<1>3. Decided
  BY DEF Init, Decided
<1> QED BY <1>1, <1>2, <1>3 DEF RInv

\* Nothing is decided while the baseline and the suites are measured.
LEMMA MeasuringStep == RInv /\ (MeasureBaseline \/ MeasureSuite) => RInv'
<1>1. CASE RInv /\ MeasureBaseline
  <2>1. TypeOK'
    BY <1>1 DEF RInv, TypeOK, MeasureBaseline, Phases
  <2>2. Measured'
    BY <1>1 DEF RInv, Measured, MeasureBaseline, TargetReports, SuiteReports, SuiteRunsOwn,
                Shown, Reported
  <2>3. Decided'
    BY <1>1 DEF RInv, Decided, MeasureBaseline
  <2> QED BY <2>1, <2>2, <2>3 DEF RInv
<1>2. CASE RInv /\ MeasureSuite
  <2>1. SuiteReports \subseteq Probes
    BY DEF SuiteReports, Probes, Reported
  <2>2. TypeOK'
    BY <1>2, <2>1 DEF RInv, TypeOK, MeasureSuite, Phases, Suites, Probes
  <2>3. Measured'
    BY <1>2 DEF RInv, Measured, MeasureSuite, TargetReports, SuiteReports, SuiteRunsOwn,
                Shown, Reported
  <2>4. Decided'
    BY <1>2 DEF RInv, Decided, MeasureSuite
  <2> QED BY <2>2, <2>3, <2>4 DEF RInv
<1> QED BY <1>1, <1>2

\* A route is decided by what was measured and nothing else.
LEMMA RoutesRest ==
    ASSUME UNCHANGED <<mutant, cover, suite, probe, suiteProbe>>
    PROVE  /\ ProbeRoute(SuiteRoute(CoverageRoute(probe)))' = ProbeRoute(SuiteRoute(CoverageRoute(probe)))
           /\ Offered(probe)' = Offered(probe)
<1> DEFINE c == CoverageRoute(probe)
           s == SuiteRoute(c)
           p == ProbeRoute(s)
<1>1. c' = c
  BY DEF CoverageRoute, Candidates, BranchDischarged, NeverInfected, Infects
<1> HIDE DEF c
<1>2. s' = s
  BY <1>1 DEF SuiteRoute, Nobody
<1> HIDE DEF s
<1>3. p' = p
  BY <1>2 DEF ProbeRoute, SuiteProbed, SuiteAnswers, Recovered, Nobody
<1>4. Offered(probe) = (mutant.probed /\ Nobody(s) /\ s.coverage # "unreached")
  BY DEF Offered, s, c
<1>5. Offered(probe)' = (mutant'.probed /\ Nobody(s') /\ s'.coverage # "unreached")
  BY DEF Offered, s, c, Nobody
<1> USE DEF c, s
<1> QED BY <1>2, <1>3, <1>4, <1>5

\* The suite probes are chosen, and then the targets are probed.
LEMMA ProbingStep == RInv /\ (SelectProbes \/ ProbeTargets) => RInv'
<1>1. CASE RInv /\ SelectProbes
  <2>1. TypeOK'
    BY <1>1 DEF RInv, TypeOK, SelectProbes, Phases
  <2>2. Measured'
    BY <1>1 DEF RInv, Measured, SelectProbes, TargetReports, SuiteReports, SuiteRunsOwn,
                Shown, Reported
  <2>a. UNCHANGED <<mutant, cover, suite, probe, suiteProbe>> /\ (Offered(probe) => needed')
    BY <1>1 DEF SelectProbes, Offered
  <2>3. Offered(probe)' => needed'
    BY <2>a, RoutesRest
  <2>4. Decided'
    BY <1>1, <2>3 DEF RInv, Decided, SelectProbes
  <2> QED BY <2>1, <2>2, <2>4 DEF RInv
<1>2. CASE RInv /\ ProbeTargets
  <2>1. SuiteReports \subseteq Probes
    BY DEF SuiteReports, Probes, Reported
  <2>2. TypeOK'
    BY <1>2, <2>1 DEF RInv, TypeOK, ProbeTargets, Phases, Probes
  <2>3. Measured'
    BY <1>2 DEF RInv, Measured, ProbeTargets, TargetReports, SuiteReports, SuiteRunsOwn,
                Shown, Reported
  <2>a. UNCHANGED <<mutant, cover, suite>>
    BY <1>2 DEF ProbeTargets
  <2>4. Offered(probe)' = Offered(probe')
    BY <2>a DEF Offered, SuiteRoute, CoverageRoute, Nobody, Candidates,
                BranchDischarged, NeverInfected, Infects
  <2>5. Offered(probe') = Offered(probe)
    BY OfferedBeforehand
  <2>6. Decided'
    BY <1>2, <2>4, <2>5 DEF RInv, Decided, ProbeTargets
  <2> QED BY <2>2, <2>3, <2>6 DEF RInv
<1> QED BY <1>1, <1>2

\* The mutant is routed once, and executed along that route.
LEMMA SettlingStep == RInv /\ (RouteMutant \/ Execute) => RInv'
<1>1. CASE RInv /\ RouteMutant
  <2> DEFINE p == ProbeRoute(SuiteRoute(CoverageRoute(probe)))
  <2>1. CoverageRoute(probe) \in Route
    BY CoverageRoutePartitions
  <2>2. p \in Route
    BY <1>1, <2>1, LaterStagesOnlyAdd DEF RInv
  <2>3. route' = p /\ plan' = Settle(p)
    BY <1>1 DEF RouteMutant
  <2>a. UNCHANGED <<mutant, cover, suite, probe, suiteProbe>>
    BY <1>1 DEF RouteMutant
  <2>4. p' = p
    BY <2>a, RoutesRest
  <2>5. Offered(probe)' = Offered(probe)
    BY <2>a, RoutesRest
  <2> HIDE DEF p
  <2>6. TypeOK'
    BY <1>1, <2>2, <2>3 DEF RInv, TypeOK, RouteMutant, Phases, Plans, Settle
  <2>7. Measured'
    BY <1>1 DEF RInv, Measured, RouteMutant, TargetReports, SuiteReports, SuiteRunsOwn,
                Shown, Reported
  <2>8. Settle(p)' = Settle(p)
    BY <2>4 DEF Settle
  <2>9. Decided'
    BY <1>1, <2>3, <2>4, <2>5, <2>8 DEF RInv, Decided, RouteMutant, p
  <2> QED BY <2>6, <2>7, <2>9 DEF RInv
<1>2. CASE RInv /\ Execute
  <2> DEFINE p == ProbeRoute(SuiteRoute(CoverageRoute(probe)))
  <2>a. UNCHANGED <<mutant, cover, suite, probe, suiteProbe>>
    BY <1>2 DEF Execute
  <2>1. p' = p
    BY <2>a, RoutesRest
  <2>2. Offered(probe)' = Offered(probe)
    BY <2>a, RoutesRest
  <2>3. route = p /\ plan = Settle(p)
    BY <1>2 DEF RInv, Decided, Execute
  <2> HIDE DEF p
  <2>4. TypeOK'
    BY <1>2 DEF RInv, TypeOK, Execute, Phases
  <2>5. Measured'
    BY <1>2 DEF RInv, Measured, Execute, TargetReports, SuiteReports, SuiteRunsOwn,
                Shown, Reported
  <2>6. Settle(p)' = Settle(p)
    BY <2>1 DEF Settle
  <2>7. verdict' = "survived" => ~Killed'
    BY <1>2 DEF Execute, Killed
  <2>8. Decided'
    BY <1>2, <2>1, <2>2, <2>3, <2>6, <2>7 DEF RInv, Decided, Execute, p
  <2> QED BY <2>4, <2>5, <2>8 DEF RInv
<1> QED BY <1>1, <1>2

LEMMA Stuttering == RInv /\ UNCHANGED vars => RInv'
<1> SUFFICES ASSUME RInv, UNCHANGED vars PROVE RInv'
  OBVIOUS
<1>1. TypeOK'
  BY DEF RInv, TypeOK, vars
<1>2. Measured'
  BY DEF RInv, Measured, vars, TargetReports, SuiteReports, SuiteRunsOwn, Shown, Reported
<1> DEFINE p == ProbeRoute(SuiteRoute(CoverageRoute(probe)))
<1>3. p' = p
  BY RoutesRest DEF vars
<1>4. Offered(probe)' = Offered(probe)
  BY RoutesRest DEF vars
<1>5. Settle(route)' = Settle(route) /\ Killed' = Killed
  BY DEF vars, Settle, Killed
<1>6. Decided'
  BY <1>3, <1>4, <1>5 DEF RInv, Decided, vars
<1> QED BY <1>1, <1>2, <1>6 DEF RInv

\* Every step leaves the measurements faithful and the decisions their function.
THEOREM RoutingInductive == Spec => []RInv
<1>1. Init => RInv
  BY InitEstablishes
<1>2. RInv /\ [Next]_vars => RInv'
  BY MeasuringStep, ProbingStep, SettlingStep, Stuttering DEF Next
<1> QED BY <1>1, <1>2, PTL DEF Spec

-----------------------------------------------------------------------------
(* What the invariant gives.                                               *)

\* No discharge and no skipped suite changes a verdict: a target whose
\* measurements are faithful and that would kill the mutant is executed.
THEOREM NoKillIsEverMissed == Spec => []NoKillIsMissed
<1>1. RInv => NoKillIsMissed
  <2> SUFFICES ASSUME RInv, verdict = "survived",
                      NEW t \in Targets \ blind, effect[t] = "kills"
               PROVE  FALSE
    BY DEF NoKillIsMissed
  <2> DEFINE c == CoverageRoute(probe)
  <2>1. phase = "done" /\ ~Killed
    BY DEF RInv, Decided
  <2>2. t \in c.reaching
    BY <2>1, KillersStayRouted DEF RInv
  <2>3. c \in Route
    BY CoverageRoutePartitions
  <2>4. t \in ProbeRoute(SuiteRoute(c)).reaching
    BY <2>2, <2>3, LaterStagesOnlyAdd DEF RInv
  <2>5. t \in route.reaching /\ plan = Settle(route)
    BY <2>1, <2>4 DEF RInv, Decided
  <2>6. plan = "groups"
    BY <2>5 DEF Settle
  <2> QED BY <2>1, <2>5, <2>6 DEF Killed
<1> QED BY <1>1, RoutingInductive, PTL

\* The proofs that settle a mutant without executing anything are sound.
THEOREM SkippedSuitesAreHarmless == Spec => []SkippedSuiteIsHarmless
<1>1. RInv => SkippedSuiteIsHarmless
  <2> SUFFICES ASSUME RInv, plan \in {"unreached", "uninfected"}, Own \cap blind = {},
                      suiteDoes = "kills"
               PROVE  FALSE
    BY DEF SkippedSuiteIsHarmless
  <2> DEFINE c == CoverageRoute(probe)
             s == SuiteRoute(c)
             q == SuiteProbed(s)
  <2>1. phase \in {"execute", "done"} /\ route = ProbeRoute(s) /\ plan = Settle(route)
    BY DEF RInv, Decided, TypeOK, Phases
  <2>2. /\ c.coverage = "" /\ c.probe = "" /\ c \in Route
    BY CoverageRoutePartitions
  <2>3. suite # "misses"
    BY DEF RInv, Measured
  <2>4. s \in Route /\ s.coverage # "unreached" /\ s.probe = ""
    BY <2>2, <2>3, LaterStagesOnlyAdd DEF SuiteRoute, Route, RInv
  <2> HIDE DEF s
  <2>5. mutant.probed => suiteProbe \in {"unmeasured", "infected"}
    BY DEF RInv, Measured, SuiteReports, Reported, Differs
  <2>6. q \in Route /\ q.coverage # "unreached" /\ q.probe # "clean"
    BY <2>4, <2>5 DEF SuiteProbed, Route
  <2> HIDE DEF q
  <2>7. ProbeRoute(s) = IF SuiteAnswers(q) THEN q ELSE [q EXCEPT !.reaching = @ \cup Recovered(q)]
    BY DEF ProbeRoute, q
  <2>8. route.coverage # "unreached" /\ route.probe # "clean"
    BY <2>1, <2>6, <2>7 DEF Route
  <2> QED BY <2>1, <2>8 DEF Settle
<1> QED BY <1>1, RoutingInductive, PTL

\* No mutant is reported unreached in spite of a measured infection.
THEOREM PositivesDefeatSilence == Spec => []PositiveDefeatsSilence
<1>1. RInv => PositiveDefeatsSilence
  <2> SUFFICES ASSUME RInv, plan \in {"unreached", "uninfected"}, mutant.probed
               PROVE  suiteProbe # "infected" /\ \A t \in Targets : probe[t] # "infected"
    BY DEF PositiveDefeatsSilence
  <2> DEFINE c == CoverageRoute(probe)
             s == SuiteRoute(c)
             q == SuiteProbed(s)
  <2>1. phase \in {"execute", "done"} /\ route = ProbeRoute(s) /\ plan = Settle(route)
    BY DEF RInv, Decided, TypeOK, Phases
  <2>2. c \in Route /\ s \in Route /\ s.probe = ""
    BY CoverageRoutePartitions, LaterStagesOnlyAdd DEF RInv
  <2> HIDE DEF s
  <2>3. /\ q \in Route /\ q.reaching = s.reaching /\ q.discharged = s.discharged
    BY <2>2 DEF SuiteProbed, Route, RInv, TypeOK, Probes
  <2>4. Nobody(s) /\ suiteProbe = "infected" =>
            q.probe = "infected" /\ q.coverage # "unreached"
    BY <2>2 DEF SuiteProbed, Route
  <2>5. Nobody(q) = Nobody(s)
    BY <2>3 DEF Nobody
  <2> HIDE DEF q
  <2>6. route = IF SuiteAnswers(q) THEN q ELSE [q EXCEPT !.reaching = @ \cup Recovered(q)]
    BY <2>1 DEF ProbeRoute, q
  <2>7. route.reaching = {} /\ route.discharged = {}
        /\ (route.coverage # "unreached" => route.probe = "clean")
    BY <2>1 DEF Settle
  <2>8. ~SuiteAnswers(q)
    BY <2>6, <2>7 DEF SuiteAnswers
  <2>9. q.reaching = {} /\ Recovered(q) = {} /\ q.discharged = {}
    BY <2>3, <2>6, <2>7, <2>8 DEF Route
  <2>10. \A t \in Targets : probe[t] # "infected"
    BY <2>9 DEF Recovered
  <2>11. Nobody(s)
    BY <2>5, <2>9 DEF Nobody
  <2>12. suiteProbe # "infected"
    BY <2>4, <2>5, <2>8, <2>11 DEF SuiteAnswers
  <2> QED BY <2>10, <2>12
<1> QED BY <1>1, RoutingInductive, PTL

\* The packages chosen for the suite probe before the targets were probed are
\* enough afterwards.
THEOREM SuiteRunsAreOffered == Spec => []SuiteRunsWereOffered
<1>1. RInv => SuiteRunsWereOffered
  <2> SUFFICES ASSUME RInv, plan = "suite", mutant.probed, ~needed
               PROVE  FALSE
    BY DEF SuiteRunsWereOffered, RInv, TypeOK
  <2> DEFINE c == CoverageRoute(probe)
             s == SuiteRoute(c)
  <2>1. /\ phase \in {"execute", "done"} /\ route = ProbeRoute(s) /\ plan = Settle(route)
        /\ suiteProbe = "unmeasured" /\ ~Offered(probe)
    BY DEF RInv, Decided, TypeOK, Phases
  <2>2. s \in Route /\ s.reaching \subseteq ProbeRoute(s).reaching
        /\ ProbeRoute(s).discharged = s.discharged
    BY CoverageRoutePartitions, LaterStagesOnlyAdd DEF RInv
  <2>3. Nobody(s) => s.coverage = "unreached"
    BY <2>1 DEF Offered
  <2> HIDE DEF s
  <2>4. route.reaching = {} /\ route.discharged = {} /\ route.coverage # "unreached"
    BY <2>1 DEF Settle
  <2>5. s.coverage = "unreached"
    BY <2>1, <2>2, <2>3, <2>4 DEF Nobody
  <2>6. ProbeRoute(s).coverage = s.coverage
    BY <2>1, <2>2 DEF ProbeRoute, SuiteProbed, Route
  <2> QED BY <2>1, <2>4, <2>5, <2>6
<1> QED BY <1>1, RoutingInductive, PTL

-------------------------------------------------------------------------------
(*****************************************************************************)
(* ImpactSelection, for any packages, files, parts and edits.  The graph is   *)
(* put together by runs of different contents, so the invariant says what it  *)
(* is worth target by target: each entry is what one run has seen of the      *)
(* target, and whom a narrow run leaves out no changed file leads to.         *)
(*****************************************************************************)

Records == run = [at |-> run.at, copy |-> run.copy, broad |-> run.broad,
                  changed |-> run.changed, targets |-> run.targets, selected |-> run.selected]

ITyped ==
    /\ IsTree(tree) /\ IsTree(base) /\ DOMAIN ran = Tests
    /\ Records
    /\ run.at \in {"idle", "copied", "selected"} /\ run.broad \in BOOLEAN
    /\ run.changed \subseteq Files /\ run.targets \subseteq Tests /\ run.selected \subseteq run.targets
    /\ run.at # "idle" => IsTree(run.copy)
    /\ run.at # "selected" => ~run.broad
    /\ graph.known \subseteq Files /\ DOMAIN graph.targets \subseteq Tests
    /\ edits \in 0..MaxEdits

Entry(t, target) == [dependencies |-> Dependencies(t, Home[target]), covered |-> CoveredFiles(t, target)]

\* The entry of a target and what was seen of it are of one content.
Describes(t, target) ==
    /\ target \in DOMAIN graph.targets /\ graph.targets[target] = Entry(t, target)
    /\ ran[target] = Seen(t, target)

Described ==
    \A target \in Tests : ran[target] = Unseen \/ \E t : IsTree(t) /\ Describes(t, target)

\* The graph leads from no changed file to a target that is left out.
Untouched ==
    Narrow =>
        \A t \in LeftOut :
            /\ t \notin Affected(run.changed)
            /\ Home[t] \notin WholePackages
            /\ Dependencies(run.copy, Home[t]) \cap WholePackages = {}

ImpactInv == ITyped /\ Described /\ Untouched

-----------------------------------------------------------------------------
(* What a target reaches.                                                  *)

\* A closure has its roots, is closed, and is in every closed set that has them.
LEMMA ClosureIsLeast ==
    ASSUME NEW S, NEW roots, NEW step, roots \subseteq S,
           \A x \in S : step[x] \subseteq S
    PROVE  /\ Closure(S, roots, step) \subseteq S
           /\ roots \subseteq Closure(S, roots, step)
           /\ \A x \in Closure(S, roots, step) : step[x] \subseteq Closure(S, roots, step)
           /\ \A C \in SUBSET S :
                 roots \subseteq C /\ (\A x \in C : step[x] \subseteq C) =>
                     Closure(S, roots, step) \subseteq C
<1> DEFINE K == Closure(S, roots, step)
<1>1. \A x : x \in K <=> x \in S /\ \A C \in SUBSET S :
                 (roots \subseteq C /\ \A y \in C : step[y] \subseteq C) => x \in C
  BY DEF Closure
<1> HIDE DEF K
<1>2. K \subseteq S /\ roots \subseteq K
  BY <1>1
<1>3. ASSUME NEW x \in K, NEW z \in step[x] PROVE z \in K
  <2>1. z \in S
    BY <1>2
  <2>2. ASSUME NEW C \in SUBSET S, roots \subseteq C, \A y \in C : step[y] \subseteq C
        PROVE  z \in C
    <3>1. x \in C
      BY <1>1, <2>2
    <3> QED BY <2>2, <3>1
  <2> QED BY <1>1, <2>1, <2>2
<1>4. ASSUME NEW C \in SUBSET S, roots \subseteq C, \A x \in C : step[x] \subseteq C
      PROVE  K \subseteq C
  BY <1>1, <1>4
<1> QED BY <1>2, <1>3, <1>4 DEF K

\* A part uses parts that it may use, each of a file.
LEMMA UsesLinks ==
    ASSUME NEW t, IsTree(t), NEW part \in Parts, NEW used \in Uses(t, part)
    PROVE  /\ used \in Parts /\ <<part, used>> \in Links
           /\ part[1] \in Files /\ used[1] \in Files
           /\ \E link \in t[part[1]].uses : link[2] = used
           /\ used[1] \in Tests => part[1] \in Tests /\ Home[part[1]] = Home[used[1]]
<1>1. part[1] \in Files
  BY FilesAssumption
<1>2. PICK link \in t[part[1]].uses : link[1] = part /\ link[2] = used
  BY DEF Uses
<1>3. link \in Links
  BY <1>1, <1>2 DEF IsTree, Contents, Absent
<1>4. used \in Parts /\ link = <<part, used>>
  BY <1>2, <1>3, FilesAssumption
<1>5. used[1] \in Files
  BY <1>4, FilesAssumption
<1>6. used[1] \in Tests => part[1] \in Tests /\ Home[part[1]] = Home[used[1]]
  BY <1>2, <1>3, TestsAssumption
<1> QED BY <1>1, <1>2, <1>3, <1>4, <1>5, <1>6

\* What a target reaches are parts, closed under use, and no more than any such set.
LEMMA ReachIsLeast ==
    ASSUME NEW t, IsTree(t), NEW target \in Tests
    PROVE  /\ Reach(t, target) \subseteq Parts /\ <<target, "code">> \in Reach(t, target)
           /\ \A part \in Reach(t, target) : Uses(t, part) \subseteq Reach(t, target)
           /\ \A C \in SUBSET Parts :
                 <<target, "code">> \in C /\ (\A part \in C : Uses(t, part) \subseteq C) =>
                     Reach(t, target) \subseteq C
<1> DEFINE step == [part \in Parts |-> Uses(t, part)]
           root == <<target, "code">>
<1>1. \A part \in Parts : step[part] \subseteq Parts /\ step[part] = Uses(t, part)
  BY UsesLinks
<1>2. root \in Parts
  BY FilesAssumption
<1>3. Reach(t, target) = Closure(Parts, {root}, step)
  BY DEF Reach
<1> HIDE DEF step, root
<1>4. /\ Closure(Parts, {root}, step) \subseteq Parts
      /\ {root} \subseteq Closure(Parts, {root}, step)
      /\ \A x \in Closure(Parts, {root}, step) : step[x] \subseteq Closure(Parts, {root}, step)
      /\ \A C \in SUBSET Parts :
            {root} \subseteq C /\ (\A x \in C : step[x] \subseteq C) =>
                Closure(Parts, {root}, step) \subseteq C
  BY <1>1, <1>2, ClosureIsLeast
<1>5. \A C \in SUBSET Parts :
         root \in C /\ (\A x \in C : Uses(t, x) \subseteq C) => Closure(Parts, {root}, step) \subseteq C
  BY <1>1, <1>4
<1>6. \A x \in Closure(Parts, {root}, step) : Uses(t, x) \subseteq Closure(Parts, {root}, step)
  BY <1>1, <1>4
<1> QED BY <1>3, <1>4, <1>5, <1>6 DEF root

\* The files a target reaches are files, its own among them.
LEMMA ReachedFilesAre ==
    ASSUME NEW t, IsTree(t), NEW target \in Tests
    PROVE  ReachedFiles(t, target) \subseteq Files /\ target \in ReachedFiles(t, target)
<1>1. Reach(t, target) \subseteq Parts /\ <<target, "code">> \in Reach(t, target)
  BY ReachIsLeast
<1>2. \A part \in Parts : part[1] \in Files
  BY FilesAssumption
<1>3. <<target, "code">>[1] = target
  OBVIOUS
<1> QED BY <1>1, <1>2, <1>3 DEF ReachedFiles

\* A target reaches the test files of its own package only.
LEMMA ReachLeavesTests ==
    ASSUME NEW t, IsTree(t), NEW target \in Tests, NEW f \in ReachedFiles(t, target), f \in Tests
    PROVE  Home[f] = Home[target]
<1> DEFINE C == {part \in Parts : part[1] \in Tests => Home[part[1]] = Home[target]}
<1>1. ASSUME NEW part \in C, NEW used \in Uses(t, part) PROVE used \in C
  <2>1. part \in Parts
    OBVIOUS
  <2>2. used \in Parts /\ (used[1] \in Tests => part[1] \in Tests /\ Home[part[1]] = Home[used[1]])
    BY <1>1, <2>1, UsesLinks
  <2> QED BY <2>2
<1>2. <<target, "code">> \in C
  BY FilesAssumption
<1>3. Reach(t, target) \subseteq C
  <2> HIDE DEF C
  <2>1. C \in SUBSET Parts
    BY DEF C
  <2> QED BY <1>1, <1>2, <2>1, ReachIsLeast
<1>4. PICK part \in Reach(t, target) : f = part[1]
  BY DEF ReachedFiles
<1> QED BY <1>3, <1>4

\* What a test binary links has every other package that its targets reach.
LEMMA ReachedIsLinked ==
    ASSUME NEW t, IsTree(t), NEW target \in Tests, NEW f \in ReachedFiles(t, target),
           Home[f] # Home[target]
    PROVE  Home[f] \in Dependencies(t, Home[target])
<1> DEFINE p == Home[target]
           direct == Imports(t, {g \in Files : Home[g] = p})
           step == [q \in Packages |-> Imports(t, Production(q))]
           K == Closure(Packages, direct, step)
           C == {part \in Parts : Home[part[1]] = p \/ (part[1] \notin Tests /\ Home[part[1]] \in K)}
<1>1. \A S \in SUBSET Files : Imports(t, S) \subseteq Packages
  <2>1. ASSUME NEW g \in Files, NEW link \in t[g].uses PROVE Home[link[2][1]] \in Packages
    <3>1. link \in Links
      BY DEF IsTree, Contents, Absent
    <3>2. link[2] \in Parts
      BY <3>1, FilesAssumption
    <3> QED BY <3>2, FilesAssumption
  <2> QED BY <2>1 DEF Imports
<1>2. direct \subseteq Packages /\ \A q \in Packages : step[q] \subseteq Packages
  BY <1>1 DEF Production
<1>3. /\ K \subseteq Packages /\ direct \subseteq K /\ \A q \in K : step[q] \subseteq K
  <2> HIDE DEF direct, step
  <2> QED BY <1>2, ClosureIsLeast
<1>4. \A g \in Files : Home[g] = p => \A link \in t[g].uses : Home[link[2][1]] \in direct
  BY DEF Imports
<1>5. \A g \in Files \ Tests :
         Home[g] \in Packages /\ \A link \in t[g].uses : Home[link[2][1]] \in step[Home[g]]
  BY FilesAssumption DEF Imports, Production
<1>6. Dependencies(t, p) = K \ {p}
  BY DEF Dependencies
<1> HIDE DEF K, direct, step
<1>7. ASSUME NEW part \in C, NEW used \in Uses(t, part) PROVE used \in C
  <2>1. /\ part \in Parts /\ used \in Parts /\ part[1] \in Files /\ used[1] \in Files
        /\ used[1] \in Tests => part[1] \in Tests /\ Home[part[1]] = Home[used[1]]
    <3>1. part \in Parts
      OBVIOUS
    <3> QED BY <1>7, <3>1, UsesLinks
  <2>2. PICK link \in t[part[1]].uses : link[2] = used
    BY <1>7, <2>1 DEF Uses
  <2>3. CASE Home[part[1]] = p
    <3>1. Home[used[1]] \in K
      BY <1>3, <1>4, <2>1, <2>2, <2>3
    <3> QED BY <2>1, <2>3, <3>1
  <2>4. CASE Home[part[1]] # p
    <3>1. part[1] \in Files \ Tests /\ Home[part[1]] \in K
      BY <2>1, <2>4
    <3>2. Home[used[1]] \in K
      BY <1>3, <1>5, <2>2, <3>1
    <3> QED BY <2>1, <3>1, <3>2
  <2> QED BY <2>3, <2>4
<1>8. <<target, "code">> \in C
  BY FilesAssumption
<1>9. Reach(t, target) \subseteq C
  <2> HIDE DEF C
  <2>1. C \in SUBSET Parts
    BY DEF C
  <2> QED BY <1>7, <1>8, <2>1, ReachIsLeast
<1>10. PICK part \in Reach(t, target) : f = part[1]
  BY DEF ReachedFiles
<1>11. Home[f] \in K \ {p}
  BY <1>9, <1>10
<1> QED BY <1>6, <1>11

\* An unchanged part of a tree leads where it led: where what a target reached is as it
\* was, the target reaches no more.
LEMMA SameReach ==
    ASSUME NEW t, IsTree(t), NEW now, IsTree(now), NEW target \in Tests,
           \A f \in ReachedFiles(t, target) : now[f] = t[f]
    PROVE  ReachedFiles(now, target) \subseteq ReachedFiles(t, target)
<1>1. \A part \in Reach(t, target) : now[part[1]] = t[part[1]]
  BY DEF ReachedFiles
<1>2. \A part \in Reach(t, target) : Uses(now, part) = Uses(t, part)
  BY <1>1 DEF Uses
<1>3. Reach(now, target) \subseteq Reach(t, target)
  BY <1>2, ReachIsLeast
<1> QED BY <1>3 DEF ReachedFiles

-----------------------------------------------------------------------------
(* Why the invariant is what the properties need.                          *)

\* Whom a narrow run leaves out has reached nothing that changed, but for the
\* declarations that the property excepts.
LEMMA SeenIsUnchanged ==
    ASSUME ImpactInv, Narrow, NEW target \in LeftOut, target \in DOMAIN ran[target].files,
           ~UsedUnrun(target)
    PROVE  \E t : /\ IsTree(t) /\ ran[target] = Seen(t, target)
                  /\ \A f \in ReachedFiles(t, target) : f \notin run.changed
<1>1. target \in Tests /\ run.changed \subseteq Files
  BY DEF ImpactInv, ITyped, LeftOut
<1>2. ran[target] # Unseen
  BY DEF Unseen, Nothing
<1>3. PICK t : IsTree(t) /\ Describes(t, target)
  BY <1>1, <1>2 DEF ImpactInv, Described
<1>4. /\ ran[target] = Seen(t, target) /\ target \in DOMAIN graph.targets
      /\ graph.targets[target].dependencies = Dependencies(t, Home[target])
      /\ graph.targets[target].covered = CoveredFiles(t, target)
  BY <1>3 DEF Describes, Entry
<1>5. /\ DOMAIN ran[target].files = ReachedFiles(t, target)
      /\ ran[target].executed = CoveredFiles(t, target)
  BY <1>4 DEF Seen
<1>6. /\ target \notin Affected(run.changed) /\ Home[target] \notin WholePackages
  BY DEF ImpactInv, Untouched
<1>7. ASSUME NEW f \in ReachedFiles(t, target), f \in run.changed PROVE FALSE
  <2>1. CASE f \in Tests
    BY <1>1, <1>3, <1>6, <1>7, <2>1, ReachLeavesTests DEF WholePackages
  <2>2. CASE f \notin Tests /\ Home[f] # Home[target]
    BY <1>1, <1>3, <1>4, <1>6, <1>7, <2>2, ReachedIsLinked DEF Affected
  <2>3. CASE f \notin Tests /\ Home[f] = Home[target]
    <3>1. f \in CoveredFiles(t, target)
      BY <1>5, <1>7, <2>3 DEF UsedUnrun
    <3> QED BY <1>4, <1>6, <1>7, <3>1 DEF Affected
  <2> QED BY <2>1, <2>2, <2>3
<1> QED BY <1>3, <1>4, <1>7

\* The first property.
LEMMA LeftOutSeesTheSame == ImpactInv => LeftOutIsUntouched
<1> SUFFICES ASSUME ImpactInv, Narrow, NEW target \in LeftOut, Current(target), ~UsedUnrun(target),
                    NEW f \in ReachedFiles(run.copy, target)
             PROVE  /\ f \notin run.changed /\ f \in DOMAIN ran[target].files
                    /\ run.copy[f] = ran[target].files[f]
  BY DEF LeftOutIsUntouched
<1>1. target \in Tests /\ IsTree(run.copy)
  BY DEF ImpactInv, ITyped, LeftOut, Narrow
<1>2. /\ target \in DOMAIN ran[target].files
      /\ \A g \in DOMAIN ran[target].files \ run.changed : run.copy[g] = ran[target].files[g]
  BY DEF Current
<1>3. PICK t : /\ IsTree(t) /\ ran[target] = Seen(t, target)
               /\ \A g \in ReachedFiles(t, target) : g \notin run.changed
  BY <1>2, SeenIsUnchanged
<1>4. /\ DOMAIN ran[target].files = ReachedFiles(t, target)
      /\ \A g \in ReachedFiles(t, target) : ran[target].files[g] = t[g]
  BY <1>3 DEF Seen
<1>5. \A g \in ReachedFiles(t, target) : run.copy[g] = t[g]
  BY <1>2, <1>3, <1>4
<1>6. f \in ReachedFiles(t, target)
  BY <1>1, <1>3, <1>5, SameReach
<1> QED BY <1>3, <1>4, <1>5, <1>6

\* The second property.
LEMMA MutatedIsReached == ImpactInv => MutantsMeetTheirTargets
<1> SUFFICES ASSUME ImpactInv, Narrow, NEW target \in LeftOut,
                    NEW f \in MutationScope, f \in ReachedFiles(run.copy, target)
             PROVE  Home[f] \notin WholePackages /\ (~Current(target) \/ UsedUnrun(target))
  BY DEF MutantsMeetTheirTargets
<1>1. target \in Tests /\ IsTree(run.copy)
  BY DEF ImpactInv, ITyped, LeftOut, Narrow
<1>2. /\ Home[target] \notin WholePackages
      /\ Dependencies(run.copy, Home[target]) \cap WholePackages = {}
  BY DEF ImpactInv, Untouched
<1>3. Home[f] \notin WholePackages
  BY <1>1, <1>2, ReachedIsLinked
<1>4. f \in run.changed
  BY <1>3 DEF MutationScope
<1> QED BY <1>3, <1>4, LeftOutSeesTheSame DEF LeftOutIsUntouched

-----------------------------------------------------------------------------
(* The steps.                                                              *)

LEMMA ImpactStart == ImpactInit => ImpactInv
<1> SUFFICES ASSUME ImpactInit PROVE ImpactInv
  OBVIOUS
<1>1. IsTree(tree)
  <2>1. PICK there \in SUBSET Files, links \in SUBSET Links :
           tree = [f \in Files |->
                       IF f \notin there THEN Absent
                       ELSE [edit |-> 0, there |-> TRUE, uses |-> {link \in links : link[1][1] = f}]]
    BY DEF ImpactInit
  <2>2. 0 \in 0..MaxEdits
    BY FilesAssumption
  <2>3. ASSUME NEW f \in Files PROVE tree[f] \in Contents(f, 0)
    BY <2>1 DEF Contents
  <2> QED BY <2>1, <2>2, <2>3 DEF IsTree
<1>2. /\ base = tree /\ ran = [t \in Tests |-> Unseen] /\ graph = None /\ run = Idle /\ edits = 0
  BY DEF ImpactInit
<1>3. ITyped
  BY <1>1, <1>2, FilesAssumption DEF ITyped, Records, Idle, None, Nothing
<1> QED BY <1>2, <1>3 DEF ImpactInv, Described, Untouched, Narrow, Idle

\* The user and git: the run and the graph stay.
LEMMA WorldStep ==
    ASSUME ImpactInv,
           \/ \E f \in Files : \E content \in Contents(f, edits + 1) : Edit(f, content)
           \/ \E f \in Files : Revert(f) \/ Commit(f)
    PROVE  ImpactInv'
<1> USE DEF ImpactInv
<1>1. UNCHANGED <<graph, ran, run>>
  BY DEF Edit, Revert, Commit
<1>2. Described' /\ Untouched'
  BY <1>1 DEF Described, Describes, Untouched, Narrow, LeftOut, WholePackages, Affected
<1>3. IsTree(tree') /\ IsTree(base') /\ edits' \in 0..MaxEdits
  <2>1. DOMAIN tree = Files /\ DOMAIN base = Files
    BY DEF ITyped, IsTree
  <2>2. ASSUME NEW f \in Files, NEW content \in Contents(f, edits + 1), Edit(f, content)
        PROVE  IsTree(tree') /\ IsTree(base') /\ edits' \in 0..MaxEdits
    <3>1. /\ edits + 1 \in 0..MaxEdits /\ edits' = edits + 1 /\ base' = base
          /\ tree' = [tree EXCEPT ![f] = content]
      BY <2>2, FilesAssumption DEF ITyped, Edit
    <3>2. ASSUME NEW g \in Files PROVE \E n \in 0..MaxEdits : tree'[g] \in Contents(g, n)
      BY <2>1, <3>1 DEF ITyped, IsTree
    <3> QED BY <2>1, <3>1, <3>2 DEF ITyped, IsTree
  <2>3. ASSUME NEW f \in Files, Revert(f)
        PROVE  IsTree(tree') /\ IsTree(base') /\ edits' \in 0..MaxEdits
    <3>1. tree' = [tree EXCEPT ![f] = base[f]] /\ base' = base /\ edits' = edits
      BY <2>3 DEF Revert
    <3> QED BY <2>1, <3>1 DEF ITyped, IsTree
  <2>4. ASSUME NEW f \in Files, Commit(f)
        PROVE  IsTree(tree') /\ IsTree(base') /\ edits' \in 0..MaxEdits
    <3>1. base' = [base EXCEPT ![f] = tree[f]] /\ tree' = tree /\ edits' = edits
      BY <2>4 DEF Commit
    <3> QED BY <2>1, <3>1 DEF ITyped, IsTree
  <2> QED BY <2>2, <2>3, <2>4
<1>4. ITyped'
  BY <1>1, <1>3 DEF ITyped, Records
<1> QED BY <1>2, <1>4

\* A run starts or leaves.
LEMMA StartStep == ASSUME ImpactInv, Start \/ Leave PROVE ImpactInv'
<1> USE DEF ImpactInv
<1>1. UNCHANGED <<tree, base, graph, ran, edits>>
  BY DEF Start, Leave
<1>2. /\ Records' /\ run'.broad = FALSE /\ run'.changed = {} /\ run'.targets = {} /\ run'.selected = {}
      /\ run'.at = "idle" \/ (run'.at = "copied" /\ run'.copy = tree)
  <2>1. CASE Start
    <3>1. run' = [at |-> "copied", copy |-> tree, broad |-> FALSE, changed |-> {},
                  targets |-> {}, selected |-> {}]
      BY <2>1 DEF Start, Idle
    <3> QED BY <3>1 DEF Records
  <2>2. CASE Leave
    <3>1. run' = [at |-> "idle", copy |-> Nothing, broad |-> FALSE, changed |-> {},
                  targets |-> {}, selected |-> {}]
      BY <2>2 DEF Leave, Idle
    <3> QED BY <3>1 DEF Records
  <2> QED BY <2>1, <2>2
<1>3. ITyped'
  <2>1. IsTree(tree) /\ IsTree(base) /\ IsTree(tree') /\ IsTree(base')
    BY <1>1 DEF ITyped
  <2>2. run'.at # "idle" => IsTree(run'.copy)
    BY <1>2, <2>1
  <2>3. /\ DOMAIN ran' = Tests /\ edits' \in 0..MaxEdits
        /\ graph'.known \subseteq Files /\ DOMAIN graph'.targets \subseteq Tests
    BY <1>1 DEF ITyped
  <2>4. run'.at \in {"idle", "copied", "selected"} /\ run'.broad \in BOOLEAN
    BY <1>2
  <2> QED BY <1>2, <2>1, <2>2, <2>3, <2>4 DEF ITyped
<1>4. Described'
  BY <1>1 DEF Described, Describes
<1>5. Untouched'
  BY <1>2 DEF Untouched, Narrow
<1> QED BY <1>3, <1>4, <1>5

\* A run selects every target.
LEMMA BroadStep ==
    ASSUME ImpactInv, Broaden, run.at = "copied", UNCHANGED <<tree, base, graph, ran, edits>>
    PROVE  ImpactInv'
<1> USE DEF ImpactInv
<1>1. run' = [at |-> "selected", copy |-> run.copy, broad |-> TRUE, changed |-> run.changed,
              targets |-> Discovered, selected |-> Discovered]
  BY DEF Broaden, ITyped, Records
<1>2. Discovered \subseteq Tests
  BY DEF Discovered
<1>3. ITyped'
  BY <1>1, <1>2 DEF ITyped, Records
<1> QED BY <1>1, <1>3 DEF Described, Describes, Untouched, Narrow

\* A run selects.
LEMMA SelectStep == ASSUME ImpactInv, SelectImpact PROVE ImpactInv'
<1> USE DEF ImpactInv
<1>1. run.at = "copied" /\ ~run.broad /\ UNCHANGED <<tree, base, graph, ran, edits>>
  BY DEF SelectImpact, ITyped
<1>2. CASE Changed \subseteq graph.known
  <2> DEFINE chosen == {t \in Discovered : t \in Affected(Changed) \/ Depends(t, ChangedTestPackages(Changed))}
             whole == {Home[f] : f \in Changed \cap Tests}
  <2>1. run' = [at |-> "selected", copy |-> run.copy, broad |-> run.broad, changed |-> Changed,
                targets |-> Discovered, selected |-> chosen]
    <3>1. run' = [run EXCEPT !.at = "selected", !.changed = Changed, !.targets = Discovered,
                      !.selected = chosen]
      BY <1>2 DEF SelectImpact
    <3> HIDE DEF chosen
    <3> QED BY <3>1 DEF ITyped, Records
  <2>2. ChangedTestPackages(Changed) = whole
    BY <1>2 DEF ChangedTestPackages
  <2>3. \A t \in Discovered \ chosen :
           /\ t \notin Affected(Changed)
           /\ Home[t] \notin whole /\ Dependencies(run.copy, Home[t]) \cap whole = {}
    BY <2>2 DEF Depends
  <2>4. chosen \subseteq Discovered /\ Discovered \subseteq Tests /\ Changed \subseteq Files
    BY DEF Discovered, Changed
  <2> HIDE DEF chosen
  <2>5. ITyped'
    BY <1>1, <2>1, <2>4 DEF ITyped, Records
  <2>6. Described'
    BY <1>1 DEF Described, Describes
  <2>7. Affected(Changed)' = Affected(Changed)
    BY <1>1 DEF Affected, Changed
  <2>8. /\ LeftOut' = Discovered \ chosen /\ run'.changed = Changed /\ run'.copy = run.copy
        /\ WholePackages' = whole
    BY <2>1 DEF LeftOut, WholePackages
  <2>9. Affected(run.changed)' = Affected(Changed)
    BY <1>1, <2>8 DEF Affected
  <2>10. Untouched'
    BY <2>3, <2>8, <2>9 DEF Untouched
  <2> QED BY <2>5, <2>6, <2>10
<1>3. CASE ~(Changed \subseteq graph.known)
  BY <1>1, <1>3, BroadStep DEF SelectImpact
<1> QED BY <1>2, <1>3

\* A run writes the graph: what it ran as it has seen it, the rest as it was.
LEMMA SaveStep == ASSUME ImpactInv, SaveGraph PROVE ImpactInv'
<1> USE DEF ImpactInv
<1>1. /\ IsTree(run.copy) /\ run.selected \subseteq Tests
      /\ graph' = [known |-> Present(tree), targets |-> MergeGraph(BuildGraph)]
      /\ ran' = [t \in Tests |-> IF t \in run.selected THEN Seen(run.copy, t)
                                 ELSE IF run.broad THEN Unseen ELSE ran[t]]
      /\ run' = Idle /\ UNCHANGED <<tree, base, edits>>
  BY DEF SaveGraph, ITyped
<1>2. /\ DOMAIN BuildGraph = run.selected
      /\ \A t \in run.selected : BuildGraph[t] = Entry(run.copy, t)
  BY DEF BuildGraph, Entry
<1>3. /\ graph'.known = Present(tree) /\ graph'.targets = MergeGraph(BuildGraph)
  BY <1>1
<1>4. /\ \A t \in run.selected : t \in DOMAIN graph'.targets /\ graph'.targets[t] = Entry(run.copy, t)
      /\ DOMAIN graph'.targets \subseteq Tests
      /\ ~run.broad => \A t \in DOMAIN graph.targets \ run.selected :
                           t \in DOMAIN graph'.targets /\ graph'.targets[t] = graph.targets[t]
  <2> DEFINE built == BuildGraph
  <2>1. DOMAIN built = run.selected /\ \A t \in run.selected : built[t] = Entry(run.copy, t)
    BY <1>2
  <2>2. graph'.targets = IF run.broad THEN built
                         ELSE [t \in run.selected \cup DOMAIN graph.targets |->
                                   IF t \in run.selected THEN built[t] ELSE graph.targets[t]]
    BY <1>3 DEF MergeGraph
  <2> HIDE DEF built
  <2>3. CASE run.broad
    BY <1>1, <2>1, <2>2, <2>3
  <2>4. CASE ~run.broad
    <3>1. graph'.targets = [t \in run.selected \cup DOMAIN graph.targets |->
                                IF t \in run.selected THEN built[t] ELSE graph.targets[t]]
      BY <2>2, <2>4
    <3>2. /\ DOMAIN graph'.targets = run.selected \cup DOMAIN graph.targets
          /\ \A t \in run.selected : graph'.targets[t] = built[t]
          /\ \A t \in DOMAIN graph.targets \ run.selected : graph'.targets[t] = graph.targets[t]
      BY <3>1
    <3>3. DOMAIN graph.targets \subseteq Tests
      BY DEF ITyped
    <3> QED BY <1>1, <2>1, <2>4, <3>2, <3>3
  <2> QED BY <2>3, <2>4
<1>5. Described'
  <2>1. SUFFICES ASSUME NEW target \in Tests, ran'[target] # Unseen
                 PROVE  \E t : IsTree(t) /\ Describes(t, target)'
    BY DEF Described
  <2>2. CASE target \in run.selected
    <3>1. ran'[target] = Seen(run.copy, target)
      BY <1>1, <2>2
    <3>2. Describes(run.copy, target)' <=> /\ target \in DOMAIN graph'.targets
                                           /\ graph'.targets[target] = Entry(run'.copy, target)
                                           /\ ran'[target] = Seen(run'.copy, target)
      BY DEF Describes, Entry, Seen
    <3>3. PICK t : t = run.copy
      OBVIOUS
    <3>4. /\ target \in DOMAIN graph'.targets /\ graph'.targets[target] = Entry(t, target)
          /\ ran'[target] = Seen(t, target)
      BY <1>4, <2>2, <3>1, <3>3
    <3>5. Describes(t, target)'
      BY <3>4 DEF Describes
    <3> QED BY <1>1, <3>3, <3>5
  <2>3. CASE target \notin run.selected
    <3>1. ~run.broad /\ ran'[target] = ran[target]
      BY <1>1, <2>1, <2>3
    <3>2. PICK t : IsTree(t) /\ Describes(t, target)
      BY <2>1, <3>1 DEF Described
    <3>3. Describes(t, target)'
      BY <1>4, <2>3, <3>1, <3>2 DEF Describes
    <3> QED BY <3>2, <3>3
  <2> QED BY <2>2, <2>3
<1>6. ITyped'
  <2>1. Present(tree) \subseteq Files
    BY DEF Present
  <2> QED BY <1>1, <1>3, <1>4, <2>1 DEF ITyped, Records, Idle
<1>7. Untouched'
  BY <1>1 DEF Untouched, Narrow, Idle
<1> QED BY <1>5, <1>6, <1>7

\* The inductive invariant (selectImpact, mergeGraph): each entry of the graph is what
\* one run has seen of its target, however many runs put the graph together.
THEOREM ImpactInductive == ImpactSpec => []ImpactInv
<1>1. ImpactInv /\ [ImpactNext]_impactVars => ImpactInv'
  <2> SUFFICES ASSUME ImpactInv, [ImpactNext]_impactVars PROVE ImpactInv'
    OBVIOUS
  <2>1. CASE SelectAll
    BY <2>1, BroadStep DEF SelectAll
  <2>2. CASE UNCHANGED impactVars
    BY <2>2 DEF impactVars, ImpactInv, ITyped, Records, Described, Describes, Untouched, Narrow,
                LeftOut, WholePackages, Affected
  <2>3. CASE \/ \E f \in Files : \E content \in Contents(f, edits + 1) : Edit(f, content)
             \/ \E f \in Files : Revert(f) \/ Commit(f)
    BY <2>3, WorldStep
  <2>4. CASE Start \/ Leave
    BY <2>4, StartStep
  <2>5. CASE SelectImpact
    BY <2>5, SelectStep
  <2>6. CASE SaveGraph
    BY <2>6, SaveStep
  <2> QED BY <2>1, <2>2, <2>3, <2>4, <2>5, <2>6 DEF ImpactNext
<1> QED BY <1>1, ImpactStart, PTL DEF ImpactSpec

\* Every variable keeps its type: the repository and the base are trees.
THEOREM ImpactTyped == ImpactSpec => []ImpactTypeOK
<1>1. ImpactInv => ImpactTypeOK
  BY DEF ImpactInv, ITyped, ImpactTypeOK
<1> QED BY <1>1, ImpactInductive, PTL

\* A target that verify --changed leaves out would see what it saw when its entry was
\* written, and nothing that changed (selectImpact, mergeGraph), for any packages, files,
\* parts, edits, reverts and commits; excepted are a stale entry and a changed file of its
\* own package of which it only used declarations.
THEOREM LeftOutTargetsAreUntouched == ImpactSpec => []LeftOutIsUntouched
BY LeftOutSeesTheSame, ImpactInductive, PTL

\* Whoever reaches a file that a narrow run mutates is selected (mutationScope,
\* dependsOnChanged), for any packages, files, parts, edits, reverts and commits: always
\* when a changed test file put the file's package under mutation, and but for the same
\* two exceptions when the file changed itself.
THEOREM MutatedFilesMeetTheirTargets == ImpactSpec => []MutantsMeetTheirTargets
BY MutatedIsReached, ImpactInductive, PTL

===============================================================================
