--------------------------- MODULE MutationRouting ---------------------------
(***************************************************************************)
(* How one mutant is routed (internal/assure/mutation.go, probe.go).       *)
(* Coverage names the targets that reach it, two proofs discharge some of  *)
(* them, and positive infections found by the probe bring targets back.    *)
(* With nobody left the mutant falls to its package suite, unless the      *)
(* measured suite proves it cannot notice.  What each execution really     *)
(* does is chosen first; the measurements may fail, and they need not see  *)
(* what a blind target runs (in a subprocess, say).  A replay of a single  *)
(* mutant skips the probe and is not modelled here.                        *)
(***************************************************************************)
CONSTANTS Targets,  \* the measured top-level targets
          Own       \* those of the mutant's own package, which its suite runs

ASSUME RoutingAssumption == Own \subseteq Targets

VARIABLES
    mutant,    \* what the catalog says of the mutant
    blind,     \* targets whose measurements may miss what they run
    effect,    \* what each target really does with the mutant active
    suiteDoes, \* what the whole package suite does with it
    phase,
    cover,     \* each target's coverage of the mutant
    suite,     \* the package suite's coverage of it
    needed,    \* neededProbeSuitePackages holds the mutant's package
    probe,     \* what the probe measured of each target
    suiteProbe,
    route,     \* the mutationRoute
    plan,      \* how the mutant is settled
    verdict

vars == <<mutant, blind, effect, suiteDoes, phase, cover, suite, needed,
          probe, suiteProbe, route, plan, verdict>>

\* How far an execution is touched by the mutant: the site is not executed,
\* executed, computes another value, or the execution fails.
Effects  == {"silent", "site", "differs", "kills"}
Executes == Effects \ {"silent"}
Differs  == {"differs", "kills"}

\* position: unknown, outside every instrumented block, or in one.
\* proof: none, for a body without instrumented blocks, or usable.
Mutant == [position : {"unknown", "outside", "block"}, probed : BOOLEAN,
           proof : {"none", "unseen", "usable"}]

\* file not covered; no exact blocks; blocks that miss the position, hold it,
\* or hold it and start inside the body the mutation narrows.
Coverages == {"absent", "inexact", "misses", "holds", "enters"}
Suites    == {"unmeasured", "outside", "misses", "holds"}
Probes    == {"unmeasured", "clean", "infected"}
Phases    == {"baseline", "suites", "select", "probe", "route", "execute", "done"}
Plans     == {"none", "unreached", "uninfected", "discharged", "suite", "groups"}
Route     == [reaching : SUBSET Targets, discharged : SUBSET Targets,
              coverage : {"", "reached", "unreached"}, probe : {"", "infected", "clean"}]
NoRoute   == [reaching |-> {}, discharged |-> {}, coverage |-> "", probe |-> ""]

\* The suite does at least what each of its own targets does.
SuiteRunsOwn ==
    \A t \in Own : /\ effect[t] \in Executes => suiteDoes \in Executes
                   /\ effect[t] \in Differs  => suiteDoes \in Differs
                   /\ effect[t] = "kills"    => suiteDoes = "kills"

Init == /\ mutant \in Mutant /\ blind \in SUBSET Targets
        /\ effect \in [Targets -> Effects] /\ suiteDoes \in Effects /\ SuiteRunsOwn
        /\ phase = "baseline" /\ cover = [t \in Targets |-> "absent"]
        /\ suite = "unmeasured" /\ needed = FALSE
        /\ probe = [t \in Targets |-> "unmeasured"] /\ suiteProbe = "unmeasured"
        /\ route = NoRoute /\ plan = "none" /\ verdict = "none"

-----------------------------------------------------------------------------
(* The measurements                                                        *)

\* What the profile of an execution with this effect may show.  Executing a
\* position covers its file and its block; a killed narrowing mutant whose
\* proof holds is killed by a body that was entered.
Shown(e) == IF e = "silent" THEN Coverages
            ELSE IF mutant.position # "block" THEN Coverages \ {"absent"}
            ELSE IF e = "kills" /\ mutant.proof = "usable" THEN {"inexact", "enters"}
            ELSE {"inexact", "holds", "enters"}

\* What the probe reports of an execution, when it reports at all.
Reported(e) == IF mutant.probed /\ e \in Differs THEN "infected" ELSE "clean"

TargetReports(t) == {"unmeasured", Reported(effect[t])}
                        \cup (IF t \in blind THEN {"clean"} ELSE {})

SuiteReports == {Reported(suiteDoes)} \cup (IF Own \cap blind # {} THEN {"clean"} ELSE {})

\* The baseline runs every target once on the original tree.  In a prepared
\* mutation session the same execution also probes the target.
MeasureBaseline ==
    /\ phase = "baseline" /\ phase' = "suites"
    /\ cover' \in [Targets -> Coverages]
    /\ \A t \in Targets \ blind : cover'[t] \in Shown(effect[t])
    /\ \/ UNCHANGED probe
       \/ /\ probe' \in [Targets -> Probes]
          /\ \A t \in Targets : probe'[t] \in TargetReports(t)
    /\ UNCHANGED <<mutant, blind, effect, suiteDoes, suite, needed, suiteProbe,
                   route, plan, verdict>>

\* Each package suite runs once with coverage, and in a prepared session with
\* the probe; one that fails or is not asked for is left out.
MeasureSuite ==
    /\ phase = "suites" /\ phase' = "select"
    /\ suite' \in (IF mutant.position = "block" THEN Suites ELSE {"unmeasured", "outside"})
    /\ suite' = "misses" => suiteDoes = "silent" \/ Own \cap blind # {}
    /\ suiteProbe' \in {"unmeasured"} \cup (IF suite' # "unmeasured" THEN SuiteReports ELSE {})
    /\ UNCHANGED <<mutant, blind, effect, suiteDoes, cover, needed, probe,
                   route, plan, verdict>>

-----------------------------------------------------------------------------
(* Routing                                                                 *)

Candidates == {t \in Targets : cover[t] # "absent"}

\* A slip: a target the probe never measured counts as clean.
InfectsMeasured(t, facts) == facts[t] = "infected"

\* TargetEvidence.infects
Infects(t, facts) == facts[t] # "clean"

\* dischargeNarrowedBranch
BranchDischarged(ts) == IF mutant.proof = "usable"
                        THEN {t \in ts : cover[t] \notin {"inexact", "enters"}} ELSE {}

\* dischargeNeverInfected
NeverInfected(ts, facts) == IF mutant.probed THEN {t \in ts : ~Infects(t, facts)} ELSE {}

\* routeMutant.  A route decided by file is never narrowed.
CoverageRoute(facts) ==
    IF mutant.position # "block"
    THEN [NoRoute EXCEPT !.reaching = Candidates]
    ELSE LET reaching == {t \in Candidates : cover[t] # "misses"}
             branch   == BranchDischarged(reaching)
             gone     == branch \cup NeverInfected(reaching \ branch, facts)
         IN [NoRoute EXCEPT !.reaching = reaching \ gone, !.discharged = gone]

Nobody(r) == r.reaching = {} /\ r.discharged = {}

\* A slip: a gap between the suite's instrumented blocks counts as not covered.
SuiteRouteGaps(r) ==
    IF Nobody(r) /\ mutant.position # "unknown" /\ suite # "unmeasured"
    THEN [r EXCEPT !.coverage = IF suite = "holds" THEN "reached" ELSE "unreached"]
    ELSE r

\* applySuiteCoverageRouting
SuiteRoute(r) ==
    IF /\ Nobody(r) /\ mutant.position # "unknown"
       /\ suite \in {"misses", "holds"}
    THEN [r EXCEPT !.coverage = IF suite = "holds" THEN "reached" ELSE "unreached"]
    ELSE r

\* The targets a positive infection brings back.
Recovered(r) == {t \in Targets \ (r.reaching \cup r.discharged) :
                    mutant.probed /\ probe[t] = "infected"}

\* A slip: an infection of the suite does not clear its silent profile.
SuiteProbedSilent(r) ==
    IF Nobody(r) /\ mutant.probed /\ suiteProbe # "unmeasured"
    THEN [r EXCEPT !.probe = suiteProbe] ELSE r

\* The first half of applyProbeRouting: the suite's probe speaks for a mutant
\* nobody reaches, and an infection clears a silent coverage profile.
SuiteProbed(r) ==
    IF Nobody(r) /\ mutant.probed /\ suiteProbe # "unmeasured"
    THEN [r EXCEPT !.probe = suiteProbe,
                   !.coverage = IF @ = "unreached" /\ suiteProbe = "infected" THEN "" ELSE @]
    ELSE r

\* The suite is known to notice the mutant, so it runs whole.
SuiteAnswers(r) == /\ Nobody(r) /\ r.coverage # "unreached"
                   /\ \/ r.probe = "" /\ r.coverage = "reached"
                      \/ r.probe = "infected"

\* applyProbeRouting
ProbeRoute(r) ==
    LET s == SuiteProbed(r)
    IN IF SuiteAnswers(s) THEN s ELSE [s EXCEPT !.reaching = @ \cup Recovered(s)]

-----------------------------------------------------------------------------
(* The steps from the measurements to a verdict                            *)

\* neededProbeSuitePackages, before any target of this session is probed. The
\* package may also be needed by another of its mutants.
SelectProbes ==
    /\ phase = "select" /\ phase' = "probe"
    /\ LET r == SuiteRoute(CoverageRoute(probe))
       IN \E siblings \in BOOLEAN :
             needed' = (siblings \/ (mutant.probed /\ Nobody(r) /\ r.coverage # "unreached"))
    /\ UNCHANGED <<mutant, blind, effect, suiteDoes, cover, suite, probe, suiteProbe,
                   route, plan, verdict>>

\* ProbeTargets: every target not yet probed, and the suite when it is needed.
ProbeTargets ==
    /\ phase = "probe" /\ phase' = "route"
    /\ probe' \in [Targets -> Probes]
    /\ \A t \in Targets :
          IF probe[t] # "unmeasured" THEN probe'[t] = probe[t]
                                     ELSE probe'[t] \in TargetReports(t)
    /\ suiteProbe' \in IF ~needed THEN {"unmeasured"}
                       ELSE IF suiteProbe # "unmeasured" THEN {suiteProbe}
                       ELSE {"unmeasured"} \cup SuiteReports
    /\ UNCHANGED <<mutant, blind, effect, suiteDoes, cover, suite, needed,
                   route, plan, verdict>>

\* The early returns of evaluateMutationSeed, in their order.
Settle(r) == IF r.reaching # {}               THEN "groups"
             ELSE IF r.discharged # {}        THEN "discharged"
             ELSE IF r.coverage = "unreached" THEN "unreached"
             ELSE IF r.probe = "clean"        THEN "uninfected"
             ELSE "suite"

RouteMutant ==
    /\ phase = "route" /\ phase' = "execute"
    /\ route' = ProbeRoute(SuiteRoute(CoverageRoute(probe)))
    /\ plan' = Settle(route')
    /\ UNCHANGED <<mutant, blind, effect, suiteDoes, cover, suite, needed, probe,
                   suiteProbe, verdict>>

\* A group of targets, or the suite, fails with the mutant active or does not;
\* the other plans execute nothing.
Execute ==
    /\ phase = "execute" /\ phase' = "done"
    /\ verdict' = IF \/ plan = "groups" /\ \E t \in route.reaching : effect[t] = "kills"
                     \/ plan = "suite" /\ suiteDoes = "kills"
                  THEN "killed" ELSE "survived"
    /\ UNCHANGED <<mutant, blind, effect, suiteDoes, cover, suite, needed, probe,
                   suiteProbe, route, plan>>

Next == \/ MeasureBaseline \/ MeasureSuite \/ SelectProbes \/ ProbeTargets
        \/ RouteMutant \/ Execute

Spec == Init /\ [][Next]_vars

-----------------------------------------------------------------------------
TypeOK ==
    /\ mutant \in Mutant /\ blind \subseteq Targets
    /\ effect \in [Targets -> Effects] /\ suiteDoes \in Effects
    /\ phase \in Phases /\ cover \in [Targets -> Coverages] /\ suite \in Suites
    /\ needed \in BOOLEAN /\ probe \in [Targets -> Probes] /\ suiteProbe \in Probes
    /\ route \in Route /\ plan \in Plans /\ verdict \in {"none", "killed", "survived"}

\* Discharging targets, skipping suites and ordering by cost never changes a
\* verdict: a mutant that some target with a faithful profile would kill is
\* reported killed, whichever measurement failed.
NoKillIsMissed ==
    verdict = "survived" => \A t \in Targets \ blind : effect[t] # "kills"

\* The proofs that settle a mutant without running anything hold: a suite whose
\* targets all have faithful profiles would not have failed.
SkippedSuiteIsHarmless ==
    plan \in {"unreached", "uninfected"} /\ Own \cap blind = {} => suiteDoes # "kills"

\* A measured infection, of a target or of the suite, is a counterexample to
\* silent coverage: no mutant is reported unreached in spite of one (ADR 0010).
PositiveDefeatsSilence ==
    plan \in {"unreached", "uninfected"} /\ mutant.probed =>
        /\ \A t \in Targets : probe[t] # "infected"
        /\ suiteProbe # "infected"

\* The packages chosen for a suite probe before the targets were probed are
\* still enough afterwards: every probed mutant that costs a whole suite run had
\* its suite offered to the probe first.
SuiteRunsWereOffered == plan = "suite" /\ mutant.probed => needed
=============================================================================
