--------------------------- MODULE AcceptanceResume ---------------------------
(***************************************************************************)
(* Expiring acceptances against a resumed mutation phase.  A run reads the *)
(* clock once to learn which acceptances are active and once more to list  *)
(* them in its report (internal/assure/run.go); a survivor under an active *)
(* acceptance is recorded as accepted, and the checkpoint hands that       *)
(* record to the next run as it is (internal/assure/mutation.go and        *)
(* resume.go).  The configuration is part of the input digest, so between  *)
(* runs of one digest only the clock changes.                              *)
(***************************************************************************)
EXTENDS Naturals

CONSTANTS Mutants,    \* mutant IDs, each with the ID of its finding
          MaxTime,    \* the clock stops here
          MaxStarts,  \* runs started
          None        \* there is no report

Disposed == {"killed", "accepted", "finding"}
Outcomes == [Mutants -> Disposed \cup {"none"}]
Reports  == [outcome : Outcomes, listed : SUBSET Mutants]

ASSUME AcceptanceAssumption ==
    /\ MaxTime \in Nat /\ MaxStarts \in Nat
    /\ None \notin Reports

VARIABLES
    now,       \* options.Now
    expires,   \* the configured expiry of the acceptance of each mutant's finding
    phase,     \* where the run stands, "idle" between runs
    accepted,  \* activeAcceptance: findings this run may silence
    listed,    \* activeAcceptanceMetadata: acceptances this run's report names
    outcome,   \* this run's disposition of each mutant
    saved,     \* checkpoint.State.Mutation.Results
    cached,    \* the verdict cache's report of the digest
    result,    \* the report the run is about to write
    report,    \* the report the last run wrote
    starts

vars == <<now, expires, phase, accepted, listed, outcome, saved, cached,
          result, report, starts>>

Phases  == {"idle", "list", "check", "mutants", "write"}

Unsaved == [m \in Mutants |-> "none"]

Silenced(o) == {m \in Mutants : o[m] = "accepted"}

\* The acceptances that have not expired at time t.
Active(t) == {m \in Mutants : expires[m] > t}

Init == /\ now = 0 /\ expires \in [Mutants -> 0 .. MaxTime]
        /\ phase = "idle" /\ accepted = {} /\ listed = {}
        /\ outcome = Unsaved /\ saved = Unsaved
        /\ cached = None /\ result = None /\ report = None /\ starts = 0

Tick == /\ now < MaxTime /\ now' = now + 1
        /\ UNCHANGED <<expires, phase, accepted, listed, outcome, saved, cached,
                       result, report, starts>>

\* The run begins: accepted := activeAcceptance(loaded, now()).
Start ==
    /\ phase = "idle" /\ starts < MaxStarts
    /\ accepted' = Active(now) /\ phase' = "list" /\ starts' = starts + 1
    /\ result' = None /\ report' = None
    /\ UNCHANGED <<now, expires, listed, outcome, saved, cached>>

\* acceptances := activeAcceptanceMetadata(loaded, now()), a later reading.
List ==
    /\ phase = "list" /\ listed' = Active(now) /\ phase' = "check"
    /\ UNCHANGED <<now, expires, accepted, outcome, saved, cached, result, report, starts>>

\* A slip: only the acceptances the report lists are checked again.
ReusableListed(r) == r # None /\ Silenced(r.outcome) \subseteq r.listed

\* cachedReportReusable.
Reusable(r) == r # None /\ r.listed \subseteq accepted /\ Silenced(r.outcome) \subseteq accepted

ServeCached ==
    /\ phase = "check" /\ Reusable(cached)
    /\ result' = cached /\ phase' = "write"
    /\ UNCHANGED <<now, expires, accepted, listed, outcome, saved, cached, report, starts>>

\* EvaluateMutations appends what the checkpoint saved before it runs a mutant.
Resume ==
    /\ phase = "check" /\ ~Reusable(cached)
    /\ outcome' = saved /\ phase' = "mutants"
    /\ UNCHANGED <<now, expires, accepted, listed, saved, cached, result, report, starts>>

\* A slip: every survivor is silenced.
DispositionSilences(m) == {"killed", "accepted"}

\* What executing m may show: addKill, or addFinding under this run's acceptances.
Disposition(m) == {"killed", IF m \in accepted THEN "accepted" ELSE "finding"}

\* A mutant is resolved and, unless checkpoint writes are disabled, saved.
Evaluate(m) ==
    /\ phase = "mutants" /\ outcome[m] = "none"
    /\ \E d \in Disposition(m) :
          /\ outcome' = [outcome EXCEPT ![m] = d]
          /\ saved' \in {saved, [saved EXCEPT ![m] = d]}
    /\ UNCHANGED <<now, expires, phase, accepted, listed, cached, result, report, starts>>

\* report.validateAcceptances: accepted evidence references a listed acceptance.
Audited(o, l) == Silenced(o) \subseteq l

Resolved == \A m \in Mutants : outcome[m] # "none"

PutReport ==
    /\ phase = "mutants" /\ Resolved /\ Audited(outcome, listed)
    /\ cached' = [outcome |-> outcome, listed |-> listed] /\ result' = cached'
    /\ phase' = "write"
    /\ UNCHANGED <<now, expires, accepted, listed, outcome, saved, report, starts>>

\* Put refuses the report; the run ends in error and keeps its checkpoint.
PutRejected ==
    /\ phase = "mutants" /\ Resolved /\ ~Audited(outcome, listed)
    /\ phase' = "idle"
    /\ UNCHANGED <<now, expires, accepted, listed, outcome, saved, cached, result, report, starts>>

\* WriteReports, then DeleteCheckpoint, which may fail.
Write ==
    /\ phase = "write" /\ report' = result /\ phase' = "idle"
    /\ saved' \in {Unsaved, saved}
    /\ UNCHANGED <<now, expires, accepted, listed, outcome, cached, result, starts>>

\* A run error, a cancellation or a killed process.
Stop ==
    /\ phase # "idle" /\ phase' = "idle"
    /\ UNCHANGED <<now, expires, accepted, listed, outcome, saved, cached, result, report, starts>>

\* The checkpoint is discarded, or the cache policy evicts it.
Forget ==
    /\ saved # Unsaved /\ saved' = Unsaved
    /\ UNCHANGED <<now, expires, phase, accepted, listed, outcome, cached, result, report, starts>>

Next ==
    \/ Tick \/ Start \/ List \/ ServeCached \/ Resume
    \/ \E m \in Mutants : Evaluate(m)
    \/ PutReport \/ PutRejected \/ Write \/ Stop \/ Forget

Spec == Init /\ [][Next]_vars

-----------------------------------------------------------------------------
(* Properties.                                                             *)

\* Every variable has its type; nothing waits to be written before a phase that may write.
TypeOK ==
    /\ now \in Nat /\ expires \in [Mutants -> Nat] /\ phase \in Phases
    /\ accepted \subseteq Mutants /\ listed \subseteq Mutants
    /\ outcome \in Outcomes /\ saved \in Outcomes
    /\ {cached, result, report} \subseteq Reports \cup {None}
    /\ starts \in Nat

\* A run writes no report, measured or served from the cache, that counts a
\* mutant as accepted under an acceptance that had expired when it started.
WrittenHonoursExpiry ==
    report # None => Silenced(report.outcome) \subseteq accepted \cap report.listed

\* A run whose mutants are all resolved is kept from its report only by an
\* acceptance that was active once and has expired since.
OnlyExpiryBlocks ==
    phase = "mutants" /\ ~Audited(outcome, listed) =>
        \E m \in Silenced(outcome) : 0 < expires[m] /\ expires[m] <= now

\* docs/assurance-contract.md, Acceptances: expired acceptances are ignored.
ExpiredIgnored == phase = "mutants" => Silenced(outcome) \subseteq accepted
=============================================================================
