---------------------------- MODULE FindingProofs -----------------------------
(*****************************************************************************)
(* What becomes of a finding: it is accepted for a time (AcceptanceResume), or *)
(* repaired (RepairApply).                                                   *)
(*****************************************************************************)
EXTENDS AcceptanceResume, RepairApply, TLAPS, WellFoundedInduction

-------------------------------------------------------------------------------
(*****************************************************************************)
(* AcceptanceResume, for every set of mutants, every configuration and       *)
(* every clock.                                                              *)
(*****************************************************************************)

-----------------------------------------------------------------------------
(* The inductive invariant.                                                *)

\* Each reading of the clock is no earlier than the one before it.
Readings ==
    /\ phase \in {"list", "check", "mutants", "write"} => Active(now) \subseteq accepted
    /\ phase \in {"check", "mutants", "write"} =>
          Active(now) \subseteq listed /\ listed \subseteq accepted

\* Only a configured acceptance silences a survivor, in this run or before it.
Configured ==
    \A m \in Mutants :
        m \in accepted \/ saved[m] = "accepted" \/ outcome[m] = "accepted" => expires[m] > 0

\* A stored report lists the acceptances it rests on.
Stored ==
    /\ cached # None => Audited(cached.outcome, cached.listed)
    /\ phase = "write" =>
          result # None /\ Silenced(result.outcome) \subseteq accepted \cap result.listed

IInv == TypeOK /\ Readings /\ Configured /\ Stored /\ WrittenHonoursExpiry

-----------------------------------------------------------------------------
(* The steps, one lemma for those that read the clock and one for the rest. *)

\* As the clock runs on, acceptances only expire.
LEMMA ClockStep == IInv /\ (Tick \/ Start \/ List) => IInv'
<1>1. CASE IInv /\ Tick
  <2>1. /\ now \in Nat /\ now' = now + 1 /\ expires \in [Mutants -> Nat]
        /\ UNCHANGED <<expires, phase, accepted, listed, outcome, saved, cached,
                       result, report, starts>>
    BY <1>1 DEF Tick, IInv, TypeOK
  <2>2. Active(now)' \subseteq Active(now)
    BY <2>1 DEF Active
  <2>3. TypeOK'
    BY <1>1, <2>1 DEF IInv, TypeOK
  <2>4. Readings'
    BY <1>1, <2>1, <2>2 DEF IInv, Readings
  <2>5. (Configured /\ Stored /\ WrittenHonoursExpiry)'
    BY <1>1, <2>1 DEF IInv, Configured, Stored, WrittenHonoursExpiry
  <2>6. QED
    BY <2>3, <2>4, <2>5 DEF IInv
<1>2. CASE IInv /\ Start
  <2>1. /\ now \in Nat /\ expires \in [Mutants -> Nat]
        /\ accepted' = Active(now) /\ phase' = "list" /\ starts' = starts + 1
        /\ result' = None /\ report' = None
        /\ UNCHANGED <<now, expires, listed, outcome, saved, cached>>
    BY <1>2 DEF Start, IInv, TypeOK
  <2>2. /\ Active(now)' = Active(now) /\ Active(now) \subseteq Mutants
        /\ \A m \in Active(now) : expires[m] > 0
    BY <2>1 DEF Active
  <2>3. TypeOK'
    BY <1>2, <2>1, <2>2 DEF IInv, TypeOK, Phases
  <2>4. Readings'
    BY <2>1, <2>2 DEF Readings
  <2>5. (Configured /\ Stored /\ WrittenHonoursExpiry)'
    BY <1>2, <2>1, <2>2 DEF IInv, Configured, Stored, WrittenHonoursExpiry
  <2>6. QED
    BY <2>3, <2>4, <2>5 DEF IInv
<1>3. CASE IInv /\ List
  <2>1. /\ now \in Nat /\ expires \in [Mutants -> Nat]
        /\ phase = "list" /\ listed' = Active(now) /\ phase' = "check"
        /\ UNCHANGED <<now, expires, accepted, outcome, saved, cached, result, report, starts>>
    BY <1>3 DEF List, IInv, TypeOK
  <2>2. Active(now)' = Active(now) /\ Active(now) \subseteq Mutants
    BY <2>1 DEF Active
  <2>3. TypeOK'
    BY <1>3, <2>1, <2>2 DEF IInv, TypeOK, Phases
  <2>4. Readings'
    BY <1>3, <2>1, <2>2 DEF IInv, Readings
  <2>5. (Configured /\ Stored /\ WrittenHonoursExpiry)'
    BY <1>3, <2>1 DEF IInv, Configured, Stored, WrittenHonoursExpiry
  <2>6. QED
    BY <2>3, <2>4, <2>5 DEF IInv
<1>4. QED
  BY <1>1, <1>2, <1>3

\* The mutation phase: a resumed or evaluated mutant is silenced only by a
\* configured acceptance.
LEMMA MutationStep == IInv /\ (Resume \/ \E m \in Mutants : Evaluate(m)) => IInv'
<1>1. CASE IInv /\ Resume
  <2>1. /\ outcome' = saved /\ phase' = "mutants" /\ phase = "check"
        /\ UNCHANGED <<now, expires, accepted, listed, saved, cached, result, report, starts>>
    BY <1>1 DEF Resume
  <2>2. TypeOK'
    BY <1>1, <2>1 DEF IInv, TypeOK, Phases
  <2>3. (Readings /\ Configured)'
    BY <1>1, <2>1 DEF IInv, Readings, Configured, Active
  <2>4. (Stored /\ WrittenHonoursExpiry)'
    BY <1>1, <2>1 DEF IInv, Stored, WrittenHonoursExpiry
  <2>5. QED
    BY <2>2, <2>3, <2>4 DEF IInv
<1>2. ASSUME IInv, NEW m \in Mutants, Evaluate(m) PROVE IInv'
  <2>1. PICK d \in Disposition(m) :
           /\ outcome' = [outcome EXCEPT ![m] = d]
           /\ saved' \in {saved, [saved EXCEPT ![m] = d]}
    BY <1>2 DEF Evaluate
  <2>2. /\ phase = "mutants" /\ outcome \in Outcomes /\ saved \in Outcomes
        /\ UNCHANGED <<now, expires, phase, accepted, listed, cached, result, report, starts>>
    BY <1>2 DEF Evaluate, IInv, TypeOK
  <2>3. d \in Disposed /\ (d = "accepted" => m \in accepted)
    BY DEF Disposition, Disposed
  <2>4. outcome' \in Outcomes /\ saved' \in Outcomes
    BY <2>1, <2>2, <2>3 DEF Outcomes
  <2>5. TypeOK'
    BY <1>2, <2>2, <2>4 DEF IInv, TypeOK
  <2>6. Configured'
    BY <1>2, <2>1, <2>2, <2>3 DEF IInv, Configured, Outcomes
  <2>7. (Readings /\ Stored /\ WrittenHonoursExpiry)'
    BY <1>2, <2>2 DEF IInv, Readings, Active, Stored, WrittenHonoursExpiry
  <2>8. QED
    BY <2>5, <2>6, <2>7 DEF IInv
<1>3. QED
  BY <1>1, <1>2

\* The report: whether measured or cached, it is audited before it is written.
LEMMA ReportStep ==
    IInv /\ (ServeCached \/ PutReport \/ PutRejected \/ Write \/ Stop \/ Forget) => IInv'
<1> USE DEF IInv, TypeOK, Phases
<1>1. CASE IInv /\ ServeCached
  <2>1. /\ phase = "check" /\ result' = cached /\ phase' = "write" /\ Reusable(cached)
        /\ UNCHANGED <<now, expires, accepted, listed, outcome, saved, cached, report, starts>>
    BY <1>1 DEF ServeCached
  <2>2. cached # None /\ Silenced(cached.outcome) \subseteq accepted \cap cached.listed
    BY <1>1, <2>1 DEF Reusable, Stored, Audited
  <2>3. TypeOK' /\ (Readings /\ Configured)'
    BY <1>1, <2>1 DEF Readings, Configured, Active
  <2>4. (Stored /\ WrittenHonoursExpiry)'
    BY <1>1, <2>1, <2>2 DEF Stored, WrittenHonoursExpiry
  <2>5. QED
    BY <2>3, <2>4
<1>2. CASE IInv /\ PutReport
  <2> DEFINE r == [outcome |-> outcome, listed |-> listed]
  <2>1. /\ phase = "mutants" /\ Audited(outcome, listed) /\ cached' = r /\ result' = r
        /\ phase' = "write"
        /\ UNCHANGED <<now, expires, accepted, listed, outcome, saved, report, starts>>
    BY <1>2 DEF PutReport
  <2>2. /\ r \in Reports /\ None \notin Reports
        /\ r.outcome = outcome /\ r.listed = listed
    BY <1>2, AcceptanceAssumption DEF Reports
  <2>3. Silenced(outcome) \subseteq accepted \cap listed
    BY <1>2, <2>1 DEF Audited, Readings
  <2>4. TypeOK' /\ (Readings /\ Configured)'
    BY <1>2, <2>1, <2>2 DEF Readings, Configured, Active
  <2> HIDE DEF r
  <2>5. Stored'
    BY <2>1, <2>2, <2>3 DEF Stored, Audited
  <2>6. WrittenHonoursExpiry'
    BY <1>2, <2>1 DEF WrittenHonoursExpiry
  <2>7. QED
    BY <2>4, <2>5, <2>6
<1>3. CASE IInv /\ (PutRejected \/ Stop)
  <2>1. /\ phase' = "idle"
        /\ UNCHANGED <<now, expires, accepted, listed, outcome, saved, cached, result, report, starts>>
    BY <1>3 DEF PutRejected, Stop
  <2>2. QED
    BY <1>3, <2>1 DEF Readings, Configured, Stored, WrittenHonoursExpiry
<1>4. CASE IInv /\ Write
  <2>1. /\ phase = "write" /\ report' = result /\ phase' = "idle"
        /\ saved' \in {Unsaved, saved}
        /\ UNCHANGED <<now, expires, accepted, listed, outcome, cached, result, starts>>
    BY <1>4 DEF Write
  <2>2. Unsaved \in Outcomes /\ \A m \in Mutants : Unsaved[m] # "accepted"
    BY DEF Unsaved, Outcomes
  <2>3. TypeOK'
    BY <1>4, <2>1, <2>2
  <2>4. (Readings /\ Configured)'
    BY <1>4, <2>1, <2>2 DEF Readings, Configured
  <2>5. (Stored /\ WrittenHonoursExpiry)'
    BY <1>4, <2>1 DEF Stored, WrittenHonoursExpiry
  <2>6. QED
    BY <2>3, <2>4, <2>5
<1>5. CASE IInv /\ Forget
  <2>1. /\ saved' = Unsaved
        /\ UNCHANGED <<now, expires, phase, accepted, listed, outcome, cached, result, report, starts>>
    BY <1>5 DEF Forget
  <2>2. Unsaved \in Outcomes /\ \A m \in Mutants : Unsaved[m] # "accepted"
    BY DEF Unsaved, Outcomes
  <2>3. TypeOK'
    BY <1>5, <2>1, <2>2
  <2>4. (Readings /\ Configured)'
    BY <1>5, <2>1, <2>2 DEF Readings, Configured, Active
  <2>5. (Stored /\ WrittenHonoursExpiry)'
    BY <1>5, <2>1 DEF Stored, WrittenHonoursExpiry
  <2>6. QED
    BY <2>3, <2>4, <2>5
<1>6. QED
  BY <1>1, <1>2, <1>3, <1>4, <1>5

-----------------------------------------------------------------------------
(* The theorems.                                                           *)

\* The invariant holds at first and every step preserves it.
THEOREM AcceptanceInductive == Spec => []IInv
<1>1. Init => IInv
  <2> SUFFICES ASSUME Init PROVE IInv
    OBVIOUS
  <2>1. Unsaved \in Outcomes /\ \A m \in Mutants : Unsaved[m] # "accepted"
    BY DEF Unsaved, Outcomes
  <2>2. TypeOK
    BY <2>1, AcceptanceAssumption DEF Init, TypeOK, Phases
  <2>3. Readings /\ Configured /\ Stored /\ WrittenHonoursExpiry
    BY <2>1 DEF Init, Readings, Configured, Stored, WrittenHonoursExpiry
  <2>4. QED
    BY <2>2, <2>3 DEF IInv
<1>2. IInv /\ [Next]_vars => IInv'
  <2>1. CASE IInv /\ UNCHANGED vars
    BY <2>1 DEF vars, IInv, TypeOK, Readings, Configured, Stored, Active,
       WrittenHonoursExpiry
  <2>2. QED
    BY <2>1, ClockStep, MutationStep, ReportStep DEF Next
<1>3. QED
  BY <1>1, <1>2, PTL DEF Spec

\* No report is ever written that counts as accepted a mutant whose acceptance
\* had expired when its run started.
THEOREM WrittenReportsHonourExpiry == Spec => []WrittenHonoursExpiry
<1>1. IInv => WrittenHonoursExpiry
  BY DEF IInv
<1>2. QED
  BY <1>1, AcceptanceInductive, PTL

\* Put refuses a measured report only after an acceptance it rests on expired.
THEOREM OnlyExpiryKeepsAReportBack == Spec => []OnlyExpiryBlocks
<1>1. IInv => OnlyExpiryBlocks
  <2> SUFFICES ASSUME IInv, phase = "mutants", ~Audited(outcome, listed)
               PROVE \E m \in Silenced(outcome) : 0 < expires[m] /\ expires[m] <= now
    BY DEF OnlyExpiryBlocks
  <2>1. PICK m \in Silenced(outcome) : m \notin listed
    BY DEF Audited
  <2>2. m \in Mutants /\ outcome[m] = "accepted"
    BY DEF Silenced
  <2>3. expires[m] > 0 /\ m \notin Active(now)
    BY <2>1, <2>2 DEF IInv, Configured, Readings
  <2>4. expires[m] \in Nat /\ now \in Nat
    BY <2>2 DEF IInv, TypeOK
  <2>5. expires[m] <= now
    BY <2>2, <2>3, <2>4 DEF Active
  <2>6. QED
    BY <2>3, <2>4, <2>5
<1>2. QED
  BY <1>1, AcceptanceInductive, PTL

-------------------------------------------------------------------------------
(*****************************************************************************)
(* RepairApply: a batch of candidates is applied whole or leaves nothing     *)
(* behind, and what the user made of a file stays, for any number of         *)
(* processes and files.                                                      *)
(*****************************************************************************)

Steps == {"idle", "validate", "inspect", "check", "write", "rollback", "restore", "ended"}

Commands == [at : Steps, mode : {"fix", "apply", "store"}, batch : SUBSET Paths,
             left : SUBSET Paths, applied : SUBSET Paths, rest : SUBSET Paths,
             outcome : {"none", "stored", "rejected", "artifact", "error", "applied"},
             stuck : SUBSET Paths]

\* How far a command is with its batch. What a run proposes is tried one at a time, so
\* nothing of it can be left when its only file was not written.
Batched(x) ==
    /\ x \in Commands
    /\ x.left \subseteq x.batch
    /\ x.applied \cup x.stuck \subseteq x.batch \ x.left
    /\ x.at \in {"validate", "inspect", "check", "write", "rollback", "restore"} =>
          x.left # {} /\ x.outcome # "applied"
    /\ x.at \in {"idle", "validate", "inspect"} => x.applied = {} /\ x.stuck = {}
    /\ x.at \in {"check", "write"} => x.stuck = {}
    /\ x.at = "restore" => x.applied # {}
    /\ x.at = "ended" /\ x.outcome # "applied" => x.applied = {} /\ (x.left = {} => x.stuck = {})
    /\ x.mode = "fix" => x.rest = {}
    /\ x.mode # "fix" => \E path \in Paths : x.batch = {path}

\* The file that a command is about to write is not the user's.
Spared(x) ==
    /\ x.at = "write" => files[First(x.left)] \notin {"edit", "gone"}
    /\ x.at = "restore" => files[Last(x.applied)] \notin {"edit", "gone"}

RInv ==
    /\ files \in [Paths -> Contents]
    /\ author \in [Paths -> Processes \cup {Nobody}]
    /\ stored \subseteq Paths /\ begun \in Nat /\ edits \in Nat
    /\ cmd = [p \in Processes |-> cmd[p]]
    /\ \A path \in Paths : author[path] # Nobody => files[path] = "new"
    /\ \A p \in Processes :
          /\ Batched(cmd[p]) /\ Spared(cmd[p])
          /\ \A path \in Paths : author[path] = p => path \in cmd[p].applied \cup cmd[p].stuck

\* A step that does not overwrite what a user made.
EditsKept ==
    \A path \in Paths :
        files[path] \in {"edit", "gone"} /\ files'[path] # files[path] => edits' # edits

-----------------------------------------------------------------------------
(* The order of a batch.                                                   *)

\* A set of files that is not empty has a first and a last one.
LEMMA FirstAndLast ==
    ASSUME NEW S \in SUBSET Paths, S # {}
    PROVE  First(S) \in S /\ Last(S) \in S
<1>1. S \subseteq Nat
  BY RepairAssumption DEF Paths
<1>2. \E x \in S : \A y \in S : x <= y
  <2>1. PICK x \in S : \A y \in S : ~(<<y, x>> \in OpToRel(<, Nat))
    BY <1>1, WFMin, NatLessThanWellFounded
  <2>2. \A y \in S : ~(y < x)
    BY <1>1, <2>1 DEF OpToRel
  <2> QED BY <1>1, <2>2
<1>3. \E x \in S : \A y \in S : x >= y
  <2> DEFINE T == {MaxPath - x : x \in S}
  <2>1. T \subseteq Nat /\ T # {}
    <3>1. \A x \in S : MaxPath - x \in Nat
      BY RepairAssumption DEF Paths
    <3> QED BY <3>1
  <2>2. PICK z \in T : \A y \in T : ~(<<y, z>> \in OpToRel(<, Nat))
    BY <2>1, WFMin, NatLessThanWellFounded
  <2>3. \A y \in T : ~(y < z)
    BY <2>1, <2>2 DEF OpToRel
  <2>4. PICK x \in S : z = MaxPath - x
    BY <2>2
  <2>5. \A y \in S : ~(MaxPath - y < MaxPath - x)
    BY <2>3, <2>4
  <2> QED BY <1>1, <2>5, RepairAssumption
<1> QED BY <1>2, <1>3 DEF First, Last

-----------------------------------------------------------------------------
(* One command moves.                                                      *)

\* What a process has of a batch, as far as the files say.
Owned(p, x) == \A path \in Paths : author[path] = p => path \in x.applied \cup x.stuck

\* A step that writes no file.
LEMMA QuietMove ==
    ASSUME RInv, NEW p \in Processes, NEW x, Batched(x), Spared(x), Owned(p, x),
           cmd' = [cmd EXCEPT ![p] = x], UNCHANGED <<files, author>>,
           stored' \subseteq Paths, begun' \in Nat, edits' = edits
    PROVE  RInv'
<1>1. /\ cmd' = [q \in Processes |-> cmd'[q]]
      /\ \A q \in Processes : cmd'[q] = IF q = p THEN x ELSE cmd[q]
  BY DEF RInv
<1>2. ASSUME NEW q \in Processes
      PROVE  /\ Batched(cmd'[q]) /\ Spared(cmd'[q])
             /\ \A path \in Paths : author[path] = q => path \in cmd'[q].applied \cup cmd'[q].stuck
  BY <1>1 DEF RInv, Owned
<1>3. ASSUME NEW q \in Processes
      PROVE  Batched(cmd[q])' /\ Spared(cmd[q])'
  BY <1>2 DEF Spared, Batched
<1> QED BY <1>1, <1>2, <1>3 DEF RInv

\* A step that writes a file that is not the user's: nobody who is about to write it
\* is disturbed.
LEMMA WritingMove ==
    ASSUME RInv, NEW p \in Processes, NEW x, Batched(x), x.at \notin {"write", "restore"},
           cmd' = [cmd EXCEPT ![p] = x],
           NEW path \in Paths, NEW content \in {"old", "new"}, NEW by \in {p, Nobody},
           Written(path, content, by), by = p => content = "new",
           \A other \in Paths : author'[other] = p => other \in x.applied \cup x.stuck,
           UNCHANGED <<stored, begun, edits>>
    PROVE  RInv'
<1>1. /\ cmd' = [q \in Processes |-> cmd'[q]]
      /\ \A q \in Processes : cmd'[q] = IF q = p THEN x ELSE cmd[q]
  BY DEF RInv
<1>2. /\ files' \in [Paths -> Contents] /\ author' \in [Paths -> Processes \cup {Nobody}]
      /\ \A other \in Paths : files'[other] = IF other = path THEN content ELSE files[other]
      /\ \A other \in Paths : author'[other] = IF other = path THEN by ELSE author[other]
  BY DEF RInv, Written, Contents
<1>3. \A other \in Paths : author'[other] # Nobody => files'[other] = "new"
  BY <1>2 DEF RInv
<1>4. ASSUME NEW q \in Processes
      PROVE  \A other \in Paths :
                author'[other] = q => other \in cmd'[q].applied \cup cmd'[q].stuck
  BY <1>1, <1>2, RepairAssumption DEF RInv
<1>5. ASSUME NEW q \in Processes
      PROVE  Batched(cmd[q])' /\ Spared(cmd[q])'
  <2>1. Batched(cmd[q]) /\ Spared(cmd[q])
    BY DEF RInv
  <2>2. CASE q = p
    BY <1>1, <2>2 DEF Spared, Batched
  <2>3. CASE q # p
    <3>1. cmd'[q] = cmd[q]
      BY <1>1, <2>3
    <3>2. cmd[q].at = "write" => First(cmd[q].left) \in Paths
      BY <2>1, FirstAndLast DEF Batched, Commands
    <3>3. cmd[q].at = "restore" => Last(cmd[q].applied) \in Paths
      BY <2>1, FirstAndLast DEF Batched, Commands
    <3> QED BY <1>2, <2>1, <3>1, <3>2, <3>3 DEF Spared, Batched
  <2> QED BY <2>2, <2>3
<1> QED BY <1>1, <1>2, <1>3, <1>4, <1>5 DEF RInv

-----------------------------------------------------------------------------
(* The steps.                                                              *)

\* A command that has nothing to do.
LEMMA IdleBatched == Batched(Idle) /\ Spared(Idle)
BY DEF Idle, Batched, Spared, Commands, Steps

\* A command begins with the whole of a batch.
LEMMA BatchBegins ==
    ASSUME NEW set \in SUBSET Paths, set # {}
    PROVE  LET x == [Idle EXCEPT !.at = "validate", !.batch = set, !.left = set]
           IN  Batched(x) /\ Spared(x)
BY DEF Idle, Batched, Spared, Commands, Steps

\* Or with the one candidate it tries.
LEMMA SingleBegins ==
    ASSUME NEW set \in SUBSET Paths, set # {}, NEW state, NEW mode \in {"apply", "store"}
    PROVE  Batched(Single(state, mode, set)) /\ Spared(Single(state, mode, set))
<1> DEFINE x == Single(state, mode, set)
<1>1. First(set) \in set
  BY FirstAndLast
<1>2. /\ x.at = "validate" /\ x.mode = mode /\ x.batch = {First(set)} /\ x.left = {First(set)}
      /\ x.applied = {} /\ x.stuck = {} /\ x.outcome = "none"
      /\ x \in Commands
  BY <1>1 DEF Single, Idle, Commands, Steps
<1>3. First(set) \in Paths
  BY <1>1
<1> HIDE DEF x
<1>4. Batched(x) /\ Spared(x)
  BY <1>2, <1>3 DEF Batched, Spared
<1> QED BY <1>4 DEF x

\* Of what a command has written nothing is left when it begins anew.
LEMMA NothingLeft ==
    ASSUME RInv, NEW p \in Processes,
           cmd[p].at = "idle" \/ (cmd[p].at = "ended" /\ cmd[p].outcome # "applied" /\ cmd[p].rest # {})
    PROVE  \A path \in Paths : author[path] # p
<1>1. /\ Batched(cmd[p])
      /\ \A path \in Paths : author[path] = p => path \in cmd[p].applied \cup cmd[p].stuck
  BY DEF RInv
<1>2. cmd[p].applied = {} /\ cmd[p].stuck = {}
  BY <1>1 DEF Batched, Commands
<1> QED BY <1>1, <1>2

\* Fix, AttemptGeneratedRepairs and its next candidate.
LEMMA BeginStep ==
    ASSUME RInv, NEW p \in Processes, Fix(p) \/ AttemptGeneratedRepairs(p) \/ NextCandidate(p)
    PROVE  RInv'
<1>1. PICK x : /\ cmd' = [cmd EXCEPT ![p] = x] /\ Batched(x) /\ Spared(x)
  <2>1. CASE Fix(p)
    <3>1. PICK batch \in (SUBSET stored) \ {{}} :
             Become(p, [Idle EXCEPT !.at = "validate", !.batch = batch, !.left = batch])
      BY <2>1 DEF Fix
    <3> DEFINE y == [Idle EXCEPT !.at = "validate", !.batch = batch, !.left = batch]
    <3>2. batch \in SUBSET Paths /\ batch # {}
      BY <3>1 DEF RInv
    <3>3. Batched(y) /\ Spared(y)
      BY <3>2, BatchBegins
    <3>4. cmd' = [cmd EXCEPT ![p] = y]
      BY <3>1 DEF Become
    <3> HIDE DEF y
    <3> QED BY <3>3, <3>4
  <2>2. CASE AttemptGeneratedRepairs(p)
    <3>1. PICK mode \in {"apply", "store"}, set \in (SUBSET Paths) \ {{}} :
             Become(p, Single(Idle, mode, set))
      BY <2>2 DEF AttemptGeneratedRepairs
    <3>2. Batched(Single(Idle, mode, set)) /\ Spared(Single(Idle, mode, set))
      BY SingleBegins
    <3> QED BY <3>1, <3>2 DEF Become
  <2>3. CASE NextCandidate(p)
    <3>1. Batched(cmd[p]) /\ cmd[p].rest # {}
      BY <2>3 DEF RInv, NextCandidate
    <3>2. cmd[p].rest \in SUBSET Paths /\ cmd[p].mode \in {"apply", "store"}
      BY <3>1 DEF Batched, Commands
    <3> DEFINE y == Single(cmd[p], cmd[p].mode, cmd[p].rest)
    <3>3. Batched(y) /\ Spared(y)
      BY <3>1, <3>2, SingleBegins
    <3>4. cmd' = [cmd EXCEPT ![p] = y]
      BY <2>3 DEF NextCandidate, Become
    <3> HIDE DEF y
    <3> QED BY <3>3, <3>4
  <2> QED BY <2>1, <2>2, <2>3
<1>2. /\ UNCHANGED <<files, author, stored, edits>> /\ begun' \in Nat
      /\ cmd[p].at = "idle" \/ (cmd[p].at = "ended" /\ cmd[p].outcome # "applied" /\ cmd[p].rest # {})
  <2>1. begun \in Nat
    BY DEF RInv
  <2>2. CASE Fix(p)
    <3>1. cmd[p].at = "idle" /\ begun' = begun + 1 /\ UNCHANGED <<files, author, stored, edits>>
      BY <2>2 DEF Fix
    <3> QED BY <2>1, <3>1
  <2>3. CASE AttemptGeneratedRepairs(p)
    <3>1. cmd[p].at = "idle" /\ begun' = begun + 1 /\ UNCHANGED <<files, author, stored, edits>>
      BY <2>3 DEF AttemptGeneratedRepairs
    <3> QED BY <2>1, <3>1
  <2>4. CASE NextCandidate(p)
    BY <2>1, <2>4 DEF NextCandidate
  <2> QED BY <2>2, <2>3, <2>4
<1>3. Owned(p, x)
  BY <1>2, NothingLeft DEF Owned
<1>4. stored' \subseteq Paths
  BY <1>2 DEF RInv
<1> QED BY <1>1, <1>2, <1>3, <1>4, QuietMove

\* Finish and Die: what is left behind has no author any more.
LEMMA LeaveStep ==
    ASSUME RInv, NEW p \in Processes, Leave(p)
    PROVE  RInv'
<1>1. Batched(Idle) /\ Spared(Idle)
  BY IdleBatched
<1>2. /\ cmd' = [q \in Processes |-> cmd'[q]]
      /\ \A q \in Processes : cmd'[q] = IF q = p THEN Idle ELSE cmd[q]
  BY DEF RInv, Leave, Become
<1>3. /\ author' \in [Paths -> Processes \cup {Nobody}]
      /\ \A path \in Paths : author'[path] = IF author[path] = p THEN Nobody ELSE author[path]
  BY DEF RInv, Leave
<1>4. \A path \in Paths : author'[path] # Nobody => files'[path] = "new"
  BY <1>3 DEF RInv, Leave
<1>5. ASSUME NEW q \in Processes
      PROVE  /\ Batched(cmd[q])' /\ Spared(cmd[q])'
             /\ \A path \in Paths : author'[path] = q => path \in cmd'[q].applied \cup cmd'[q].stuck
  <2>1. Batched(cmd'[q]) /\ Spared(cmd'[q])
    BY <1>1, <1>2 DEF RInv
  <2>2. Batched(cmd[q])' /\ Spared(cmd[q])'
    BY <2>1 DEF Batched, Spared, Leave
  <2>3. \A path \in Paths : author'[path] = q => path \in cmd'[q].applied \cup cmd'[q].stuck
    BY <1>2, <1>3, RepairAssumption DEF RInv
  <2> QED BY <2>2, <2>3
<1> QED BY <1>2, <1>3, <1>4, <1>5 DEF RInv, Leave

\* A command as its process finds it.
LEMMA Found ==
    ASSUME RInv, NEW p \in Processes
    PROVE  /\ cmd[p] \in Commands /\ Batched(cmd[p]) /\ Spared(cmd[p]) /\ Owned(p, cmd[p])
           /\ cmd[p].left # {} => First(cmd[p].left) \in cmd[p].left
           /\ cmd[p].applied # {} => Last(cmd[p].applied) \in cmd[p].applied
<1>1. Batched(cmd[p]) /\ Spared(cmd[p]) /\ Owned(p, cmd[p])
  BY DEF RInv, Owned
<1>2. cmd[p] \in Commands
  BY <1>1 DEF Batched
<1>3. cmd[p].left \in SUBSET Paths /\ cmd[p].applied \in SUBSET Paths
  BY <1>2 DEF Commands
<1> QED BY <1>1, <1>2, <1>3, FirstAndLast

\* The same, of a step that only moves on in a batch.
LEMMA MovesOn ==
    ASSUME RInv, NEW p \in Processes, NEW x, Batched(x), Spared(x), Become(p, x),
           \A path \in (cmd[p].applied \cup cmd[p].stuck) \ (x.applied \cup x.stuck) :
               files[path] # "new",
           stored' \subseteq Paths, Unmoved
    PROVE  RInv'
<1>1. Owned(p, x)
  <2> SUFFICES ASSUME NEW path \in Paths, author[path] = p
               PROVE  path \in x.applied \cup x.stuck
    BY DEF Owned
  <2>1. path \in cmd[p].applied \cup cmd[p].stuck /\ files[path] = "new"
    BY RepairAssumption DEF RInv
  <2> QED BY <2>1
<1>2. begun' \in Nat /\ edits' = edits /\ UNCHANGED <<files, author>>
  BY DEF RInv, Unmoved
<1> QED BY <1>1, <1>2, QuietMove DEF Become

\* Rejects and Validates: a batch is validated before any of it is written.
LEMMA ValidateStep ==
    ASSUME RInv, NEW p \in Processes, Rejects(p) \/ Validates(p)
    PROVE  RInv'
<1> DEFINE c == cmd[p]
           first == First(c.left)
<1>1. /\ c \in Commands /\ Batched(c) /\ c.at = "validate" /\ c.left # {} /\ first \in c.left
      /\ c.applied = {} /\ c.stuck = {} /\ Unmoved
  BY Found DEF Rejects, Validates, Batched
<1>2. stored \subseteq Paths /\ c.batch \subseteq Paths
  BY <1>1 DEF RInv, Commands
<1>3. CASE Rejects(p)
  <2> DEFINE x == IF c.left = {first} THEN End(c, "rejected")
                  ELSE [c EXCEPT !.left = @ \ {first}, !.outcome = "rejected"]
  <2>1. Become(p, x) /\ stored' = stored
    BY <1>3 DEF Rejects
  <2>2. Batched(x) /\ Spared(x) /\ x.applied = {} /\ x.stuck = {}
    <3>1. CASE c.left = {first}
      BY <1>1, <3>1 DEF End, Batched, Spared, Commands, Steps
    <3>2. CASE c.left # {first}
      <4>1. c.left \ {first} # {}
        BY <1>1, <3>2
      <4> QED BY <1>1, <3>2, <4>1 DEF Batched, Spared, Commands, Steps
    <3> QED BY <3>1, <3>2
  <2> HIDE DEF x
  <2> QED BY <1>1, <1>2, <2>1, <2>2, MovesOn
<1>4. CASE Validates(p) /\ c.mode = "store"
  <2> DEFINE x == End(c, "stored")
  <2>1. Become(p, x) /\ stored' \subseteq Paths
    BY <1>2, <1>4 DEF Validates
  <2>2. Batched(x) /\ Spared(x) /\ x.applied = {} /\ x.stuck = {}
    BY <1>1 DEF End, Batched, Spared, Commands, Steps
  <2> HIDE DEF x
  <2> QED BY <1>1, <2>1, <2>2, MovesOn
<1>5. CASE Validates(p) /\ c.mode # "store"
  <2> DEFINE rest == c.left \ {first}
             x == IF rest # {} THEN [c EXCEPT !.left = rest]
                  ELSE IF c.outcome = "rejected" THEN End(c, "rejected")
                  ELSE [c EXCEPT !.at = "inspect", !.left = c.batch]
  <2>1. Become(p, x) /\ stored' = stored
    BY <1>5 DEF Validates
  <2>2. Batched(x) /\ Spared(x) /\ x.applied = {} /\ x.stuck = {}
    <3>1. CASE rest # {}
      BY <1>1, <3>1 DEF Batched, Spared, Commands, Steps
    <3>2. CASE rest = {} /\ c.outcome = "rejected"
      BY <1>1, <3>2 DEF End, Batched, Spared, Commands, Steps
    <3>3. CASE rest = {} /\ c.outcome # "rejected"
      <4>1. c.batch # {}
        BY <1>1 DEF Batched
      <4> QED BY <1>1, <3>3, <4>1 DEF Batched, Spared, Commands, Steps
    <3> QED BY <3>1, <3>2, <3>3
  <2> HIDE DEF x
  <2> QED BY <1>1, <1>2, <2>1, <2>2, MovesOn
<1> QED BY <1>3, <1>4, <1>5

\* Inspect and Check: nothing is written that has changed.
LEMMA LookStep ==
    ASSUME RInv, NEW p \in Processes, Inspect(p) \/ Check(p)
    PROVE  RInv'
<1> DEFINE c == cmd[p]
           first == First(c.left)
<1>1. /\ c \in Commands /\ Batched(c) /\ c.at \in {"inspect", "check"}
      /\ c.left # {} /\ first \in c.left /\ Unmoved
  BY Found DEF Inspect, Check, Batched
<1>2. stored' \subseteq Paths
  BY DEF Inspect, Check, RInv
<1>3. CASE Inspect(p)
  <2> DEFINE rest == c.left \ {first}
             found == IF Matches(first) THEN c.outcome ELSE "artifact"
             state == [c EXCEPT !.left = rest, !.outcome = found]
             x == IF rest # {} THEN state
                  ELSE IF found = "artifact" THEN End(state, found)
                  ELSE [state EXCEPT !.at = "check", !.left = c.batch]
  <2>1. Become(p, x) /\ c.at = "inspect" /\ c.applied = {} /\ c.stuck = {}
    BY <1>1, <1>3 DEF Inspect, Batched
  <2>2. /\ state \in Commands /\ state.at = "inspect" /\ state.mode = c.mode
        /\ state.batch = c.batch /\ state.left = rest /\ state.applied = {} /\ state.stuck = {}
        /\ state.rest = c.rest /\ state.outcome = found /\ found # "applied"
        /\ found \in {"none", "stored", "rejected", "artifact", "error"}
    BY <1>1, <2>1 DEF Commands, Steps, Batched
  <2>3. c.batch \subseteq Paths /\ c.batch # {} /\ rest \subseteq c.batch
    BY <1>1 DEF Batched, Commands
  <2> HIDE DEF rest, found, state
  <2>4. Batched(x) /\ Spared(x) /\ x.applied = {} /\ x.stuck = {}
    <3>1. CASE rest # {}
      BY <1>1, <2>2, <2>3, <3>1 DEF Batched, Spared
    <3>2. CASE rest = {} /\ found = "artifact"
      <4>1. /\ x \in Commands /\ x.at = "ended" /\ x.outcome = "artifact" /\ x.left = {}
            /\ x.applied = {} /\ x.stuck = {}
            /\ x.mode = c.mode /\ x.batch = c.batch /\ x.rest = c.rest
        BY <2>2, <3>2 DEF End, Commands, Steps
      <4> HIDE DEF x
      <4> QED BY <1>1, <2>3, <4>1 DEF Batched, Spared
    <3>3. CASE rest = {} /\ found # "artifact"
      <4>1. /\ x \in Commands /\ x.at = "check" /\ x.outcome # "applied" /\ x.left = c.batch
            /\ x.applied = {} /\ x.stuck = {}
            /\ x.mode = c.mode /\ x.batch = c.batch /\ x.rest = c.rest
        BY <2>2, <2>3, <3>3 DEF Commands, Steps
      <4> HIDE DEF x
      <4> QED BY <1>1, <2>3, <4>1 DEF Batched, Spared
    <3> QED BY <3>1, <3>2, <3>3
  <2> HIDE DEF x
  <2> QED BY <1>1, <1>2, <2>1, <2>4, MovesOn
<1>4. CASE Check(p)
  <2> DEFINE x == IF MatchesStill(first) THEN [c EXCEPT !.at = "write"]
                  ELSE [c EXCEPT !.at = "rollback", !.outcome = "artifact"]
  <2>1. Become(p, x) /\ c.at = "check"
    BY <1>4 DEF Check, Refuse
  <2>2. Batched(x) /\ Spared(x) /\ x.applied = c.applied /\ x.stuck = c.stuck
    <3>1. CASE MatchesStill(first)
      BY <1>1, <2>1, <3>1 DEF MatchesStill, Matches, Batched, Spared, Commands, Steps
    <3>2. CASE ~MatchesStill(first)
      BY <1>1, <2>1, <3>2 DEF Batched, Spared, Commands, Steps
    <3> QED BY <3>1, <3>2
  <2> HIDE DEF x
  <2> QED BY <1>1, <1>2, <2>1, <2>2, MovesOn
<1> QED BY <1>3, <1>4

\* Write: its own file, which it has just found unchanged.
LEMMA WriteStep ==
    ASSUME RInv, NEW p \in Processes, AtomicWrite(p)
    PROVE  RInv' /\ EditsKept
<1> DEFINE c == cmd[p]
           first == First(c.left)
           state == [c EXCEPT !.left = @ \ {first}, !.applied = @ \cup {first}]
           x == IF state.left = {} THEN End(state, "applied") ELSE [state EXCEPT !.at = "check"]
<1>1. /\ c \in Commands /\ Batched(c) /\ Spared(c) /\ Owned(p, c) /\ c.at = "write"
      /\ c.left # {} /\ first \in c.left /\ c.stuck = {}
  BY Found DEF AtomicWrite, Batched
<1>2. /\ Written(first, "new", p) /\ Become(p, x) /\ UNCHANGED <<stored, begun, edits>>
  BY DEF AtomicWrite
<1>3. first \in Paths /\ c.batch \subseteq Paths /\ c.left \subseteq c.batch
  BY <1>1 DEF Commands, Batched
<1>4. /\ state \in Commands /\ state.at = "write" /\ state.mode = c.mode /\ state.batch = c.batch
      /\ state.left = c.left \ {first} /\ state.applied = c.applied \cup {first}
      /\ state.stuck = {} /\ state.rest = c.rest /\ state.outcome = c.outcome
  BY <1>1, <1>3 DEF Commands
<1> HIDE DEF state
<1>5. /\ Batched(x) /\ x.at \notin {"write", "restore"}
      /\ x.applied = c.applied \cup {first} /\ x.stuck = {}
  <2>1. CASE state.left = {}
    <3>1. /\ x \in Commands /\ x.at = "ended" /\ x.outcome = "applied" /\ x.left = {}
          /\ x.applied = c.applied \cup {first} /\ x.stuck = {}
          /\ x.mode = c.mode /\ x.batch = c.batch /\ x.rest = c.rest
      BY <1>4, <2>1 DEF End, Commands, Steps
    <3> HIDE DEF x
    <3> QED BY <1>1, <1>3, <3>1 DEF Batched
  <2>2. CASE state.left # {}
    <3>1. /\ x \in Commands /\ x.at = "check" /\ x.outcome = c.outcome /\ x.left = c.left \ {first}
          /\ x.applied = c.applied \cup {first} /\ x.stuck = {} /\ x.left # {}
          /\ x.mode = c.mode /\ x.batch = c.batch /\ x.rest = c.rest
      BY <1>4, <2>2 DEF Commands, Steps
    <3> HIDE DEF x
    <3> QED BY <1>1, <1>3, <3>1 DEF Batched
  <2> QED BY <2>1, <2>2
<1> HIDE DEF x
<1>6. \A other \in Paths : author'[other] = p => other \in x.applied \cup x.stuck
  BY <1>1, <1>2, <1>3, <1>5 DEF Written, Owned, RInv
<1>7. RInv'
  BY <1>2, <1>3, <1>5, <1>6, WritingMove DEF Become
<1>8. files[first] \notin {"edit", "gone"}
  BY <1>1 DEF Spared
<1>9. EditsKept
  BY <1>2, <1>3, <1>8 DEF Written, EditsKept, RInv
<1> QED BY <1>7, <1>9

\* WriteFails, Rollback and RestoreFails: what is no longer counted as written is not
\* there, or could not be taken back.
LEMMA RefuseStep ==
    ASSUME RInv, NEW p \in Processes, WriteFails(p) \/ Rollback(p) \/ RestoreFails(p)
    PROVE  RInv'
<1> DEFINE c == cmd[p]
           last == Last(c.applied)
<1>1. /\ c \in Commands /\ Batched(c) /\ Owned(p, c) /\ c.left # {}
      /\ c.outcome # "applied" /\ (c.applied # {} => last \in c.applied) /\ Unmoved
  BY Found DEF WriteFails, Rollback, RestoreFails, Batched
<1>2. stored' \subseteq Paths
  BY DEF WriteFails, Rollback, RestoreFails, RInv
<1>3. CASE WriteFails(p)
  <2> DEFINE x == [c EXCEPT !.at = "rollback", !.outcome = "error"]
  <2>1. Become(p, x)
    BY <1>3 DEF WriteFails, Refuse
  <2>2. Batched(x) /\ Spared(x) /\ x.applied = c.applied /\ x.stuck = c.stuck
    BY <1>1, <1>3 DEF WriteFails, Batched, Spared, Commands, Steps
  <2> HIDE DEF x
  <2> QED BY <1>1, <1>2, <2>1, <2>2, MovesOn
<1>4. CASE Rollback(p)
  <2> DEFINE x == IF c.applied = {} THEN End(c, c.outcome)
                  ELSE IF IsOurs(last) THEN [c EXCEPT !.at = "restore"]
                  ELSE [c EXCEPT !.applied = @ \ {last}, !.outcome = "error"]
  <2>1. Become(p, x) /\ c.at = "rollback"
    BY <1>4 DEF Rollback
  <2>2. /\ Batched(x) /\ Spared(x) /\ x.stuck = c.stuck
        /\ x.applied = c.applied \/ (x.applied = c.applied \ {last} /\ files[last] # "new")
    <3>1. CASE c.applied = {}
      <4>1. /\ x \in Commands /\ x.at = "ended" /\ x.outcome = c.outcome /\ x.left = c.left
            /\ x.applied = c.applied /\ x.stuck = c.stuck
            /\ x.mode = c.mode /\ x.batch = c.batch /\ x.rest = c.rest
        BY <1>1, <3>1 DEF End, Commands, Steps
      <4> HIDE DEF x
      <4> QED BY <1>1, <2>1, <3>1, <4>1 DEF Batched, Spared
    <3>2. CASE c.applied # {} /\ IsOurs(last)
      <4>1. /\ x \in Commands /\ x.at = "restore" /\ x.outcome = c.outcome /\ x.left = c.left
            /\ x.applied = c.applied /\ x.stuck = c.stuck
            /\ x.mode = c.mode /\ x.batch = c.batch /\ x.rest = c.rest
        BY <1>1, <3>2 DEF Commands, Steps
      <4> HIDE DEF x
      <4> QED BY <1>1, <2>1, <3>2, <4>1 DEF IsOurs, Batched, Spared
    <3>3. CASE c.applied # {} /\ ~IsOurs(last)
      <4>1. /\ x \in Commands /\ x.at = "rollback" /\ x.outcome = "error" /\ x.left = c.left
            /\ x.applied = c.applied \ {last} /\ x.stuck = c.stuck
            /\ x.mode = c.mode /\ x.batch = c.batch /\ x.rest = c.rest
        BY <1>1, <2>1, <3>3 DEF Commands, Steps
      <4> HIDE DEF x
      <4> QED BY <1>1, <2>1, <3>3, <4>1 DEF IsOurs, Batched, Spared
    <3> QED BY <3>1, <3>2, <3>3
  <2> HIDE DEF x
  <2> QED BY <1>1, <1>2, <2>1, <2>2, MovesOn
<1>5. CASE RestoreFails(p)
  <2> DEFINE x == [c EXCEPT !.at = "rollback", !.applied = @ \ {last},
                            !.stuck = @ \cup {last}, !.outcome = "error"]
  <2>1. Become(p, x) /\ c.at = "restore" /\ c.applied # {}
    BY <1>1, <1>5 DEF RestoreFails, Batched
  <2>2. Batched(x) /\ Spared(x) /\ x.applied \cup x.stuck = c.applied \cup c.stuck
    <3>1. last \in c.applied /\ last \in Paths
      BY <2>1, Found DEF Commands
    <3>2. /\ x \in Commands /\ x.at = "rollback" /\ x.outcome = "error" /\ x.left = c.left
          /\ x.applied = c.applied \ {last} /\ x.stuck = c.stuck \cup {last}
          /\ x.mode = c.mode /\ x.batch = c.batch /\ x.rest = c.rest
      BY <1>1, <3>1 DEF Commands, Steps
    <3> HIDE DEF x
    <3> QED BY <1>1, <2>1, <3>1, <3>2 DEF Batched, Spared
  <2> HIDE DEF x
  <2> QED BY <1>1, <1>2, <2>1, <2>2, MovesOn
<1> QED BY <1>3, <1>4, <1>5

\* Restore: what was compared is what is taken back.
LEMMA RestoreStep ==
    ASSUME RInv, NEW p \in Processes, Restore(p)
    PROVE  RInv' /\ EditsKept
<1> DEFINE c == cmd[p]
           last == Last(c.applied)
           x == [c EXCEPT !.at = "rollback", !.applied = @ \ {last}]
<1>1. /\ c \in Commands /\ Batched(c) /\ Spared(c) /\ Owned(p, c) /\ c.at = "restore"
      /\ c.applied # {} /\ last \in c.applied
  BY Found DEF Restore, Batched
<1>2. /\ Written(last, "old", Nobody) /\ Become(p, x) /\ UNCHANGED <<stored, begun, edits>>
  BY DEF Restore
<1>3. last \in Paths
  BY <1>1 DEF Commands
<1>4. /\ Batched(x) /\ x.at \notin {"write", "restore"}
      /\ x.applied = c.applied \ {last} /\ x.stuck = c.stuck
  BY <1>1 DEF Batched, Commands, Steps
<1> HIDE DEF x
<1>5. \A other \in Paths : author'[other] = p => other \in x.applied \cup x.stuck
  BY <1>1, <1>2, <1>3, <1>4, RepairAssumption DEF Written, Owned, RInv
<1>6. RInv'
  BY <1>2, <1>3, <1>4, <1>5, RepairAssumption, WritingMove DEF Become
<1>7. files[last] \notin {"edit", "gone"}
  BY <1>1 DEF Spared
<1>8. EditsKept
  BY <1>2, <1>3, <1>7 DEF Written, EditsKept, RInv
<1> QED BY <1>6, <1>8

\* Edit: nobody is about to write the file.
LEMMA EditStep ==
    ASSUME RInv, NEW path \in Paths, Edit(path)
    PROVE  RInv'
<1>1. PICK content \in {"old", "edit", "gone"} : Written(path, content, Nobody)
  BY DEF Edit
<1>2. ~BetweenLookAndWrite(path) /\ edits' \in Nat /\ UNCHANGED <<stored, cmd, begun>>
  BY DEF Edit, RInv
<1>3. /\ files' \in [Paths -> Contents] /\ author' \in [Paths -> Processes \cup {Nobody}]
      /\ \A other \in Paths : files'[other] = IF other = path THEN content ELSE files[other]
      /\ \A other \in Paths : author'[other] = IF other = path THEN Nobody ELSE author[other]
  BY <1>1 DEF RInv, Written, Contents
<1>4. \A other \in Paths : author'[other] # Nobody => files'[other] = "new"
  BY <1>3 DEF RInv
<1>5. ASSUME NEW q \in Processes
      PROVE  /\ Batched(cmd[q])' /\ Spared(cmd[q])'
             /\ \A other \in Paths : author'[other] = q => other \in cmd'[q].applied \cup cmd'[q].stuck
  <2>1. Batched(cmd[q]) /\ Spared(cmd[q])
    BY Found
  <2>2. cmd[q].at = "write" => First(cmd[q].left) \in Paths /\ First(cmd[q].left) # path
    BY <1>2, Found DEF BetweenLookAndWrite, Batched, Commands
  <2>3. cmd[q].at = "restore" => Last(cmd[q].applied) \in Paths /\ Last(cmd[q].applied) # path
    BY <1>2, Found DEF BetweenLookAndWrite, Batched, Commands
  <2>4. Batched(cmd[q])' /\ Spared(cmd[q])'
    BY <1>2, <1>3, <2>1, <2>2, <2>3 DEF Batched, Spared
  <2>5. \A other \in Paths : author'[other] = q => other \in cmd'[q].applied \cup cmd'[q].stuck
    BY <1>2, <1>3, RepairAssumption DEF RInv
  <2> QED BY <2>4, <2>5
<1> QED BY <1>2, <1>3, <1>4, <1>5 DEF RInv

-----------------------------------------------------------------------------
(* The theorems.                                                           *)

LEMMA RepairStart == RepairInit => RInv
<1> SUFFICES ASSUME RepairInit PROVE RInv
  OBVIOUS
<1>1. \A p \in Processes : Batched(cmd[p]) /\ Spared(cmd[p])
  BY IdleBatched DEF RepairInit
<1> QED BY <1>1, RepairAssumption DEF RepairInit, RInv, Contents, Idle

LEMMA RepairStep == RInv /\ [RepairNext]_repairVars => RInv' /\ EditsKept
<1> SUFFICES ASSUME RInv, [RepairNext]_repairVars PROVE RInv' /\ EditsKept
  OBVIOUS
<1>1. CASE \E p \in Processes : Fix(p) \/ AttemptGeneratedRepairs(p) \/ NextCandidate(p)
  <2>1. PICK p \in Processes : Fix(p) \/ AttemptGeneratedRepairs(p) \/ NextCandidate(p)
    BY <1>1
  <2>2. files' = files
    BY <2>1 DEF Fix, AttemptGeneratedRepairs, NextCandidate
  <2>3. RInv'
    BY <2>1, BeginStep
  <2> QED BY <2>2, <2>3 DEF EditsKept
<1>2. CASE \E p \in Processes : Finish(p) \/ Die(p)
  <2>1. PICK p \in Processes : Finish(p) \/ Die(p)
    BY <1>2
  <2>2. Leave(p)
    BY <2>1 DEF Finish, Die
  <2>3. files' = files
    BY <2>2 DEF Leave
  <2>4. RInv'
    BY <2>2, LeaveStep
  <2> QED BY <2>3, <2>4 DEF EditsKept
<1>3. CASE \E p \in Processes : Rejects(p) \/ Validates(p)
  <2>1. PICK p \in Processes : Rejects(p) \/ Validates(p)
    BY <1>3
  <2>2. files' = files
    BY <2>1 DEF Rejects, Validates, Unmoved
  <2>3. RInv'
    BY <2>1, ValidateStep
  <2> QED BY <2>2, <2>3 DEF EditsKept
<1>4. CASE \E p \in Processes : Inspect(p) \/ Check(p)
  <2>1. PICK p \in Processes : Inspect(p) \/ Check(p)
    BY <1>4
  <2>2. files' = files
    BY <2>1 DEF Inspect, Check, Unmoved
  <2>3. RInv'
    BY <2>1, LookStep
  <2> QED BY <2>2, <2>3 DEF EditsKept
<1>5. CASE \E p \in Processes : AtomicWrite(p) \/ Restore(p)
  BY <1>5, WriteStep, RestoreStep
<1>6. CASE \E p \in Processes : WriteFails(p) \/ Rollback(p) \/ RestoreFails(p)
  <2>1. PICK p \in Processes : WriteFails(p) \/ Rollback(p) \/ RestoreFails(p)
    BY <1>6
  <2>2. files' = files
    BY <2>1 DEF WriteFails, Rollback, RestoreFails, Unmoved
  <2>3. RInv'
    BY <2>1, RefuseStep
  <2> QED BY <2>2, <2>3 DEF EditsKept
<1>7. CASE \E path \in Paths : Edit(path)
  <2>1. edits' # edits
    BY <1>7 DEF Edit, RInv
  <2> QED BY <1>7, <2>1, EditStep DEF EditsKept
<1>8. CASE (\E path \in Paths : CollectCandidate(path)) \/ UNCHANGED repairVars
  <2>1. UNCHANGED <<files, author, cmd, begun, edits>> /\ stored' \subseteq Paths
    BY <1>8 DEF CollectCandidate, repairVars, RInv
  <2> QED BY <2>1 DEF EditsKept, RInv, Spared, Batched
<1> QED BY <1>1, <1>2, <1>3, <1>4, <1>5, <1>6, <1>7, <1>8 DEF RepairNext, Step

\* Every variable has its type, and a command its place in its batch.
THEOREM RepairTyped == RepairSpec => []RepairTypeOK
<1>1. RInv => RepairTypeOK
  BY DEF RInv, Batched, Commands, Steps, RepairTypeOK
<1> QED BY <1>1, RepairStart, RepairStep, PTL DEF RepairSpec

\* A batch that is not reported as applied has left no candidate of its own, except
\* one it could not take back (ApplyCandidates, rollbackApplications).
THEOREM BatchesLeaveNoResidue == RepairSpec => []NoResidue
<1>1. RInv => NoResidue
  <2> SUFFICES ASSUME RInv, NEW p \in Processes, cmd[p].at = "ended", cmd[p].outcome # "applied",
                      NEW path \in cmd[p].batch \ cmd[p].stuck
               PROVE  author[path] # p
    BY DEF NoResidue
  <2>1. cmd[p].applied = {} /\ path \in Paths
    BY Found DEF Batched, Commands
  <2> QED BY <2>1, Found DEF Owned
<1> QED BY <1>1, RepairStart, RepairStep, PTL DEF RepairSpec

\* No command writes over a file that the user has edited or deleted (Matches, IsOurs).
THEOREM UserEditsSurvive == RepairSpec => EditsSurvive
<1>1. EditsKept => [EditsKept]_repairVars
  OBVIOUS
<1> QED BY <1>1, RepairStart, RepairStep, PTL DEF RepairSpec, EditsSurvive, EditsKept

===============================================================================
