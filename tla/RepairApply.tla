------------------------------ MODULE RepairApply ------------------------------
(***************************************************************************)
(* Candidates for repairs: a run stores them, or a round applies the first  *)
(* that is good, and goatest fix applies a batch of stored ones. Each is    *)
(* validated in a copy of the repository; a batch is applied only when no   *)
(* file it changes has changed, and taken back when that fails half-way.    *)
(*                                                                         *)
(* There is one candidate for every path.  Nothing excludes two processes   *)
(* or the user, who edits, deletes and reverts files meanwhile.             *)
(***************************************************************************)
EXTENDS Naturals, FiniteSets

CONSTANTS
    Processes,
    Nobody,
    MaxPath,   \* bounds the files that candidates change
    MaxBegun,  \* bounds how often a command starts
    MaxEdits   \* bounds how often the user changes a file

ASSUME RepairAssumption ==
    /\ Nobody \notin Processes
    /\ MaxPath \in Nat /\ MaxBegun \in Nat /\ MaxEdits \in Nat

\* In the order of the identities of their candidates.
Paths == 1..MaxPath

VARIABLES
    files,  \* the content of every file
    author, \* the process at work whose candidate it is (an observer)
    stored, \* the candidates that are kept under .goatest
    cmd,    \* what every process is doing
    begun,
    edits

repairVars == <<files, author, stored, cmd, begun, edits>>

\* The preimage of the candidate, the candidate, and what a user makes of the file.
Contents == {"old", "new", "edit", "gone"}

Idle == [at |-> "idle", mode |-> "fix", batch |-> {}, left |-> {}, applied |-> {}, rest |-> {},
         outcome |-> "none", stuck |-> {}]

Become(p, state) == cmd' = [cmd EXCEPT ![p] = state]

First(set) == CHOOSE path \in set : \A other \in set : path <= other
Last(set) == CHOOSE path \in set : \A other \in set : path >= other

\* The file has the content the candidate was written for.
Matches(path) == files[path] = "old"

\* A slip: a batch that was inspected is not inspected again.
MatchesAlready(path) == TRUE

MatchesStill(path) == Matches(path)

Written(path, content, by) ==
    /\ files' = [files EXCEPT ![path] = content]
    /\ author' = [author EXCEPT ![path] = by]

End(state, outcome) == [state EXCEPT !.at = "ended", !.outcome = outcome]

-------------------------------------------------------------------------------
(* Commands. *)

\* goatest fix --apply takes the stored candidates, all of them or those it names.
Fix(p) ==
    /\ cmd[p].at = "idle" /\ begun < MaxBegun
    /\ \E batch \in (SUBSET stored) \ {{}} :
          Become(p, [Idle EXCEPT !.at = "validate", !.batch = batch, !.left = batch])
    /\ begun' = begun + 1
    /\ UNCHANGED <<files, author, stored, edits>>

Single(state, mode, set) ==
    [Idle EXCEPT !.at = "validate", !.mode = mode, !.batch = {First(set)}, !.left = {First(set)},
                 !.rest = set \ {First(set)}]

\* The repair phase of a run tries what a provider proposes, one after the other; with
\* NoApply it stores what is good.
AttemptGeneratedRepairs(p) ==
    /\ cmd[p].at = "idle" /\ begun < MaxBegun
    /\ \E mode \in {"apply", "store"}, set \in (SUBSET Paths) \ {{}} :
           Become(p, Single(Idle, mode, set))
    /\ begun' = begun + 1
    /\ UNCHANGED <<files, author, stored, edits>>

\* Only an applied candidate ends the phase.
NextCandidate(p) ==
    /\ cmd[p].at = "ended" /\ cmd[p].outcome # "applied" /\ cmd[p].rest # {}
    /\ Become(p, Single(cmd[p], cmd[p].mode, cmd[p].rest))
    /\ UNCHANGED <<files, author, stored, begun, edits>>

Leave(p) ==
    /\ Become(p, Idle)
    /\ author' = [path \in Paths |-> IF author[path] = p THEN Nobody ELSE author[path]]
    /\ UNCHANGED <<files, stored, begun, edits>>

Finish(p) == cmd[p].at = "ended" /\ (cmd[p].outcome = "applied" \/ cmd[p].rest = {}) /\ Leave(p)

Die(p) == cmd[p].at # "idle" /\ Leave(p)

-------------------------------------------------------------------------------
(* Validation: each candidate alone, in a fresh copy of the repository, which must *)
(* have its preimage.                                                              *)

Unmoved == UNCHANGED <<files, author, begun, edits>>

\* The candidate is written into a copy, which must have its preimage.
CopyTakes(path) == Matches(path)

Rejects(p) ==
    /\ cmd[p].at = "validate"
    /\ Become(p, IF cmd[p].left = {First(cmd[p].left)} THEN End(cmd[p], "rejected")
                 ELSE [cmd[p] EXCEPT !.left = @ \ {First(@)}, !.outcome = "rejected"])
    /\ stored' = stored
    /\ Unmoved

\* StoreCandidate, or the next candidate of the batch, or the batch is applied unless
\* one of it was rejected.
Validates(p) ==
    /\ cmd[p].at = "validate" /\ CopyTakes(First(cmd[p].left))
    /\ LET rest == cmd[p].left \ {First(cmd[p].left)}
       IN  IF cmd[p].mode = "store"
           THEN stored' = stored \cup cmd[p].batch /\ Become(p, End(cmd[p], "stored"))
           ELSE /\ stored' = stored
                /\ Become(p, IF rest # {} THEN [cmd[p] EXCEPT !.left = rest]
                             ELSE IF cmd[p].outcome = "rejected" THEN End(cmd[p], "rejected")
                             ELSE [cmd[p] EXCEPT !.at = "inspect", !.left = cmd[p].batch])
    /\ Unmoved

-------------------------------------------------------------------------------
(* ApplyCandidates. *)

\* Every file is inspected before any is written; the candidates for those that have
\* changed are kept as artifacts.
Inspect(p) ==
    /\ cmd[p].at = "inspect"
    /\ LET path == First(cmd[p].left)
           rest == cmd[p].left \ {path}
           outcome == IF Matches(path) THEN cmd[p].outcome ELSE "artifact"
           state == [cmd[p] EXCEPT !.left = rest, !.outcome = outcome]
       IN  Become(p, IF rest # {} THEN state
                     ELSE IF outcome = "artifact" THEN End(state, outcome)
                     ELSE [state EXCEPT !.at = "check", !.left = cmd[p].batch])
    /\ stored' = stored
    /\ Unmoved

\* A slip: what was written before the refusal stays.
RefuseOnly(p, outcome) == Become(p, End(cmd[p], outcome))

Refuse(p, outcome) == Become(p, [cmd[p] EXCEPT !.at = "rollback", !.outcome = outcome])

\* And once more before it is written.
Check(p) ==
    /\ cmd[p].at = "check"
    /\ IF MatchesStill(First(cmd[p].left)) THEN Become(p, [cmd[p] EXCEPT !.at = "write"])
       ELSE Refuse(p, "artifact")
    /\ stored' = stored
    /\ Unmoved

\* atomicWrite: a temporary file is renamed over it.
AtomicWrite(p) ==
    /\ cmd[p].at = "write"
    /\ LET path == First(cmd[p].left)
           state == [cmd[p] EXCEPT !.left = @ \ {path}, !.applied = @ \cup {path}]
       IN  /\ Written(path, "new", p)
           /\ Become(p, IF state.left = {} THEN End(state, "applied")
                        ELSE [state EXCEPT !.at = "check"])
    /\ UNCHANGED <<stored, begun, edits>>

WriteFails(p) ==
    /\ cmd[p].at = "write"
    /\ Refuse(p, "error")
    /\ stored' = stored
    /\ Unmoved

IsOurs(path) == files[path] = "new"

\* In reverse, each file that still is what was written; a concurrent edit is refused.
Rollback(p) ==
    /\ cmd[p].at = "rollback"
    /\ LET path == Last(cmd[p].applied)
       IN  Become(p, IF cmd[p].applied = {} THEN End(cmd[p], cmd[p].outcome)
                     ELSE IF IsOurs(path) THEN [cmd[p] EXCEPT !.at = "restore"]
                     ELSE [cmd[p] EXCEPT !.applied = @ \ {path}, !.outcome = "error"])
    /\ stored' = stored
    /\ Unmoved

Restore(p) ==
    /\ cmd[p].at = "restore"
    /\ LET path == Last(cmd[p].applied)
       IN  /\ Written(path, "old", Nobody)
           /\ Become(p, [cmd[p] EXCEPT !.at = "rollback", !.applied = @ \ {path}])
    /\ UNCHANGED <<stored, begun, edits>>

RestoreFails(p) ==
    /\ cmd[p].at = "restore"
    /\ LET path == Last(cmd[p].applied)
       IN  Become(p, [cmd[p] EXCEPT !.at = "rollback", !.applied = @ \ {path},
                                    !.stuck = @ \cup {path}, !.outcome = "error"])
    /\ stored' = stored
    /\ Unmoved

-------------------------------------------------------------------------------
(* The user, and the retention of candidates. *)

\* No program can compare and rename a file in one step: what a user does to a file
\* between the two is left out.
BetweenLookAndWrite(path) ==
    \E p \in Processes : \/ cmd[p].at = "write" /\ path = First(cmd[p].left)
                         \/ cmd[p].at = "restore" /\ path = Last(cmd[p].applied)

Edit(path) ==
    /\ edits < MaxEdits /\ ~BetweenLookAndWrite(path)
    /\ \E content \in {"old", "edit", "gone"} \ {files[path]} : Written(path, content, Nobody)
    /\ edits' = edits + 1
    /\ UNCHANGED <<stored, cmd, begun>>

CollectCandidate(path) ==
    /\ path \in stored
    /\ stored' = stored \ {path}
    /\ UNCHANGED <<files, author, cmd, begun, edits>>

RepairInit ==
    /\ files = [path \in Paths |-> "old"]
    /\ author = [path \in Paths |-> Nobody]
    /\ stored \in SUBSET Paths
    /\ cmd = [p \in Processes |-> Idle]
    /\ begun = 0 /\ edits = 0

Step(p) ==
    \/ NextCandidate(p) \/ Finish(p) \/ Rejects(p) \/ Validates(p) \/ Inspect(p) \/ Check(p)
    \/ AtomicWrite(p) \/ WriteFails(p) \/ Rollback(p) \/ Restore(p) \/ RestoreFails(p)

RepairNext ==
    \/ \E p \in Processes : Fix(p) \/ AttemptGeneratedRepairs(p) \/ Step(p) \/ Die(p)
    \/ \E path \in Paths : Edit(path) \/ CollectCandidate(path)

RepairSpec == RepairInit /\ [][RepairNext]_repairVars

-------------------------------------------------------------------------------
(* Properties. *)

\* Every variable has its type.
RepairTypeOK ==
    /\ files \in [Paths -> Contents]
    /\ author \in [Paths -> Processes \cup {Nobody}]
    /\ stored \subseteq Paths
    /\ \A p \in Processes :
          /\ cmd[p].at \in {"idle", "validate", "inspect", "check", "write", "rollback", "restore", "ended"}
          /\ cmd[p].mode \in {"fix", "apply", "store"}
          /\ cmd[p].left \cup cmd[p].applied \cup cmd[p].stuck \subseteq cmd[p].batch
          /\ cmd[p].batch \cup cmd[p].rest \subseteq Paths
          /\ cmd[p].outcome \in {"none", "stored", "rejected", "artifact", "error", "applied"}

\* A batch that is not reported as applied leaves none of its candidates behind, at
\* whichever file it failed and whoever else wrote meanwhile, but where taking one
\* back failed too (ApplyCandidates, rollbackApplications).
NoResidue ==
    \A p \in Processes :
        cmd[p].at = "ended" /\ cmd[p].outcome # "applied" =>
            \A path \in cmd[p].batch \ cmd[p].stuck : author[path] # p

\* What the user made of a file is never overwritten, neither by a candidate nor by
\* taking one back ("preimage changed; user edit preserved", writeArtifact).
EditsSurvive ==
    [][\A path \in Paths :
          files[path] \in {"edit", "gone"} /\ files'[path] # files[path] => edits' # edits]_repairVars

===============================================================================
