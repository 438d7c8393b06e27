-------------------------- MODULE CheckpointJournal --------------------------
(***************************************************************************)
(* The checkpoint document and its append-only journal, as data: what a    *)
(* saved state is, what one journal line says, and what reading the pair   *)
(* of files back yields.  internal/checkpoint/checkpoint.go and the replay *)
(* half of internal/cache/checkpoint.go.                                   *)
(*                                                                         *)
(* A unit of saved work is a baseline target, a package-suite control or a *)
(* mutant; its measured content is abstracted to its identity.  The        *)
(* SHA-256 of a base document is modelled as the document itself, so two   *)
(* equal documents have equal digests, as they do in the code.             *)
(***************************************************************************)
EXTENDS Naturals, Sequences

CONSTANTS Targets,    \* baseline target IDs
          Packages,   \* import paths with a package-suite control
          Mutants,    \* mutant IDs of the catalog
          NoBase,     \* checkpoint-v1.json does not exist
          Damaged,    \* checkpoint-v1.json exists and does not decode
          Malformed   \* a newline-terminated journal line that does not decode

Unit == ({"target"} \X Targets) \cup ({"suite"} \X Packages) \cup ({"mutant"} \X Mutants)

IsSuite(u)  == u[1] = "suite"
IsMutant(u) == u[1] = "mutant"

(***************************************************************************)
(* checkpoint.State.  checks is Baseline.BuildVetComplete, complete is     *)
(* Baseline.Complete, race says a completed Race is present, catalog that  *)
(* Mutation is non-nil, probe that Mutation.Probe is non-nil and finished  *)
(* is Mutation.Complete.                                                   *)
(***************************************************************************)
State == [attempts : Nat, checks : BOOLEAN, complete : BOOLEAN, race : BOOLEAN,
          catalog : BOOLEAN, probe : BOOLEAN, finished : BOOLEAN,
          units : SUBSET Unit]

\* The state openRunCheckpoint starts from when there is nothing to resume.
Fresh == [attempts |-> 1, checks |-> FALSE, complete |-> FALSE, race |-> FALSE,
          catalog |-> FALSE, probe |-> FALSE, finished |-> FALSE, units |-> {}]

\* checkpoint.Validate, on the fields the model keeps.  What it asks of a unit's own
\* content, the instrumentation anchor of a package among it, goes with that content.
Valid(s) ==
    /\ s.attempts >= 1
    /\ s.complete => \A u \in s.units : ~IsSuite(u)
    /\ ~s.catalog => ~s.probe /\ ~s.finished /\ \A u \in s.units : ~IsMutant(u)

Line == [base : State, unit : Unit]

\* A complete journal line replay can decode and whose checksum matches.
Wellformed(lines) == \A i \in DOMAIN lines : lines[i] # Malformed

\* Line i extends the base document b.
Extends(b, lines, i) == lines[i].base = b

\* The units the current-base lines add to b.
JournalUnits(b, lines) == {lines[i].unit : i \in {k \in DOMAIN lines : Extends(b, lines, k)}}

Applied(b, lines) == [b EXCEPT !.units = @ \cup JournalUnits(b, lines)]

(***************************************************************************)
(* applyCheckpointJournal returns no error: every complete line decodes,   *)
(* no line changes the base once a current line was seen, no unit is       *)
(* repeated, no mutant precedes its catalog, and the result validates.     *)
(* An unterminated tail is not among the lines.                            *)
(***************************************************************************)
Replays(b, lines) ==
    /\ Wellformed(lines)
    /\ \A i, k \in DOMAIN lines : i < k /\ Extends(b, lines, i) => Extends(b, lines, k)
    /\ \A i \in DOMAIN lines : Extends(b, lines, i) =>
          /\ lines[i].unit \notin b.units
          /\ IsMutant(lines[i].unit) => b.catalog
          /\ \A k \in DOMAIN lines :
                k < i /\ Extends(b, lines, k) => lines[k].unit # lines[i].unit
    /\ Valid(Applied(b, lines))

(***************************************************************************)
(* GetCheckpoint on the two files: it finds nothing, finds a state, or     *)
(* fails (Decode, or the journal).                                         *)
(***************************************************************************)
Absent(b) == b = NoBase
Found(b, lines) == b \notin {NoBase, Damaged} /\ Valid(b) /\ Replays(b, lines)
=============================================================================
