---------------------------- MODULE ImpactSelection ----------------------------
(***************************************************************************)
(* What verify --changed runs.  A run that passes its baseline leaves a     *)
(* graph of what every target reached; a later run asks git what changed    *)
(* since a base, selects from the graph the targets that the change can     *)
(* affect, and mutates what changed.                                        *)
(*                                                                         *)
(* A file has code, declarations that run nothing (constants, types), or    *)
(* both, and its parts use parts of files; an edit changes which.  A use    *)
(* of code runs it.  Every test file holds one target.  A run works on a    *)
(* copy; git and the graph are read from the repository, which is edited    *)
(* and committed meanwhile.                                                 *)
(***************************************************************************)
EXTENDS Naturals

CONSTANTS
    Packages,
    Home,          \* the package of every file
    Files,         \* the Go files of the module
    Tests,         \* the test files among them
    Parts,         \* what the files may have, as pairs of a file and a kind
    Links,         \* what the parts may use, as pairs of parts
    MaxEdits       \* bounds the edits

ASSUME FilesAssumption ==
    /\ Tests \subseteq Files /\ Home \in [Files -> Packages]
    /\ Parts \subseteq Files \X {"code", "decl"} /\ Tests \X {"code"} \subseteq Parts
    /\ Links \subseteq Parts \X Parts
    /\ MaxEdits \in Nat

\* A test file is compiled into the test binary of its own package only.
ASSUME TestsAssumption ==
    \A link \in Links :
        LET from == link[1][1]
            to == link[2][1]
        IN to \in Tests => from \in Tests /\ Home[from] = Home[to]

VARIABLES
    tree,     \* the files of the repository
    base,     \* the files of the commit that changes are relative to
    graph,    \* .goatest/graph-v1.json
    ran,      \* what the run that wrote a target's entry has seen of it (an observer)
    run,      \* the run at work
    edits

impactVars == <<tree, base, graph, ran, run, edits>>

Absent == [edit |-> 0, there |-> FALSE, uses |-> {}]

\* What a file may hold after the n-th edit.
Contents(f, n) ==
    {Absent} \cup
    {[edit |-> n, there |-> TRUE, uses |-> u] : u \in SUBSET {link \in Links : link[1][1] = f}}

IsTree(t) == DOMAIN t = Files /\ \A f \in Files : \E n \in 0..MaxEdits : t[f] \in Contents(f, n)

Present(t) == {f \in Files : t[f].there}

Builds(t) == \A f \in Present(t) : \A link \in t[f].uses : link[2][1] \in Present(t)

\* The least set with the roots in it that the step does not leave.
Closure(S, roots, step) ==
    {x \in S : \A closed \in SUBSET S :
        (roots \subseteq closed /\ \A y \in closed : step[y] \subseteq closed) => x \in closed}

Uses(t, part) == {link[2] : link \in {l \in t[part[1]].uses : l[1] = part}}

\* The parts that the outcome of a target depends on, and the files they are of.
Reach(t, target) == Closure(Parts, {<<target, "code">>}, [part \in Parts |-> Uses(t, part)])

ReachedFiles(t, target) == {part[1] : part \in Reach(t, target)}

Production(p) == {f \in Files \ Tests : Home[f] = p}

Imports(t, files) == {Home[link[2][1]] : link \in UNION {t[f].uses : f \in files}}

\* What a test binary links besides its own package.
Dependencies(t, p) ==
    LET direct == Imports(t, {f \in Files : Home[f] = p})
    IN Closure(Packages, direct, [q \in Packages |-> Imports(t, Production(q))]) \ {p}

\* The production files in which a block was executed.
CoveredFiles(t, target) == {f \in Files \ Tests : <<f, "code">> \in Reach(t, target)}

Nothing == [x \in {} |-> Absent]

Idle == [at |-> "idle", copy |-> Nothing, broad |-> FALSE, changed |-> {},
         targets |-> {}, selected |-> {}]

Unseen == [files |-> Nothing, executed |-> {}]

\* What a run sees of a target.
Seen(t, target) ==
    [files |-> [f \in ReachedFiles(t, target) |-> t[f]], executed |-> CoveredFiles(t, target)]

None == [known |-> {}, targets |-> Nothing]

ImpactTypeOK ==
    /\ IsTree(tree) /\ IsTree(base) /\ DOMAIN ran = Tests
    /\ run.at \in {"idle", "copied", "selected"}
    /\ run.changed \subseteq Files /\ run.targets \subseteq Tests /\ run.selected \subseteq run.targets
    /\ graph.known \subseteq Files /\ DOMAIN graph.targets \subseteq Tests
    /\ edits \in 0..MaxEdits

ImpactInit ==
    /\ \E there \in SUBSET Files, links \in SUBSET Links :
           tree = [f \in Files |->
                       IF f \notin there THEN Absent
                       ELSE [edit |-> 0, there |-> TRUE, uses |-> {link \in links : link[1][1] = f}]]
    /\ Builds(tree)
    /\ base = tree
    /\ graph = None
    /\ ran = [t \in Tests |-> Unseen]
    /\ run = Idle
    /\ edits = 0

------------------------------------------------------------------------------
Edit(f, content) ==
    /\ edits < MaxEdits
    /\ edits' = edits + 1
    /\ content # tree[f]
    /\ tree' = [tree EXCEPT ![f] = content]
    /\ UNCHANGED <<base, graph, ran, run>>

\* A file is taken back to what the commit has, whoever has measured it since.
Revert(f) ==
    /\ tree[f] # base[f]
    /\ tree' = [tree EXCEPT ![f] = base[f]]
    /\ UNCHANGED <<base, graph, ran, run, edits>>

\* A file is committed, whether a run has passed with it or not.
Commit(f) ==
    /\ base[f] # tree[f]
    /\ base' = [base EXCEPT ![f] = tree[f]]
    /\ UNCHANGED <<tree, graph, ran, run, edits>>

Start ==
    /\ run.at = "idle"
    /\ run' = [Idle EXCEPT !.at = "copied", !.copy = tree]
    /\ UNCHANGED <<tree, base, graph, ran, edits>>

------------------------------------------------------------------------------
Changed == {f \in Files : tree[f] # base[f]}

ChangedTestPackages(changed) == {Home[f] : f \in changed \cap Tests \cap graph.known}

Affected(changed) ==
    {t \in DOMAIN graph.targets :
        \E f \in changed :
            \/ f \in Tests /\ Home[f] = Home[t]
            \/ Home[f] \in graph.targets[t].dependencies
            \/ f \in graph.targets[t].covered}

Depends(t, packages) == Home[t] \in packages \/ Dependencies(run.copy, Home[t]) \cap packages # {}

\* The targets are read from the repository.
Discovered == Present(tree) \cap Tests

Broaden == run' = [run EXCEPT !.at = "selected", !.broad = TRUE,
                       !.targets = Discovered, !.selected = Discovered]

\* The run is not for a change, the graph cannot be read, or git does not answer.
SelectAll == run.at = "copied" /\ Broaden /\ UNCHANGED <<tree, base, graph, ran, edits>>

SelectImpact ==
    /\ run.at = "copied" /\ graph # None
    /\ LET packages == ChangedTestPackages(Changed)
       IN IF Changed \subseteq graph.known
          THEN run' = [run EXCEPT !.at = "selected", !.changed = Changed, !.targets = Discovered,
                           !.selected = {t \in Discovered : t \in Affected(Changed) \/ Depends(t, packages)}]
          ELSE Broaden
    /\ UNCHANGED <<tree, base, graph, ran, edits>>

BuildGraph ==
    [t \in run.selected |-> [dependencies |-> Dependencies(run.copy, Home[t]),
                             covered |-> CoveredFiles(run.copy, t)]]

\* A slip: a narrow run leaves the graph as it was.
MergeNothing(built) == IF run.broad THEN built ELSE graph.targets

MergeGraph(built) ==
    IF run.broad THEN built
    ELSE [t \in run.selected \cup DOMAIN graph.targets |->
              IF t \in run.selected THEN built[t] ELSE graph.targets[t]]

\* The baseline passes; the files are those of the repository by now.
SaveGraph ==
    /\ run.at = "selected" /\ (run.broad \/ run.changed # {})
    /\ Builds(run.copy)
    /\ graph' = [known |-> Present(tree), targets |-> MergeGraph(BuildGraph)]
    /\ ran' = [t \in Tests |-> IF t \in run.selected THEN Seen(run.copy, t)
                             ELSE IF run.broad THEN Unseen ELSE ran[t]]
    /\ run' = Idle
    /\ UNCHANGED <<tree, base, edits>>

\* The run fails, dies or has nothing to do.
Leave == run.at # "idle" /\ run' = Idle /\ UNCHANGED <<tree, base, graph, ran, edits>>

ImpactNext ==
    \/ \E f \in Files : \E content \in Contents(f, edits + 1) : Edit(f, content)
    \/ \E f \in Files : Revert(f) \/ Commit(f)
    \/ Start
    \/ SelectAll
    \/ SelectImpact
    \/ SaveGraph
    \/ Leave

ImpactSpec == ImpactInit /\ [][ImpactNext]_impactVars

------------------------------------------------------------------------------
Narrow == run.at = "selected" /\ ~run.broad

LeftOut == run.targets \ run.selected

\* What the target reached when its entry was written is still there, but for what git
\* says is changed.  It is not after a commit or a revert that no run has passed since,
\* or an edit between the copy and the question to git.
Current(t) ==
    LET files == ran[t].files
    IN t \in DOMAIN files /\ \A f \in DOMAIN files \ run.changed : run.copy[f] = files[f]

\* A changed file of the target's own package of which it ran nothing then, but used a
\* constant or a type: no entry of the graph leads to it.
UsedUnrun(t) ==
    \E f \in run.changed \cap DOMAIN ran[t].files :
        Home[f] = Home[t] /\ f \notin Tests \cup ran[t].executed

(***************************************************************************)
(* A target that verify --changed leaves out would see what it saw when     *)
(* its entry was written, and nothing that changed since the base, although *)
(* other runs have replaced the rest of the graph since, each for another   *)
(* content (selectImpact, mergeGraph).                                      *)
(* Excepted is a target whose entry is stale and one with a changed         *)
(* declaration of its own package.                                          *)
(***************************************************************************)
LeftOutIsUntouched ==
    Narrow =>
        \A t \in LeftOut : Current(t) /\ ~UsedUnrun(t) =>
            \A f \in ReachedFiles(run.copy, t) :
                f \notin run.changed /\ f \in DOMAIN ran[t].files /\ run.copy[f] = ran[t].files[f]

\* The packages that a changed test file puts under mutation as a whole.
WholePackages == {Home[f] : f \in run.changed \cap Tests}

\* A slip: a changed production file puts its package under mutation, too.
ScopeByPackage ==
    {f \in Present(run.copy) \ Tests : \E g \in run.changed : Home[f] = Home[g]}

MutationScope ==
    {f \in Present(run.copy) \ Tests : f \in run.changed \/ Home[f] \in WholePackages}

(***************************************************************************)
(* Whatever file a narrow run mutates, every target that reaches it is      *)
(* selected, however stale the graph, unless the file is itself changed and *)
(* the target is one that LeftOutIsUntouched excepts: no other mutant       *)
(* survives because its tests were left out (mutationScope, selectImpact,   *)
(* dependsOnChanged).                                                       *)
(***************************************************************************)
MutantsMeetTheirTargets ==
    Narrow =>
        \A t \in LeftOut : \A f \in MutationScope \cap ReachedFiles(run.copy, t) :
            /\ Home[f] \notin WholePackages
            /\ ~Current(t) \/ UsedUnrun(t)

===============================================================================
