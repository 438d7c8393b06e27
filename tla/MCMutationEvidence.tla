-------------------------- MODULE MCMutationEvidence --------------------------
(* Two targets, their suite and one mutant; a file they are built from and a   *)
(* file beside the package.  Each test is of one of a few kinds.                *)
EXTENDS MutationEvidence, TLC

CONSTANTS t1, t2, src, data

MCClosure == [t \in Targets \cup {Suite} |-> {src}]

Kinds == {"blind", "source", "peeks", "turns", "reader"}

\* blind notices nothing; source fails on mutants of one source; peeks opens the
\* other file when it runs a mutant; turns does so under one source only; reader
\* opens it in every run.
Reads(k, p, c) ==
    k = "reader" \/ (p # Original /\ (k = "peeks" \/ (k = "turns" /\ c[src] = 1)))

Fails(k, p, c) ==
    /\ p # Original
    /\ \/ k = "source" /\ c[src] = 1
       \/ k \in {"peeks", "reader"} /\ c[data] = 1
       \/ k = "turns" /\ c[src] = 1 /\ c[data] = 1

MCBehaviours ==
    {[reads |-> [t \in Tests |-> [p \in Programs |-> [c \in Content |-> Reads(kind[t], p, c)]]],
      fails |-> [t \in Tests |-> [p \in Programs |-> [c \in Content |-> Fails(kind[t], p, c)]]]]
        : kind \in {k \in [Tests -> Kinds] : k[t2] = "blind" /\ k[t1] # "blind" /\ k[Suite] = k[t1]}}

Symmetry == Permutations(Runs)

===============================================================================
