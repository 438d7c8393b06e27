---------------------------- MODULE MCMutationPhase ----------------------------
(* A bounded instance of MutationPhase: the groups of one mutant are any, those  *)
(* of another are at most one, which is enough for them to share a control,      *)
(* wait for it and disagree about a group.                                       *)
EXTENDS MutationPhase, FiniteSets

MCInit == Init /\ \E m \in Mutants : Cardinality(plan[m]) <= 1

MCSpec == MCInit /\ [][Next]_vars /\ Fairness
=============================================================================
