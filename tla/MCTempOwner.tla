----------------------------- MODULE MCTempOwner -----------------------------
(* A small instance of the temporary directories: a verification, a plan, the *)
(* shared build cache and a collection.                                      *)
EXTENDS TempOwner

CONSTANTS native, gc

\* The ledger names no shared directory to begin with: a collection, which alone reads
\* it, would only remove that directory as it does any other.
MCInit == Init /\ ledger[native] = None

MCSpec == MCInit /\ [][Next]_vars /\ Fairness

\* A behaviour has a shared directory or a collection: one that comes while runs share
\* the directory may take it.
Apart == native \in present => pc[gc] = "start" /\ gc \notin leased

==============================================================================
