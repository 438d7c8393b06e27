--------------------------- MODULE MCImpactSelection ---------------------------
(***************************************************************************)
(* ImpactSelection for model checking: package P has a production file with *)
(* code and a constant, either of which its test may use, and another that  *)
(* nothing uses; package Q has a file of declarations, which the code in P  *)
(* may use, and a test that uses none of them.                              *)
(***************************************************************************)
EXTENDS ImpactSelection

CONSTANTS P, Q, p1, p2, pt, q, qt

TheHome == [f \in Files |-> IF f \in {q, qt} THEN Q ELSE P]

TheParts == {<<p1, "code">>, <<p1, "decl">>, <<p2, "code">>, <<pt, "code">>,
             <<q, "decl">>, <<qt, "code">>}

TheLinks == {<<<<pt, "code">>, <<p1, "code">>>>, <<<<pt, "code">>, <<p1, "decl">>>>,
             <<<<p1, "code">>, <<q, "decl">>>>}

\* All files are there to begin with.
MCInit == ImpactInit /\ Present(tree) = Files

MCSpec == MCInit /\ [][ImpactNext]_impactVars

===============================================================================
