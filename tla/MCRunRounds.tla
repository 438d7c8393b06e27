------------------------------ MODULE MCRunRounds ------------------------------
(* Small instances of the rounds of a run. *)
EXTENDS RunRounds, TLC

\* Processes do the same, and a safety property does not tell them apart.
Symmetry == Permutations(Processes)

\* Every two findings that differ, in either order: the repository may be edited to
\* the other content before anything else happens. Two contents of the same finding are
\* told apart by no verdict.
MCInit ==
    /\ Init
    /\ <<truth[1], truth[2]>> \in {<<"sound", "broken">>, <<"sound", "failing">>, <<"sound", "gap">>,
                                    <<"broken", "failing">>, <<"broken", "gap">>, <<"failing", "gap">>}

MCSafety == MCInit /\ [][Next]_vars

\* For the liveness run: contents that only repairs change. Whether a run ends does not
\* depend on who edits, since every phase may fail.
MCNext == Next /\ ~Edit

MCLiveness ==
    /\ MCInit /\ [][MCNext]_vars
    /\ \A p \in Processes : WF_vars(Work(p)) /\ WF_vars(Prepare(p))

================================================================================
