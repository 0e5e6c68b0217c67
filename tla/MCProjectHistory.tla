-------------------------- MODULE MCProjectHistory --------------------------
(* Small instances of ProjectHistory for TLC.                              *)
EXTENDS ProjectHistory, TLC

MCTable == {"annotations", "renames"}
MCRank == [t \in MCTable |-> IF t = "annotations" THEN 1 ELSE 2]

\* Binaries, and the contents of a table, are only compared with each other, so
\* those at first can be any.
MCInit ==
    /\ Init
    /\ input = (CHOOSE i \in Input : TRUE)
    /\ tables = (CHOOSE s \in State : TRUE)
MCSpec == MCInit /\ [][Next]_vars
=============================================================================
