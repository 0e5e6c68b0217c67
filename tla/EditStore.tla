------------------------------ MODULE EditStore ------------------------------
(***************************************************************************)
(* What the edit history promises its client: the project holds one        *)
(* durable version of the user's work (the tables and the history that     *)
(* describes them), and a commit replaces it as a whole.  A commit that is *)
(* interrupted or reported as failed either happened completely or not at  *)
(* all, recovery changes nothing, and only a foreign edit made between two *)
(* calls changes the version without a commit.                             *)
(***************************************************************************)
CONSTANTS
    Version,    \* tables together with the history that describes them
    None        \* no commit requested

VARIABLES
    durable,    \* the version a reopened project shows
    pending     \* the version a running call is to commit, or None

vars == <<durable, pending>>

Init == durable \in Version /\ pending = None

Request == pending = None /\ pending' \in Version /\ UNCHANGED durable

Commit == pending # None /\ durable' = pending /\ UNCHANGED pending

\* The call returns, fails or dies, its commit done or not.
End == pending # None /\ durable' \in {durable, pending} /\ pending' = None

Foreign == pending = None /\ durable' \in Version /\ UNCHANGED pending

Next == Request \/ Commit \/ End \/ Foreign

Spec == Init /\ [][Next]_vars
=============================================================================
