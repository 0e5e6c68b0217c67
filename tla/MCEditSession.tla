---------------------------- MODULE MCEditSession ----------------------------
(* A small instance of EditSession for TLC: comments, which are staged,    *)
(* renames, which are committed at once, and items, which the Session      *)
(* takes first.                                                            *)
EXTENDS EditSession

MCTable == {"annotations", "renames", "items"}
MCRank == [t \in Table |-> CASE t = "annotations" -> 1 [] t = "renames" -> 2 [] OTHER -> 3]
MCRows == [Key -> Value]
MCCommand == [table : Table, key : Key, before : Value, after : Value]
=============================================================================
