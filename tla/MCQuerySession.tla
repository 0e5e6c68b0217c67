--------------------------- MODULE MCQuerySession ---------------------------
(* Instances of QuerySession for TLC.                                      *)
EXTENDS QuerySession, TLC

Read == [kind |-> "read", op |-> "functions", cached |-> TRUE, exact |-> 0, visible |-> FALSE,
         bytes |-> 1, layout |-> 0]
Command(op) == [Read EXCEPT !.kind = "command", !.op = op, !.cached = FALSE]
Graph(layout) == [Read EXCEPT !.kind = "graph", !.op = "cfg", !.cached = FALSE, !.visible = TRUE,
                              !.layout = layout]

\* Reads that share and cache, commands that leave the revision alone, and opens.
Reads == {Read, [Read EXCEPT !.visible = TRUE], Command("save"), Command("open")}
\* A graph from its start, the later pages of layout 1, and an edit of revision 1.
Graphs == {Graph(0), [Graph(1) EXCEPT !.bytes = 2], [Command("edit") EXCEPT !.exact = 1]}
\* Analysis that is discovered twice.
Living == {Graph(0), Command("section")}
\* Work of one process that another may answer.
Openings == {Graph(0), Command("open")}
=============================================================================
