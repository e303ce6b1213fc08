------------------------ MODULE MCContentWorkflow ------------------------
(* Model checking of ContentWorkflow: the symmetric sets of the small instance, *)
(* and what tells states apart.                                                 *)
EXTENDS ContentWorkflow, TLC

Symmetry == Permutations(Transactions) \cup Permutations(Bodies)

\* No guard looks at a text, and no property at the texts of a generated content.
Text(b) == IF content.generated THEN NoBody ELSE b

\* Of the copy that it has read, an update uses status, version and text, a
\* deletion nothing, the others the status.
Used(c) ==
  LET row == call[c].row
  IN  CASE call[c].op = "update" -> <<row.status, row.version, Text(row.body)>>
        [] call[c].op \in {"idle", "delete"} -> << >>
        [] OTHER -> <<row.status>>

View ==
  <<[content EXCEPT !.body = Text(@)],
    [i \in DOMAIN history |-> <<history[i].version, Text(history[i].body)>>],
    {Text(b) : b \in shown}, approvals, posts,
    [c \in Transactions |-> <<call[c].op, call[c].slot, Used(c)>>]>>

=============================================================================
