------------------------------- MODULE Totals -------------------------------
(***************************************************************************)
(* Sums over the rows of a table, or over the instants of a history.       *)
(***************************************************************************)
EXTENDS FiniteSetsExt

\* The sum of f[x] for the x in S.
Total(f, S) == MapThenSumSet(LAMBDA x : f[x], S)

=============================================================================
