--------------------------- MODULE MCEga128Paging ---------------------------
EXTENDS Ega128Paging, FiniteSets

\* Bound of the page-file runs: at most one page damaged by faults, and at
\* most one of the three pages ever written to the file.
FewestFaults == Cardinality(c.lost) <= 1 /\ Cardinality(c.backing_valid) <= 1
=============================================================================
