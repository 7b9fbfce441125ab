------------------------ MODULE MCBufferCacheFat12 ------------------------
EXTENDS BufferCacheFat12, FiniteSets

\* Bounds of the run: at most one sector hit by an error and at most one that does
\* not hold zeroes.
FewFaults == Cardinality(suspect) <= 1
FewContents == Cardinality({q \in Unit \X Block : want[q[1]][q[2]] # 0}) <= 1
=============================================================================
