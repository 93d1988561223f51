------------------------------- MODULE MCSfs -------------------------------
\* Small instances of Sfs for TLC.
EXTENDS Sfs

CONSTANTS t1, t2

\* Parts of two blocks after a hole; three whole blocks and one too many.
MCWrites == {<<3, 2>>, <<0, 7>>}

MCBounds == {<<4, 0>>, <<3, 1>>, <<2, 2>>}

\* Enough for the run that ends at a lost write.
MCFewCalls == {<<3, 1>>}

\* The threads make the same calls.
Symmetry == Permutations(Threads)
=============================================================================
