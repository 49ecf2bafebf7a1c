------------------------------ MODULE MCAddrMan ------------------------------
EXTENDS AddrMan
CONSTANTS p1, p2, p3, p4, s1, s2

\* Two new buckets, both reached by every address through the two sources; one
\* tried bucket.
MCAddress == {p1, p2, p3, p4}
MCSource == {s1, s2}
MCNewBucket == [x \in MCAddress \X MCSource |-> IF x[2] = s1 THEN 1 ELSE 2]
MCTriedBucket == [a \in MCAddress |-> 1]
Symmetry == Permutations(MCAddress)
=============================================================================
