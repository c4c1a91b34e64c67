----------------------------- MODULE MCThreadPool -----------------------------
EXTENDS ThreadPoolProperties, TLC
CONSTANTS c1, c2, t1, t2, t3
OneOwner == [t \in Tasks |-> c1]
TwoOwners == [t \in Tasks |-> IF t = t1 THEN c1 ELSE c2]
=============================================================================
