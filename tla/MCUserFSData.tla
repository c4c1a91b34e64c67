----------------------------- MODULE MCUserFSData -----------------------------
EXTENDS UserFSDataProperties, TLC
Interchangeable == Permutations(Fds) \cup Permutations(Bytes)
=============================================================================
