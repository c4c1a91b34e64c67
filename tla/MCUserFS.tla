------------------------------- MODULE MCUserFS -------------------------------
EXTENDS UserFSProperties
=============================================================================
