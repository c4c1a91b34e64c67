-------------------------------- MODULE MCCoro --------------------------------
EXTENDS CoroProgram, CoroProperties
=============================================================================
