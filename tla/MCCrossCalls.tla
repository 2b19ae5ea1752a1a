---------------------------- MODULE MCCrossCalls ----------------------------
EXTENDS CrossCalls
============================================================================
