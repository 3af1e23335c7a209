---------------------------- MODULE MCCheckQueue ----------------------------
EXTENDS CheckQueue
=============================================================================
