------------------------- MODULE MCSchedulerClient -------------------------
EXTENDS SchedulerClient
=============================================================================
