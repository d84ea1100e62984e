---------------------------- MODULE MCObservation ---------------------------
EXTENDS Observation
=============================================================================
