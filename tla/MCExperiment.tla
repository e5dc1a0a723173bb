---------------------------- MODULE MCExperiment ----------------------------
EXTENDS Experiment
=============================================================================
