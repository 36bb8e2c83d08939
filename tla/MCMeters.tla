------------------------------ MODULE MCMeters ------------------------------
EXTENDS Meters

MCMaxLevel == 2
MCHold == 2
=============================================================================
