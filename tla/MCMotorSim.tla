----------------------------- MODULE MCMotorSim -----------------------------
EXTENDS MotorSim
=============================================================================
