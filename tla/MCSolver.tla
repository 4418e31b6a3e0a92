------------------------------ MODULE MCSolver ------------------------------
\* Solver for TLC, with numbers a 32-bit integer holds at every stage.
EXTENDS Solver

\* A failed read, the two ends of the scale and two values inside.
AdcRaws == {-1, 0, 1000, 2048, 4095}

\* A timeout, three duties, and a pulse longer than its period.
PwmCaptures == {[period |-> p[1], pulse |-> p[2]] :
                  p \in {<<0, 0>>, <<1000, 250>>, <<1000, 999>>, <<1000, 1400>>}}

\* Another motor whose time constants, 250 and 200 ms, exceed the step.
TamePlants == {[R |-> 200, L |-> 50, J |-> 2, K |-> 2, b |-> 10]}

\* The parameters motorsim_tests.robot sets.
TestPlant == [R |-> 20000, L |-> 500, J |-> 5, K |-> 1000, b |-> 3]
TestPlants == {TestPlant}

\* 250 mV: with this plant the second stage is near the limit of 32 bits.
LowRaws == {310}
=============================================================================
