----------------------------- MODULE MCCycleGraph -----------------------------
EXTENDS CycleGraphSteps

MCNode == 1..4
MCThread == 1..3
MCNodeTid == <<1, 2, 3, 1>>
MCNodeSeq == <<1, 2, 3, 4>>
=============================================================================
