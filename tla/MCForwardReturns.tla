-------------------------- MODULE MCForwardReturns --------------------------
(* Small instances of ForwardReturns for TLC.                              *)
EXTENDS ForwardReturns

CONSTANTS w1, w2

MCWorkers    == {w1, w2}
MCOneSignal  == {1}
MCTwoSignals == {1, 2}

MCDateOfOne  == [s \in {1} |-> 1]
MCDatesOfTwo == [s \in {1, 2} |-> s]

MCOneHorizon    == [w \in MCWorkers |-> <<1>>]
MCOtherHorizons == [w \in MCWorkers |-> IF w = w1 THEN <<1, 2>> ELSE <<2, 1>>]
=============================================================================
