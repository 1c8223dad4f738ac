-------------------------- MODULE MCHulStrTdcChain --------------------------
(* Front ends and what they send, for TLC: the same heartbeats and ends of   *)
(* spills, and data where each of them has some.                             *)
EXTENDS HulStrTdcChain

D == "Data"
H == "Heartbeat"
S == "SpillEnd"

MCDeadOutputs == {<<0, 0>>}

MCStreams == {
    [f \in Fems |-> IF f = 1 THEN <<D, H, S>> ELSE <<H, S>>],
    [f \in Fems |-> IF f = 1 THEN <<H, "ErrorRecovery">> ELSE <<H, D, H>>]}
=============================================================================
