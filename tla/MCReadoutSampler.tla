-------------------------- MODULE MCReadoutSampler --------------------------
(* The events of a front end for TLC: lengths of their bodies. *)
EXTENDS ReadoutSampler

MCSettings == <<1, 2, 3>>
MCBodies == {<<1, 2, 1>>, <<0, 3>>}
=============================================================================
