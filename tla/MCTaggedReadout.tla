-------------------------- MODULE MCTaggedReadout --------------------------
(* TaggedReadout for TLC: sampler a has the long tag, sampler b the short one, *)
(* here with two events and two spills told apart.                            *)
EXTENDS TaggedReadout, TLC
CONSTANTS a, b
MCEventTags == (a :> 100) @@ (b :> 2)
MCSpillTags == (a :> 100) @@ (b :> 2)
MCOptions == {<<"event", TRUE>>, <<"spill", FALSE>>, <<"sequence", FALSE>>}
=============================================================================
