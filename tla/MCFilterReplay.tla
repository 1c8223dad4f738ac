--------------------------- MODULE MCFilterReplay ---------------------------
(* FilterReplay for TLC: two front ends, with up to MaxHeartbeats heartbeats. *)
EXTENDS FilterReplay
CONSTANT MaxHeartbeats

MCFems == <<"a", "b">>
Contents(n) == [1 .. n -> {"none", "hit", "trigger"}]
MCTimeFrames ==
    [contents : {c \in [{"a", "b"} -> UNION {Contents(n) : n \in 0 .. MaxHeartbeats}] :
                    Len(c["a"]) - Len(c["b"]) \in -1 .. 1},
     spill : BOOLEAN]
MCOptions ==
    {o \in [player : {"STFB", "TFB"}, split : 0 .. 2, removeHB : BOOLEAN, suppress : BOOLEAN] :
        /\ o.split = 2 => o.player = "TFB"
        /\ o.removeHB => o.suppress}
=============================================================================
