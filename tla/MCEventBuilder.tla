--------------------------- MODULE MCEventBuilder ---------------------------
(* EventBuilder for TLC: two sources, and a third one that is too many. *)
EXTENDS EventBuilder, TLC
CONSTANTS s1, s2, x
MCResolution == [s \in Sources |-> 1]
MCTrgTyp == [t \in Tags |-> IF t = MaxTag THEN "Normal" ELSE "Monitor"]
MCQuota == [s \in Sources |-> IF s = x THEN 1 ELSE MaxTag]
MCQuotaFew == [s \in Sources |-> CASE s = s1 -> MaxTag [] s = s2 -> 1 [] s = x -> 0]
SourceSymmetry == Permutations({s1, s2})
=============================================================================
