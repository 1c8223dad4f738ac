--------------------------- MODULE FrameAssembly ---------------------------
(***************************************************************************)
(* What a frame builder promises: it takes at most one part of each source *)
(* for an id, delivers an id at most once in a run and only when it holds  *)
(* the parts of all the sources, and may drop what it holds at any time.   *)
(***************************************************************************)
CONSTANTS Sources, Ids

VARIABLES
    held,       \* id -> the sources whose part is held
    delivered   \* the ids delivered in this run

vars == <<held, delivered>>

Nothing == [id \in Ids |-> {}]

Init == held = Nothing /\ delivered = {}

Take(id, s) ==
    /\ id \notin delivered
    /\ s \notin held[id]
    /\ held' = [held EXCEPT ![id] = @ \union {s}]
    /\ UNCHANGED delivered

Deliver(id) ==
    /\ id \notin delivered
    /\ held[id] = Sources
    /\ held' = [held EXCEPT ![id] = {}]
    /\ delivered' = delivered \union {id}

Drop(id) ==
    /\ held' = [held EXCEPT ![id] = {}]
    /\ UNCHANGED delivered

\* The run ends, or a new one starts: nothing is carried over.
Abort  == held' = Nothing /\ UNCHANGED delivered
Restart == held = Nothing /\ UNCHANGED held /\ delivered' = {}

Next ==
    \/ \E id \in Ids, s \in Sources : Take(id, s)
    \/ \E id \in Ids : Deliver(id) \/ Drop(id)
    \/ Abort \/ Restart

Spec == Init /\ [][Next]_vars
=============================================================================
