------------------------------ MODULE Trigger ------------------------------
(***************************************************************************)
(* The trigger of the logic filter (LogicFilter/Trigger.cxx): every hit of *)
(* an entered channel marks a window of the time region with the bit of    *)
(* its signal, and the times at which the expression becomes true are the  *)
(* trigger times.                                                          *)
(*                                                                         *)
(* A word of a message is a record with its type, "TDC" for a hit, its     *)
(* channel and its time in units of 4 ns.  A segment is the data of one    *)
(* front end for one heartbeat: [fem, type, words].                        *)
(***************************************************************************)
EXTENDS LogiCalc, SequencesExt

CONSTANTS
    fTimeRegionSize,    \* SetTimeRegion: 128 K
    WordSize,           \* 2^32, what a uint32_t counts to
    fMarkLen,           \* --trigger-width
    Signals             \* --trigger-signals: sequence of [fem, ch, delay]

ASSUME TriggerAssumption ==
    /\ fTimeRegionSize \in Nat \ {0} /\ fMarkLen \in Nat
    /\ WordSize \in Nat /\ WordSize > 2 * (fTimeRegionSize + fMarkLen)
    /\ Len(Signals) \in 1 .. fNsigMax       \* the assert of Entry
    /\ DOMAIN Signals = 1 .. Len(Signals)
    /\ \A n \in DOMAIN Signals : Signals[n].delay \in Int

Times == 0 .. fTimeRegionSize - 1

\* The front ends whose words Mark can unpack.
MarkedTypes == {"TDC64H", "TDC64L", "TDC64H_V3", "TDC64L_V3"}

\* Entry: the n-th signal has bit n - 1.
Entries == {[fem   |-> Signals[n].fem,   ch  |-> Signals[n].ch,
             delay |-> Signals[n].delay, bit |-> n - 1] : n \in DOMAIN Signals}

\* The times a hit marks.  A hit too near to the end is dropped; so is one that
\* its delay moved before the start, being a large number by then.
Window(hit) ==
    IF hit < fTimeRegionSize - fMarkLen \div 2
      THEN {(hit + k) % WordSize : k \in -(fMarkLen \div 2) .. fMarkLen \div 2} \cap Times
      ELSE {}

\* The bits that Mark, for one segment, sets at time t.
Mark(seg, t) ==
    {e.bit : e \in {m \in Entries :
        /\ m.fem = seg.fem /\ seg.type \in MarkedTypes
        /\ \E w \in Range(seg.words) :
                /\ w.type = "TDC" /\ w.ch = m.ch
                /\ t \in Window((w.time + m.delay) % WordSize)}}

\* Mutant: the marks of the heartbeat before are still there.
MarkAllNotCleaned(region, segments) ==
    [t \in Times |-> region[t] \cup UNION {Mark(seg, t) : seg \in segments}]

\* The first part of Exec: CleanUpTimeRegion, and Mark for every segment.
MarkAll(region, segments) ==
    [t \in Times |-> UNION {Mark(seg, t) : seg \in segments}]

\* Scan, the second part: the times, from 1, at which the expression becomes true.
Scan(map, region) ==
    LET fHits[t \in 0 .. fTimeRegionSize - 1] ==
            IF t = 0 THEN <<>>
            ELSE IF ~LookUp(map, region[t - 1]) /\ LookUp(map, region[t])
                   THEN Append(fHits[t - 1], t)
                   ELSE fHits[t - 1]
    IN  fHits[fTimeRegionSize - 1]
=============================================================================
