--------------------------- MODULE HulStrTdcChain ---------------------------
(***************************************************************************)
(* The chain of elph2018: samplers, sub time frame builders and time frame *)
(* builders, over several runs.  A stop reaches each device at a time of   *)
(* its own; the next run begins when all have stopped, with or without a   *)
(* reset of the tasks.                                                     *)
(***************************************************************************)
EXTENDS HulStrTdcTFBuilder

CONSTANTS
    MaxRuns,      \* bound: runs; the last one is not stopped
    OutOfStep     \* bound: whether runs that begin out of step are followed

DelimiterHeads == {"Heartbeat", "ErrorRecovery", "SpillEnd"}

\* So many of the first n words of a front end are delimiters.
Ordinal(heads, n) == Cardinality({i \in 1 .. n : heads[i] \in DelimiterHeads})

\* All front ends see the same spills: if the n-th delimiter of one is the end of
\* a spill, so is the n-th of each.
SameSpills(heads) ==
    \A f, g \in Fems : \A i \in DOMAIN heads[f], j \in DOMAIN heads[g] :
        /\ {heads[f][i], heads[g][j]} \subseteq DelimiterHeads
        /\ Ordinal(heads[f], i) = Ordinal(heads[g], j)
        /\ heads[f][i] = "SpillEnd"
        => heads[g][j] = "SpillEnd"

ASSUME ChainAssumption ==
    /\ MaxRuns \in Nat /\ OutOfStep \in BOOLEAN
    /\ \A heads \in Streams : SameSpills(heads)

VARIABLES
    run,
    stopRequested,
    ready,      \* the devices that have left their run
    inStep      \* how the run began: "fresh" after a reset with nothing in the
                \* channels, "same" when all builders count alike, or "no"

chainVars == <<run, stopRequested, ready, inStep>>
vars == <<samplerVars, stfVars, tfVars, chainVars>>

Sampler(f) == <<"sampler", f>>
STFBuilder(f) == <<"stf", f>>
TFBuilder(d) == <<"tf", d>>
Devices == {Sampler(f) : f \in Fems} \cup {STFBuilder(f) : f \in Fems}
               \cup {TFBuilder(d) : d \in Destinations}

Init ==
    /\ SamplerInit
    /\ STFBuilderInit
    /\ TFBuilderInit
    /\ run = 1
    /\ stopRequested = FALSE
    /\ ready = {}
    /\ inStep = "fresh"

Leave(device) ==
    /\ stopRequested
    /\ device \notin ready
    /\ ready' = ready \cup {device}
    /\ UNCHANGED <<run, stopRequested, inStep>>

SamplerStep(f) ==
    /\ Sampler(f) \notin ready
    /\ \/ CycleFull(f)
       \/ CycleTimeout(f)
       \/ CycleClosed(f)
       \/ CycleBroken(f)
    /\ UNCHANGED <<stfVars, tfVars, chainVars>>

SamplerStop(f) ==
    /\ Leave(Sampler(f))
    /\ MayStop(f)
    /\ UNCHANGED <<samplerVars, stfVars, tfVars>>

STFStep(f) ==
    /\ STFBuilder(f) \notin ready
    /\ \/ HandleData(f) /\ UNCHANGED <<stream, taken, socket, faults, lost>>
       \/ stopRequested /\ DqmInterrupted(f) /\ UNCHANGED samplerVars
       \/ OutputSent(f) /\ UNCHANGED samplerVars
    /\ UNCHANGED <<tfVars, chainVars>>

MonitorStep(f) ==
    /\ STFBuilder(f) \notin ready
    /\ DqmSent(f)
    /\ UNCHANGED <<samplerVars, tfVars, chainVars>>

STFStop(f) ==
    /\ Leave(STFBuilder(f))
    /\ MayStopSTF(f)
    /\ PostRunSTF(f)
    /\ UNCHANGED <<samplerVars, tfVars>>

TFStep(d) ==
    /\ TFBuilder(d) \notin ready
    /\ \/ \E f \in Fems : ReceiveSTF(d, f)
       \/ ReceiveNoSTF(d)
       \/ \E id \in sweep[d] :
            SweepComplete(d, id) \/ SweepExpire(d, id) \/ SweepKeep(d, id)
       \/ CopySent(d)
       \/ stopRequested /\ CopyInterrupted(d)
       \/ FrameSent(d)
    /\ UNCHANGED <<samplerVars, fSplitMethod, built, handling, chainVars>>

TFStop(d) ==
    /\ Leave(TFBuilder(d))
    /\ MayStopTF(d)
    /\ PostRunTF(d)
    /\ UNCHANGED <<samplerVars, fSplitMethod, built, handling>>

StopRequest ==
    /\ ~stopRequested
    /\ run < MaxRuns
    /\ stopRequested' = TRUE
    /\ UNCHANGED <<samplerVars, stfVars, tfVars, run, ready, inStep>>

Alike(counts) == \A f, g \in Fems : counts[f].fSTFId = counts[g].fSTFId
                                    /\ counts[f].fHBFCounter = counts[g].fHBFCounter

NothingOnTheWay == \A f \in Fems, d \in Destinations : link[f][d] = << >>

StartRun(reset) ==
    /\ run < MaxRuns
    /\ ready = Devices
    /\ run' = run + 1
    /\ ready' = {}
    /\ stopRequested' = FALSE
    /\ SamplerPreRun
    /\ IF reset THEN InitTaskSTF ELSE UNCHANGED stfVars
    /\ inStep' = IF ~NothingOnTheWay \/ ~Alike(built') THEN "no"
                 ELSE IF reset THEN "fresh" ELSE "same"
    /\ inStep' # "no" \/ OutOfStep
    /\ UNCHANGED tfVars

Next ==
    \/ \E f \in Fems :
        SamplerStep(f) \/ SamplerStop(f) \/ STFStep(f) \/ STFStop(f) \/ MonitorStep(f)
    \/ \E d \in Destinations : TFStep(d) \/ TFStop(d)
    \/ StopRequest
    \/ \E reset \in BOOLEAN : StartRun(reset)

\* The threads of the devices go on, and a stop that was asked for gets there.
\* No monitor has to read.
Fairness ==
    /\ \A f \in Fems : WF_vars(STFStep(f)) /\ WF_vars(SamplerStop(f)) /\ WF_vars(STFStop(f))
    /\ \A d \in Destinations : WF_vars(TFStep(d)) /\ SF_vars(TFStop(d))

Spec == Init /\ [][Next]_vars /\ Fairness

-----------------------------------------------------------------------------
FrameWords(frame) == FlattenSeq(frame.payloads)

\* The words a builder holds, in the order in which it will send them.
WordsOf(b) ==
    FlattenSeq([i \in DOMAIN b.fOutputPayloads |-> FrameWords(b.fOutputPayloads[i])])
        \o FlattenSeq(b.fWorkingPayloads) \o b.fInputPayloads

\* Those of a message with a head that it knows.
KnownWord(w) == IF w.head = "Other" THEN << >> ELSE <<w>>
Known(words) == FlattenSeq([i \in DOMAIN words |-> KnownWord(words[i])])

\* A sub time frame builder puts every word with a known head into its frames,
\* once and in the order of the message, however the sampler cut the stream into
\* messages and whatever was left over from the one before.
WordsKept ==
    [][\A f \in Fems : raw[f] # << >> /\ raw'[f] = << >> =>
          WordsOf(built'[f]) = WordsOf(built[f]) \o Known(Head(raw[f]))]_vars

HeartbeatsIn(words) ==
    {i \in DOMAIN words : words[i].head \in {"Heartbeat", "ErrorRecovery"}}

\* A sub time frame has at most fMaxHBF heartbeats, and the end of a spill ends
\* it.  In a run that began with a reset it has exactly fMaxHBF of them, unless
\* the spill ended, and is never empty; without a reset the counter of heartbeats
\* of the last run is used on.
FramesAreCut ==
    \A f \in Fems : \A i \in DOMAIN built[f].fOutputPayloads :
        LET words == FrameWords(built[f].fOutputPayloads[i])
            beats == Cardinality(HeartbeatsIn(words))
            ends == {j \in DOMAIN words : words[j].head = "SpillEnd"}
        IN  /\ beats <= fMaxHBF
            /\ ends \subseteq {Len(words)}
            /\ inStep = "fresh" => words # << >> /\ (ends = {} => beats = fMaxHBF)

\* What ConditionalRun of the time frame builder asserts of a message: that it
\* has a header and at least one payload.
HasPayload ==
    \A f \in Fems, d \in Destinations :
        \A frame \in Range(link[f][d]) : frame.payloads # << >>

\* The heartbeats of a part, by their place among those of the front end.
Ordinals(part) ==
    LET heads == stream[part[1]]
    IN  {Ordinal(heads, w.n) :
            w \in {v \in Range(FrameWords(part[2])) : v.head \in DelimiterHeads}}

\* A time frame has one part of every front end, and all of them are of the same
\* heartbeats, as long as the builders began to count together and no sampler
\* has lost words: the number of a frame is all that the parts are matched by.
SameHeartbeats ==
    inStep # "no" /\ lost = {} =>
        \A d \in Destinations :
            LET parts == sending[d].parts
            IN  sending[d] # NoFrame =>
                /\ {p[1] : p \in Range(parts)} = Fems
                /\ \A p, q \in Range(parts) : Ordinals(p) = Ordinals(q)

\* The loop over an output 0 that nobody reads.
SendsForEver(d) ==
    /\ sending[d] # NoFrame
    /\ sending[d].isock = 0
    /\ <<d, 0>> \in DeadOutputs

\* The loops that a stop does not end: the sampler's over a socket that gives
\* errors, and those of the builders over an output that takes nothing, because
\* its receiver has stopped before or is in such a loop itself.
Stuck(device) ==
    \/ \E f \in Fems : device = Sampler(f) /\ socket[f] = "bad"
    \/ \E f \in Fems :
        /\ device = STFBuilder(f)
        /\ handling[f] = "out"
        /\ LET d == Destination(Head(built[f].fOutputPayloads))
           IN  link[f][d] # << >> /\ (TFBuilder(d) \in ready \/ SendsForEver(d))
    \/ \E d \in Destinations : device = TFBuilder(d) /\ SendsForEver(d)

\* A stop ends the run of every device that is not for ever in one of these
\* loops: not a dead monitor and not a copy that nobody reads can keep it.
StopEndsRun ==
    <>[]stopRequested => <>[](\A device \in Devices : device \in ready \/ Stuck(device))
=============================================================================
