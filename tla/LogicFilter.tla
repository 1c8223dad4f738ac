---------------------------- MODULE LogicFilter ----------------------------
(***************************************************************************)
(* The logic filter (LogicFilter/LogicFilter.cxx): takes time frames,      *)
(* executes its triggers on every heartbeat of a frame, and sends the      *)
(* frame on with the trigger times put after its header, first to the dqm  *)
(* channel and then to the next output that has room.                      *)
(*                                                                         *)
(* A time frame is [id, stfs], an STF [fem, type, msgs, hbfs] where msgs   *)
(* are its messages, sequences of words, and hbfs, for the properties, the *)
(* words each heartbeat really had.  An expression is its type, its formula *)
(* as words, and, for the properties, holds, what is meant by it: the sets *)
(* of signals for which it is true.                                        *)
(***************************************************************************)
EXTENDS Trigger

CONSTANTS
    Expressions,        \* values of --trigger-expression: sequences of expressions
    SplitMethods,       \* values of --split: 0 words, 1 words and heartbeats apart, 2 HBF
    fNumDestination,    \* sub-channels of the output
    LiveOutputs,        \* those whose receiver goes on taking frames
    DirectionSize,      \* 2^32, what fDirection counts to
    FramesOf,           \* number of a message -> the STFs it may hold
    MaxFrames,          \* bound: time frames that arrive
    MaxRuns             \* bound: runs

ASSUME FilterAssumption ==
    /\ SplitMethods \subseteq 0 .. 2
    /\ fNumDestination \in Nat \ {0}
    /\ LiveOutputs \subseteq 0 .. fNumDestination - 1 /\ LiveOutputs # {}
    /\ DirectionSize \in Nat /\ DirectionSize >= fNumDestination
    /\ {MaxFrames, MaxRuns} \subseteq Nat
    /\ \A es \in Expressions :
        /\ es \in Seq([type : Nat, formula : Seq(STRING),
                       holds : SUBSET SUBSET (0 .. Len(Signals) - 1)])
        /\ \A n \in DOMAIN es : ~FormulaThrows(es[n].formula) =>
                /\ Commands(es[n].formula) \in Seq(STRING)
                /\ Calculable(Commands(es[n].formula))

\* The words of a heartbeat: hits, and others that no trigger looks at.
Words == [type : {"TDC", "other"}, ch : Nat, time : Nat]

\* A frame has a front end at least, and a time and a delay add up to an int of
\* 32 bits.
ASSUME FrameAssumption ==
    \A n \in 1 .. MaxFrames : \A stfs \in FramesOf[n] :
        /\ Len(stfs) \in Nat \ {0} /\ DOMAIN stfs = 1 .. Len(stfs)
        /\ \A k \in DOMAIN stfs :
            /\ stfs[k].hbfs \in Seq(Seq(Words))
            /\ \A m \in DOMAIN stfs[k].hbfs, s \in DOMAIN Signals :
                \A w \in Range(stfs[k].hbfs[m]) :
                    w.time + Signals[s].delay \in -(WordSize \div 2) .. WordSize \div 2 - 1

Outputs == 0 .. fNumDestination - 1

VARIABLES
    state,          \* "Device", "Ready", "Running", "Error": where the device is
    statePending,   \* NewStatePending()
    runs,           \* runs started
    pc,             \* the place in ConditionalRun: "Receive", "Mark", "Scan", "Dqm", "Output"
    fSplitMethod,   \* the option --split, one for a configuration
    expressions,    \* the option --trigger-expression, as InitTask found it
    fTrig,          \* the triggers: [type, map]
    arrived,        \* time frames that came so far
    inQueue,        \* the input channel
    inParts,        \* <<the frame in hand>>
    block_map,      \* its blocks: a row for each STF
    fTimeRegion,    \* the time region of the trigger that worked last
    trg_tdc,        \* the trigger times of the trigger at work, for each block index
    trgdata,        \* what the triggers before it found
    dqm,            \* the dqm channel: ids of frames
    out,            \* output -> its sub-channel: ids of frames
    fDirection,
    dqmSent, sent,  \* ids of the frames sent, in their order
    lost            \* ids of the frames given up

options  == <<fSplitMethod, expressions>>
control  == <<state, statePending, runs, options>>
channels == <<inQueue, dqm, out>>
work     == <<inParts, block_map, fTimeRegion, trg_tdc, trgdata>>
history  == <<dqmSent, sent, lost>>
vars == <<control, pc, fTrig, arrived, work, channels, fDirection, history>>

-----------------------------------------------------------------------------
(* The frame in hand, block by block. *)

\* IsHartBeat and the test for an HBF before it, on the first word.
IsHartBeat(msg) == msg[1].type = "HB"

Data(msg) == [is_HB |-> FALSE, msg |-> msg]
Beat(msg) == [is_HB |-> TRUE, msg |-> msg]
Dummy     == [is_HB |-> FALSE, msg |-> <<>>]    \* msg_index -2

\* Mutant: no dummy block stands for the data a heartbeat lacks.
AddBlockAsItComes(split, blocks, msg) ==
    Append(blocks, IF IsHartBeat(msg) THEN Beat(msg) ELSE Data(msg))

\* The block of a message.  With data and heartbeats apart, a heartbeat that
\* no data precedes gets a dummy block first.
AddBlock(split, blocks, msg) ==
    IF ~IsHartBeat(msg) THEN Append(blocks, Data(msg))
    ELSE IF split = 1 /\ (blocks = <<>> \/ Last(blocks).is_HB)
           THEN blocks \o <<Dummy, Beat(msg)>>
           ELSE Append(blocks, Beat(msg))

\* The blocks of an STF, message by message.
Blocks(split, msgs) ==
    LET blocks[n \in 0 .. Len(msgs)] ==
            IF n = 0 THEN <<>> ELSE AddBlock(split, blocks[n - 1], msgs[n])
    IN  blocks[Len(msgs)]

\* MakeBlockMap: the blocks of every STF.  One without blocks is left out, but
\* not the last one.  The order of the rows is of no consequence.
MakeBlockMap(split, frame) ==
    LET row(stf) == [fem |-> stf.fem, type |-> stf.type, blocks |-> Blocks(split, stf.msgs)]
    IN  {row(frame.stfs[n]) : n \in {m \in DOMAIN frame.stfs :
            m = Len(frame.stfs) \/ row(frame.stfs[m]).blocks # <<>>}}

BsizeMin(rows) == Min({Len(r.blocks) : r \in rows})

\* BuildHBF: the data of block index i, of every front end that has some.
BuildHBF(rows, i) ==
    {[fem |-> r.fem, type |-> r.type, words |-> r.blocks[i].msg] :
        r \in {q \in rows : ~q.blocks[i].is_HB /\ q.blocks[i].msg # <<>>}}

\* AddFilterMessage, for the trigger times of one trigger: a header with their
\* number, then a message for each block index.
FilterMessages(trig, times) ==
    [type |-> trig.type, numTrigs |-> Len(FlattenSeq(times)),
     times |-> times]
-----------------------------------------------------------------------------
Init ==
    /\ state = "Device" /\ statePending = FALSE /\ runs = 0
    /\ pc = "Receive"
    /\ fTrig = <<>> /\ expressions = <<>> /\ fSplitMethod \in SplitMethods
    /\ arrived = 0
    /\ inParts = <<>> /\ block_map = {} /\ trg_tdc = <<>> /\ trgdata = <<>>
    /\ fTimeRegion = [t \in Times |-> {}]
    /\ inQueue = <<>> /\ dqm = <<>> /\ out = [d \in Outputs |-> <<>>]
    /\ fDirection = 0
    /\ dqmSent = <<>> /\ sent = <<>> /\ lost = {}

\* A new trigger for every expression; the old ones are deleted.
NewTriggers(es) ==
    [n \in DOMAIN es |-> [type |-> es[n].type, map |-> MakeTable(es[n].formula)]]

\* InitTask: an infix expression that does not parse throws, and the device
\* goes to its error state.
InitTask ==
    /\ state = "Device" /\ runs < MaxRuns
    /\ \E es \in Expressions :
        /\ expressions' = es
        /\ IF \E n \in DOMAIN es : FormulaThrows(es[n].formula)
             THEN state' = "Error" /\ fTrig' = <<>>
             ELSE state' = "Ready" /\ fTrig' = NewTriggers(es)
    /\ UNCHANGED <<statePending, runs, fSplitMethod, pc, arrived, work, channels, fDirection, history>>

\* There is no PreRun: fDirection goes on from the last run.
Run ==
    /\ state = "Ready" /\ runs < MaxRuns
    /\ state' = "Running" /\ runs' = runs + 1 /\ pc' = "Receive"
    /\ UNCHANGED <<statePending, options, fTrig, arrived, work, channels, fDirection, history>>

ResetTask ==
    /\ state = "Ready"
    /\ state' = "Device"
    /\ UNCHANGED <<statePending, runs, options, pc, fTrig, arrived, work, channels, fDirection, history>>

StopRequest ==
    /\ state = "Running" /\ ~statePending
    /\ statePending' = TRUE
    /\ UNCHANGED <<state, runs, options, pc, fTrig, arrived, work, channels, fDirection, history>>

\* ConditionalRun is not called again once a stop is requested.  PostRun has
\* nothing to do.
EndRun ==
    /\ state = "Running" /\ statePending /\ pc = "Receive"
    /\ state' = "Ready" /\ statePending' = FALSE
    /\ UNCHANGED <<runs, options, pc, fTrig, arrived, work, channels, fDirection, history>>

Receive ==
    /\ state = "Running" /\ ~statePending /\ pc = "Receive" /\ inQueue # <<>>
    /\ inParts' = <<Head(inQueue)>> /\ inQueue' = Tail(inQueue)
    /\ block_map' = MakeBlockMap(fSplitMethod, Head(inQueue))
    /\ pc' = IF fTrig = <<>> THEN "Dqm" ELSE "Mark"
    /\ UNCHANGED <<control, fTrig, arrived, fTimeRegion, trg_tdc, trgdata, dqm, out, fDirection, history>>

\* The loop over the block indices: BuildHBF and the first part of Exec ...
ExecMark ==
    /\ state = "Running" /\ pc = "Mark"
    /\ Len(trgdata) < Len(fTrig) /\ Len(trg_tdc) < BsizeMin(block_map)
    /\ fTimeRegion' = MarkAll(fTimeRegion, BuildHBF(block_map, Len(trg_tdc) + 1))
    /\ pc' = "Scan"
    /\ UNCHANGED <<control, fTrig, arrived, inParts, block_map, trg_tdc, trgdata, channels, fDirection, history>>

\* ... and the second.
ExecScan ==
    /\ state = "Running" /\ pc = "Scan"
    /\ trg_tdc' = Append(trg_tdc, Scan(fTrig[Len(trgdata) + 1].map, fTimeRegion))
    /\ pc' = "Mark"
    /\ UNCHANGED <<control, fTrig, arrived, inParts, block_map, fTimeRegion, trgdata, channels, fDirection, history>>

\* The loop over the triggers.
NextTrigger ==
    /\ state = "Running" /\ pc = "Mark"
    /\ Len(trgdata) < Len(fTrig) /\ Len(trg_tdc) = BsizeMin(block_map)
    /\ trgdata' = Append(trgdata, FilterMessages(fTrig[Len(trgdata) + 1], trg_tdc))
    /\ trg_tdc' = <<>>
    /\ pc' = IF Len(trgdata) + 1 = Len(fTrig) THEN "Dqm" ELSE "Mark"
    /\ UNCHANGED <<control, fTrig, arrived, inParts, block_map, fTimeRegion, channels, fDirection, history>>

\* The frame with the filter messages after its header.
outParts == [id |-> inParts[1].id, filters |-> trgdata, stfs |-> inParts[1].stfs]

\* The copy for the dqm channel: the send waits until there is room ...
DqmSend ==
    /\ state = "Running" /\ pc = "Dqm" /\ dqm = <<>>
    /\ dqm' = <<outParts.id>> /\ dqmSent' = Append(dqmSent, outParts.id)
    /\ pc' = "Output"
    /\ UNCHANGED <<control, fTrig, arrived, work, inQueue, out, fDirection, sent, lost>>

\* Mutant: the send gives up also when no stop is pending.
DqmGivesUp ==
    /\ state = "Running" /\ pc = "Dqm" /\ dqm # <<>>
    /\ pc' = "Output"
    /\ UNCHANGED <<control, fTrig, arrived, work, channels, fDirection, history>>

\* Mutant: an interrupted send is tried again.
DqmRetries ==
    /\ state = "Running" /\ pc = "Dqm" /\ dqm # <<>> /\ statePending
    /\ UNCHANGED vars

\* ... or a stop interrupts it.
DqmInterrupted ==
    /\ state = "Running" /\ pc = "Dqm" /\ dqm # <<>> /\ statePending
    /\ pc' = "Output"
    /\ UNCHANGED <<control, fTrig, arrived, work, channels, fDirection, history>>

Done ==
    /\ inParts' = <<>> /\ block_map' = {} /\ trgdata' = <<>> /\ pc' = "Receive"
    /\ UNCHANGED <<fTimeRegion, trg_tdc>>

Direction == fDirection % fNumDestination

\* Mutant: the direction moves on only when a frame is sent.
NextDirectionStays == fDirection' = IF out[Direction] = <<>> THEN (fDirection + 1) % DirectionSize
                                                             ELSE fDirection

NextDirection == fDirection' = (fDirection + 1) % DirectionSize

\* One turn of the output loop that finds its output free ...
OutputSend ==
    /\ state = "Running" /\ pc = "Output" /\ ~statePending /\ out[Direction] = <<>>
    /\ NextDirection
    /\ out' = [out EXCEPT ![Direction] = <<outParts.id>>] /\ sent' = Append(sent, outParts.id)
    /\ Done
    /\ UNCHANGED <<control, fTrig, arrived, inQueue, dqm, dqmSent, lost>>

\* Mutant: a frame that finds its output busy is dropped.
OutputBusyDrops ==
    /\ state = "Running" /\ pc = "Output" /\ ~statePending /\ out[Direction] # <<>>
    /\ NextDirection
    /\ Done
    /\ UNCHANGED <<control, fTrig, arrived, channels, history>>

\* ... and one that does not.
OutputBusy ==
    /\ state = "Running" /\ pc = "Output" /\ ~statePending /\ out[Direction] # <<>>
    /\ NextDirection
    /\ UNCHANGED <<control, pc, fTrig, arrived, work, channels, history>>

\* A stop ends the loop: the frame is given up.
OutputAbandon ==
    /\ state = "Running" /\ pc = "Output" /\ statePending
    /\ lost' = lost \cup {outParts.id}
    /\ Done
    /\ UNCHANGED <<control, fTrig, arrived, channels, fDirection, dqmSent, sent>>
-----------------------------------------------------------------------------
(* The time frame builder before the filter and the receivers behind it. *)

Hb(n)  == [type |-> "HB", ch |-> 0, time |-> n]
Hbf(n) == [type |-> "HBF", ch |-> 0, time |-> n]

\* The messages of a heartbeat.
Beats(split, words, n) ==
    CASE split = 0 -> <<Append(words, Hb(n))>>
      [] split = 1 -> IF words = <<>> THEN <<<<Hb(n), Hb(n)>>>>
                                      ELSE <<words, <<Hb(n), Hb(n)>>>>
      [] split = 2 -> <<<<Hbf(n)>> \o words>>

\* The messages of an STF whose heartbeats have these words.
Messages(split, hbfs) ==
    LET msgs[n \in 0 .. Len(hbfs)] ==
            IF n = 0 THEN <<>> ELSE msgs[n - 1] \o Beats(split, hbfs[n], n)
    IN  msgs[Len(hbfs)]

Frame(split, id, stfs) ==
    [id |-> id,
     stfs |-> [n \in DOMAIN stfs |-> [fem  |-> stfs[n].fem, type |-> stfs[n].type,
                                      msgs |-> Messages(split, stfs[n].hbfs), hbfs |-> stfs[n].hbfs]]]

FrameArrives ==
    /\ arrived < MaxFrames /\ inQueue = <<>>
    /\ arrived' = arrived + 1
    /\ \E stfs \in FramesOf[arrived + 1] : inQueue' = <<Frame(fSplitMethod, arrived + 1, stfs)>>
    /\ UNCHANGED <<control, pc, fTrig, work, dqm, out, fDirection, history>>

DqmTake ==
    /\ dqm # <<>>
    /\ dqm' = <<>>
    /\ UNCHANGED <<control, pc, fTrig, arrived, work, inQueue, out, fDirection, history>>

OutputTake(d) ==
    /\ out[d] # <<>>
    /\ out' = [out EXCEPT ![d] = <<>>]
    /\ UNCHANGED <<control, pc, fTrig, arrived, work, inQueue, dqm, fDirection, history>>
-----------------------------------------------------------------------------
\* The device thread.
Device ==
    \/ Receive \/ ExecMark \/ ExecScan \/ NextTrigger \/ DqmSend \/ DqmInterrupted
    \/ OutputSend \/ OutputBusy \/ OutputAbandon \/ EndRun

Next ==
    \/ InitTask \/ Run \/ ResetTask \/ StopRequest
    \/ Device
    \/ FrameArrives \/ DqmTake \/ \E d \in Outputs : OutputTake(d)

Spec == Init /\ [][Next]_vars

\* The device thread runs.  Of the outputs only some are sure to be read, and
\* the dqm channel may never be.
FairSpec ==
    /\ Spec
    /\ WF_vars(Device)
    /\ \A d \in LiveOutputs : WF_vars(OutputTake(d))
-----------------------------------------------------------------------------
(* There is a trigger for every expression of the option, and its table is  *)
(* the truth table of the expression as it is written: the parser, the      *)
(* commands, the stack and the masks of infixtorpn, LogiCalc and TriggerMap *)
(* together, after any number of InitTasks.                                 *)
TableIsFormula ==
    state \in {"Ready", "Running"} =>
        /\ Len(fTrig) = Len(expressions)
        /\ \A n \in DOMAIN fTrig, on \in SUBSET (0 .. Len(Signals) - 1) :
                LookUp(fTrig[n].map, on) <=> on \in expressions[n].holds

\* What is meant by the expressions is what the calculator makes of the commands
\* of their formulas.
FormulasAreMeant ==
    \A es \in Expressions : \A n \in DOMAIN es :
        ~FormulaThrows(es[n].formula) =>
            \A on \in SUBSET (0 .. Len(Signals) - 1) :
                Calc(Commands(es[n].formula), on) <=> on \in es[n].holds

\* The signals at time t in heartbeat n of a frame.
On(frame, n, t) ==
    {s - 1 : s \in {k \in DOMAIN Signals : \E stf \in Range(frame.stfs) :
        /\ stf.fem = Signals[k].fem /\ n \in DOMAIN stf.hbfs /\ stf.type \in MarkedTypes
        /\ \E w \in Range(stf.hbfs[n]) :
            LET hit == w.time + Signals[k].delay
            IN  /\ w.type = "TDC" /\ w.ch = Signals[k].ch
                /\ hit >= 0 /\ hit + fMarkLen \div 2 < fTimeRegionSize
                /\ t \in hit - fMarkLen \div 2 .. hit + fMarkLen \div 2}}

\* The block index of heartbeat n.
BlockOf(n) == IF fSplitMethod = 1 THEN 2 * n - 1 ELSE n

TriggerTimes(frame, holds, n) ==
    {t \in Times \ {0} : On(frame, n, t - 1) \notin holds /\ On(frame, n, t) \in holds}

\* The block of index i, in a front end that has heartbeat n, is of that heartbeat.
HeartbeatsAt(frame, i) ==
    {n \in UNION {DOMAIN stf.hbfs : stf \in Range(frame.stfs)} : BlockOf(n) = i}

Increasing(s) == \A i, j \in DOMAIN s : i < j => s[i] < s[j]

(* The trigger times a frame goes out with are, heartbeat by heartbeat, the  *)
(* times at which the expression becomes true on the data all the front     *)
(* ends have for that heartbeat, each one once and in order, and nothing is *)
(* reported in between.  Nothing is left out that every front end has.      *)
HitsAreRisingEdges ==
    pc = "Dqm" =>
        \A k \in DOMAIN expressions :
            LET f == outParts.filters[k]
            IN  /\ f.type = expressions[k].type
                /\ \A n \in DOMAIN outParts.stfs[1].hbfs :
                        (\A stf \in Range(outParts.stfs) : n \in DOMAIN stf.hbfs)
                            => BlockOf(n) \in DOMAIN f.times
                /\ \A i \in DOMAIN f.times :
                        /\ Range(f.times[i]) = UNION {TriggerTimes(outParts, expressions[k].holds, n) :
                                                        n \in HeartbeatsAt(outParts, i)}
                        /\ Increasing(f.times[i])
                /\ f.numTrigs = Len(FlattenSeq(f.times))

(* Every frame taken is in hand, sent, or given up, one at most at each stop; *)
(* frames leave in the order in which they came, and the dqm channel has seen *)
(* every frame that goes to an output, before it, ahead by no more than the   *)
(* frames given up and the one in hand.                                       *)
OutputWasMonitored ==
    /\ Increasing(sent) /\ Increasing(dqmSent)
    /\ Range(sent) \subseteq Range(dqmSent)
    /\ Range(dqmSent) \ Range(sent) \subseteq lost \cup {f.id : f \in Range(inParts)}
    /\ 1 .. arrived = Range(sent) \cup lost \cup {f.id : f \in Range(inParts) \cup Range(inQueue)}
    /\ Range(sent) \cap lost = {}
    /\ Cardinality(lost) <= runs

(* A frame that waits for an output is sent, or given up at a stop, even if *)
(* the receiver of another output is dead.                                  *)
FrameLeaves == pc = "Output" ~> pc = "Receive"

(* A stop ends the run, whatever the filter waits for.                      *)
StopEndsRun == statePending ~> state = "Ready"

(* Neither a dead output nor a full dqm channel holds the filter for ever.  *)
FilterGoesOn == FrameLeaves /\ StopEndsRun
=============================================================================
