-------------------------- MODULE TimeFrameBuilder --------------------------
(***************************************************************************)
(* The time frame builder of exam6 (TimeFrameBuilder.cxx; the device of    *)
(* recbe is the same loop with statistics added).  Every front end sends   *)
(* one sub time frame (a "part") per trigger; the builder collects the     *)
(* parts of one timeFrameId, sends a frame to one of its outputs when      *)
(* fNumSource parts are there and drops what stays incomplete for longer   *)
(* than the buffer timeout.                                                *)
(*                                                                         *)
(* One ConditionalRun() is a Receive followed by a sweep over all buffers; *)
(* the sweep is split where another party can interleave: at each buffer   *)
(* visited and at each of the three Send loops (decimator, dqm, output).   *)
(***************************************************************************)
EXTENDS Integers, Sequences, FiniteSets

CONSTANTS
    Sources,            \* the connected peers of the input channel
    MaxId,              \* bound: timeFrameIds of one run are 0..MaxId
    MaxRuns,            \* bound: number of runs
    NumDestination,     \* sub-channels of the output channel
    NumDecimator,       \* connected sub-channels of the decimator channel
    DecimationFactor,   \* option decimation-factor
    DecimationOffset,   \* option decimation-offset, as given
    DqmExists,          \* is there a dqm channel?
    BufferTimeout,      \* option buffer-timeout, in ticks
    ChannelSize,        \* messages a sending queue holds before it is full
    MaxMiss             \* PostRun ends after this many empty Receives (10)

ASSUME SourcesAssumption == IsFiniteSet(Sources) /\ Sources # {}
ASSUME BoundsAssumption ==
    /\ MaxId \in Nat
    /\ MaxRuns \in Nat
    /\ NumDestination \in Nat \ {0}
    /\ NumDecimator \in Nat
    /\ DecimationFactor \in Nat
    /\ DecimationOffset \in Nat
    /\ DqmExists \in BOOLEAN
    /\ BufferTimeout \in Nat
    /\ ChannelSize \in Nat \ {0}
    /\ MaxMiss \in Nat

VARIABLES
    pc,          \* where the device thread is
    stopReq,     \* NewStatePending()
    run,         \* number of the current (or last) run
    fTFBuffer,   \* id -> the parts received, <<>> when the map has no entry
    age,         \* id -> ticks since its first part came (tfBuf.front().start)
    todo,        \* ids the running sweep has not visited yet
    frame,       \* the frame that is being sent
    fDirection,  \* next output sub-channel
    fNumSend,    \* frames sent in this run
    iSub,        \* decimator sub-channel being served
    decReady,    \* what the decimator's one Poll() saw
    nrecv,       \* empty Receives seen by PostRun
    active,      \* the sources that are still running
    nextId,      \* source -> the id of its next part
    wire,        \* source -> parts sent and not yet received
    outQ,        \* occupancy of each output queue
    decQ,        \* occupancy of each decimator queue
    dqmQ,        \* occupancy of the dqm queue
    sent,        \* history: the frames sent in this run
    decimated,   \* history: per decimator sub-channel, the ids it was sent
    discarded    \* history: the ids this run has timed out

device  == <<pc, stopReq, run, frame, fDirection, fNumSend, iSub, decReady, nrecv>>
buffers == <<fTFBuffer, age, todo>>
sources == <<active, nextId, wire>>
queues  == <<outQ, decQ, dqmQ>>
history == <<sent, decimated, discarded>>
vars    == <<device, buffers, sources, queues, history>>

fNumSource == Cardinality(Sources)
Ids        == 0 .. MaxId
Outputs    == 0 .. NumDestination - 1
SubChannels == 1 .. NumDecimator
Part       == [src : Sources, id : Ids, run : 1 .. MaxRuns]
Frame      == [id : Ids, parts : Seq(Part)]
NoFrame    == [id |-> 0, parts |-> <<>>]

\* InitTask replaces an offset that no frame number could have.
fDecimationOffset ==
    IF DecimationFactor > 0 /\ DecimationOffset >= DecimationFactor
    THEN 0 ELSE DecimationOffset

Running == {"Recv", "Sweep", "Decimate", "Dqm", "Output"}

Init ==
    /\ pc = "Ready" /\ stopReq = FALSE /\ run = 0
    /\ fTFBuffer = [id \in Ids |-> <<>>]
    /\ age = [id \in Ids |-> 0]
    /\ todo = {}
    /\ frame = NoFrame
    /\ fDirection = 0 /\ fNumSend = 0
    /\ iSub = 1
    /\ decReady = [k \in SubChannels |-> FALSE]
    /\ nrecv = 0
    /\ active = {}
    /\ nextId = [s \in Sources |-> 0]
    /\ wire = [s \in Sources |-> <<>>]
    /\ outQ = [d \in Outputs |-> 0]
    /\ decQ = [k \in SubChannels |-> 0]
    /\ dqmQ = 0
    /\ sent = <<>>
    /\ decimated = [k \in SubChannels |-> <<>>]
    /\ discarded = {}

-----------------------------------------------------------------------------
(* The front ends, the consumers, the clock and the run control: external. *)

\* A front end reads the next trigger and sends its part...
SourceSend(s) ==
    /\ s \in active
    /\ nextId[s] <= MaxId
    /\ Len(wire[s]) < ChannelSize
    /\ wire' = [wire EXCEPT ![s] = Append(@, [src |-> s, id |-> nextId[s], run |-> run])]
    /\ nextId' = [nextId EXCEPT ![s] = @ + 1]
    /\ UNCHANGED <<device, buffers, active, queues, history>>

\* ... or loses it (a read error on its socket).
SourceLose(s) ==
    /\ s \in active
    /\ nextId[s] <= MaxId
    /\ nextId' = [nextId EXCEPT ![s] = @ + 1]
    /\ UNCHANGED <<device, buffers, active, wire, queues, history>>

SourceStop(s) ==
    /\ s \in active
    /\ stopReq
    /\ active' = active \ {s}
    /\ UNCHANGED <<device, buffers, nextId, wire, queues, history>>

\* A consumer takes a message out of an output, decimator or dqm queue.
OutputTake(d) ==
    /\ outQ[d] > 0
    /\ outQ' = [outQ EXCEPT ![d] = @ - 1]
    /\ UNCHANGED <<device, buffers, sources, decQ, dqmQ, history>>

DecimatorTake(k) ==
    /\ decQ[k] > 0
    /\ decQ' = [decQ EXCEPT ![k] = @ - 1]
    /\ UNCHANGED <<device, buffers, sources, outQ, dqmQ, history>>

DqmTake ==
    /\ dqmQ > 0
    /\ dqmQ' = dqmQ - 1
    /\ UNCHANGED <<device, buffers, sources, outQ, decQ, history>>

\* The clock: the parts that wait grow older, up to one tick past the timeout.
Tick ==
    /\ \E id \in Ids : fTFBuffer[id] # <<>> /\ age[id] <= BufferTimeout
    /\ age' = [id \in Ids |->
                 IF fTFBuffer[id] # <<>> /\ age[id] <= BufferTimeout
                 THEN age[id] + 1 ELSE age[id]]
    /\ UNCHANGED <<device, fTFBuffer, todo, sources, queues, history>>

\* The run control asks every device to stop.
StopRequest ==
    /\ pc \in Running
    /\ ~stopReq
    /\ stopReq' = TRUE
    /\ UNCHANGED <<pc, run, frame, fDirection, fNumSend, iSub, decReady, nrecv,
                   buffers, sources, queues, history>>
-----------------------------------------------------------------------------
(* The builder. *)

\* PreRun, and the front ends starting a new run with it.
StartRun ==
    /\ pc = "Ready"
    /\ run < MaxRuns
    /\ run' = run + 1
    /\ stopReq' = FALSE
    /\ fDirection' = 0
    /\ fNumSend' = 0
    /\ pc' = "Recv"
    /\ active' = Sources
    /\ nextId' = [s \in Sources |-> 0]
    /\ sent' = <<>>
    /\ decimated' = [k \in SubChannels |-> <<>>]
    /\ discarded' = {}
    /\ UNCHANGED <<frame, iSub, decReady, nrecv, buffers, wire, queues>>

Waiting(buf) == {id \in Ids : buf[id] # <<>>}

\* The sweep starts at the first entry of the map, in no particular order.
BeginSweep(buf) ==
    /\ todo' = Waiting(buf)
    /\ pc' = IF Waiting(buf) = {} THEN "Recv" ELSE "Sweep"

\* Receive() returns a part of source s; it is kept under its id.
ReceivePart(s) ==
    /\ pc = "Recv" /\ ~stopReq
    /\ wire[s] # <<>>
    /\ LET part == Head(wire[s])
           buf  == [fTFBuffer EXCEPT ![part.id] = Append(@, part)]
       IN /\ fTFBuffer' = buf
          /\ age' = IF fTFBuffer[part.id] = <<>> THEN [age EXCEPT ![part.id] = 0] ELSE age
          /\ BeginSweep(buf)
    /\ wire' = [wire EXCEPT ![s] = Tail(@)]
    /\ UNCHANGED <<stopReq, run, frame, fDirection, fNumSend, iSub, decReady, nrecv,
                   active, nextId, queues, history>>

\* Mutant: the sweep is made only when something was received.
ReceiveNothingReturns == pc = "Recv" /\ ~stopReq /\ UNCHANGED vars

\* Receive() gives up after a millisecond; the sweep is made all the same.
ReceiveNothing ==
    /\ pc = "Recv" /\ ~stopReq
    /\ BeginSweep(fTFBuffer)
    /\ UNCHANGED <<stopReq, run, frame, fDirection, fNumSend, iSub, decReady, nrecv,
                   fTFBuffer, age, sources, queues, history>>

\* Mutant: PostRun without fTFBuffer.clear().
LeaveRunKeepsBuffers ==
    /\ pc' = "Drain" /\ nrecv' = 0 /\ frame' = NoFrame
    /\ UNCHANGED buffers

\* The run loop sees the pending state: PostRun starts by clearing the buffers.
LeaveRun ==
    /\ pc' = "Drain"
    /\ fTFBuffer' = [id \in Ids |-> <<>>]
    /\ age' = [id \in Ids |-> 0]
    /\ todo' = {}
    /\ nrecv' = 0
    /\ frame' = NoFrame

LoopExit ==
    /\ pc = "Recv" /\ stopReq
    /\ LeaveRun
    /\ UNCHANGED <<stopReq, run, fDirection, fNumSend, iSub, decReady,
                   sources, queues, history>>

\* Mutant: ConditionalRun returns after the first entry it looked at.
AfterVisitReturns(rest) == pc' = "Recv"

\* After a buffer is done the sweep goes on, or the next ConditionalRun starts.
AfterVisit(rest) == pc' = IF rest = {} THEN "Recv" ELSE "Sweep"

\* Mutant: the frame number is counted up before the test.
IsDecimatedLate ==
    /\ NumDecimator > 0
    /\ DecimationFactor > 0
    /\ (fNumSend + 1) % DecimationFactor = fDecimationOffset

IsDecimated ==
    /\ NumDecimator > 0
    /\ DecimationFactor > 0
    /\ fNumSend % DecimationFactor = fDecimationOffset

AfterDecimation == IF DqmExists THEN "Dqm" ELSE "Output"

\* Mutant: the parts are copied out and the buffer is not cleared.
ClearBufferForgotten(id) == UNCHANGED <<fTFBuffer, age>>

\* tfBuf.clear(), and the removal of the empty entry from the map.
ClearBuffer(id) ==
    /\ fTFBuffer' = [fTFBuffer EXCEPT ![id] = <<>>]
    /\ age' = [age EXCEPT ![id] = 0]

\* A buffer that holds fNumSource parts becomes the frame to send.
SweepComplete(id) ==
    /\ pc = "Sweep" /\ id \in todo
    /\ Len(fTFBuffer[id]) = fNumSource
    /\ frame' = [id |-> id, parts |-> fTFBuffer[id]]
    /\ ClearBuffer(id)
    /\ todo' = todo \ {id}
    /\ iSub' = 1
    /\ IF IsDecimated
       THEN /\ pc' = "Decimate"
            /\ decReady' = [k \in SubChannels |-> decQ[k] < ChannelSize]
       ELSE /\ pc' = AfterDecimation
            /\ UNCHANGED decReady
    /\ UNCHANGED <<stopReq, run, fDirection, fNumSend, nrecv, sources, queues, history>>

\* An incomplete buffer whose first part is older than the timeout is dropped.
SweepExpire(id) ==
    /\ pc = "Sweep" /\ id \in todo
    /\ Len(fTFBuffer[id]) # fNumSource
    /\ age[id] > BufferTimeout
    /\ ClearBuffer(id)
    /\ discarded' = discarded \union {id}
    /\ todo' = todo \ {id}
    /\ AfterVisit(todo \ {id})
    /\ UNCHANGED <<stopReq, run, frame, fDirection, fNumSend, iSub, decReady, nrecv,
                   sources, queues, sent, decimated>>

SweepKeep(id) ==
    /\ pc = "Sweep" /\ id \in todo
    /\ Len(fTFBuffer[id]) # fNumSource
    /\ age[id] <= BufferTimeout
    /\ todo' = todo \ {id}
    /\ AfterVisit(todo \ {id})
    /\ UNCHANGED <<stopReq, run, frame, fDirection, fNumSend, iSub, decReady, nrecv,
                   fTFBuffer, age, sources, queues, history>>

\* A copy goes to each decimator sub-channel.  The readiness is the one the
\* single Poll() saw: a sub-channel that was full then is waited for until the
\* run is stopped.
DecimateSend ==
    /\ pc = "Decimate" /\ ~stopReq
    /\ iSub <= NumDecimator
    /\ decReady[iSub]
    /\ decQ[iSub] < ChannelSize
    /\ decQ' = [decQ EXCEPT ![iSub] = @ + 1]
    /\ decimated' = [decimated EXCEPT ![iSub] = Append(@, frame.id)]
    /\ iSub' = iSub + 1
    /\ UNCHANGED <<pc, stopReq, run, frame, fDirection, fNumSend, decReady, nrecv,
                   buffers, sources, outQ, dqmQ, sent, discarded>>

DecimateSkip ==
    /\ pc = "Decimate" /\ stopReq
    /\ iSub <= NumDecimator
    /\ iSub' = iSub + 1
    /\ UNCHANGED <<pc, stopReq, run, frame, fDirection, fNumSend, decReady, nrecv,
                   buffers, sources, queues, history>>

DecimateDone ==
    /\ pc = "Decimate"
    /\ iSub > NumDecimator
    /\ pc' = AfterDecimation
    /\ UNCHANGED <<stopReq, run, frame, fDirection, fNumSend, iSub, decReady, nrecv,
                   buffers, sources, queues, history>>

\* Send() to the dqm channel blocks until there is room...
DqmSend ==
    /\ pc = "Dqm"
    /\ dqmQ < ChannelSize
    /\ dqmQ' = dqmQ + 1
    /\ pc' = "Output"
    /\ UNCHANGED <<stopReq, run, frame, fDirection, fNumSend, iSub, decReady, nrecv,
                   buffers, sources, outQ, decQ, history>>

\* ... or is interrupted by the pending state: ConditionalRun returns false and
\* the frame is lost.
DqmInterrupted ==
    /\ pc = "Dqm" /\ stopReq
    /\ LeaveRun
    /\ UNCHANGED <<stopReq, run, fDirection, fNumSend, iSub, decReady,
                   sources, queues, history>>

\* The output loop tries the sub-channels in turn; a full one is passed over.
OutputSend ==
    /\ pc = "Output" /\ ~stopReq
    /\ LET direction == fDirection % NumDestination
       IN /\ outQ[direction] < ChannelSize
          /\ outQ' = [outQ EXCEPT ![direction] = @ + 1]
          /\ fDirection' = direction + 1
    /\ fNumSend' = fNumSend + 1
    /\ sent' = Append(sent, frame)
    /\ frame' = NoFrame
    /\ AfterVisit(todo)
    /\ UNCHANGED <<stopReq, run, iSub, decReady, nrecv, buffers,
                   sources, decQ, dqmQ, decimated, discarded>>

\* Mutant: a busy sub-channel drops the frame.
OutputBusyDrops ==
    /\ pc = "Output" /\ ~stopReq
    /\ outQ[fDirection % NumDestination] >= ChannelSize
    /\ frame' = NoFrame
    /\ AfterVisit(todo)
    /\ UNCHANGED <<stopReq, run, fDirection, fNumSend, iSub, decReady, nrecv,
                   buffers, sources, queues, history>>

OutputBusy ==
    /\ pc = "Output" /\ ~stopReq
    /\ outQ[fDirection % NumDestination] >= ChannelSize
    /\ fDirection' = (fDirection % NumDestination) + 1
    /\ UNCHANGED <<pc, stopReq, run, frame, fNumSend, iSub, decReady, nrecv,
                   buffers, sources, queues, history>>

\* The loop ends when the state is pending, sent or not: the frame is lost and
\* the sweep goes on.
OutputAbandon ==
    /\ pc = "Output" /\ stopReq
    /\ frame' = NoFrame
    /\ AfterVisit(todo)
    /\ UNCHANGED <<stopReq, run, fDirection, fNumSend, iSub, decReady, nrecv, buffers,
                   sources, queues, history>>

\* PostRun throws away what is still on the way, until more than MaxMiss
\* Receives (of a second each) came back empty.
DrainReceive(s) ==
    /\ pc = "Drain" /\ nrecv <= MaxMiss
    /\ wire[s] # <<>>
    /\ wire' = [wire EXCEPT ![s] = Tail(@)]
    /\ UNCHANGED <<device, buffers, active, nextId, queues, history>>

\* Timing assumption: the front ends have obeyed the stop before the last of
\* these timeouts has passed.
DrainMiss ==
    /\ pc = "Drain" /\ nrecv <= MaxMiss
    /\ \A s \in Sources : wire[s] = <<>>
    /\ nrecv = MaxMiss => active = {}
    /\ nrecv' = nrecv + 1
    /\ UNCHANGED <<pc, stopReq, run, frame, fDirection, fNumSend, iSub, decReady,
                   buffers, sources, queues, history>>

DrainEnd ==
    /\ pc = "Drain" /\ nrecv > MaxMiss
    /\ pc' = "Ready"
    /\ UNCHANGED <<stopReq, run, frame, fDirection, fNumSend, iSub, decReady, nrecv,
                   buffers, sources, queues, history>>

-----------------------------------------------------------------------------
Visit == \E id \in Ids : SweepComplete(id) \/ SweepExpire(id) \/ SweepKeep(id)

SendFrame ==
    \/ DecimateSend \/ DecimateSkip \/ DecimateDone
    \/ DqmSend \/ DqmInterrupted
    \/ OutputSend \/ OutputBusy \/ OutputAbandon

PostRun == DrainMiss \/ DrainEnd \/ \E s \in Sources : DrainReceive(s)

\* The device thread.
Builder ==
    \/ ReceiveNothing \/ LoopExit
    \/ \E s \in Sources : ReceivePart(s)
    \/ Visit \/ SendFrame \/ PostRun

Environment ==
    \/ \E s \in Sources : SourceSend(s) \/ SourceLose(s) \/ SourceStop(s)
    \/ \E d \in Outputs : OutputTake(d)
    \/ \E k \in SubChannels : DecimatorTake(k)
    \/ DqmTake \/ Tick \/ StopRequest \/ StartRun

\* The bounded number of runs is over and everything has been taken.
Finished ==
    /\ pc = "Ready" /\ run = MaxRuns
    /\ \A d \in Outputs : outQ[d] = 0
    /\ \A k \in SubChannels : decQ[k] = 0
    /\ dqmQ = 0
    /\ UNCHANGED vars

Next == Builder \/ Environment \/ Finished

Spec == Init /\ [][Next]_vars

\* The device thread runs whenever it can; the clock advances; the consumers
\* of the outputs and of the dqm channel take what is there.  Nothing is
\* assumed of the front ends, the run control or the decimator's consumers.
FairSpec ==
    /\ Spec
    /\ WF_vars(Builder)
    /\ WF_vars(Tick)
    /\ WF_vars(DqmTake)
    /\ \A d \in Outputs : WF_vars(OutputTake(d))

-----------------------------------------------------------------------------
(* Properties. *)

DeviceOK ==
    /\ pc \in Running \union {"Ready", "Drain"}
    /\ stopReq \in BOOLEAN
    /\ run \in 0 .. MaxRuns
    /\ frame \in Frame
    /\ fDirection \in 0 .. NumDestination
    /\ fNumSend \in Nat
    /\ iSub \in 1 .. NumDecimator + 1
    /\ decReady \in [SubChannels -> BOOLEAN]
    /\ nrecv \in 0 .. MaxMiss + 1

BuffersOK ==
    /\ fTFBuffer \in [Ids -> Seq(Part)]
    /\ age \in [Ids -> 0 .. BufferTimeout + 1]
    /\ todo \subseteq Ids

SourcesOK ==
    /\ active \subseteq Sources
    /\ active # {} => run > 0
    /\ nextId \in [Sources -> 0 .. MaxId + 1]
    /\ wire \in [Sources -> Seq(Part)]

QueuesOK ==
    /\ outQ \in [Outputs -> 0 .. ChannelSize]
    /\ decQ \in [SubChannels -> 0 .. ChannelSize]
    /\ dqmQ \in 0 .. ChannelSize

HistoryOK ==
    /\ sent \in Seq(Frame)
    /\ decimated \in [SubChannels -> Seq(Ids)]
    /\ discarded \subseteq Ids

TypeOK == DeviceOK /\ BuffersOK /\ SourcesOK /\ QueuesOK /\ HistoryOK

\* The parts of a frame: one of every source, all of this id and this run.
Whole(f) ==
    /\ {f.parts[i].src : i \in DOMAIN f.parts} = Sources
    /\ Len(f.parts) = fNumSource
    /\ \A i \in DOMAIN f.parts : f.parts[i].id = f.id /\ f.parts[i].run = run

\* Although ConditionalRun only counts the parts of an id, every frame that is
\* sent has exactly one part of each source, of that trigger and of this run:
\* the counting is enough because nothing of an earlier run survives PostRun.
FramesWhole == \A n \in DOMAIN sent : Whole(sent[n])

\* A trigger leads to at most one frame in a run.
SentOnce == \A m, n \in DOMAIN sent : m # n => sent[m].id # sent[n].id

\* A late part re-creates the buffer of a trigger that was already timed out
\* (no list of discarded ids is kept); a frame is never made of it.
DiscardedNotSent == \A n \in DOMAIN sent : sent[n].id \notin discarded

\* When ConditionalRun returns in a run that goes on, no complete buffer is left
\* behind: a further part of that id would make the == test miss it for good.
NoCompleteLeftBehind ==
    pc = "Recv" => \A id \in Ids : Len(fTFBuffer[id]) < fNumSource

\* The frames, of those sent, that the decimator is to get: every
\* DecimationFactor-th, starting with the one numbered fDecimationOffset.
Sampled ==
    [r \in 1 .. (Len(sent) + DecimationFactor - 1 - fDecimationOffset) \div DecimationFactor |->
        sent[(r - 1) * DecimationFactor + fDecimationOffset + 1].id]

\* Each decimator sub-channel that is served gets exactly the sampled frames,
\* in the order of the output.  It is ahead by one frame while that frame is
\* still to be sent, and stays so if the stop makes the output lose it.
DecimationExact ==
    (NumDecimator > 0 /\ DecimationFactor > 0) =>
        \A k \in SubChannels :
            \/ decimated[k] = Sampled
            \/ /\ pc \in {"Decimate", "Dqm", "Output"}
               /\ decimated[k] = Append(Sampled, frame.id)
            \/ /\ stopReq
               /\ Len(decimated[k]) = Len(Sampled) + 1
               /\ SubSeq(decimated[k], 1, Len(Sampled)) = Sampled

\* The single poll before the loop found a decimator sub-channel full: the loop
\* never asks again and holds the builder until the run is stopped.
WaitsForDecimator == pc = "Decimate" /\ iSub \in SubChannels /\ ~decReady[iSub]

\* A complete set of parts is sent, unless the run is stopped or a decimator
\* holds the builder: slow outputs, a slow dqm consumer or timeouts of other ids
\* never make it lost.
CompleteIsSent ==
    \A id \in Ids :
        (pc \in Running /\ Len(fTFBuffer[id]) = fNumSource)
            ~> (stopReq \/ WaitsForDecimator \/ \E n \in DOMAIN sent : sent[n].id = id)

\* No part stays in the buffer for ever, whatever the front ends do: its frame
\* is completed, timed out or cleared, but for the hang on a decimator.
BufferIsEmptied ==
    \A id \in Ids : fTFBuffer[id] # <<>> ~> (WaitsForDecimator \/ fTFBuffer[id] = <<>>)

\* The builder goes on, and loses nothing complete, under fair scheduling.
BuilderGoesOn == CompleteIsSent /\ BufferIsEmptied

-----------------------------------------------------------------------------
(* The builder implements the abstract assembly of frames. *)

Sending == pc \in {"Decimate", "Dqm", "Output"}
SourcesIn(parts) == {parts[i].src : i \in DOMAIN parts}

\* A frame that is on its way out still counts as held.
Held == [id \in Ids |-> IF Sending /\ frame.id = id
                        THEN SourcesIn(frame.parts)
                        ELSE SourcesIn(fTFBuffer[id])]
Delivered == {sent[n].id : n \in DOMAIN sent}

Assembly == INSTANCE FrameAssembly WITH held <- Held, delivered <- Delivered

\* Whatever is lost, late or interrupted by a stop, the builder takes a part of
\* a source once, delivers a trigger once, and only when it is whole.
ImplementsAssembly == Assembly!Spec
=============================================================================
