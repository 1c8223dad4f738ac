----------------------- MODULE TimeFrameBuilderProofs -----------------------
(***************************************************************************)
(* Theorems about the time frame builder, for any set of front ends, any   *)
(* number of outputs, decimator sub-channels, ids and runs; the last two   *)
(* are that a sweep misses no complete buffer, and that the builder        *)
(* implements FrameAssembly.                                               *)
(***************************************************************************)
EXTENDS TimeFrameBuilder, FunctionTheorems, FiniteSetTheorems,
        SequenceTheorems, TLAPS

-----------------------------------------------------------------------------
(* Types: one lemma per group of variables. *)

LEMMA QueuesStep == ASSUME DeviceOK, QueuesOK, [Next]_vars PROVE QueuesOK'
<1> USE BoundsAssumption DEF QueuesOK
<1>1. ASSUME NEW d \in Outputs, OutputTake(d) PROVE QueuesOK'
  BY <1>1 DEF OutputTake
<1>2. ASSUME NEW k \in SubChannels, DecimatorTake(k) PROVE QueuesOK'
  BY <1>2 DEF DecimatorTake
<1>3. CASE DqmTake
  BY <1>3 DEF DqmTake
<1>4. CASE DqmSend
  BY <1>4 DEF DqmSend
<1>5. CASE DecimateSend
  <2>1. iSub \in SubChannels
    BY <1>5 DEF DeviceOK, DecimateSend, SubChannels
  <2> QED BY <1>5, <2>1 DEF DecimateSend
<1>6. CASE OutputSend
  <2>1. (fDirection % NumDestination) \in Outputs
    BY DEF DeviceOK, Outputs
  <2> QED BY <1>6, <2>1 DEF OutputSend
<1>7. CASE UNCHANGED queues
  BY <1>7 DEF queues
<1>8. Next => \/ \E d \in Outputs : OutputTake(d)
              \/ \E k \in SubChannels : DecimatorTake(k)
              \/ DqmTake \/ DqmSend \/ DecimateSend \/ OutputSend
              \/ UNCHANGED queues
  BY Zenon DEF Next, Builder, Environment, Finished, Visit, SendFrame, PostRun, vars,
     SourceSend, SourceLose, SourceStop, Tick, StopRequest, StartRun, ReceivePart,
     ReceiveNothing, LoopExit, SweepComplete, SweepExpire, SweepKeep, DecimateSkip,
     DecimateDone, DqmInterrupted, OutputBusy, OutputAbandon, DrainReceive, DrainMiss, DrainEnd
<1> QED
  BY <1>1, <1>2, <1>3, <1>4, <1>5, <1>6, <1>7, <1>8, Zenon DEF vars

LEMMA SourcesStep == ASSUME DeviceOK, SourcesOK, [Next]_vars PROVE SourcesOK'
<1> USE BoundsAssumption DEF SourcesOK
<1>1. ASSUME NEW s \in Sources, SourceSend(s) PROVE SourcesOK'
  <2>1. [src |-> s, id |-> nextId[s], run |-> run] \in Part
    BY <1>1 DEF SourceSend, DeviceOK, Part, Ids
  <2>2. wire' \in [Sources -> Seq(Part)]
    BY <1>1, <2>1 DEF SourceSend
  <2> QED BY <1>1, <2>2 DEF SourceSend, device
<1>2. ASSUME NEW s \in Sources, SourceLose(s) PROVE SourcesOK'
  BY <1>2 DEF SourceLose, device
<1>3. ASSUME NEW s \in Sources, SourceStop(s) PROVE SourcesOK'
  BY <1>3 DEF SourceStop, device
<1>4. ASSUME NEW s \in Sources, ReceivePart(s) PROVE SourcesOK'
  BY <1>4, HeadTailProperties DEF ReceivePart
<1>5. ASSUME NEW s \in Sources, DrainReceive(s) PROVE SourcesOK'
  BY <1>5, HeadTailProperties DEF DrainReceive, device
<1>6. CASE StartRun
  BY <1>6 DEF StartRun, DeviceOK
<1>7. CASE UNCHANGED <<sources, run>>
  BY <1>7 DEF sources
<1>8. \/ \E s \in Sources : \/ SourceSend(s) \/ SourceLose(s) \/ SourceStop(s)
                            \/ ReceivePart(s) \/ DrainReceive(s)
      \/ StartRun
      \/ UNCHANGED <<sources, run>>
  BY Zenon DEF Next, Builder, Environment, Finished, Visit, SendFrame, PostRun, vars, device,
     OutputTake, DecimatorTake, DqmTake, Tick, StopRequest, ReceiveNothing, LoopExit,
     SweepComplete, SweepExpire, SweepKeep, DecimateSend, DecimateSkip, DecimateDone, DqmSend,
     DqmInterrupted, OutputSend, OutputBusy, OutputAbandon, DrainMiss, DrainEnd
<1> QED
  BY <1>1, <1>2, <1>3, <1>4, <1>5, <1>6, <1>7, <1>8

LEMMA BuffersStep == ASSUME SourcesOK, BuffersOK, [Next]_vars PROVE BuffersOK'
<1> USE BoundsAssumption DEF BuffersOK
<1>1. ASSUME NEW s \in Sources, ReceivePart(s) PROVE BuffersOK'
  <2>1. Head(wire[s]) \in Part
    BY <1>1, HeadTailProperties DEF ReceivePart, SourcesOK
  <2>2. Head(wire[s]).id \in Ids
    BY <2>1 DEF Part
  <2> QED BY <1>1, <2>1, <2>2 DEF ReceivePart, BeginSweep, Waiting
<1>2. ASSUME NEW id \in Ids, SweepComplete(id) PROVE BuffersOK'
  BY <1>2 DEF SweepComplete, ClearBuffer
<1>3. ASSUME NEW id \in Ids, SweepExpire(id) PROVE BuffersOK'
  BY <1>3 DEF SweepExpire, ClearBuffer
<1>4. ASSUME NEW id \in Ids, SweepKeep(id) PROVE BuffersOK'
  BY <1>4 DEF SweepKeep
<1>5. CASE ReceiveNothing
  BY <1>5 DEF ReceiveNothing, BeginSweep, Waiting
<1>6. CASE LoopExit \/ DqmInterrupted
  <2>1. LeaveRun
    BY <1>6 DEF LoopExit, DqmInterrupted
  <2> QED BY <2>1 DEF LeaveRun
<1>7. CASE Tick
  BY <1>7 DEF Tick
<1>8. CASE UNCHANGED buffers
  BY <1>8 DEF buffers
<1>9. \/ \E s \in Sources : ReceivePart(s)
      \/ \E id \in Ids : SweepComplete(id) \/ SweepExpire(id) \/ SweepKeep(id)
      \/ ReceiveNothing \/ LoopExit \/ DqmInterrupted \/ Tick
      \/ UNCHANGED buffers
  BY Zenon DEF Next, Builder, Environment, Finished, Visit, SendFrame, PostRun, vars,
     SourceSend, SourceLose, SourceStop, OutputTake, DecimatorTake, DqmTake, StopRequest,
     StartRun, DecimateSend, DecimateSkip, DecimateDone, DqmSend, OutputSend, OutputBusy,
     OutputAbandon, DrainReceive, DrainMiss, DrainEnd
<1> QED
  BY <1>1, <1>2, <1>3, <1>4, <1>5, <1>6, <1>7, <1>8, <1>9

LEMMA HistoryStep == ASSUME DeviceOK, HistoryOK, [Next]_vars PROVE HistoryOK'
<1> USE DEF HistoryOK
<1>1. CASE StartRun
  BY <1>1 DEF StartRun
<1>2. CASE DecimateSend
  <2>1. frame.id \in Ids
    BY DEF DeviceOK, Frame
  <2>2. iSub \in SubChannels
    BY <1>2, BoundsAssumption DEF DeviceOK, DecimateSend, SubChannels
  <2> QED BY <1>2, <2>1, <2>2 DEF DecimateSend
<1>3. CASE OutputSend
  BY <1>3 DEF OutputSend, DeviceOK
<1>4. ASSUME NEW id \in Ids, SweepExpire(id) PROVE HistoryOK'
  BY <1>4 DEF SweepExpire
<1>5. CASE UNCHANGED history
  BY <1>5 DEF history
<1>6. \/ StartRun \/ DecimateSend \/ OutputSend
      \/ \E id \in Ids : SweepExpire(id)
      \/ UNCHANGED history
  BY Zenon DEF Next, Builder, Environment, Finished, Visit, SendFrame, PostRun, vars,
     SourceSend, SourceLose, SourceStop, OutputTake, DecimatorTake, DqmTake, Tick, StopRequest,
     ReceivePart, ReceiveNothing, LoopExit, SweepComplete, SweepKeep, DecimateSkip,
     DecimateDone, DqmSend, DqmInterrupted, OutputBusy, OutputAbandon, DrainReceive,
     DrainMiss, DrainEnd
<1> QED
  BY <1>1, <1>2, <1>3, <1>4, <1>5, <1>6

LEMMA DeviceStep == ASSUME DeviceOK, BuffersOK, [Next]_vars PROVE DeviceOK'
<1> USE BoundsAssumption
<1>1. CASE StartRun
  <2>1. stopReq' \in BOOLEAN
    BY <1>1 DEF StartRun
  <2> QED BY <1>1, <2>1 DEF StartRun, DeviceOK, Running
<1>2. ASSUME NEW id \in Ids, SweepComplete(id) PROVE DeviceOK'
  <2>1. frame' \in Frame
    BY <1>2 DEF SweepComplete, BuffersOK, Frame
  <2>2. decReady' \in [SubChannels -> BOOLEAN]
    <3>1. CASE IsDecimated
      <4>1. decReady' = [k \in SubChannels |-> decQ[k] < ChannelSize]
        BY <1>2, <3>1 DEF SweepComplete
      <4>2. \A k \in SubChannels : (decQ[k] < ChannelSize) \in BOOLEAN
        OBVIOUS
      <4> QED BY <4>1, <4>2, Zenon
    <3>2. CASE ~IsDecimated
      BY <1>2, <3>2 DEF SweepComplete, DeviceOK
    <3> QED BY <3>1, <3>2
  <2>3. pc' \in Running
    BY <1>2 DEF SweepComplete, Running, AfterDecimation
  <2>4. iSub' \in 1 .. NumDecimator + 1 /\ UNCHANGED <<stopReq, run, fDirection, fNumSend, nrecv>>
    BY <1>2 DEF SweepComplete
  <2> QED BY <2>1, <2>2, <2>3, <2>4 DEF DeviceOK
<1>3. CASE OutputSend
  <2>1. frame' \in Frame
    BY <1>3 DEF OutputSend, Frame, NoFrame, Ids
  <2>2. (fDirection % NumDestination) \in 0 .. NumDestination - 1
    BY DEF DeviceOK
  <2> QED BY <1>3, <2>1, <2>2 DEF OutputSend, DeviceOK, Running, AfterVisit
<1>4. CASE OutputBusy
  <2>1. (fDirection % NumDestination) \in 0 .. NumDestination - 1
    BY DEF DeviceOK
  <2> QED BY <1>4, <2>1 DEF OutputBusy, DeviceOK
<1>5. CASE OutputAbandon
  BY <1>5 DEF OutputAbandon, DeviceOK, Running, AfterVisit, Frame, NoFrame, Ids
<1>6. CASE LoopExit \/ DqmInterrupted
  <2>1. LeaveRun /\ UNCHANGED <<stopReq, run, fDirection, fNumSend, iSub, decReady>>
    BY <1>6 DEF LoopExit, DqmInterrupted
  <2>2. frame' \in Frame
    BY <2>1 DEF LeaveRun, Frame, NoFrame, Ids
  <2>3. pc' = "Drain" /\ nrecv' \in 0 .. MaxMiss + 1
    BY <2>1 DEF LeaveRun
  <2> QED BY <2>1, <2>2, <2>3 DEF DeviceOK
<1>7. CASE DecimateSend \/ DecimateSkip \/ DecimateDone \/ DqmSend
  BY <1>7 DEF DecimateSend, DecimateSkip, DecimateDone, DqmSend, DeviceOK, AfterDecimation, Running
<1>8. CASE DrainMiss \/ DrainEnd
  BY <1>8 DEF DrainMiss, DrainEnd, DeviceOK
<1>9. CASE StopRequest
  <2>1. stopReq' \in BOOLEAN
    BY <1>9 DEF StopRequest
  <2> QED BY <1>9, <2>1 DEF StopRequest, DeviceOK
<1>10. CASE /\ pc' \in Running
            /\ UNCHANGED <<stopReq, run, frame, fDirection, fNumSend, iSub, decReady, nrecv>>
  BY <1>10 DEF DeviceOK
<1>11. CASE UNCHANGED device
  BY <1>11 DEF device, DeviceOK
<1>12. \/ StartRun \/ \E id \in Ids : SweepComplete(id)
       \/ OutputSend \/ OutputBusy \/ OutputAbandon \/ LoopExit \/ DqmInterrupted
       \/ DecimateSend \/ DecimateSkip \/ DecimateDone \/ DqmSend
       \/ DrainMiss \/ DrainEnd \/ StopRequest
       \/ /\ pc' \in Running
          /\ UNCHANGED <<stopReq, run, frame, fDirection, fNumSend, iSub, decReady, nrecv>>
       \/ UNCHANGED device
  BY DEF Next, Builder, Environment, Finished, Visit, SendFrame, PostRun, vars,
     SourceSend, SourceLose, SourceStop, OutputTake, DecimatorTake, DqmTake, Tick,
     ReceivePart, ReceiveNothing, BeginSweep, SweepExpire, SweepKeep, AfterVisit, Running,
     DrainReceive
<1> QED
  BY <1>1, <1>2, <1>3, <1>4, <1>5, <1>6, <1>7, <1>8, <1>9, <1>10, <1>11, <1>12

LEMMA InitTypeOK == Init => TypeOK
<1> SUFFICES ASSUME Init PROVE TypeOK
  OBVIOUS
<1> USE BoundsAssumption DEF Init
<1>1. frame \in Frame /\ sent \in Seq(Frame)
  BY DEF Frame, NoFrame, Ids
<1>2. decReady \in [SubChannels -> BOOLEAN]
  OBVIOUS
<1>3. stopReq \in BOOLEAN
  OBVIOUS
<1>4. DeviceOK
  BY <1>1, <1>2, <1>3 DEF DeviceOK
<1>5. BuffersOK
  BY DEF BuffersOK
<1>6. SourcesOK
  BY DEF SourcesOK
<1>7. QueuesOK
  BY DEF QueuesOK
<1>8. HistoryOK
  BY <1>1 DEF HistoryOK
<1> QED
  BY <1>4, <1>5, <1>6, <1>7, <1>8 DEF TypeOK

LEMMA TypeStep == TypeOK /\ [Next]_vars => TypeOK'
  BY DeviceStep, BuffersStep, SourcesStep, QueuesStep, HistoryStep DEF TypeOK

\* Every variable keeps its type; in particular fDirection, which the output
\* loop wraps at every turn, never runs away.
THEOREM TypeCorrect == Spec => []TypeOK
  BY InitTypeOK, TypeStep, PTL DEF Spec

-----------------------------------------------------------------------------
(* The inductive invariant.  A trigger is past for a source when the       *)
(* source has moved on and no part of that trigger is on its wire any      *)
(* more: nothing of it can be received again.                              *)

\* What is on a wire comes from that source, in the order of the triggers, and
\* belongs to the current run; between two runs the wires are empty.
WireInv ==
    \A s \in Sources :
        /\ \A i \in DOMAIN wire[s] :
              /\ wire[s][i].src = s
              /\ wire[s][i].run = run
              /\ wire[s][i].id < nextId[s]
        /\ \A i, j \in DOMAIN wire[s] : i < j => wire[s][i].id < wire[s][j].id

QuietInv ==
    /\ pc = "Ready" => active = {} /\ \A s \in Sources : wire[s] = <<>>
    /\ pc = "Drain" /\ nrecv > MaxMiss => active = {} /\ \A s \in Sources : wire[s] = <<>>
    /\ pc \notin Running => \A id \in Ids : fTFBuffer[id] = <<>>

Past(s, id) ==
    /\ id < nextId[s]
    /\ \A i \in DOMAIN wire[s] : id < wire[s][i].id

AllPast(id) == \A s \in Sources : Past(s, id)

\* The parts kept under an id are of that trigger, of different sources, and
\* past for them.
PartsOf(id, parts) ==
    /\ \A i \in DOMAIN parts :
          parts[i].id = id /\ parts[i].run = run /\ Past(parts[i].src, id)
    /\ \A i, j \in DOMAIN parts : i # j => parts[i].src # parts[j].src

BufferInv == \A id \in Ids : PartsOf(id, fTFBuffer[id])

TodoInv == todo \subseteq Waiting(fTFBuffer)

\* A trigger that is being sent or was sent is past for everybody.
FrameInv ==
    Sending => /\ Whole(frame)
               /\ AllPast(frame.id)
               /\ fTFBuffer[frame.id] = <<>>
               /\ \A n \in DOMAIN sent : sent[n].id # frame.id
               /\ frame.id \notin discarded

SentInv ==
    \A n \in DOMAIN sent :
        /\ AllPast(sent[n].id)
        /\ fTFBuffer[sent[n].id] = <<>>

\* A trigger that was timed out stays without the part of some source.
DiscardedInv ==
    \A id \in discarded :
        \E s \in Sources :
            /\ Past(s, id)
            /\ \A i \in DOMAIN fTFBuffer[id] : fTFBuffer[id][i].src # s

\* What is claimed of the frames that are sent.
Claims == FramesWhole /\ SentOnce /\ DiscardedNotSent

IInv ==
    /\ WireInv /\ QuietInv /\ BufferInv /\ TodoInv
    /\ FrameInv /\ SentInv /\ DiscardedInv /\ Claims
\* Which actions touch the wires.
LEMMA WireCases ==
  ASSUME [Next]_vars
  PROVE  \/ \E s \in Sources : SourceSend(s) \/ SourceLose(s) \/ ReceivePart(s) \/ DrainReceive(s)
         \/ StartRun
         \/ UNCHANGED <<wire, nextId, run>>
  BY Zenon DEF Next, Builder, Environment, Finished, Visit, SendFrame, PostRun,
     vars, device, sources, buffers, SourceStop, OutputTake, DecimatorTake, DqmTake, Tick, StopRequest,
     ReceiveNothing, LoopExit, SweepComplete, SweepExpire, SweepKeep, DecimateSend,
     DecimateSkip, DecimateDone, DqmSend, DqmInterrupted, OutputSend, OutputBusy,
     OutputAbandon, DrainMiss, DrainEnd

\* The two ways a wire changes, element by element.
LEMMA SendShape ==
  ASSUME SourcesOK, NEW t \in Sources, SourceSend(t)
  PROVE  /\ Len(wire[t]) \in Nat
         /\ DOMAIN wire[t] = 1 .. Len(wire[t])
         /\ DOMAIN wire'[t] = 1 .. Len(wire[t]) + 1
         /\ \A i \in 1 .. Len(wire[t]) : wire'[t][i] = wire[t][i]
         /\ wire'[t][Len(wire[t]) + 1] = [src |-> t, id |-> nextId[t], run |-> run]
<1>1. wire[t] \in Seq(Part)
  BY DEF SourcesOK
<1>2. wire'[t] = Append(wire[t], [src |-> t, id |-> nextId[t], run |-> run])
  BY DEF SourceSend, SourcesOK
<1> QED
  BY <1>1, <1>2, LenProperties

LEMMA TailShape ==
  ASSUME SourcesOK, NEW t \in Sources, wire[t] # <<>>,
         wire' = [wire EXCEPT ![t] = Tail(@)]
  PROVE  /\ Len(wire[t]) \in Nat \ {0}
         /\ DOMAIN wire[t] = 1 .. Len(wire[t])
         /\ DOMAIN wire'[t] = 1 .. Len(wire[t]) - 1
         /\ \A i \in 1 .. Len(wire[t]) - 1 : wire'[t][i] = wire[t][i + 1]
<1>1. wire[t] \in Seq(Part)
  BY DEF SourcesOK
<1>2. wire'[t] = Tail(wire[t])
  BY DEF SourcesOK
<1> QED
  BY <1>1, <1>2, LenProperties, HeadTailProperties, EmptySeq

LEMMA PastStep ==
  ASSUME SourcesOK, WireInv, [Next]_vars, ~StartRun,
         NEW s \in Sources, NEW id \in Ids, Past(s, id)
  PROVE  Past(s, id)'
<1> USE DEF Past
<1>0. nextId[s] \in Int /\ id \in Int
  BY BoundsAssumption DEF SourcesOK, Ids
<1>1. ASSUME NEW t \in Sources, SourceSend(t) PROVE Past(s, id)'
  <2>1. CASE t = s
    BY <1>0, <1>1, <2>1, SendShape DEF SourceSend, SourcesOK
  <2>2. CASE t # s
    BY <1>0, <1>1, <2>2 DEF SourceSend, SourcesOK
  <2> QED BY <2>1, <2>2
<1>2. ASSUME NEW t \in Sources, SourceLose(t) PROVE Past(s, id)'
  BY <1>0, <1>2 DEF SourceLose, SourcesOK
<1>3. ASSUME NEW t \in Sources, wire[t] # <<>>, wire' = [wire EXCEPT ![t] = Tail(@)], UNCHANGED nextId
      PROVE Past(s, id)'
  <2>1. CASE t = s
    <3>1. /\ Len(wire[s]) \in Nat \ {0}
          /\ DOMAIN wire[s] = 1 .. Len(wire[s])
          /\ DOMAIN wire'[s] = 1 .. Len(wire[s]) - 1
          /\ \A i \in 1 .. Len(wire[s]) - 1 : wire'[s][i] = wire[s][i + 1]
      BY <1>3, <2>1, TailShape
    <3>2. \A i \in DOMAIN wire'[s] : i + 1 \in DOMAIN wire[s] /\ wire'[s][i] = wire[s][i + 1]
      BY <3>1
    <3> QED BY <1>3, <3>2
  <2>2. CASE t # s
    BY <1>3, <2>2 DEF SourcesOK
  <2> QED BY <2>1, <2>2
<1>4. ASSUME NEW t \in Sources, ReceivePart(t) PROVE Past(s, id)'
  BY <1>4, <1>3 DEF ReceivePart
<1>5. ASSUME NEW t \in Sources, DrainReceive(t) PROVE Past(s, id)'
  BY <1>5, <1>3 DEF DrainReceive
<1>6. CASE UNCHANGED <<wire, nextId, run>>
  BY <1>6
<1> QED
  BY WireCases, <1>1, <1>2, <1>4, <1>5, <1>6

LEMMA WireStep ==
  ASSUME SourcesOK, WireInv, QuietInv, [Next]_vars
  PROVE  WireInv'
<1> DEFINE InOrder(s) ==
       /\ \A i \in DOMAIN wire[s] :
             /\ wire[s][i].src = s
             /\ wire[s][i].run = run
             /\ wire[s][i].id < nextId[s]
       /\ \A i, j \in DOMAIN wire[s] : i < j => wire[s][i].id < wire[s][j].id
<1> SUFFICES ASSUME NEW s \in Sources PROVE InOrder(s)'
  BY DEF WireInv
<1>0. InOrder(s)
  BY DEF WireInv
<1>1. nextId[s] \in Int /\ \A i \in DOMAIN wire[s] : wire[s][i].id \in Int
  <2>1. wire[s] \in Seq(Part) /\ nextId[s] \in Int
    BY BoundsAssumption DEF SourcesOK
  <2>2. \A i \in DOMAIN wire[s] : wire[s][i] \in Part
    BY <2>1, ElementOfSeq, LenProperties
  <2> QED BY <2>1, <2>2, BoundsAssumption DEF Part, Ids
<1>2. ASSUME NEW t \in Sources, SourceSend(t) PROVE InOrder(s)'
  <2>1. CASE t = s
    BY <1>0, <1>1, <1>2, <2>1, SendShape DEF SourceSend, SourcesOK, device
  <2>2. CASE t # s
    BY <1>0, <1>2, <2>2 DEF SourceSend, SourcesOK, device
  <2> QED BY <2>1, <2>2
<1>3. ASSUME NEW t \in Sources, SourceLose(t) PROVE InOrder(s)'
  BY <1>0, <1>1, <1>3 DEF SourceLose, SourcesOK, device
<1>4. ASSUME NEW t \in Sources, wire[t] # <<>>, wire' = [wire EXCEPT ![t] = Tail(@)],
             UNCHANGED <<nextId, run>>
      PROVE InOrder(s)'
  <2>1. CASE t = s
    <3>1. /\ Len(wire[s]) \in Nat \ {0}
          /\ DOMAIN wire[s] = 1 .. Len(wire[s])
          /\ DOMAIN wire'[s] = 1 .. Len(wire[s]) - 1
          /\ \A i \in 1 .. Len(wire[s]) - 1 : wire'[s][i] = wire[s][i + 1]
      BY <1>4, <2>1, TailShape
    <3>2. \A i \in DOMAIN wire'[s] : i + 1 \in DOMAIN wire[s] /\ wire'[s][i] = wire[s][i + 1]
      BY <3>1
    <3>3. \A i, j \in DOMAIN wire'[s] : i < j => i + 1 < j + 1
      BY <3>1
    <3>4. \A i \in DOMAIN wire'[s] : /\ wire'[s][i].src = s
                                    /\ wire'[s][i].run = run'
                                    /\ wire'[s][i].id < nextId'[s]
      BY <1>0, <1>4, <3>2
    <3>5. \A i, j \in DOMAIN wire'[s] : i < j => wire'[s][i].id < wire'[s][j].id
      <4> TAKE i, j \in DOMAIN wire'[s]
      <4> HAVE i < j
      <4> QED BY <1>0, <3>2, <3>3
    <3> QED BY <3>4, <3>5
  <2>2. CASE t # s
    BY <1>0, <1>4, <2>2 DEF SourcesOK
  <2> QED BY <2>1, <2>2
<1>5. ASSUME NEW t \in Sources, ReceivePart(t) PROVE InOrder(s)'
  BY <1>5, <1>4 DEF ReceivePart
<1>6. ASSUME NEW t \in Sources, DrainReceive(t) PROVE InOrder(s)'
  BY <1>6, <1>4 DEF DrainReceive, device
<1>7. CASE StartRun
  BY <1>7 DEF StartRun, QuietInv
<1>8. CASE UNCHANGED <<wire, nextId, run>>
  BY <1>0, <1>8
<1> QED
  BY WireCases, <1>2, <1>3, <1>5, <1>6, <1>7, <1>8

\* Between two runs nothing is on the way and nothing is kept.
LEMMA QuietStep ==
  ASSUME DeviceOK, QuietInv, [Next]_vars
  PROVE  QuietInv'
<1> USE DEF QuietInv
<1>1. CASE pc' \in Running
  BY <1>1 DEF Running
<1>2. CASE LoopExit \/ DqmInterrupted
  BY <1>2, BoundsAssumption DEF LoopExit, DqmInterrupted, LeaveRun, Running
<1>3. CASE DrainMiss
  BY <1>3, BoundsAssumption DEF DeviceOK, DrainMiss, Running, buffers, sources
<1>4. CASE DrainEnd
  BY <1>4 DEF DrainEnd, Running, buffers, sources
<1>5. ASSUME NEW s \in Sources, DrainReceive(s) PROVE QuietInv'
  BY <1>5 DEF DrainReceive, Running, buffers, device
<1>6. ASSUME NEW s \in Sources, SourceSend(s) \/ SourceLose(s) PROVE QuietInv'
  BY <1>6 DEF SourceSend, SourceLose, Running, buffers, device
<1>7. ASSUME NEW s \in Sources, SourceStop(s) PROVE QuietInv'
  BY <1>7 DEF SourceStop, Running, buffers, device
<1>8. CASE UNCHANGED <<pc, nrecv, active, wire, fTFBuffer>>
  BY <1>8
<1>9. \/ pc' \in Running \/ LoopExit \/ DqmInterrupted \/ DrainMiss \/ DrainEnd
      \/ \E s \in Sources : DrainReceive(s) \/ SourceSend(s) \/ SourceLose(s) \/ SourceStop(s)
      \/ UNCHANGED <<pc, nrecv, active, wire, fTFBuffer>>
  <2>1. ASSUME Builder PROVE \/ pc' \in Running \/ LoopExit \/ DqmInterrupted \/ DrainMiss \/ DrainEnd
                             \/ \E s \in Sources : DrainReceive(s)
    BY <2>1 DEF Builder, Visit, SendFrame, PostRun, Running, ReceivePart, ReceiveNothing,
       BeginSweep, SweepComplete, SweepExpire, SweepKeep, AfterVisit, AfterDecimation,
       DecimateSend, DecimateSkip, DecimateDone, DqmSend, OutputSend, OutputBusy, OutputAbandon
  <2>2. ASSUME Environment \/ Finished \/ UNCHANGED vars
        PROVE  \/ pc' \in Running
               \/ \E s \in Sources : SourceSend(s) \/ SourceLose(s) \/ SourceStop(s)
               \/ UNCHANGED <<pc, nrecv, active, wire, fTFBuffer>>
    BY <2>2 DEF Environment, Finished, vars, device, buffers, sources, Running, OutputTake,
       DecimatorTake, DqmTake, Tick, StopRequest, StartRun
  <2> QED BY <2>1, <2>2 DEF Next
<1> QED
  BY <1>1, <1>2, <1>3, <1>4, <1>5, <1>6, <1>7, <1>8, <1>9

\* Which actions touch the buffers.
LEMMA BufferCases ==
  ASSUME [Next]_vars
  PROVE  \/ \E s \in Sources : ReceivePart(s)
         \/ \E id \in Ids : SweepComplete(id) \/ SweepExpire(id)
         \/ LoopExit \/ DqmInterrupted \/ StartRun
         \/ UNCHANGED <<fTFBuffer, run>>
  BY Zenon DEF Next, Builder, Environment, Finished, Visit, SendFrame, PostRun,
     vars, device, buffers, SourceSend, SourceLose, SourceStop, OutputTake, DecimatorTake, DqmTake,
     Tick, StopRequest, ReceiveNothing, SweepKeep, DecimateSend, DecimateSkip, DecimateDone,
     DqmSend, OutputSend, OutputBusy, OutputAbandon, DrainReceive, DrainMiss, DrainEnd

\* The part that is received is new: no part of its source and trigger is kept,
\* and afterwards it is past.
LEMMA ReceivedIsNew ==
  ASSUME SourcesOK, BuffersOK, WireInv, BufferInv, NEW s \in Sources, ReceivePart(s),
         NEW part, part = Head(wire[s])
  PROVE  /\ part \in Part /\ part.src = s /\ part.run = run
         /\ Past(s, part.id)'
         /\ ~ Past(s, part.id)
         /\ \A i \in DOMAIN fTFBuffer[part.id] : fTFBuffer[part.id][i].src # s
<1>1. wire[s] \in Seq(Part) /\ wire[s] # <<>>
  BY DEF SourcesOK, ReceivePart
<1>2. part \in Part /\ part = wire[s][1] /\ 1 \in DOMAIN wire[s]
  BY <1>1, HeadTailProperties, LenProperties, EmptySeq
<1>3. part.src = s /\ part.run = run /\ part.id < nextId[s]
  BY <1>2 DEF WireInv
<1>4. part.id \in Ids /\ part.id \in Int
  BY <1>2 DEF Part, Ids
<1>5. ~ Past(s, part.id)
  BY <1>2, <1>4 DEF Past
<1>6. Past(s, part.id)'
  <2>1. /\ Len(wire[s]) \in Nat \ {0}
        /\ DOMAIN wire[s] = 1 .. Len(wire[s])
        /\ DOMAIN wire'[s] = 1 .. Len(wire[s]) - 1
        /\ \A i \in 1 .. Len(wire[s]) - 1 : wire'[s][i] = wire[s][i + 1]
    BY TailShape DEF ReceivePart
  <2>2. \A i \in DOMAIN wire'[s] : /\ i + 1 \in DOMAIN wire[s] /\ 1 < i + 1
                                  /\ wire'[s][i] = wire[s][i + 1]
    BY <2>1
  <2>3. \A i \in DOMAIN wire'[s] : wire[s][1].id < wire'[s][i].id
    BY <2>2, <1>2 DEF WireInv
  <2>4. nextId' = nextId
    BY DEF ReceivePart
  <2> QED BY <1>2, <1>3, <2>3, <2>4 DEF Past
<1>7. \A i \in DOMAIN fTFBuffer[part.id] : fTFBuffer[part.id][i].src # s
  BY <1>4, <1>5 DEF BufferInv, PartsOf
<1> QED
  BY <1>2, <1>3, <1>5, <1>6, <1>7

\* The buffers after a part was received.
LEMMA ReceiveShape ==
  ASSUME BuffersOK, NEW s \in Sources, ReceivePart(s),
         NEW part \in Part, part = Head(wire[s])
  PROVE  LET old  == fTFBuffer[part.id]
             new  == fTFBuffer'[part.id]
         IN /\ part.id \in Ids
            /\ Len(old) \in Nat /\ DOMAIN old = 1 .. Len(old)
            /\ DOMAIN new = 1 .. Len(old) + 1
            /\ \A i \in DOMAIN old : new[i] = old[i]
            /\ new[Len(old) + 1] = part
            /\ \A id \in Ids \ {part.id} : fTFBuffer'[id] = fTFBuffer[id]
<1>1. part.id \in Ids
  BY DEF Part
<1>2. fTFBuffer[part.id] \in Seq(Part)
  BY <1>1 DEF BuffersOK
<1>3. fTFBuffer' = [fTFBuffer EXCEPT ![part.id] = Append(@, part)]
  BY DEF ReceivePart
<1>4. fTFBuffer'[part.id] = Append(fTFBuffer[part.id], part)
  BY <1>1, <1>3 DEF BuffersOK
<1>5. \A id \in Ids \ {part.id} : fTFBuffer'[id] = fTFBuffer[id]
  BY <1>1, <1>3 DEF BuffersOK
<1> QED
  BY <1>1, <1>2, <1>4, <1>5, LenProperties, AppendProperties

LEMMA RunStep == ASSUME [Next]_vars, ~StartRun PROVE run' = run
  BY WireCases DEF SourceSend, SourceLose, ReceivePart, DrainReceive, device

LEMMA BufferElem ==
  ASSUME BuffersOK, NEW id \in Ids
  PROVE  /\ fTFBuffer[id] \in Seq(Part)
         /\ Len(fTFBuffer[id]) \in Nat
         /\ DOMAIN fTFBuffer[id] = 1 .. Len(fTFBuffer[id])
         /\ \A i \in DOMAIN fTFBuffer[id] :
               fTFBuffer[id][i] \in Part /\ fTFBuffer[id][i].src \in Sources
  <1>1. fTFBuffer[id] \in Seq(Part)
    BY DEF BuffersOK
  <1>2. Len(fTFBuffer[id]) \in Nat /\ DOMAIN fTFBuffer[id] = 1 .. Len(fTFBuffer[id])
    BY <1>1, LenProperties
  <1>3. \A i \in DOMAIN fTFBuffer[id] : fTFBuffer[id][i] \in Part
    BY <1>1, <1>2, ElementOfSeq
  <1> QED
    BY <1>1, <1>2, <1>3 DEF Part

\* A collection of parts stays good as long as the run lasts.
LEMMA PartsOfStep ==
  ASSUME SourcesOK, WireInv, [Next]_vars, ~StartRun,
         NEW id \in Ids, NEW parts, \A i \in DOMAIN parts : parts[i].src \in Sources,
         PartsOf(id, parts)
  PROVE  PartsOf(id, parts)'
<1>1. \A i \in DOMAIN parts : Past(parts[i].src, id)'
  BY PastStep DEF PartsOf
<1> QED
  BY <1>1, RunStep DEF PartsOf

LEMMA BufferStep ==
  ASSUME SourcesOK, BuffersOK, WireInv, QuietInv, BufferInv, [Next]_vars
  PROVE  BufferInv'
<1> SUFFICES ASSUME NEW id \in Ids PROVE PartsOf(id, fTFBuffer[id])'
  BY DEF BufferInv
<1>0. PartsOf(id, fTFBuffer[id])
  BY DEF BufferInv
<1>1. CASE fTFBuffer'[id] = <<>>
  BY <1>1 DEF PartsOf
<1>2. CASE StartRun
  BY <1>1, <1>2 DEF StartRun, QuietInv, Running, buffers
<1>3. CASE ~StartRun /\ fTFBuffer'[id] = fTFBuffer[id]
  <2>1. PartsOf(id, fTFBuffer[id]) => \A parts : parts = fTFBuffer[id] => PartsOf(id, parts)'
    BY <1>3, PartsOfStep, BufferElem
  <2> QED BY <1>0, <1>3, <2>1 DEF PartsOf
<1>4. ASSUME NEW s \in Sources, ReceivePart(s), ~StartRun PROVE PartsOf(id, fTFBuffer[id])'
  <2>1. PICK p, old, new : p = Head(wire[s]) /\ old = fTFBuffer[id] /\ new = fTFBuffer'[id]
    OBVIOUS
  <2>2. /\ p \in Part /\ p.src = s /\ p.run = run
        /\ Past(s, p.id)'
        /\ \A i \in DOMAIN fTFBuffer[p.id] : fTFBuffer[p.id][i].src # s
    BY <2>1, <1>4, ReceivedIsNew
  <2>3. CASE id # p.id
    BY <1>3, <1>4, <2>1, <2>2, <2>3, ReceiveShape
  <2>4. CASE id = p.id
    <3>1. /\ Len(old) \in Nat /\ DOMAIN old = 1 .. Len(old)
          /\ DOMAIN new = 1 .. Len(old) + 1
          /\ \A i \in DOMAIN old : new[i] = old[i]
          /\ new[Len(old) + 1] = p
      <4>1. /\ Len(fTFBuffer[p.id]) \in Nat
            /\ DOMAIN fTFBuffer[p.id] = 1 .. Len(fTFBuffer[p.id])
            /\ DOMAIN fTFBuffer'[p.id] = 1 .. Len(fTFBuffer[p.id]) + 1
            /\ \A i \in DOMAIN fTFBuffer[p.id] : fTFBuffer'[p.id][i] = fTFBuffer[p.id][i]
            /\ fTFBuffer'[p.id][Len(fTFBuffer[p.id]) + 1] = p
        BY <1>4, <2>1, <2>2, ReceiveShape
      <4> QED BY <4>1, <2>1, <2>4
    <3>2. PartsOf(id, old)'
      BY <1>0, <1>4, <2>1, PartsOfStep, BufferElem
    <3>3. \A i \in DOMAIN old : old[i].src # s
      BY <2>1, <2>2, <2>4
    <3>4. run' = run
      BY <1>4, RunStep
    <3>5. \A i \in DOMAIN new : i = Len(old) + 1 \/ i \in DOMAIN old
      BY <3>1
    <3>6. \A i \in DOMAIN new : new[i].id = id /\ new[i].run = run' /\ Past(new[i].src, id)'
      BY <2>2, <2>4, <3>1, <3>2, <3>4, <3>5 DEF PartsOf
    <3>7. \A i, j \in DOMAIN new : i # j => new[i].src # new[j].src
      BY <2>2, <3>1, <3>2, <3>3, <3>5 DEF PartsOf
    <3> QED BY <2>1, <3>6, <3>7 DEF PartsOf
  <2> QED BY <2>3, <2>4
<1>5. ASSUME NEW i \in Ids, SweepComplete(i) \/ SweepExpire(i), ~StartRun
      PROVE fTFBuffer'[id] = <<>> \/ fTFBuffer'[id] = fTFBuffer[id]
  BY <1>5 DEF SweepComplete, SweepExpire, ClearBuffer, BuffersOK
<1>6. CASE LoopExit \/ DqmInterrupted
  BY <1>6, <1>1 DEF LoopExit, DqmInterrupted, LeaveRun
<1> QED
  BY BufferCases, <1>1, <1>2, <1>3, <1>4, <1>5, <1>6

LEMMA TodoStep ==
  ASSUME BuffersOK, TodoInv, [Next]_vars
  PROVE  TodoInv'
<1> USE DEF TodoInv, Waiting
<1>1. ASSUME NEW id \in Ids, SweepComplete(id) \/ SweepExpire(id) PROVE TodoInv'
  BY <1>1 DEF SweepComplete, SweepExpire, ClearBuffer, BuffersOK
<1>2. ASSUME NEW id \in Ids, SweepKeep(id) PROVE TodoInv'
  BY <1>2 DEF SweepKeep
<1>3. ASSUME NEW s \in Sources, ReceivePart(s) PROVE TodoInv'
  BY <1>3 DEF ReceivePart, BeginSweep
<1>4. CASE ReceiveNothing
  BY <1>4 DEF ReceiveNothing, BeginSweep
<1>5. CASE LoopExit \/ DqmInterrupted
  BY <1>5 DEF LoopExit, DqmInterrupted, LeaveRun
<1>6. CASE UNCHANGED <<todo, fTFBuffer>>
  BY <1>6
<1>7. \/ \E id \in Ids : SweepComplete(id) \/ SweepExpire(id) \/ SweepKeep(id)
      \/ \E s \in Sources : ReceivePart(s)
      \/ ReceiveNothing \/ LoopExit \/ DqmInterrupted
      \/ UNCHANGED <<todo, fTFBuffer>>
  BY Zenon DEF Next, Builder, Environment, Finished, Visit, SendFrame, PostRun,
     vars, device, buffers, SourceSend, SourceLose, SourceStop, OutputTake, DecimatorTake, DqmTake,
     Tick, StopRequest, StartRun, DecimateSend, DecimateSkip, DecimateDone,
     DqmSend, OutputSend, OutputBusy, OutputAbandon, DrainReceive, DrainMiss, DrainEnd
<1> QED
  BY <1>1, <1>2, <1>3, <1>4, <1>5, <1>6, <1>7

\* fNumSource parts of different sources are parts of all the sources.
LEMMA CountingIsEnough ==
  ASSUME NEW parts \in Seq(Part), Len(parts) = fNumSource,
         \A i, j \in DOMAIN parts : i # j => parts[i].src # parts[j].src
  PROVE  {parts[i].src : i \in DOMAIN parts} = Sources
<1> DEFINE n == Len(parts)
           src == [i \in 1 .. n |-> parts[i].src]
<1>1. n \in Nat /\ DOMAIN parts = 1 .. n /\ \A i \in 1 .. n : parts[i].src \in Sources
  <2>1. n \in Nat /\ DOMAIN parts = 1 .. n
    BY LenProperties
  <2>2. \A i \in 1 .. n : parts[i] \in Part
    BY <2>1, ElementOfSeq
  <2> QED BY <2>1, <2>2 DEF Part
<1>2. src \in Injection(1 .. n, Sources)
  BY <1>1 DEF Injection, IsInjective
<1>3. Cardinality(1 .. n) = n
  BY <1>1, FS_Interval
<1>4. src \in Surjection(1 .. n, Sources)
  BY <1>2, <1>3, FS_Injection, SourcesAssumption DEF fNumSource
<1>5. \A s \in Sources : \E i \in 1 .. n : src[i] = s
  BY <1>4 DEF Surjection
<1> QED
  BY <1>1, <1>5

\* A whole collection of parts leaves no source with something to come.
LEMMA WholeIsPast ==
  ASSUME NEW id \in Ids, Len(fTFBuffer[id]) = fNumSource,
         BuffersOK, BufferInv
  PROVE  /\ {fTFBuffer[id][i].src : i \in DOMAIN fTFBuffer[id]} = Sources
         /\ AllPast(id)
         /\ fTFBuffer[id] # <<>>
<1>1. {fTFBuffer[id][i].src : i \in DOMAIN fTFBuffer[id]} = Sources
  BY CountingIsEnough, BufferElem DEF BufferInv, PartsOf
<1>2. AllPast(id)
  BY <1>1 DEF BufferInv, PartsOf, AllPast
<1>3. fTFBuffer[id] # <<>>
  BY <1>1, SourcesAssumption
<1> QED BY <1>1, <1>2, <1>3

LEMMA AllPastStep ==
  ASSUME SourcesOK, WireInv, [Next]_vars, ~StartRun, NEW id \in Ids, AllPast(id)
  PROVE  AllPast(id)'
  BY PastStep DEF AllPast

\* Which actions touch the histories.
LEMMA HistoryCases ==
  ASSUME [Next]_vars
  PROVE  \/ StartRun
         \/ OutputSend
         \/ \E id \in Ids : SweepExpire(id)
         \/ UNCHANGED <<sent, discarded>>
  BY Zenon DEF Next, Builder, Environment, Finished, Visit, SendFrame, PostRun,
     vars, history, SourceSend, SourceLose, SourceStop, OutputTake, DecimatorTake, DqmTake,
     Tick, StopRequest, ReceivePart, ReceiveNothing, LoopExit, SweepComplete, SweepKeep,
     DecimateSend, DecimateSkip, DecimateDone, DqmSend, DqmInterrupted, OutputBusy,
     OutputAbandon, DrainReceive, DrainMiss, DrainEnd

\* A buffer that is empty and whose trigger is past stays empty in this run.
LEMMA EmptyStep ==
  ASSUME SourcesOK, BuffersOK, WireInv, BufferInv, [Next]_vars, ~StartRun,
         NEW id \in Ids, AllPast(id), fTFBuffer[id] = <<>>
  PROVE  fTFBuffer'[id] = <<>>
<1>1. ASSUME NEW s \in Sources, ReceivePart(s) PROVE fTFBuffer'[id] = <<>>
  <2>1. PICK p : p = Head(wire[s])
    OBVIOUS
  <2>2. p \in Part /\ ~Past(s, p.id)
    BY <1>1, <2>1, ReceivedIsNew
  <2>3. id # p.id
    BY <2>2 DEF AllPast
  <2> QED BY <1>1, <2>1, <2>2, <2>3, ReceiveShape
<1>2. ASSUME NEW i \in Ids, SweepComplete(i) \/ SweepExpire(i) PROVE fTFBuffer'[id] = <<>>
  BY <1>2 DEF SweepComplete, SweepExpire, ClearBuffer, BuffersOK
<1>3. CASE LoopExit \/ DqmInterrupted
  BY <1>3 DEF LoopExit, DqmInterrupted, LeaveRun
<1> QED
  BY BufferCases, <1>1, <1>2, <1>3

LEMMA FrameStep ==
  ASSUME TypeOK, WireInv, QuietInv, BufferInv, FrameInv, SentInv, DiscardedInv, [Next]_vars
  PROVE  FrameInv'
<1> USE DEF TypeOK
<1>1. ASSUME NEW id \in Ids, SweepComplete(id) PROVE FrameInv'
  <2>1. /\ Len(fTFBuffer[id]) = fNumSource
        /\ frame' = [id |-> id, parts |-> fTFBuffer[id]]
        /\ fTFBuffer' = [fTFBuffer EXCEPT ![id] = <<>>]
        /\ UNCHANGED <<sent, discarded, run>>
    BY <1>1 DEF SweepComplete, ClearBuffer, history
  <2>2. /\ {fTFBuffer[id][i].src : i \in DOMAIN fTFBuffer[id]} = Sources
        /\ AllPast(id)
        /\ fTFBuffer[id] # <<>>
    BY <2>1, WholeIsPast
  <2>3. Whole(frame)'
    <3>1. \A i \in DOMAIN fTFBuffer[id] : fTFBuffer[id][i].id = id /\ fTFBuffer[id][i].run = run
      BY DEF BufferInv, PartsOf
    <3>2. frame'.id = id /\ frame'.parts = fTFBuffer[id] /\ run' = run
      BY <2>1
    <3> QED BY <2>1, <2>2, <3>1, <3>2 DEF Whole, fNumSource
  <2>4. AllPast(id)'
    BY <1>1, <2>2, AllPastStep DEF SweepComplete, StartRun
  <2>5. fTFBuffer'[id] = <<>>
    BY <2>1 DEF BuffersOK
  <2>6. \A n \in DOMAIN sent : sent[n].id # id
    BY <2>2 DEF SentInv
  <2>7. id \notin discarded
    BY <2>2 DEF DiscardedInv
  <2>8. frame'.id = id /\ sent' = sent /\ discarded' = discarded
    BY <2>1
  <2>9. AllPast(frame.id)'
    BY <2>4, <2>8 DEF AllPast, Past
  <2> QED BY <2>3, <2>5, <2>6, <2>7, <2>8, <2>9 DEF FrameInv
<1>2. CASE Sending /\ UNCHANGED <<frame, sent, discarded>> /\ ~StartRun
  <2>1. frame.id \in Ids
    BY DEF DeviceOK, Frame
  <2>2. PICK id : id = frame.id
    OBVIOUS
  <2>3. AllPast(id)' /\ fTFBuffer'[id] = <<>>
    BY <1>2, <2>1, <2>2, AllPastStep, EmptyStep DEF FrameInv
  <2>4. Whole(frame)'
    BY <1>2, RunStep DEF FrameInv, Whole
  <2> QED BY <1>2, <2>2, <2>3, <2>4 DEF FrameInv, AllPast, Past
<1>3. CASE ~Sending'
  BY <1>3 DEF FrameInv
<1>4. \/ ~Sending'
      \/ \E id \in Ids : SweepComplete(id)
      \/ Sending /\ UNCHANGED <<frame, sent, discarded>> /\ ~StartRun
  <2>1. ASSUME Builder PROVE \/ ~Sending'
                             \/ \E id \in Ids : SweepComplete(id)
                             \/ Sending /\ UNCHANGED <<frame, sent, discarded>> /\ ~StartRun
    BY <2>1 DEF Builder, Visit, SendFrame, PostRun, Sending, ReceivePart, ReceiveNothing,
       BeginSweep, SweepExpire, SweepKeep, AfterVisit, LoopExit, LeaveRun, history, device,
       DecimateSend, DecimateSkip, DecimateDone, DqmSend, DqmInterrupted, OutputSend,
       OutputBusy, OutputAbandon, DrainReceive, DrainMiss, DrainEnd, StartRun
  <2>2. ASSUME Environment \/ Finished \/ UNCHANGED vars
        PROVE  \/ ~Sending'
               \/ Sending /\ UNCHANGED <<frame, sent, discarded>> /\ ~StartRun
    <3>1. CASE StartRun
      BY <3>1 DEF StartRun, Sending
    <3>2. CASE ~StartRun
      BY <2>2, <3>2 DEF Environment, Finished, vars, device, history, Sending, SourceSend,
         SourceLose, SourceStop, OutputTake, DecimatorTake, DqmTake, Tick, StopRequest
    <3> QED BY <3>1, <3>2
  <2> QED BY <2>1, <2>2 DEF Next
<1> QED
  BY <1>1, <1>2, <1>3, <1>4

LEMMA SentStep ==
  ASSUME TypeOK, WireInv, BufferInv, FrameInv, SentInv, [Next]_vars
  PROVE  SentInv'
<1> USE DEF TypeOK
<1>0. \A n \in DOMAIN sent : sent[n].id \in Ids
  <2>1. \A n \in DOMAIN sent : sent[n] \in Frame
    BY ElementOfSeq, LenProperties DEF HistoryOK
  <2> QED BY <2>1 DEF Frame
<1>1. CASE StartRun
  BY <1>1 DEF StartRun, SentInv
<1>2. ASSUME ~StartRun, NEW id \in Ids, AllPast(id), fTFBuffer[id] = <<>>
      PROVE  AllPast(id)' /\ fTFBuffer'[id] = <<>>
  BY <1>2, AllPastStep, EmptyStep
<1>3. CASE ~StartRun /\ UNCHANGED sent
  <2> SUFFICES ASSUME NEW n \in DOMAIN sent PROVE (AllPast(sent[n].id) /\ fTFBuffer[sent[n].id] = <<>>)'
    BY <1>3 DEF SentInv
  <2>1. PICK id : id = sent[n].id
    OBVIOUS
  <2>2. AllPast(id)' /\ fTFBuffer'[id] = <<>>
    BY <1>0, <1>2, <1>3, <2>1 DEF SentInv
  <2> QED BY <1>3, <2>1, <2>2 DEF AllPast, Past
<1>4. CASE OutputSend
  <2>1. ~StartRun /\ Sending /\ sent' = Append(sent, frame)
    BY <1>4 DEF OutputSend, StartRun, Sending
  <2>2. /\ DOMAIN sent = 1 .. Len(sent) /\ Len(sent) \in Nat
        /\ DOMAIN sent' = 1 .. Len(sent) + 1
        /\ \A n \in 1 .. Len(sent) : sent'[n] = sent[n]
        /\ sent'[Len(sent) + 1] = frame
    BY <2>1, LenProperties, AppendProperties DEF HistoryOK, DeviceOK
  <2> SUFFICES ASSUME NEW n \in DOMAIN sent' PROVE (AllPast(sent[n].id) /\ fTFBuffer[sent[n].id] = <<>>)'
    BY DEF SentInv
  <2>3. PICK id : id = sent'[n].id
    OBVIOUS
  <2>4. id \in Ids /\ AllPast(id) /\ fTFBuffer[id] = <<>>
    <3>1. CASE n \in DOMAIN sent
      BY <1>0, <2>2, <2>3, <3>1 DEF SentInv
    <3>2. CASE n = Len(sent) + 1
      BY <2>1, <2>2, <2>3, <3>2 DEF FrameInv, DeviceOK, Frame
    <3> QED BY <2>2, <3>1, <3>2
  <2>5. AllPast(id)' /\ fTFBuffer'[id] = <<>>
    BY <1>2, <2>1, <2>4
  <2> QED BY <2>3, <2>5 DEF AllPast, Past
<1>5. ASSUME NEW id \in Ids, SweepExpire(id) PROVE ~StartRun /\ UNCHANGED sent
  BY <1>5 DEF SweepExpire, StartRun
<1> QED
  BY <1>1, <1>3, <1>4, <1>5, HistoryCases

LEMMA DiscardedStep ==
  ASSUME TypeOK, WireInv, QuietInv, BufferInv, TodoInv, DiscardedInv, [Next]_vars
  PROVE  DiscardedInv'
<1> USE DEF TypeOK
<1> DEFINE Lost(id, s) == /\ Past(s, id)
                          /\ \A i \in DOMAIN fTFBuffer[id] : fTFBuffer[id][i].src # s
<1>1. CASE StartRun
  BY <1>1 DEF StartRun, DiscardedInv
<1>2. ASSUME ~StartRun, NEW id \in Ids, NEW s \in Sources, Lost(id, s)
      PROVE  Lost(id, s)'
  <2>1. Past(s, id)'
    BY <1>2, PastStep
  <2>2. ASSUME NEW t \in Sources, ReceivePart(t)
        PROVE \A i \in DOMAIN fTFBuffer'[id] : fTFBuffer'[id][i].src # s
    <3>1. PICK p : p = Head(wire[t])
      OBVIOUS
    <3>2. p \in Part /\ p.src = t /\ ~Past(t, p.id)
      BY <2>2, <3>1, ReceivedIsNew
    <3>3. CASE id # p.id
      BY <1>2, <2>2, <3>1, <3>2, <3>3, ReceiveShape
    <3>4. CASE id = p.id
      <4>1. t # s
        BY <1>2, <3>2, <3>4
      <4>2. /\ Len(fTFBuffer[p.id]) \in Nat
            /\ DOMAIN fTFBuffer[p.id] = 1 .. Len(fTFBuffer[p.id])
            /\ DOMAIN fTFBuffer'[p.id] = 1 .. Len(fTFBuffer[p.id]) + 1
            /\ \A i \in DOMAIN fTFBuffer[p.id] : fTFBuffer'[p.id][i] = fTFBuffer[p.id][i]
            /\ fTFBuffer'[p.id][Len(fTFBuffer[p.id]) + 1] = p
        BY <2>2, <3>1, <3>2, ReceiveShape
      <4>3. \A i \in DOMAIN fTFBuffer'[id] : i = Len(fTFBuffer[id]) + 1 \/ i \in DOMAIN fTFBuffer[id]
        BY <4>2, <3>4
      <4> QED BY <1>2, <3>2, <3>4, <4>1, <4>2, <4>3
    <3> QED BY <3>3, <3>4
  <2>3. ASSUME NEW i \in Ids, SweepComplete(i) \/ SweepExpire(i)
        PROVE fTFBuffer'[id] = <<>> \/ fTFBuffer'[id] = fTFBuffer[id]
    BY <2>3 DEF SweepComplete, SweepExpire, ClearBuffer, BuffersOK
  <2>4. CASE LoopExit \/ DqmInterrupted
    BY <2>4, <2>1 DEF LoopExit, DqmInterrupted, LeaveRun
  <2> QED BY <1>2, <2>1, <2>2, <2>3, <2>4, BufferCases
<1>3. CASE ~StartRun /\ UNCHANGED discarded
  BY <1>2, <1>3 DEF DiscardedInv, HistoryOK
<1>4. ASSUME NEW id \in Ids, SweepExpire(id) PROVE DiscardedInv'
  <2>1. /\ fTFBuffer[id] # <<>> /\ fTFBuffer'[id] = <<>>
        /\ discarded' = discarded \union {id} /\ ~StartRun
    BY <1>4 DEF SweepExpire, ClearBuffer, TodoInv, Waiting, BuffersOK, StartRun
  <2>2. 1 \in DOMAIN fTFBuffer[id]
    BY <2>1, BufferElem, EmptySeq
  <2>3. PICK s \in Sources : Past(s, id)
    BY <2>2, BufferElem DEF BufferInv, PartsOf
  <2>4. Lost(id, s)'
    BY <2>1, <2>3, PastStep
  <2> QED BY <1>2, <2>1, <2>4 DEF DiscardedInv, HistoryOK
<1>5. CASE OutputSend
  BY <1>3, <1>5 DEF OutputSend, StartRun
<1> QED
  BY <1>1, <1>3, <1>4, <1>5, HistoryCases

LEMMA ClaimsStep ==
  ASSUME TypeOK, FrameInv, SentInv, TodoInv, Claims, [Next]_vars
  PROVE  Claims'
<1> USE DEF TypeOK, Claims
<1>1. CASE StartRun
  BY <1>1 DEF StartRun, FramesWhole, SentOnce, DiscardedNotSent
<1>2. CASE ~StartRun /\ UNCHANGED <<sent, discarded>>
  BY <1>2, RunStep DEF FramesWhole, SentOnce, DiscardedNotSent, Whole
<1>3. ASSUME NEW id \in Ids, SweepExpire(id) PROVE Claims'
  <2>1. fTFBuffer[id] # <<>> /\ sent' = sent /\ discarded' = discarded \union {id} /\ run' = run
    BY <1>3 DEF SweepExpire, TodoInv, Waiting
  <2>2. \A n \in DOMAIN sent : sent[n].id # id
    BY <2>1 DEF SentInv
  <2> QED BY <2>1, <2>2 DEF FramesWhole, SentOnce, DiscardedNotSent, Whole
<1>4. CASE OutputSend
  <2>1. Sending /\ sent' = Append(sent, frame) /\ UNCHANGED <<discarded, run>>
    BY <1>4 DEF OutputSend, Sending
  <2>2. /\ DOMAIN sent = 1 .. Len(sent) /\ Len(sent) \in Nat
        /\ DOMAIN sent' = 1 .. Len(sent) + 1
        /\ \A n \in 1 .. Len(sent) : sent'[n] = sent[n]
        /\ sent'[Len(sent) + 1] = frame
    BY <2>1, LenProperties, AppendProperties DEF HistoryOK, DeviceOK
  <2>3. \A n \in DOMAIN sent' : n \in DOMAIN sent \/ n = Len(sent) + 1
    BY <2>2
  <2>4. FramesWhole'
    BY <2>1, <2>2, <2>3 DEF FramesWhole, FrameInv, Whole
  <2>5. SentOnce'
    BY <2>1, <2>2, <2>3 DEF SentOnce, FrameInv
  <2>6. DiscardedNotSent'
    BY <2>1, <2>2, <2>3 DEF DiscardedNotSent, FrameInv
  <2> QED BY <2>4, <2>5, <2>6
<1> QED
  BY <1>1, <1>2, <1>3, <1>4, HistoryCases

-----------------------------------------------------------------------------
(* The theorems. *)

LEMMA InitIInv == Init => IInv
  BY SourcesAssumption DEF Init, IInv, WireInv, QuietInv, BufferInv, PartsOf, TodoInv,
     FrameInv, Sending, SentInv, DiscardedInv, Claims, FramesWhole, SentOnce, DiscardedNotSent

LEMMA IInvStep == TypeOK /\ IInv /\ [Next]_vars => IInv'
  BY WireStep, QuietStep, BufferStep, TodoStep, FrameStep, SentStep, DiscardedStep, ClaimsStep
  DEF IInv, TypeOK

LEMMA Invariance == Spec => []IInv
  BY InitIInv, IInvStep, TypeCorrect, PTL DEF Spec

\* Every frame the builder sends has exactly one part of every front end, all
\* of the frame's trigger and of the current run.
THEOREM FramesAreWhole == Spec => []FramesWhole
  BY Invariance, PTL DEF IInv, Claims

\* No trigger leads to two frames in a run.
THEOREM FramesAreSentOnce == Spec => []SentOnce
  BY Invariance, PTL DEF IInv, Claims

\* A trigger that was timed out is never sent, although its late parts are
\* taken in again.
THEOREM DiscardedStaysUnsent == Spec => []DiscardedNotSent
  BY Invariance, PTL DEF IInv, Claims

-----------------------------------------------------------------------------
(* Counting the frames that are sampled. *)

LEMMA Division ==
  ASSUME NEW a \in Nat, NEW n \in Nat \ {0}
  PROVE  /\ a % n \in 0 .. n - 1 /\ a \div n \in Nat
         /\ a = n * (a \div n) + (a % n)
<1>1. a % n \in 0 .. n - 1
  OBVIOUS
<1>2. a \div n \in Nat
  OBVIOUS
<1>3. a = n * (a \div n) + (a % n)
  OBVIOUS
<1> QED BY <1>1, <1>2, <1>3

LEMMA DivisionUnique ==
  ASSUME NEW n \in Nat \ {0}, NEW p \in Int, NEW q \in Int,
         NEW r \in 0 .. n - 1, NEW s \in 0 .. n - 1, n * p + r = n * q + s
  PROVE  p = q /\ r = s
<1>1. CASE p = q
  BY <1>1
<1>2. CASE p > q
  <2>1. p - q >= 1 /\ n * (p - q) = s - r
    BY <1>2
  <2>2. n * (p - q) >= n
    BY <2>1
  <2> QED BY <2>1, <2>2
<1>3. CASE p < q
  <2>1. q - p >= 1 /\ n * (q - p) = r - s
    BY <1>3
  <2>2. n * (q - p) >= n
    BY <2>1
  <2> QED BY <2>1, <2>2
<1> QED BY <1>1, <1>2, <1>3

\* Of the first n frames every d-th, starting with number o, is sampled; these are so many.
Quota(n, d, o) == (n + d - 1 - o) \div d

LEMMA QuotaBounds ==
  ASSUME NEW n \in Nat, NEW d \in Nat \ {0}, NEW o \in 0 .. d - 1
  PROVE  /\ Quota(n, d, o) \in Nat
         /\ \A r \in 1 .. Quota(n, d, o) : (r - 1) * d + o + 1 \in 1 .. n
<1>1. PICK a \in Nat : a = n + d - 1 - o
  OBVIOUS
<1>2. PICK c : c = a \div d
  OBVIOUS
<1>3. c \in Nat /\ a = d * c + (a % d) /\ a % d \in 0 .. d - 1
  BY <1>2, Division
<1>5. c = Quota(n, d, o)
  BY <1>1, <1>2 DEF Quota
<1>4. ASSUME NEW r \in 1 .. c PROVE (r - 1) * d + o + 1 \in 1 .. n
  <2>1. r - 1 \in Nat /\ c - r \in Nat
    BY <1>3
  <2>2. (r - 1) * d \in Nat /\ d * (c - r) \in Nat
    BY <2>1
  <2>3. d * c = (r - 1) * d + d * (c - r) + d
    BY <1>3, <2>1
  <2>4. d * c <= a
    BY <1>3
  <2>5. (r - 1) * d + d <= a
    BY <2>2, <2>3, <2>4
  <2> QED BY <1>1, <2>2, <2>5
<1> QED BY <1>3, <1>4, <1>5

LEMMA QuotaStep ==
  ASSUME NEW n \in Nat, NEW d \in Nat \ {0}, NEW o \in 0 .. d - 1
  PROVE  /\ n % d = o => /\ Quota(n + 1, d, o) = Quota(n, d, o) + 1
                         /\ Quota(n, d, o) * d + o = n
         /\ n % d # o => Quota(n + 1, d, o) = Quota(n, d, o)
<1>1. n + d - 1 - o \in Nat /\ n + 1 + d - 1 - o \in Nat
  OBVIOUS
<1>2. PICK c \in Nat, b \in 0 .. d - 1 : c = Quota(n, d, o) /\ n + d - 1 - o = d * c + b
  BY <1>1, Division DEF Quota
<1>3. PICK e \in Nat, f \in 0 .. d - 1 : e = Quota(n + 1, d, o) /\ n + 1 + d - 1 - o = d * e + f
  BY <1>1, Division DEF Quota
<1>4. PICK q \in Nat, r \in 0 .. d - 1 : r = n % d /\ n = d * q + r
  BY Division
<1>5. CASE b = d - 1
  <2>1. d * (c + 1) = d * c + d
    OBVIOUS
  <2>2. d * e + f = d * (c + 1) + 0
    BY <1>2, <1>3, <1>5, <2>1
  <2>3. 0 \in 0 .. d - 1 /\ c + 1 \in Int /\ e \in Int
    OBVIOUS
  <2>4. e = c + 1
    BY <2>2, <2>3, DivisionUnique
  <2>5. n = d * c + o
    BY <1>2, <1>5
  <2>6. r = o
    <3>1. d * q + r = d * c + o
      BY <1>4, <2>5
    <3> QED BY <3>1, DivisionUnique
  <2> QED BY <1>2, <1>3, <1>4, <2>4, <2>5, <2>6
<1>6. CASE b # d - 1
  <2>1. b + 1 \in 0 .. d - 1
    BY <1>6
  <2>2. d * e + f = d * c + (b + 1)
    <3>1. PICK x \in Int : x = d * e
      OBVIOUS
    <3>2. PICK y \in Int : y = d * c
      OBVIOUS
    <3>3. n + d - 1 - o = y + b /\ n + 1 + d - 1 - o = x + f
      BY <1>2, <1>3, <3>1, <3>2
    <3>4. x + f = y + (b + 1)
      BY <3>3
    <3> QED BY <3>1, <3>2, <3>4
  <2>3. e = c
    <3>1. PICK g \in 0 .. d - 1 : g = b + 1
      BY <2>1
    <3>2. d * e + f = d * c + g
      BY <2>2, <3>1
    <3> QED BY <3>2, DivisionUnique
  <2>4. r # o
    <3>1. SUFFICES ASSUME r = o PROVE FALSE
      OBVIOUS
    <3>2. PICK g \in 0 .. d - 1 : g = d - 1
      OBVIOUS
    <3>3. d * q + g = d * c + b
      BY <1>2, <1>4, <3>1, <3>2
    <3>4. b = g
      BY <3>3, DivisionUnique
    <3> QED BY <1>6, <3>2, <3>4
  <2> QED BY <1>2, <1>3, <1>4, <2>3, <2>4
<1> QED BY <1>5, <1>6

-----------------------------------------------------------------------------
(* Decimation. *)

Decimating == NumDecimator > 0 /\ DecimationFactor > 0

\* What a sub-channel has: what it is to get, or, if it was served already, the
\* frame in hand as well.
UpToDate(k) == decimated[k] = Sampled
Ahead(k) == decimated[k] = Append(Sampled, frame.id)
AheadByOne(k) ==
    /\ Len(decimated[k]) = Len(Sampled) + 1
    /\ SubSeq(decimated[k], 1, Len(Sampled)) = Sampled

DecimationInv ==
    /\ fNumSend = Len(sent)
    /\ Decimating => \A k \in SubChannels :
        /\ ~stopReq /\ pc \notin {"Decimate", "Dqm", "Output"} => UpToDate(k)
        /\ ~stopReq /\ pc = "Decimate" =>
            IsDecimated /\ IF k < iSub THEN Ahead(k) ELSE UpToDate(k)
        /\ ~stopReq /\ pc \in {"Dqm", "Output"} =>
            IF IsDecimated THEN Ahead(k) ELSE UpToDate(k)
        /\ stopReq => UpToDate(k) \/ AheadByOne(k)

LEMMA OffsetInRange ==
  ASSUME Decimating
  PROVE  DecimationFactor \in Nat \ {0} /\ fDecimationOffset \in 0 .. DecimationFactor - 1
  BY BoundsAssumption DEF Decimating, fDecimationOffset

LEMMA SampledShape ==
  ASSUME HistoryOK, Decimating
  PROVE  /\ Len(Sampled) = Quota(Len(sent), DecimationFactor, fDecimationOffset)
         /\ Sampled \in Seq(Ids)
<1>1. PICK q \in Seq(Frame) : q = sent
  BY DEF HistoryOK
<1>10. PICK d \in Nat \ {0} : d = DecimationFactor
  BY OffsetInRange
<1>11. PICK o \in 0 .. d - 1 : o = fDecimationOffset
  BY <1>10, OffsetInRange
<1>12. PICK n \in Nat : n = Len(q)
  BY LenProperties
<1>2. PICK c \in Nat : c = Quota(n, d, o)
  BY QuotaBounds
<1>3. \A r \in 1 .. c : (r - 1) * d + o + 1 \in 1 .. Len(q)
  BY <1>2, <1>12, QuotaBounds
<1>4. Sampled = [r \in 1 .. c |-> q[(r - 1) * d + o + 1].id]
  BY <1>1, <1>2, <1>10, <1>11, <1>12 DEF Sampled, Quota
<1>5. \A r \in 1 .. c : q[(r - 1) * d + o + 1].id \in Ids
  <2>1. \A i \in 1 .. Len(q) : q[i] \in Frame
    BY ElementOfSeq
  <2> QED BY <1>3, <2>1 DEF Frame
<1>6. Sampled \in [1 .. c -> Ids]
  BY <1>4, <1>5
<1>7. Sampled \in Seq(Ids)
  BY <1>6
<1>8. DOMAIN Sampled = 1 .. c
  BY <1>4
<1>9. Len(Sampled) = c
  BY <1>7, <1>8, LenProperties
<1> QED BY <1>1, <1>2, <1>7, <1>9, <1>10, <1>11, <1>12

\* A frame that is sent is added if it was to be decimated.
LEMMA SampledStep ==
  ASSUME DeviceOK, HistoryOK, HistoryOK', Decimating,
         fNumSend = Len(sent), sent' = Append(sent, frame)
  PROVE  Sampled' = IF IsDecimated THEN Append(Sampled, frame.id) ELSE Sampled
<1>1. PICK q \in Seq(Frame) : q = sent
  BY DEF HistoryOK
<1>2. PICK f \in Frame : f = frame
  BY DEF DeviceOK
<1>3. PICK d \in Nat \ {0} : d = DecimationFactor
  BY OffsetInRange
<1>4. PICK o \in 0 .. d - 1 : o = fDecimationOffset
  BY <1>3, OffsetInRange
<1>5. PICK n \in Nat : n = Len(q)
  BY LenProperties
<1>6. PICK c \in Nat : c = Quota(n, d, o)
  BY QuotaBounds
<1>7. \A r \in 1 .. c : (r - 1) * d + o + 1 \in 1 .. n
  BY <1>6, QuotaBounds
<1>8. PICK t : t = Append(q, f)
  OBVIOUS
<1>9. /\ Len(t) = n + 1 /\ t[n + 1] = f
      /\ \A i \in 1 .. n : t[i] = q[i]
  BY <1>5, <1>8, AppendProperties
<1>10. PICK b \in Seq(Ids) : b = Sampled /\ Len(b) = c
  BY <1>1, <1>3, <1>4, <1>5, <1>6, SampledShape
<1>11. \A r \in 1 .. c : b[r] = q[(r - 1) * d + o + 1].id
  <2>1. Sampled = [r \in 1 .. c |-> q[(r - 1) * d + o + 1].id]
    BY <1>1, <1>3, <1>4, <1>5, <1>6 DEF Sampled, Quota
  <2> QED BY <1>10, <2>1
<1>12. sent' = t
  BY <1>1, <1>2, <1>8
<1>13. IsDecimated <=> n % d = o
  BY <1>1, <1>3, <1>4, <1>5 DEF IsDecimated, Decimating
<1>14. CASE n % d = o
  <2>1. Quota(n + 1, d, o) = c + 1 /\ c * d + o = n
    BY <1>6, <1>14, QuotaStep
  <2>2. Sampled' = [r \in 1 .. c + 1 |-> t[(r - 1) * d + o + 1].id]
    BY <1>3, <1>4, <1>9, <1>12, <2>1 DEF Sampled, Quota, fDecimationOffset
  <2>3. PICK x \in Ids : x = f.id
    BY DEF Frame
  <2>4. PICK a \in Seq(Ids) : a = Append(b, x)
    BY AppendProperties
  <2>5. Len(a) = c + 1 /\ a[c + 1] = x /\ \A r \in 1 .. c : a[r] = b[r]
    BY <1>10, <2>4, AppendProperties
  <2>6. \A r \in 1 .. c + 1 : a[r] = t[(r - 1) * d + o + 1].id
    <3> SUFFICES ASSUME NEW r \in 1 .. c + 1 PROVE a[r] = t[(r - 1) * d + o + 1].id
      OBVIOUS
    <3>1. CASE r = c + 1
      <4>1. (r - 1) * d + o + 1 = n + 1
        BY <2>1, <3>1
      <4> QED BY <1>9, <2>3, <2>5, <3>1, <4>1
    <3>2. CASE r # c + 1
      <4>1. r \in 1 .. c
        BY <3>2
      <4>2. (r - 1) * d + o + 1 \in 1 .. n
        BY <1>7, <4>1
      <4>3. t[(r - 1) * d + o + 1] = q[(r - 1) * d + o + 1]
        BY <1>9, <4>2
      <4> QED BY <1>11, <2>5, <4>1, <4>3
    <3> QED BY <3>1, <3>2
  <2>7. a = [r \in 1 .. c + 1 |-> t[(r - 1) * d + o + 1].id]
    <3>1. a = [r \in 1 .. c + 1 |-> a[r]]
      BY <2>5, LenProperties
    <3> QED BY <2>6, <3>1
  <2> QED BY <1>2, <1>10, <1>13, <1>14, <2>2, <2>3, <2>4, <2>7
<1>15. CASE n % d # o
  <2>1. Quota(n + 1, d, o) = c
    BY <1>6, <1>15, QuotaStep
  <2>2. Sampled' = [r \in 1 .. c |-> t[(r - 1) * d + o + 1].id]
    BY <1>3, <1>4, <1>9, <1>12, <2>1 DEF Sampled, Quota, fDecimationOffset
  <2>3. \A r \in 1 .. c : b[r] = t[(r - 1) * d + o + 1].id
    BY <1>7, <1>9, <1>11
  <2>4. b = [r \in 1 .. c |-> b[r]]
    BY <1>10, LenProperties
  <2>5. b = [r \in 1 .. c |-> t[(r - 1) * d + o + 1].id]
    BY <2>3, <2>4
  <2> QED BY <1>10, <1>13, <1>15, <2>2, <2>5
<1> QED BY <1>14, <1>15

LEMMA AheadIsByOne ==
  ASSUME HistoryOK, DeviceOK, Decimating, NEW k \in SubChannels, Ahead(k)
  PROVE  AheadByOne(k)
<1>1. PICK b \in Seq(Ids) : b = Sampled
  BY SampledShape
<1>2. PICK x \in Ids : x = frame.id
  BY DEF DeviceOK, Frame
<1>3. PICK a \in Seq(Ids) : a = Append(b, x)
  BY AppendProperties
<1>4. Len(b) \in Nat /\ Len(a) = Len(b) + 1 /\ \A i \in 1 .. Len(b) : a[i] = b[i]
  BY <1>3, LenProperties, AppendProperties
<1>5. PICK n \in Nat : n = Len(b)
  BY <1>4
<1>6. \A i \in 1 .. n : a[i] \in Ids
  BY <1>4, <1>5, ElementOfSeq
<1>7. PICK z : z = SubSeq(a, 1, n)
  OBVIOUS
<1>8. 1 \in Int /\ n \in Int
  OBVIOUS
<1>9. /\ z \in Seq(Ids)
      /\ Len(z) = IF 1 <= n THEN n - 1 + 1 ELSE 0
      /\ \A i \in 1 .. n - 1 + 1 : z[i] = a[1 + i - 1]
  BY <1>6, <1>7, <1>8, SubSeqProperties
<1>10. Len(z) = n
  BY <1>9
<1>11. \A i \in 1 .. n : z[i] = b[i]
  <2> SUFFICES ASSUME NEW i \in 1 .. n PROVE z[i] = b[i]
    OBVIOUS
  <2>1. i \in 1 .. n - 1 + 1 /\ 1 + i - 1 = i
    OBVIOUS
  <2> QED BY <1>4, <1>5, <1>9, <2>1
<1>12. z = b
  BY <1>5, <1>9, <1>10, <1>11, SeqEqual
<1>13. decimated[k] = a
  BY <1>1, <1>2, <1>3 DEF Ahead
<1> QED BY <1>1, <1>4, <1>5, <1>7, <1>12, <1>13 DEF AheadByOne

Quiet == pc \notin {"Decimate", "Dqm", "Output"}

LEMMA DecimationCases ==
  ASSUME [Next]_vars
  PROVE  \/ StartRun \/ OutputSend \/ DecimateSend \/ StopRequest
         \/ \E id \in Ids : SweepComplete(id)
         \/ DecimateDone \/ DqmSend
         \/ /\ UNCHANGED <<sent, decimated, fNumSend, stopReq>>
            /\ \/ stopReq
               \/ Quiet /\ Quiet'
               \/ UNCHANGED <<pc, iSub, frame>>
<1>1. CASE \/ LoopExit \/ DecimateSkip \/ DqmInterrupted \/ OutputAbandon
  BY <1>1 DEF LoopExit, DecimateSkip, DqmInterrupted, OutputAbandon, LeaveRun, history
<1>2. CASE \/ ReceiveNothing \/ DrainMiss \/ DrainEnd
           \/ \E s \in Sources : ReceivePart(s) \/ DrainReceive(s)
           \/ \E id \in Ids : SweepExpire(id) \/ SweepKeep(id)
  BY <1>2 DEF ReceiveNothing, DrainMiss, DrainEnd, ReceivePart, DrainReceive, SweepExpire,
     SweepKeep, BeginSweep, AfterVisit, Quiet, history, device
<1>3. CASE \/ OutputBusy \/ DqmTake \/ Tick \/ UNCHANGED vars
           \/ \E s \in Sources : SourceSend(s) \/ SourceLose(s) \/ SourceStop(s)
           \/ \E e \in Outputs : OutputTake(e)
           \/ \E k \in SubChannels : DecimatorTake(k)
  BY <1>3 DEF OutputBusy, DqmTake, Tick, SourceSend, SourceLose, SourceStop, OutputTake,
     DecimatorTake, vars, device, history
<1> QED BY <1>1, <1>2, <1>3 DEF Next, Builder, Environment, Finished, Visit, SendFrame, PostRun

LEMMA SampledKept == ASSUME UNCHANGED sent PROVE UNCHANGED Sampled
  BY DEF Sampled, fDecimationOffset

LEMMA DecimationStep ==
  ASSUME TypeOK, TypeOK', DecimationInv, [Next]_vars PROVE DecimationInv'
<1> USE DEF TypeOK
<1>1. CASE StartRun
  <2>1. sent' = <<>> /\ fNumSend' = 0 /\ stopReq' = FALSE /\ pc' = "Recv"
        /\ decimated' = [k \in SubChannels |-> <<>>]
    BY <1>1 DEF StartRun
  <2>2. Len(sent') = 0
    BY <2>1, EmptySeq
  <2>3. ASSUME Decimating PROVE Sampled' = <<>>
    <3>1. PICK d \in Nat \ {0}, o \in Nat : o \in 0 .. d - 1 /\ d = DecimationFactor /\ o = fDecimationOffset
      BY <2>3, OffsetInRange
    <3>2. Quota(0, d, o) = 0
      <4>1. Quota(0, d, o) \in Nat /\ \A r \in 1 .. Quota(0, d, o) : (r - 1) * d + o + 1 \in 1 .. 0
        BY <3>1, QuotaBounds
      <4>2. PICK c \in Nat : c = Quota(0, d, o)
        BY <4>1
      <4>3. \A r \in 1 .. c : FALSE
        BY <4>1, <4>2
      <4>4. 1 \notin 1 .. c
        BY <4>3
      <4> QED BY <4>2, <4>4
    <3>3. (Len(sent') + DecimationFactor - 1 - fDecimationOffset) \div DecimationFactor = 0
      BY <2>2, <3>1, <3>2 DEF Quota
    <3>4. Sampled' \in Seq(Ids) /\ Len(Sampled') = 0
      <4>1. Sampled' = [r \in 1 .. 0 |-> sent'[(r - 1) * DecimationFactor + fDecimationOffset + 1].id]
        BY <3>3 DEF Sampled, fDecimationOffset
      <4> QED BY <4>1
    <3> QED BY <3>4, EmptySeq
  <2>4. ASSUME Decimating, NEW k \in SubChannels PROVE UpToDate(k)'
    BY <2>1, <2>3, <2>4 DEF UpToDate
  <2> QED BY <2>1, <2>2, <2>4 DEF DecimationInv, Decimating
<1>2. CASE OutputSend
  <2>1. /\ pc = "Output" /\ ~stopReq /\ ~stopReq' /\ sent' = Append(sent, frame)
        /\ fNumSend' = fNumSend + 1 /\ decimated' = decimated /\ pc' \in {"Recv", "Sweep"}
    BY <1>2 DEF OutputSend, AfterVisit
  <2>2. Len(sent') = Len(sent) + 1
    BY <2>1, AppendProperties DEF HistoryOK, DeviceOK
  <2>3. ASSUME Decimating, NEW k \in SubChannels PROVE UpToDate(k)'
    <3>1. Sampled' = IF IsDecimated THEN Append(Sampled, frame.id) ELSE Sampled
      BY <2>1, <2>3, SampledStep DEF DecimationInv
    <3>2. IF IsDecimated THEN Ahead(k) ELSE UpToDate(k)
      BY <2>1, <2>3 DEF DecimationInv
    <3> QED BY <2>1, <3>1, <3>2 DEF Ahead, UpToDate
  <2> QED BY <2>1, <2>2, <2>3 DEF DecimationInv, Decimating
<1>3. CASE DecimateSend
  <2>1. /\ pc = "Decimate" /\ pc' = pc /\ ~stopReq /\ ~stopReq' /\ UNCHANGED <<sent, fNumSend, frame>>
        /\ iSub' = iSub + 1
        /\ decimated' = [decimated EXCEPT ![iSub] = Append(@, frame.id)]
    BY <1>3 DEF DecimateSend
  <2>2. Sampled' = Sampled
    BY <2>1, SampledKept
  <2>3. ASSUME Decimating, NEW k \in SubChannels
        PROVE IsDecimated' /\ IF k < iSub' THEN Ahead(k)' ELSE UpToDate(k)'
    <3>1. IsDecimated /\ IF k < iSub THEN Ahead(k) ELSE UpToDate(k)
      BY <2>1, <2>3 DEF DecimationInv
    <3>2. IsDecimated'
      BY <2>1, <3>1 DEF IsDecimated, fDecimationOffset
    <3>3. decimated'[k] = IF k = iSub THEN Append(decimated[k], frame.id) ELSE decimated[k]
      BY <2>1 DEF HistoryOK
    <3>4. k \in Nat /\ iSub \in Nat
      BY DEF DeviceOK, SubChannels
    <3>5. CASE k < iSub
      <4>1. k < iSub' /\ decimated'[k] = decimated[k]
        BY <2>1, <3>3, <3>4, <3>5
      <4>2. Ahead(k)'
        BY <2>1, <2>2, <3>1, <3>5, <4>1 DEF Ahead
      <4> QED BY <3>2, <4>1, <4>2
    <3>6. CASE k = iSub
      <4>1. k < iSub' /\ decimated'[k] = Append(decimated[k], frame.id) /\ UpToDate(k)
        BY <2>1, <3>1, <3>3, <3>4, <3>6
      <4>2. Ahead(k)'
        BY <2>1, <2>2, <4>1 DEF Ahead, UpToDate
      <4> QED BY <3>2, <4>1, <4>2
    <3>7. CASE k > iSub
      <4>1. ~(k < iSub') /\ decimated'[k] = decimated[k] /\ UpToDate(k)
        BY <2>1, <3>1, <3>3, <3>4, <3>7
      <4>2. UpToDate(k)'
        BY <2>2, <4>1 DEF UpToDate
      <4> QED BY <3>2, <4>1, <4>2
    <3> QED BY <3>4, <3>5, <3>6, <3>7
  <2> QED BY <2>1, <2>3 DEF DecimationInv, Decimating
<1>4. CASE StopRequest
  <2>1. /\ ~stopReq /\ stopReq' /\ UNCHANGED <<pc, sent, fNumSend, frame, decimated, iSub>>
    BY <1>4 DEF StopRequest, history
  <2>2. Sampled' = Sampled
    BY <2>1, SampledKept
  <2>3. ASSUME Decimating, NEW k \in SubChannels PROVE UpToDate(k)' \/ AheadByOne(k)'
    <3>1. UpToDate(k) \/ Ahead(k)
      BY <2>1, <2>3 DEF DecimationInv
    <3>2. UpToDate(k) \/ AheadByOne(k)
      BY <2>3, <3>1, AheadIsByOne
    <3> QED BY <2>1, <2>2, <3>2 DEF UpToDate, AheadByOne
  <2> QED BY <2>1, <2>3 DEF DecimationInv, Decimating
<1>5. ASSUME NEW id \in Ids, SweepComplete(id) PROVE DecimationInv'
  <2>1. /\ pc = "Sweep" /\ iSub' = 1 /\ UNCHANGED <<stopReq, sent, fNumSend, decimated>>
        /\ IF IsDecimated THEN pc' = "Decimate" ELSE pc' \in {"Dqm", "Output"}
    BY <1>5 DEF SweepComplete, AfterDecimation, history
  <2>2. Sampled' = Sampled
    BY <2>1, SampledKept
  <2>3. IsDecimated' <=> IsDecimated
    BY <2>1 DEF IsDecimated, fDecimationOffset
  <2>4. ASSUME Decimating, NEW k \in SubChannels
        PROVE  /\ ~stopReq => UpToDate(k)'
               /\ stopReq => UpToDate(k)' \/ AheadByOne(k)'
               /\ ~(k < iSub')
    <3>1. k >= 1 /\ ~(k < 1)
      BY DEF SubChannels
    <3>2. /\ ~stopReq => UpToDate(k)
          /\ stopReq => UpToDate(k) \/ AheadByOne(k)
      BY <2>1, <2>4 DEF DecimationInv
    <3>3. UpToDate(k) => UpToDate(k)'
      BY <2>1, <2>2 DEF UpToDate
    <3>4. AheadByOne(k) => AheadByOne(k)'
      BY <2>1, <2>2 DEF AheadByOne
    <3> QED BY <2>1, <3>1, <3>2, <3>3, <3>4
  <2> QED BY <2>1, <2>3, <2>4 DEF DecimationInv, Decimating
<1>6. CASE DecimateDone \/ DqmSend
  <2>1. /\ pc = "Decimate" => iSub > NumDecimator
        /\ pc \in {"Decimate", "Dqm"} /\ pc' \in {"Dqm", "Output"}
        /\ UNCHANGED <<stopReq, sent, fNumSend, decimated, frame>>
    BY <1>6 DEF DecimateDone, DqmSend, AfterDecimation, history
  <2>2. Sampled' = Sampled
    BY <2>1, SampledKept
  <2>3. IsDecimated' <=> IsDecimated
    BY <2>1 DEF IsDecimated, fDecimationOffset
  <2>4. ASSUME Decimating, NEW k \in SubChannels
        PROVE  /\ ~stopReq => IF IsDecimated THEN Ahead(k)' ELSE UpToDate(k)'
               /\ stopReq => UpToDate(k)' \/ AheadByOne(k)'
    <3>1. k \in Nat /\ iSub \in Nat /\ k <= NumDecimator /\ NumDecimator \in Nat
      BY BoundsAssumption DEF SubChannels, DeviceOK
    <3>2. pc = "Decimate" => k < iSub
      BY <2>1, <3>1
    <3>3. /\ ~stopReq => IF IsDecimated THEN Ahead(k) ELSE UpToDate(k)
          /\ stopReq => UpToDate(k) \/ AheadByOne(k)
      BY <2>1, <2>4, <3>2 DEF DecimationInv
    <3>4. UpToDate(k) => UpToDate(k)'
      BY <2>1, <2>2 DEF UpToDate
    <3>5. Ahead(k) => Ahead(k)'
      BY <2>1, <2>2 DEF Ahead
    <3>6. AheadByOne(k) => AheadByOne(k)'
      BY <2>1, <2>2 DEF AheadByOne
    <3> QED BY <3>3, <3>4, <3>5, <3>6
  <2> QED BY <2>1, <2>3, <2>4 DEF DecimationInv, Decimating
<1>7. CASE /\ UNCHANGED <<sent, decimated, fNumSend, stopReq>>
           /\ \/ stopReq
              \/ Quiet /\ Quiet'
              \/ UNCHANGED <<pc, iSub, frame>>
  <2>1. Sampled' = Sampled
    BY <1>7, SampledKept
  <2>2. IsDecimated' <=> IsDecimated
    BY <1>7 DEF IsDecimated, fDecimationOffset
  <2>3. ASSUME NEW k \in SubChannels
        PROVE  /\ UpToDate(k)' = UpToDate(k) /\ AheadByOne(k)' = AheadByOne(k)
               /\ frame' = frame => Ahead(k)' = Ahead(k)
    BY <1>7, <2>1 DEF UpToDate, Ahead, AheadByOne
  <2> QED BY <1>7, <2>2, <2>3 DEF DecimationInv, Decimating, Quiet
<1> QED BY <1>1, <1>2, <1>3, <1>4, <1>5, <1>6, <1>7, DecimationCases

LEMMA DecimationInit == Init => DecimationInv
<1> SUFFICES ASSUME Init PROVE DecimationInv
  OBVIOUS
<1>1. sent = <<>> /\ fNumSend = 0 /\ stopReq = FALSE /\ pc = "Ready"
      /\ decimated = [k \in SubChannels |-> <<>>]
  BY DEF Init
<1>2. Len(sent) = 0
  BY <1>1, EmptySeq
<1>3. ASSUME Decimating PROVE Sampled = <<>>
  <2>1. HistoryOK
    BY InitTypeOK DEF TypeOK
  <2>2. Len(Sampled) = Quota(0, DecimationFactor, fDecimationOffset) /\ Sampled \in Seq(Ids)
    BY <1>2, <1>3, <2>1, SampledShape
  <2>3. PICK d \in Nat \ {0}, o \in Nat : o \in 0 .. d - 1 /\ d = DecimationFactor /\ o = fDecimationOffset
    BY <1>3, OffsetInRange
  <2>4. PICK c \in Nat : c = Quota(0, d, o) /\ \A r \in 1 .. c : (r - 1) * d + o + 1 \in 1 .. 0
    BY <2>3, QuotaBounds
  <2>5. 1 \notin 1 .. c
    BY <2>4
  <2>6. c = 0
    BY <2>5
  <2> QED BY <2>2, <2>3, <2>4, <2>6, EmptySeq
<1>4. ASSUME Decimating, NEW k \in SubChannels PROVE UpToDate(k)
  BY <1>1, <1>3, <1>4 DEF UpToDate
<1> QED BY <1>1, <1>2, <1>4 DEF DecimationInv

\* Every decimator sub-channel gets every DecimationFactor-th frame of those that
\* are sent, in their order and no other, and is ahead by one frame at most.
THEOREM DecimationIsExact == Spec => []DecimationExact
<1>1. Init => DecimationInv
  BY DecimationInit
<1>2. TypeOK /\ TypeOK' /\ DecimationInv /\ [Next]_vars => DecimationInv'
  BY DecimationStep
<1>3. DecimationInv => DecimationExact
  BY DEF DecimationInv, DecimationExact, Decimating, UpToDate, Ahead, AheadByOne
<1> QED BY <1>1, <1>2, <1>3, TypeCorrect, PTL DEF Spec

-----------------------------------------------------------------------------
(* The sweep.  During one ConditionalRun, a buffer that was visited, or    *)
(* that is not to be visited, is not complete.                             *)

VisitedInv ==
    pc \in Running => \A id \in Ids \ todo : Len(fTFBuffer[id]) < fNumSource

\* Between two ConditionalRuns there is nothing to visit.
SweptInv == pc = "Recv" => todo = {}

LEMMA SourcesCounted == fNumSource \in Nat \ {0}
  BY SourcesAssumption, FS_CardinalityType, FS_EmptySet DEF fNumSource

\* A buffer holds at most one part of each source.
LEMMA NeverTooMany ==
  ASSUME BuffersOK, BufferInv, NEW id \in Ids
  PROVE  Len(fTFBuffer[id]) \in Nat /\ Len(fTFBuffer[id]) <= fNumSource
<1> DEFINE n == Len(fTFBuffer[id])
           src == [i \in 1 .. n |-> fTFBuffer[id][i].src]
<1>1. n \in Nat /\ DOMAIN fTFBuffer[id] = 1 .. n
  BY BufferElem
<1>2. src \in Injection(1 .. n, Sources)
  BY <1>1, BufferElem DEF Injection, IsInjective, BufferInv, PartsOf
<1>3. Cardinality(1 .. n) = n /\ IsFiniteSet(1 .. n)
  BY <1>1, FS_Interval
<1>4. Cardinality(1 .. n) <= Cardinality(Sources)
  BY <1>2, FS_Injection, SourcesAssumption
<1> QED
  BY <1>1, <1>3, <1>4 DEF fNumSource

\* Which actions a sweep is made of.
LEMMA SweepCases ==
  ASSUME [Next]_vars
  PROVE  \/ StartRun
         \/ \E s \in Sources : ReceivePart(s)
         \/ ReceiveNothing
         \/ \E id \in Ids : SweepComplete(id) \/ SweepExpire(id) \/ SweepKeep(id)
         \/ OutputSend \/ OutputAbandon
         \/ LoopExit \/ DqmInterrupted
         \/ DrainEnd
         \/ Sending /\ Sending' /\ UNCHANGED <<frame, fTFBuffer, todo, sent>>
         \/ UNCHANGED <<pc, frame, fTFBuffer, todo, sent>>
<1>1. ASSUME Builder
      PROVE  \/ \E s \in Sources : ReceivePart(s)
             \/ ReceiveNothing
             \/ \E id \in Ids : SweepComplete(id) \/ SweepExpire(id) \/ SweepKeep(id)
             \/ OutputSend \/ OutputAbandon
             \/ LoopExit \/ DqmInterrupted
             \/ DrainEnd
             \/ Sending /\ Sending' /\ UNCHANGED <<frame, fTFBuffer, todo, sent>>
             \/ UNCHANGED <<pc, frame, fTFBuffer, todo, sent>>
  <2>1. CASE DecimateSend \/ DecimateSkip \/ DecimateDone \/ DqmSend \/ OutputBusy
    BY <2>1 DEF DecimateSend, DecimateSkip, DecimateDone, DqmSend, OutputBusy, Sending,
       AfterDecimation, buffers, history
  <2>2. CASE DrainMiss \/ \E s \in Sources : DrainReceive(s)
    BY <2>2 DEF DrainMiss, DrainReceive, device, buffers, history
  <2> QED BY <1>1, <2>1, <2>2, Zenon DEF Builder, Visit, SendFrame, PostRun
<1>2. ASSUME Environment \/ Finished \/ UNCHANGED vars
      PROVE  StartRun \/ UNCHANGED <<pc, frame, fTFBuffer, todo, sent>>
  BY <1>2, Zenon DEF Environment, Finished, vars, device, buffers, history, SourceSend, SourceLose,
     SourceStop, OutputTake, DecimatorTake, DqmTake, Tick, StopRequest
<1> QED
  BY <1>1, <1>2, Zenon DEF Next

LEMMA SweptStep ==
  ASSUME TodoInv, QuietInv, SweptInv, [Next]_vars
  PROVE  SweptInv'
<1> USE DEF SweptInv
<1>1. CASE StartRun
  BY <1>1 DEF StartRun, TodoInv, QuietInv, Waiting, Running, buffers
<1>2. ASSUME NEW s \in Sources, ReceivePart(s) PROVE SweptInv'
  BY <1>2 DEF ReceivePart, BeginSweep
<1>3. CASE ReceiveNothing
  BY <1>3 DEF ReceiveNothing, BeginSweep
<1>4. ASSUME NEW id \in Ids, SweepComplete(id) \/ SweepExpire(id) \/ SweepKeep(id) PROVE SweptInv'
  BY <1>4 DEF SweepComplete, SweepExpire, SweepKeep, AfterVisit, AfterDecimation
<1>5. CASE OutputSend \/ OutputAbandon
  BY <1>5 DEF OutputSend, OutputAbandon, AfterVisit, buffers
<1>6. CASE LoopExit \/ DqmInterrupted
  BY <1>6 DEF LoopExit, DqmInterrupted, LeaveRun
<1>7. CASE DrainEnd
  BY <1>7 DEF DrainEnd
<1>8. CASE Sending'
  BY <1>8 DEF Sending
<1>9. CASE UNCHANGED <<pc, frame, fTFBuffer, todo, sent>>
  BY <1>9
<1> QED
  BY SweepCases, <1>1, <1>2, <1>3, <1>4, <1>5, <1>6, <1>7, <1>8, <1>9

LEMMA VisitedStep ==
  ASSUME BuffersOK, BufferInv, QuietInv, VisitedInv, [Next]_vars
  PROVE  VisitedInv'
<1> USE DEF VisitedInv
<1>0. Len(<<>>) < fNumSource
  BY SourcesCounted
<1>1. CASE StartRun
  BY <1>0, <1>1 DEF StartRun, QuietInv, Running, buffers, fNumSource
<1>2. CASE \A id \in Ids \ todo' : fTFBuffer'[id] = <<>>
  BY <1>0, <1>2 DEF fNumSource
<1>3. ASSUME NEW s \in Sources, ReceivePart(s) PROVE VisitedInv'
  BY <1>2, <1>3 DEF ReceivePart, BeginSweep, Waiting
<1>4. CASE ReceiveNothing
  BY <1>2, <1>4 DEF ReceiveNothing, BeginSweep, Waiting
<1>5. ASSUME NEW id \in Ids, SweepComplete(id) \/ SweepExpire(id) PROVE VisitedInv'
  <2>1. /\ todo' = todo \ {id} /\ fTFBuffer'[id] = <<>>
        /\ \A i \in Ids \ {id} : fTFBuffer'[i] = fTFBuffer[i]
        /\ pc \in Running
    BY <1>5 DEF SweepComplete, SweepExpire, ClearBuffer, BuffersOK, Running
  <2> QED BY <1>0, <2>1 DEF fNumSource
<1>6. ASSUME NEW id \in Ids, SweepKeep(id) PROVE VisitedInv'
  <2>1. /\ todo' = todo \ {id} /\ fTFBuffer' = fTFBuffer
        /\ Len(fTFBuffer[id]) # fNumSource
        /\ pc \in Running
    BY <1>6 DEF SweepKeep, Running
  <2>2. Len(fTFBuffer[id]) < fNumSource
    BY <2>1, NeverTooMany, SourcesCounted
  <2> QED BY <2>1, <2>2 DEF fNumSource
<1>7. CASE pc \in Running /\ UNCHANGED <<fTFBuffer, todo>>
  BY <1>7 DEF fNumSource
<1>8. CASE OutputSend \/ OutputAbandon
  BY <1>7, <1>8 DEF OutputSend, OutputAbandon, Running, buffers
<1>9. CASE pc' \notin Running
  BY <1>9 DEF Running
<1>10. CASE LoopExit \/ DqmInterrupted \/ DrainEnd
  BY <1>9, <1>10 DEF LoopExit, DqmInterrupted, LeaveRun, DrainEnd, Running
<1>11. CASE Sending /\ UNCHANGED <<fTFBuffer, todo>>
  BY <1>7, <1>11 DEF Sending, Running
<1>12. CASE UNCHANGED <<pc, fTFBuffer, todo>>
  BY <1>7, <1>9, <1>12 DEF Running
<1> QED
  BY SweepCases, <1>1, <1>3, <1>4, <1>5, <1>6, <1>8, <1>10, <1>11, <1>12

LEMMA SweepStep == TypeOK /\ IInv /\ SweptInv /\ VisitedInv /\ [Next]_vars => SweptInv' /\ VisitedInv'
  BY SweptStep, VisitedStep DEF IInv, TypeOK

LEMMA InitSweep == Init => SweptInv /\ VisitedInv
  BY SourcesCounted DEF Init, SweptInv, VisitedInv, Running

\* When a ConditionalRun is over, every buffer with fNumSource parts has been
\* taken out, however the map is walked and whatever the outputs do.
THEOREM NothingCompleteLeft == Spec => []NoCompleteLeftBehind
<1>1. SweptInv /\ VisitedInv => NoCompleteLeftBehind
  BY DEF SweptInv, VisitedInv, NoCompleteLeftBehind, Running
<1>2. Spec => [](SweptInv /\ VisitedInv)
  BY InitSweep, SweepStep, TypeCorrect, Invariance, PTL DEF Spec
<1> QED
  BY <1>1, <1>2, PTL

-----------------------------------------------------------------------------
(* The refinement.  The state of the assembly is Held and Delivered of      *)
(* TimeFrameBuilder; each action of the builder is one of its actions, or  *)
(* changes nothing of it.                                                  *)

LEMMA SourcesInNothing == SourcesIn(<<>>) = {}
  BY DEF SourcesIn

\* Outside the Send loops what is held is what the buffers hold.
LEMMA HeldInBuffers ==
  /\ ~Sending => Held = [id \in Ids |-> SourcesIn(fTFBuffer[id])]
  /\ ~Sending' => Held' = [id \in Ids |-> SourcesIn(fTFBuffer'[id])]
  BY DEF Held, SourcesIn

LEMMA HeldInFrame ==
  /\ Sending => Held = [id \in Ids |-> IF frame.id = id THEN SourcesIn(frame.parts)
                                                       ELSE SourcesIn(fTFBuffer[id])]
  /\ Sending' => Held' = [id \in Ids |-> IF frame'.id = id THEN SourcesIn(frame'.parts)
                                                        ELSE SourcesIn(fTFBuffer'[id])]
  BY DEF Held, SourcesIn

LEMMA ReceiveTakes ==
  ASSUME TypeOK, IInv, NEW s \in Sources, ReceivePart(s), [Next]_vars
  PROVE  \E id \in Ids : Assembly!Take(id, s)
<1> USE DEF TypeOK, IInv
<1>1. PICK p : p = Head(wire[s])
  OBVIOUS
<1>2. /\ p \in Part /\ p.src = s /\ p.id \in Ids
      /\ ~Past(s, p.id)
      /\ \A i \in DOMAIN fTFBuffer[p.id] : fTFBuffer[p.id][i].src # s
  BY <1>1, ReceivedIsNew DEF Part
<1>3. ~Sending /\ ~Sending' /\ sent' = sent
  BY DEF ReceivePart, BeginSweep, Sending, history
<1>4. p.id \notin Delivered
  BY <1>2 DEF Delivered, SentInv, AllPast
<1>5. s \notin Held[p.id]
  BY <1>2, <1>3, HeldInBuffers DEF SourcesIn
<1>6. SourcesIn(fTFBuffer'[p.id]) = SourcesIn(fTFBuffer[p.id]) \union {s}
  <2>1. /\ Len(fTFBuffer[p.id]) \in Nat
        /\ DOMAIN fTFBuffer[p.id] = 1 .. Len(fTFBuffer[p.id])
        /\ DOMAIN fTFBuffer'[p.id] = 1 .. Len(fTFBuffer[p.id]) + 1
        /\ \A i \in DOMAIN fTFBuffer[p.id] : fTFBuffer'[p.id][i] = fTFBuffer[p.id][i]
        /\ fTFBuffer'[p.id][Len(fTFBuffer[p.id]) + 1] = p
    BY <1>1, <1>2, ReceiveShape
  <2>2. \A i \in DOMAIN fTFBuffer'[p.id] :
           i \in DOMAIN fTFBuffer[p.id] \/ i = Len(fTFBuffer[p.id]) + 1
    BY <2>1
  <2>3. /\ DOMAIN fTFBuffer[p.id] \subseteq DOMAIN fTFBuffer'[p.id]
        /\ Len(fTFBuffer[p.id]) + 1 \in DOMAIN fTFBuffer'[p.id]
    BY <2>1
  <2> QED BY <1>2, <2>1, <2>2, <2>3 DEF SourcesIn
<1>7. \A id \in Ids \ {p.id} : fTFBuffer'[id] = fTFBuffer[id]
  BY <1>1, <1>2, ReceiveShape
<1>8. Held' = [Held EXCEPT ![p.id] = @ \union {s}]
  BY <1>2, <1>3, <1>6, <1>7, HeldInBuffers
<1>9. Delivered' = Delivered
  BY <1>3 DEF Delivered
<1> QED
  BY <1>2, <1>4, <1>5, <1>8, <1>9 DEF Assembly!Take

LEMMA OutputDelivers ==
  ASSUME TypeOK, IInv, OutputSend
  PROVE  \E id \in Ids : Assembly!Deliver(id)
<1> USE DEF TypeOK, IInv
<1>1. Sending /\ ~Sending' /\ fTFBuffer' = fTFBuffer /\ sent' = Append(sent, frame)
  BY DEF OutputSend, AfterVisit, Sending, buffers
<1>2. PICK id \in Ids : id = frame.id
  BY DEF DeviceOK, Frame
<1>3. id \notin Delivered
  BY <1>1, <1>2 DEF FrameInv, Delivered
<1>4. Held[id] = Sources
  BY <1>1, <1>2, HeldInFrame DEF FrameInv, Whole, SourcesIn
<1>5. fTFBuffer[id] = <<>>
  BY <1>1, <1>2 DEF FrameInv
<1>6. Held' = [Held EXCEPT ![id] = {}]
  BY <1>1, <1>2, <1>5, HeldInBuffers, HeldInFrame, SourcesInNothing
<1>7. Delivered' = Delivered \union {id}
  <2>1. /\ DOMAIN sent = 1 .. Len(sent) /\ Len(sent) \in Nat
        /\ DOMAIN sent' = 1 .. Len(sent) + 1
        /\ \A n \in 1 .. Len(sent) : sent'[n] = sent[n]
        /\ sent'[Len(sent) + 1] = frame
    BY <1>1, LenProperties, AppendProperties DEF HistoryOK, DeviceOK
  <2>2. \A n \in DOMAIN sent' : n \in DOMAIN sent \/ n = Len(sent) + 1
    BY <2>1
  <2>3. DOMAIN sent \subseteq DOMAIN sent' /\ Len(sent) + 1 \in DOMAIN sent'
    BY <2>1
  <2> QED BY <1>2, <2>1, <2>2, <2>3 DEF Delivered
<1> QED
  BY <1>3, <1>4, <1>6, <1>7 DEF Assembly!Deliver

LEMMA AbandonDrops ==
  ASSUME TypeOK, IInv, OutputAbandon
  PROVE  \E id \in Ids : Assembly!Drop(id)
<1> USE DEF TypeOK, IInv
<1>1. Sending /\ ~Sending' /\ fTFBuffer' = fTFBuffer /\ sent' = sent
  BY DEF OutputAbandon, AfterVisit, Sending, buffers, history
<1>2. PICK id \in Ids : id = frame.id
  BY DEF DeviceOK, Frame
<1>3. fTFBuffer[id] = <<>>
  BY <1>1, <1>2 DEF FrameInv
<1>4. Held' = [Held EXCEPT ![id] = {}]
  BY <1>1, <1>2, <1>3, HeldInBuffers, HeldInFrame, SourcesInNothing
<1> QED
  BY <1>1, <1>4 DEF Assembly!Drop, Delivered

LEMMA ExpireDrops ==
  ASSUME TypeOK, NEW id \in Ids, SweepExpire(id)
  PROVE  Assembly!Drop(id)
<1>1. /\ ~Sending /\ ~Sending' /\ sent' = sent
      /\ fTFBuffer'[id] = <<>>
      /\ \A i \in Ids \ {id} : fTFBuffer'[i] = fTFBuffer[i]
  BY DEF SweepExpire, ClearBuffer, AfterVisit, Sending, TypeOK, BuffersOK
<1>2. Held' = [Held EXCEPT ![id] = {}]
  BY <1>1, HeldInBuffers, SourcesInNothing
<1> QED
  BY <1>1, <1>2 DEF Assembly!Drop, Delivered

LEMMA CompleteStutters ==
  ASSUME TypeOK, NEW id \in Ids, SweepComplete(id)
  PROVE  Held' = Held /\ Delivered' = Delivered
<1>1. /\ ~Sending /\ Sending' /\ sent' = sent
      /\ frame'.id = id /\ frame'.parts = fTFBuffer[id]
      /\ \A i \in Ids \ {id} : fTFBuffer'[i] = fTFBuffer[i]
  BY DEF SweepComplete, ClearBuffer, AfterDecimation, Sending, TypeOK, BuffersOK, history
<1>2. Held' = Held
  BY <1>1, HeldInBuffers, HeldInFrame
<1> QED
  BY <1>1, <1>2 DEF Delivered

LEMMA LeavingAborts ==
  ASSUME LoopExit \/ DqmInterrupted
  PROVE  Assembly!Abort
<1>1. ~Sending' /\ sent' = sent /\ \A id \in Ids : fTFBuffer'[id] = <<>>
  BY DEF LoopExit, DqmInterrupted, LeaveRun, Sending, history
<1>2. Held' = [id \in Ids |-> {}]
  BY <1>1, HeldInBuffers, SourcesInNothing
<1> QED
  BY <1>1, <1>2 DEF Assembly!Abort, Assembly!Nothing, Delivered

LEMMA StartRestarts ==
  ASSUME IInv, StartRun
  PROVE  Assembly!Restart
<1>1. /\ ~Sending /\ ~Sending' /\ sent' = <<>> /\ fTFBuffer' = fTFBuffer
      /\ \A id \in Ids : fTFBuffer[id] = <<>>
  BY DEF StartRun, Sending, buffers, IInv, QuietInv, Running
<1>2. Held = [id \in Ids |-> {}] /\ Held' = Held
  BY <1>1, HeldInBuffers, SourcesInNothing
<1>3. Delivered' = {}
  BY <1>1 DEF Delivered
<1> QED
  BY <1>2, <1>3 DEF Assembly!Restart, Assembly!Nothing

LEMMA InitAssembly == Init => Assembly!Init
<1> SUFFICES ASSUME Init PROVE Assembly!Init
  OBVIOUS
<1>1. ~Sending /\ sent = <<>> /\ \A id \in Ids : fTFBuffer[id] = <<>>
  BY DEF Init, Sending
<1>2. Held = [id \in Ids |-> {}]
  BY <1>1, HeldInBuffers, SourcesInNothing
<1> QED
  BY <1>1, <1>2 DEF Assembly!Init, Assembly!Nothing, Delivered

LEMMA AssemblyStep ==
  ASSUME TypeOK, IInv, [Next]_vars
  PROVE  [Assembly!Next]_(Assembly!vars)
<1> DEFINE Stutter == Held' = Held /\ Delivered' = Delivered
<1>1. CASE StartRun
  BY <1>1, StartRestarts DEF Assembly!Next
<1>2. ASSUME NEW s \in Sources, ReceivePart(s) PROVE Assembly!Next
  BY <1>2, ReceiveTakes DEF Assembly!Next
<1>3. ASSUME ReceiveNothing PROVE Stutter
  BY <1>3 DEF ReceiveNothing, BeginSweep, Sending, Held, Delivered, SourcesIn, history
<1>4. ASSUME NEW id \in Ids, SweepExpire(id) PROVE Assembly!Next
  BY <1>4, ExpireDrops DEF Assembly!Next
<1>5. ASSUME NEW id \in Ids, SweepKeep(id) PROVE Stutter
  BY <1>5 DEF SweepKeep, AfterVisit, Sending, Held, Delivered, SourcesIn, history
<1>6. CASE OutputSend
  BY <1>6, OutputDelivers DEF Assembly!Next
<1>7. CASE OutputAbandon
  BY <1>7, AbandonDrops DEF Assembly!Next
<1>8. CASE LoopExit \/ DqmInterrupted
  BY <1>8, LeavingAborts DEF Assembly!Next
<1>9. ASSUME DrainEnd PROVE Stutter
  BY <1>9 DEF DrainEnd, Sending, Held, Delivered, SourcesIn, buffers, history
<1>10. ASSUME Sending /\ Sending' /\ UNCHANGED <<frame, fTFBuffer, todo, sent>> PROVE Stutter
  BY <1>10 DEF Held, Delivered, SourcesIn
<1>11. ASSUME UNCHANGED <<pc, frame, fTFBuffer, todo, sent>> PROVE Stutter
  BY <1>11 DEF Sending, Held, Delivered, SourcesIn
<1>12. ASSUME NEW id \in Ids, SweepComplete(id) PROVE Stutter
  BY <1>12, CompleteStutters
<1>13. Stutter => UNCHANGED Assembly!vars
  BY DEF Assembly!vars
<1> QED
  BY SweepCases, <1>1, <1>2, <1>3, <1>4, <1>5, <1>6, <1>7, <1>8, <1>9, <1>10, <1>11, <1>12, <1>13

\* The builder implements the assembly of frames, for any set of front ends: it
\* takes a part of a source once, delivers a trigger once a run and only whole.
THEOREM AssemblyImplemented == Spec => ImplementsAssembly
  BY InitAssembly, AssemblyStep, TypeCorrect, Invariance, PTL
  DEF Spec, ImplementsAssembly, Assembly!Spec
=============================================================================
