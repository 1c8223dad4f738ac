------------------------- MODULE EventBuilderProofs -------------------------
(***************************************************************************)
(* Theorems about the event builder, for any finite set of sources, any    *)
(* number of triggers and runs, any resolutions and any options.           *)
(***************************************************************************)
EXTENDS EventBuilder, TLAPS, SequenceTheorems, FiniteSetTheorems, WellFoundedInduction

-----------------------------------------------------------------------------
(* The inductive invariant. *)

Piece == [src : Sources, run : Nat, tag : Tags]
Message == [run : Nat, tag : 0 .. MaxTag]

DeviceType ==
    /\ pc \in {"Ready", "Recv", "Build", "Dup", "Check", "Timeout"}
    /\ stopping \in {"No", "Requested", "PostRun"}
    /\ run \in Nat
    /\ fBeginRunData \in [Sources -> Nat]
    /\ fTagMask \in Nat
    /\ fNumSequence \in Nat

InputType ==
    /\ wire \in [Sources -> Seq(Message)]
    /\ trigger \in [Sources -> 0 .. MaxTag + 1]

DataType ==
    /\ fInBuffer \in [Sources -> Seq(Piece)]
    /\ fEventFrames \in [Masked -> SUBSET Piece]
    /\ received \subseteq Piece

TypeOK == DeviceType /\ InputType /\ DataType

\* The order in which a source sends.
Before(m, n) == m.run < n.run \/ (m.run = n.run /\ m.tag < n.tag)
NextOf(s) == [run |-> run, tag |-> trigger[s]]

\* What is on the way from a source is in order, and before what it sends next.
WireInv ==
    \A s \in Sources : \A i \in 1 .. Len(wire[s]) :
        /\ Before(wire[s][i], NextOf(s))
        /\ \A j \in 1 .. i - 1 : Before(wire[s][j], wire[s][i])

\* What was received comes before what is on the way, and what is sent next.
ReceivedInv ==
    \A f \in received :
        /\ Before(f, NextOf(f.src))
        /\ \A i \in 1 .. Len(wire[f.src]) : Before(f, wire[f.src][i])

\* What waits is of its source, and no fragment waits twice.
BufferInv ==
    \A s \in Sources : \A i \in 1 .. Len(fInBuffer[s]) :
        /\ fInBuffer[s][i].src = s
        /\ \A j \in 1 .. i - 1 : fInBuffer[s][j] # fInBuffer[s][i]

\* A frame has fragments of its tag, one of a source; without a mask there is none.
FrameInv ==
    \A t \in Masked : \A f \in fEventFrames[t] :
        /\ fTagMask # 0 /\ MaskTag(f) = t
        /\ \A g \in fEventFrames[t] : f.src = g.src => f = g

\* Without a mask nothing is complete, and nothing is merged.
MaskInv ==
    /\ fTagMask = 0 => (pc = "Ready" \/ \A g \in sent : g.output # "out")
    /\ pc = "Dup" /\ fTagMask = 0 => Waiting = {}

\* Between two runs nothing is held.
ReadyInv ==
    pc = "Ready" =>
        /\ fInBuffer = Empty /\ fEventFrames = NoFrame /\ fTagMask = 0
        /\ fBeginRunData = [s \in Sources |-> 0]

\* Build goes on, and the begin-run data have left, when all of them are there.
BegunInv ==
    /\ pc \in {"Dup", "Check", "Timeout"} => Begun >= fNumSource
    /\ Begun >= fNumSource => began = BeginRunOutputs
    /\ began \subseteq BeginRunOutputs

\* Sources that end before PostRun leave nothing to the next run.
RunInv ==
    ~late =>
        /\ pc = "Ready" => wire = Empty /\ \A s \in Sources : trigger[s] = MaxTag + 1
        /\ \A s \in Sources : \A i \in 1 .. Len(wire[s]) : wire[s][i].run = run
        /\ \A f \in received : f.run = run

IInv ==
    /\ TypeOK /\ WireInv /\ ReceivedInv /\ BufferInv /\ FrameInv /\ MaskInv /\ ReadyInv
    /\ BegunInv /\ RunInv /\ FragmentsAccounted /\ CompleteWhole /\ BeginRunFirst

-----------------------------------------------------------------------------
(* The coarsest of the resolutions. *)

\* A finite nonempty set of naturals has a greatest element: of the sets of those
\* above an element, one has no strict subset among them.
LEMMA GreatestNatural ==
  ASSUME NEW S \in SUBSET Nat, S # {}, IsFiniteSet(S)
  PROVE  \E x \in S : \A y \in S : y <= x
<1> DEFINE Above(x) == {y \in S : y > x}
           T == {Above(x) : x \in S}
<1>1. T \subseteq FiniteSubsetsOf(S)
  BY FS_Subset DEF FiniteSubsetsOf
<1>2. T # {}
  OBVIOUS
<1>3. PICK t \in T : \A u \in T : <<u, t>> \notin StrictSubsetOrdering(S)
  <2> HIDE DEF T
  <2> QED BY <1>1, <1>2, FS_StrictSubsetOrderingWellFounded, WFMin
<1>4. PICK x \in S : t = Above(x)
  BY <1>3
<1>5. ASSUME NEW y \in S, y > x PROVE FALSE
  <2>0. Above(y) \in T
    OBVIOUS
  <2>a. S \subseteq Nat /\ t = {z \in S : z > x}
    BY <1>4
  <2>b. x \in Nat /\ y \in Nat /\ y > x
    BY <1>5
  <2>1. y \in t /\ y \notin Above(y) /\ \A z \in Above(y) : z \in t
    <3> HIDE DEF T
    <3>1. y \in t /\ y \notin Above(y)
      BY <2>a, <2>b
    <3>2. ASSUME NEW z \in Above(y) PROVE z \in t
      <4>1. z \in S /\ z \in Nat /\ z > y
        BY <2>a
      <4> QED BY <4>1, <2>a, <2>b
    <3> QED BY <3>1, <3>2
  <2>2. <<Above(y), t>> \in StrictSubsetOrdering(S)
    BY <2>1, <1>4 DEF StrictSubsetOrdering
  <2> QED BY <2>0, <2>2, <1>3
<1> QED BY <1>5

LEMMA CoarsestIsOne == ASSUME Waiting # {} PROVE CoarsestFront \in Nat \ {0}
<1> DEFINE R == {Resolution[s] : s \in Waiting}
<1>1. Waiting \subseteq Sources /\ IsFiniteSet(Waiting)
  BY BuilderAssumption, FS_Subset DEF Waiting
<1>2. R \subseteq Nat \ {0} /\ R # {}
  BY <1>1, BuilderAssumption
<1>3. IsFiniteSet(R)
  <2> DEFINE res == [s \in Waiting |-> Resolution[s]]
  <2>1. R = {res[s] : s \in Waiting} /\ res \in [Waiting -> R] /\ res \in Surjection(Waiting, R)
    BY DEF Surjection
  <2> HIDE DEF R, res
  <2> QED BY <2>1, <1>1, FS_Surjection
<1>4. \E r \in R : \A q \in R : q <= r
  <2> HIDE DEF R
  <2> QED BY <1>2, <1>3, GreatestNatural
<1>5. \E r \in R : \A s \in Waiting : Resolution[s] <= r
  BY <1>4
<1>6. CoarsestFront = CHOOSE r \in R : \A s \in Waiting : Resolution[s] <= r
  BY DEF CoarsestFront
<1>7. CoarsestFront \in R
  <2> HIDE DEF R
  <2> QED BY <1>5, <1>6
<1> QED
  <2> HIDE DEF R
  <2> QED BY <1>2, <1>7

-----------------------------------------------------------------------------
(* What an action leaves alone. *)

SourceStep ==
    \E s \in Sources : SourceBegin(s) \/ SourceSend(s) \/ SourceMiss(s) \/ SourceStop(s)
Sending == \E t \in Masked : DupSend(t) \/ CheckSend(t) \/ TimeoutSend(t)
Receive == \E s \in Sources : RecvTooMany(s) \/ RecvBeginRun(s) \/ RecvFragment(s)
Turn == RecvNothing \/ BuildNotBegun \/ BuildNotReady \/ CheckDone \/ TimeoutDone

LEMMA Cases ==
  ASSUME [Next]_vars
  PROVE  \/ SourceStep \/ Receive \/ Sending \/ Turn
         \/ Tick \/ StopRequest \/ StartRun \/ BuildMask \/ Merge \/ PostRunEnd
         \/ UNCHANGED vars
  BY Zenon DEF Next, SourceStep, Receive, Sending, Turn, Finished

\* Turns change where the device is; time and a stop change less.
LEMMA TurnFrame ==
  ASSUME Turn \/ Tick \/ StopRequest \/ UNCHANGED vars
  PROVE  /\ UNCHANGED <<options, run, fBeginRunData, known, fInBuffer, fTagMask, fEventFrames,
                        fNumSequence, wire, trigger, sent, began, received, lost>>
         /\ (pc' = "Ready" <=> pc = "Ready")
         /\ pc' # "Dup" \/ pc' = pc
         /\ pc' \in {"Check", "Timeout"} => pc' = pc \/ pc = "Check" \/ Begun >= fNumSource
<1>1. CASE Turn
  BY <1>1 DEF Turn, RecvNothing, BuildNotBegun, BuildNotReady, CheckDone, TimeoutDone, Return,
     ToTimeout, options, bufferVars, inputVars, history
<1>2. CASE Tick \/ StopRequest
  BY <1>2 DEF Tick, StopRequest, options, bufferVars, inputVars, history
<1>3. CASE UNCHANGED vars
  BY <1>3 DEF vars, options, bufferVars, inputVars, history
<1> QED BY <1>1, <1>2, <1>3

\* The type that is found first is one of those that fit.
LEMMA FirstTypeIsOne ==
  ASSUME NEW types \in SUBSET Types, types # {}
  PROVE  FirstType(types) \in types
<1> DEFINE First(i) == Order[i] \in types /\ \A j \in 1 .. i - 1 : Order[j] \notin types
<1>1. Order[1] = "Normal" /\ Order[2] = "Monitor" /\ Order[3] = "SpillStart" /\ Order[4] = "SpillEnd"
  BY DEF Order
<1>2. PICK y \in types : y \in Types
  OBVIOUS
<1>3. \E i \in 1 .. 4 : Order[i] \in types
  BY <1>1, <1>2 DEF Types
<1>4. \E i \in 1 .. 4 : First(i)
  <2>1. CASE Order[1] \in types
    BY <2>1
  <2>2. CASE Order[1] \notin types /\ Order[2] \in types
    BY <2>2
  <2>3. CASE Order[1] \notin types /\ Order[2] \notin types /\ Order[3] \in types
    BY <2>3
  <2>4. CASE Order[1] \notin types /\ Order[2] \notin types /\ Order[3] \notin types
    BY <2>4, <1>3
  <2> QED BY <2>1, <2>2, <2>3, <2>4
<1>5. FirstType(types) = Order[CHOOSE i \in 1 .. 4 : First(i)]
  BY DEF FirstType
<1> QED BY <1>4, <1>5

LEMMA CompleteHasAll ==
  ASSUME DataType, NEW t \in Masked, Satisfied(t) # {}
  PROVE  LET y == FirstType(Satisfied(t))
         IN  /\ OutputOf(y) \in Outputs \ {"incomplete"}
             /\ OutputOf(y) = "out" => Cardinality(fEventFrames[t]) = fNumSource
<1>1. Satisfied(t) \subseteq Types
  <2>1. \A f \in fEventFrames[t] : TrgTyp[f.tag] \in Types
    BY BuilderAssumption DEF DataType, Piece
  <2> QED BY <2>1 DEF Satisfied, HasTrgTyp
<1>2. FirstType(Satisfied(t)) \in Satisfied(t)
  BY <1>1, FirstTypeIsOne
<1>3. Cardinality(fEventFrames[t]) = Needed(FirstType(Satisfied(t)))
  BY <1>2 DEF Satisfied
<1> QED BY <1>1, <1>2, <1>3 DEF OutputOf, Needed, Types, Outputs

\* A frame leaves: its fragments are sent or given up.
Leaves(t, output, sink, o) ==
    /\ fEventFrames' = [fEventFrames EXCEPT ![t] = {}]
    /\ Note(output, sink, fEventFrames[t], o)
    /\ (output = "incomplete" /\ sink = 0) \/ sink \in Direction(fEventFrames[t])
    /\ output = "out" => Cardinality(fEventFrames[t]) = fNumSource

LEMMA SendingFrame ==
  ASSUME TypeOK, Sending
  PROVE  /\ UNCHANGED <<options, pc, stopping, run, fBeginRunData, known, fInBuffer, fTagMask,
                        wire, trigger, began, received>>
         /\ pc \in {"Dup", "Check", "Timeout"}
         /\ fNumSequence' \in {fNumSequence, fNumSequence + 1}
         /\ \E t \in Masked, output \in Outputs, o \in Outcomes :
                \E sink : Leaves(t, output, sink, o)
<1>1. ASSUME NEW t \in Masked, DupSend(t)
      PROVE  /\ UNCHANGED <<options, pc, stopping, run, fBeginRunData, known, fInBuffer,
                            fTagMask, wire, trigger, began, received>>
             /\ pc = "Dup" /\ fNumSequence' = fNumSequence
             /\ fEventFrames' = [fEventFrames EXCEPT ![t] = {}]
             /\ \E o \in Outcomes : Note("incomplete", 0, fEventFrames[t], o)
  BY <1>1 DEF DupSend, options, inputVars
<1>2. ASSUME NEW t \in Masked, NEW output, SendFrame(t, output)
      PROVE  /\ UNCHANGED <<fBeginRunData, known, fInBuffer, fTagMask, began, received>>
             /\ fNumSequence' = fNumSequence + 1
             /\ fEventFrames' = [fEventFrames EXCEPT ![t] = {}]
             /\ \E d \in Direction(fEventFrames[t]), o \in Outcomes :
                    Note(output, d, fEventFrames[t], o)
  BY <1>2 DEF SendFrame
<1>3. ASSUME NEW t \in Masked, CheckSend(t)
      PROVE  /\ UNCHANGED <<options, pc, stopping, run, wire, trigger>>
             /\ pc = "Check"
             /\ \E output \in Outputs : SendFrame(t, output)
                    /\ (output = "out" => Cardinality(fEventFrames[t]) = fNumSource)
  BY <1>3, CompleteHasAll DEF TypeOK, CheckSend, options, inputVars
<1>4. ASSUME NEW t \in Masked, TimeoutSend(t)
      PROVE  /\ UNCHANGED <<options, pc, stopping, run, wire, trigger>>
             /\ pc = "Timeout"
             /\ SendFrame(t, "incomplete")
  BY <1>4 DEF TimeoutSend, options, inputVars
<1>5. "incomplete" \in Outputs /\ "incomplete" # "out"
  BY DEF Outputs
<1>6. PICK t \in Masked : DupSend(t) \/ CheckSend(t) \/ TimeoutSend(t)
  BY DEF Sending
<1>7. CASE DupSend(t)
  <2>1. PICK o \in Outcomes : Note("incomplete", 0, fEventFrames[t], o)
    BY <1>1, <1>7
  <2>2. Leaves(t, "incomplete", 0, o)
    BY <1>1, <1>5, <1>7, <2>1 DEF Leaves
  <2> QED BY <1>1, <1>5, <1>7, <2>2
<1>8. ASSUME NEW output \in Outputs, SendFrame(t, output),
             output = "out" => Cardinality(fEventFrames[t]) = fNumSource
      PROVE  \E o \in Outcomes : \E sink : Leaves(t, output, sink, o)
  <2>1. PICK d \in Direction(fEventFrames[t]), o \in Outcomes : Note(output, d, fEventFrames[t], o)
    BY <1>2, <1>8
  <2>2. Leaves(t, output, d, o)
    BY <1>2, <1>8, <2>1 DEF Leaves
  <2> QED BY <2>2
<1>9. CASE CheckSend(t)
  <2>1. PICK output \in Outputs : SendFrame(t, output)
                    /\ (output = "out" => Cardinality(fEventFrames[t]) = fNumSource)
    BY <1>3, <1>9
  <2>2. \E o \in Outcomes : \E sink : Leaves(t, output, sink, o)
    BY <1>8, <2>1
  <2> QED BY <1>2, <1>3, <1>9, <2>1, <2>2
<1>10. CASE TimeoutSend(t)
  <2>1. \E o \in Outcomes : \E sink : Leaves(t, "incomplete", sink, o)
    BY <1>4, <1>5, <1>8, <1>10
  <2> QED BY <1>2, <1>4, <1>5, <1>10, <2>1
<1> QED BY <1>6, <1>7, <1>9, <1>10

-----------------------------------------------------------------------------
(* Types. *)

LEMMA TypeInit == ASSUME Init PROVE TypeOK
<1>1. Empty \in [Sources -> Seq(Message)] /\ Empty \in [Sources -> Seq(Piece)]
  BY EmptySeq DEF Empty
<1>2. DeviceType
  BY DEF Init, Cleared, DeviceType
<1>3. InputType
  BY <1>1, BuilderAssumption DEF Init, InputType
<1>4. DataType
  BY <1>1 DEF Init, Cleared, DataType, NoFrame
<1> QED BY <1>2, <1>3, <1>4 DEF TypeOK

\* A message that is taken: what it was, and what is left.
LEMMA Taken ==
  ASSUME InputType, NEW s \in Sources, Incoming(s)
  PROVE  /\ wire[s] \in Seq(Message) /\ wire[s] # <<>>
         /\ Head(wire[s]) \in Message /\ Head(wire[s]) = wire[s][1]
         /\ Tail(wire[s]) \in Seq(Message)
         /\ Len(wire[s]) \in Nat \ {0} /\ Len(Tail(wire[s])) = Len(wire[s]) - 1
         /\ \A i \in 1 .. Len(wire[s]) - 1 : Tail(wire[s])[i] = wire[s][i + 1]
         /\ wire' = [wire EXCEPT ![s] = Tail(wire[s])] /\ trigger' = trigger
<1>1. wire[s] \in Seq(Message) /\ wire[s] # <<>>
  BY DEF InputType, Incoming
<1>2. wire' = [wire EXCEPT ![s] = Tail(wire[s])] /\ trigger' = trigger
  BY DEF Incoming
<1> HIDE DEF Message
<1> QED BY <1>1, <1>2, HeadTailProperties, EmptySeq, LenProperties

LEMMA InputTypeStep == ASSUME TypeOK, [Next]_vars PROVE InputType'
<1> USE DEF InputType
<1>0. InputType /\ run \in Nat
  BY DEF TypeOK, DeviceType
<1>m. MaxTag \in Nat
  BY BuilderAssumption
<1>1. ASSUME NEW s \in Sources, NEW m \in Message,
             wire' = [wire EXCEPT ![s] = Append(wire[s], m)]
      PROVE  wire' \in [Sources -> Seq(Message)]
  <2>1. Append(wire[s], m) \in Seq(Message)
    BY <1>0, AppendProperties
  <2> QED BY <1>0, <1>1, <2>1
<1>2. ASSUME NEW s \in Sources, trigger[s] \in Tags
      PROVE  AfterTrigger(s) \in 0 .. MaxTag + 1
  BY <1>0, <1>m, <1>2 DEF AfterTrigger, Tags
<1>3. ASSUME NEW s \in Sources, SourceBegin(s) PROVE InputType'
  <2>1. [run |-> run, tag |-> 0] \in Message
    BY <1>0, <1>m DEF Message
  <2>2. wire' \in [Sources -> Seq(Message)]
    BY <1>1, <1>3, <2>1 DEF SourceBegin
  <2>3. trigger' \in [Sources -> 0 .. MaxTag + 1]
    BY <1>0, <1>m, <1>3 DEF SourceBegin
  <2> QED BY <2>2, <2>3
<1>4. ASSUME NEW s \in Sources, SourceSend(s) PROVE InputType'
  <2>1. [run |-> run, tag |-> trigger[s]] \in Message
    BY <1>0, <1>m, <1>4 DEF Message, SourceSend, Tags
  <2>2. wire' \in [Sources -> Seq(Message)]
    BY <1>1, <1>4, <2>1 DEF SourceSend
  <2>3. trigger' \in [Sources -> 0 .. MaxTag + 1]
    BY <1>0, <1>2, <1>4 DEF SourceSend
  <2> QED BY <2>2, <2>3
<1>5. ASSUME NEW s \in Sources, SourceMiss(s) \/ SourceStop(s) PROVE InputType'
  <2>1. trigger' \in [Sources -> 0 .. MaxTag + 1] /\ wire' = wire
    BY <1>0, <1>m, <1>2, <1>5 DEF SourceMiss, SourceStop
  <2> QED BY <1>0, <2>1
<1>6. ASSUME NEW s \in Sources, Incoming(s) PROVE InputType'
  BY <1>0, <1>6, Taken
<1>7. CASE Receive
  BY <1>6, <1>7 DEF Receive, RecvTooMany, RecvBeginRun, RecvFragment
<1>8. CASE Sending
  BY <1>0, <1>8, SendingFrame
<1>9. CASE Turn \/ Tick \/ StopRequest \/ UNCHANGED vars
  BY <1>0, <1>9, TurnFrame
<1>10. CASE StartRun
  <2>1. wire' = wire /\ trigger' = [s \in Sources |-> 0] /\ 0 \in 0 .. MaxTag + 1
    BY <1>10, <1>m DEF StartRun
  <2> QED BY <1>0, <2>1
<1>11. CASE BuildMask \/ Merge \/ PostRunEnd
  BY <1>0, <1>11 DEF BuildMask, Merge, PostRunEnd, inputVars
<1> QED
  BY <1>3, <1>4, <1>5, <1>7, <1>8, <1>9, <1>10, <1>11, Cases DEF SourceStep

LEMMA DeviceTypeStep == ASSUME TypeOK, [Next]_vars PROVE DeviceType'
<1>0. DeviceType /\ InputType
  BY DEF TypeOK
<1> USE DEF DeviceType
<1>1. CASE SourceStep
  BY <1>0, <1>1 DEF SourceStep, SourceBegin, SourceSend, SourceMiss, SourceStop, bufferVars
<1>2. ASSUME NEW s \in Sources, Incoming(s)
      PROVE  pc' \in {"Recv", "Build"} /\ stopping' = stopping /\ run' = run
  BY <1>2 DEF Incoming
<1>3. ASSUME NEW s \in Sources, RecvTooMany(s) \/ RecvFragment(s) PROVE DeviceType'
  BY <1>0, <1>2, <1>3 DEF RecvTooMany, RecvFragment, bufferVars
<1>4. ASSUME NEW s \in Sources, RecvBeginRun(s) PROVE DeviceType'
  <2>1. Head(wire[s]).run \in Nat
    BY <1>0, <1>4, Taken DEF RecvBeginRun, Message
  <2>2. fBeginRunData' \in [Sources -> Nat]
    BY <1>0, <1>4, <2>1 DEF RecvBeginRun
  <2>3. fTagMask' = fTagMask /\ fNumSequence' = fNumSequence
    BY <1>4 DEF RecvBeginRun
  <2> QED BY <1>0, <1>2, <1>4, <2>2, <2>3 DEF RecvBeginRun
<1>5. CASE Sending
  BY <1>0, <1>5, SendingFrame
<1>6. CASE Turn \/ Tick \/ StopRequest \/ UNCHANGED vars
  <2>1. run' = run /\ UNCHANGED <<fBeginRunData, fTagMask, fNumSequence>>
    BY <1>6, TurnFrame
  <2>2. pc' \in {"Ready", "Recv", "Build", "Dup", "Check", "Timeout"}
        /\ stopping' \in {"No", "Requested", "PostRun"}
    BY <1>0, <1>6 DEF Turn, RecvNothing, BuildNotBegun, BuildNotReady, CheckDone, TimeoutDone,
       Return, ToTimeout, Tick, StopRequest, vars
  <2> QED BY <1>0, <2>1, <2>2
<1>7. CASE StartRun
  BY <1>0, <1>7 DEF StartRun, bufferVars
<1>8. CASE BuildMask
  <2>1. fTagMask' \in Nat
    BY <1>0, <1>8, CoarsestIsOne DEF BuildMask
  <2> QED BY <1>0, <1>8, <2>1 DEF BuildMask
<1>9. CASE Merge \/ PostRunEnd
  BY <1>0, <1>9 DEF Merge, PostRunEnd, ClearBuffers
<1> QED
  BY <1>1, <1>3, <1>4, <1>5, <1>6, <1>7, <1>8, <1>9, Cases DEF Receive

\* The fragment of the message that comes first.
PieceOf(s) == [src |-> s, run |-> Head(wire[s]).run, tag |-> Head(wire[s]).tag]

LEMMA PieceIsOne ==
  ASSUME InputType, NEW s \in Sources, Incoming(s), Head(wire[s]).tag # 0
  PROVE  PieceOf(s) \in Piece
<1>1. Head(wire[s]) \in Message
  BY Taken
<1> QED BY <1>1, BuilderAssumption DEF PieceOf, Piece, Message, Tags

\* What a receive does with the data.
LEMMA ReceiveData ==
  ASSUME InputType, Receive
  PROVE  \E s \in Sources :
            /\ Incoming(s)
            /\ UNCHANGED <<fTagMask, fEventFrames, fNumSequence>>
            /\ \/ UNCHANGED <<fInBuffer, received, sent, lost>>
               \/ /\ Head(wire[s]).tag # 0
                  /\ fInBuffer' = [fInBuffer EXCEPT ![s] = Append(fInBuffer[s], PieceOf(s))]
                  /\ received' = received \union {PieceOf(s)}
                  /\ UNCHANGED <<sent, lost>>
               \/ /\ fInBuffer' = fInBuffer
                  /\ \E frags \in SUBSET {PieceOf(s)}, o \in Outcomes :
                        /\ frags # {} => Head(wire[s]).tag # 0
                        /\ received' = received \union frags
                        /\ Note("incomplete", 0, frags, o)
<1>1. PICK s \in Sources : RecvTooMany(s) \/ RecvBeginRun(s) \/ RecvFragment(s)
  BY DEF Receive
<1>2. CASE RecvTooMany(s)
  BY <1>2 DEF RecvTooMany, bufferVars, PieceOf
<1>3. CASE RecvBeginRun(s)
  BY <1>3 DEF RecvBeginRun
<1>4. CASE RecvFragment(s)
  BY <1>4 DEF RecvFragment, PieceOf
<1> QED BY <1>1, <1>2, <1>3, <1>4

\* The fragments at the fronts go to their frames.
LEMMA FrontIsOne ==
  ASSUME DataType, NEW s \in Waiting
  PROVE  /\ s \in Sources
         /\ fInBuffer[s] \in Seq(Piece) /\ fInBuffer[s] # <<>>
         /\ FirstOf(s) \in Piece /\ FirstOf(s) = fInBuffer[s][1]
         /\ Tail(fInBuffer[s]) \in Seq(Piece)
         /\ Len(fInBuffer[s]) \in Nat \ {0} /\ Len(Tail(fInBuffer[s])) = Len(fInBuffer[s]) - 1
         /\ \A i \in 1 .. Len(fInBuffer[s]) - 1 : Tail(fInBuffer[s])[i] = fInBuffer[s][i + 1]
<1>1. s \in Sources /\ fInBuffer[s] \in Seq(Piece) /\ fInBuffer[s] # <<>>
  BY DEF Waiting, DataType
<1> HIDE DEF Piece
<1> QED BY <1>1, HeadTailProperties, EmptySeq, LenProperties DEF FirstOf

MergedInto(t) == {FirstOf(s) : s \in {w \in Waiting : MaskTag(FirstOf(w)) = t}}

LEMMA MergeData ==
  ASSUME DataType, Merge
  PROVE  /\ fEventFrames' = [t \in Masked |-> fEventFrames[t] \union MergedInto(t)]
         /\ fInBuffer' = [s \in Sources |-> IF s \in Waiting THEN Tail(fInBuffer[s]) ELSE <<>>]
         /\ \A t \in Masked : MergedInto(t) \subseteq Piece
         /\ UNCHANGED <<fTagMask, received, sent, lost, wire, trigger, run, options>>
         /\ pc = "Dup" /\ pc' = "Check" /\ Duplicated = {}
<1>1. \A t \in Masked : MergedInto(t) \subseteq Piece
  BY FrontIsOne DEF MergedInto
<1> QED BY <1>1 DEF Merge, MergedInto, inputVars, history

LEMMA DataTypeStep == ASSUME TypeOK, [Next]_vars PROVE DataType'
<1>0. DataType /\ InputType
  BY DEF TypeOK
<1> USE DEF DataType
<1>1. CASE Receive
  <2>1. PICK s \in Sources :
            /\ Incoming(s) /\ fEventFrames' = fEventFrames
            /\ \/ UNCHANGED <<fInBuffer, received>>
               \/ /\ Head(wire[s]).tag # 0
                  /\ fInBuffer' = [fInBuffer EXCEPT ![s] = Append(fInBuffer[s], PieceOf(s))]
                  /\ received' = received \union {PieceOf(s)}
               \/ /\ fInBuffer' = fInBuffer
                  /\ \E frags \in SUBSET {PieceOf(s)} :
                        /\ frags # {} => Head(wire[s]).tag # 0
                        /\ received' = received \union frags
    BY <1>0, <1>1, ReceiveData
  <2>2. Head(wire[s]).tag # 0 => PieceOf(s) \in Piece
    BY <1>0, <2>1, PieceIsOne
  <2>3. received' \subseteq Piece
    BY <1>0, <2>1, <2>2
  <2>4. Head(wire[s]).tag # 0 => Append(fInBuffer[s], PieceOf(s)) \in Seq(Piece)
    BY <1>0, <2>2, AppendProperties
  <2>5. fInBuffer' \in [Sources -> Seq(Piece)]
    BY <1>0, <2>1, <2>4
  <2> QED BY <1>0, <2>1, <2>3, <2>5
<1>2. CASE Sending
  <2>1. PICK t \in Masked : fEventFrames' = [fEventFrames EXCEPT ![t] = {}]
    BY <1>2, SendingFrame DEF Leaves
  <2>2. fInBuffer' = fInBuffer /\ received' = received
    BY <1>2, SendingFrame
  <2> QED BY <1>0, <2>1, <2>2
<1>3. CASE Turn \/ Tick \/ StopRequest \/ UNCHANGED vars
  BY <1>0, <1>3, TurnFrame
<1>4. CASE StartRun \/ BuildMask \/ SourceStep
  <2>1. UNCHANGED <<fInBuffer, fEventFrames>> /\ received' \in {received, {}}
    BY <1>4 DEF StartRun, BuildMask, SourceStep, SourceBegin, SourceSend, SourceMiss, SourceStop,
       bufferVars, history
  <2> QED BY <1>0, <2>1
<1>5. CASE Merge
  <2>1. \A s \in Sources : (IF s \in Waiting THEN Tail(fInBuffer[s]) ELSE <<>>) \in Seq(Piece)
    BY <1>0, FrontIsOne, EmptySeq
  <2>2. fInBuffer' \in [Sources -> Seq(Piece)]
    BY <1>0, <1>5, <2>1, MergeData
  <2>3. fEventFrames' \in [Masked -> SUBSET Piece] /\ received' = received
    BY <1>0, <1>5, MergeData
  <2> QED BY <1>0, <2>2, <2>3
<1>6. CASE PostRunEnd
  <2>1. fInBuffer' = Empty /\ fEventFrames' = NoFrame /\ received' = received
    BY <1>6 DEF PostRunEnd, ClearBuffers, history
  <2>2. Empty \in [Sources -> Seq(Piece)] /\ NoFrame \in [Masked -> SUBSET Piece]
    BY EmptySeq DEF Empty, NoFrame
  <2> QED BY <1>0, <2>1, <2>2
<1> QED
  BY <1>1, <1>2, <1>3, <1>4, <1>5, <1>6, Cases

-----------------------------------------------------------------------------
(* The order on the input channel. *)

\* A source sends what is next, or not, and goes on.
Advances(s, n) ==
    /\ trigger[s] <= MaxTag /\ n > trigger[s]
    /\ trigger' = [trigger EXCEPT ![s] = n]
    /\ wire' = wire \/ wire' = [wire EXCEPT ![s] = Append(wire[s], NextOf(s))]

LEMMA SourceData ==
  ASSUME TypeOK, SourceStep
  PROVE  /\ UNCHANGED <<options, pc, stopping, run, bufferVars, history>>
         /\ \E s \in Sources : \E n \in 0 .. MaxTag + 1 : Advances(s, n)
<1>m. MaxTag \in Nat /\ \A s \in Sources : trigger[s] \in 0 .. MaxTag + 1
  BY BuilderAssumption DEF TypeOK, InputType
<1>1. UNCHANGED <<options, pc, stopping, run, bufferVars, history>>
  BY DEF SourceStep, SourceBegin, SourceSend, SourceMiss, SourceStop
<1>2. ASSUME NEW s \in Sources, trigger[s] \in Tags
      PROVE  AfterTrigger(s) \in 0 .. MaxTag + 1 /\ AfterTrigger(s) > trigger[s]
  BY <1>m, <1>2 DEF AfterTrigger, Tags
<1>3. ASSUME NEW s \in Sources, SourceBegin(s) PROVE \E n \in 0 .. MaxTag + 1 : Advances(s, n)
  <2> DEFINE n == IF Quota[s] = 0 THEN MaxTag + 1 ELSE 1
  <2>1. trigger[s] = 0 /\ NextOf(s) = [run |-> run, tag |-> 0] /\ n \in 1 .. MaxTag + 1
    BY <1>m, <1>3 DEF SourceBegin, NextOf
  <2>2. Advances(s, n)
    BY <1>m, <1>3, <2>1 DEF SourceBegin, Advances
  <2> QED BY <1>m, <2>1, <2>2
<1>4. ASSUME NEW s \in Sources, SourceSend(s) \/ SourceMiss(s)
      PROVE  \E n \in 0 .. MaxTag + 1 : Advances(s, n)
  <2>1. trigger[s] \in Tags
    BY <1>4 DEF SourceSend, SourceMiss
  <2>2. Advances(s, AfterTrigger(s))
    BY <1>2, <1>4, <1>m, <2>1 DEF SourceSend, SourceMiss, Advances, NextOf, Tags
  <2> QED BY <1>2, <2>1, <2>2
<1>5. ASSUME NEW s \in Sources, SourceStop(s) PROVE \E n \in 0 .. MaxTag + 1 : Advances(s, n)
  <2>1. Advances(s, MaxTag + 1)
    BY <1>5, <1>m DEF SourceStop, Advances
  <2> QED BY <1>m, <2>1
<1> QED BY <1>1, <1>3, <1>4, <1>5 DEF SourceStep

LEMMA BeforeNext ==
  ASSUME NEW m, NEW r \in Nat, NEW a \in Nat, NEW b \in Nat, m.run \in Nat, m.tag \in Nat,
         a <= b, Before(m, [run |-> r, tag |-> a])
  PROVE  Before(m, [run |-> r, tag |-> b])
  BY DEF Before

LEMMA WireStep == ASSUME TypeOK, WireInv, [Next]_vars PROVE WireInv'
<1>t. /\ wire \in [Sources -> Seq(Message)] /\ run \in Nat /\ MaxTag \in Nat
      /\ \A s \in Sources : trigger[s] \in 0 .. MaxTag + 1
      /\ DOMAIN trigger = Sources
  BY BuilderAssumption DEF TypeOK, InputType, DeviceType
<1>n. ASSUME NEW s \in Sources, NEW i \in 1 .. Len(wire[s])
      PROVE  wire[s][i] \in Message /\ wire[s][i].run \in Nat /\ wire[s][i].tag \in Nat
  <2>1. wire[s][i] \in Message
    BY <1>t, ElementOfSeq
  <2> QED BY <2>1, <1>t DEF Message
<1>1. CASE SourceStep
  <2>1. run' = run
    BY <1>1, SourceData
  <2>2. PICK s \in Sources, n \in 0 .. MaxTag + 1 :
               /\ trigger[s] <= MaxTag /\ n > trigger[s]
               /\ trigger' = [trigger EXCEPT ![s] = n]
               /\ wire' = wire \/ wire' = [wire EXCEPT ![s] = Append(wire[s], NextOf(s))]
    BY <1>1, SourceData DEF Advances
  <2>3. ASSUME NEW r \in Sources
        PROVE  /\ trigger'[r] \in Nat /\ trigger[r] \in Nat /\ trigger[r] <= trigger'[r]
               /\ NextOf(r)' = [run |-> run, tag |-> trigger'[r]]
    BY <1>t, <2>1, <2>2 DEF NextOf
  <2>4. ASSUME NEW r \in Sources, NEW i \in 1 .. Len(wire[r]), wire'[r] = wire[r]
        PROVE  Before(wire'[r][i], NextOf(r)')
    <3>1. Before(wire[r][i], [run |-> run, tag |-> trigger[r]])
      BY DEF WireInv, NextOf
    <3> QED BY <1>t, <1>n, <2>3, <2>4, <3>1, BeforeNext
  <2>5. ASSUME NEW r \in Sources, wire'[r] = wire[r], NEW i \in 1 .. Len(wire'[r])
        PROVE  /\ Before(wire'[r][i], NextOf(r)')
               /\ \A j \in 1 .. i - 1 : Before(wire'[r][j], wire'[r][i])
    BY <2>4, <2>5 DEF WireInv
  <2>6. CASE wire' = [wire EXCEPT ![s] = Append(wire[s], NextOf(s))]
    <3>1. NextOf(s) \in Message
      <4>1. trigger[s] \in 0 .. MaxTag
        BY <1>t, <2>2
      <4> QED BY <1>t, <4>1 DEF NextOf, Message
    <3>2. /\ wire'[s] = Append(wire[s], NextOf(s)) /\ Len(wire'[s]) = Len(wire[s]) + 1
          /\ Len(wire[s]) \in Nat
          /\ \A i \in 1 .. Len(wire[s]) : wire'[s][i] = wire[s][i]
          /\ wire'[s][Len(wire[s]) + 1] = NextOf(s)
      BY <1>t, <2>6, <3>1, AppendProperties, LenProperties
    <3>3. ASSUME NEW i \in 1 .. Len(wire'[s])
          PROVE  /\ Before(wire'[s][i], NextOf(s)')
                 /\ \A j \in 1 .. i - 1 : Before(wire'[s][j], wire'[s][i])
      <4>1. CASE i \in 1 .. Len(wire[s])
        <5>1. Before(wire[s][i], [run |-> run, tag |-> trigger[s]])
          BY <4>1 DEF WireInv, NextOf
        <5>2. Before(wire'[s][i], NextOf(s)')
          BY <1>t, <1>n, <2>3, <3>2, <4>1, <5>1, BeforeNext
        <5>3. ASSUME NEW j \in 1 .. i - 1 PROVE Before(wire'[s][j], wire'[s][i])
          BY <3>2, <4>1 DEF WireInv
        <5> QED BY <5>2, <5>3
      <4>2. CASE i = Len(wire[s]) + 1
        <5>0. /\ wire'[s][i] = [run |-> run, tag |-> trigger[s]]
              /\ NextOf(s)' = [run |-> run, tag |-> trigger'[s]]
          BY <2>3, <3>2, <4>2 DEF NextOf
        <5>a. trigger[s] < trigger'[s]
          BY <1>t, <2>2
        <5>1. Before(wire'[s][i], NextOf(s)')
          BY <5>0, <5>a DEF Before
        <5>2. ASSUME NEW j \in 1 .. i - 1 PROVE Before(wire'[s][j], wire'[s][i])
          BY <3>2, <4>2 DEF WireInv
        <5> QED BY <5>1, <5>2
      <4> QED BY <3>2, <4>1, <4>2
    <3>4. \A r \in Sources : r # s => wire'[r] = wire[r]
      BY <1>t, <2>6
    <3> QED BY <2>5, <3>3, <3>4 DEF WireInv
  <2>7. CASE wire' = wire
    BY <2>5, <2>7 DEF WireInv
  <2> QED BY <2>2, <2>6, <2>7
<1>2. CASE Receive
  <2>1. PICK s \in Sources : Incoming(s)
    BY <1>2 DEF Receive, RecvTooMany, RecvBeginRun, RecvFragment
  <2>2. run' = run
    BY <2>1 DEF Incoming
  <2>3. /\ wire' = [wire EXCEPT ![s] = Tail(wire[s])] /\ trigger' = trigger
        /\ Len(wire[s]) \in Nat \ {0} /\ Len(Tail(wire[s])) = Len(wire[s]) - 1
        /\ \A i \in 1 .. Len(wire[s]) - 1 : Tail(wire[s])[i] = wire[s][i + 1]
    BY <2>1, Taken DEF TypeOK
  <2>4. ASSUME NEW i \in 1 .. Len(wire'[s])
        PROVE  /\ Before(wire'[s][i], NextOf(s)')
               /\ \A j \in 1 .. i - 1 : Before(wire'[s][j], wire'[s][i])
    <3>1. /\ wire'[s][i] = wire[s][i + 1] /\ i + 1 \in 1 .. Len(wire[s])
          /\ \A j \in 1 .. i - 1 : wire'[s][j] = wire[s][j + 1] /\ j + 1 \in 1 .. (i + 1) - 1
      BY <1>t, <2>3
    <3> QED BY <2>2, <2>3, <3>1 DEF WireInv, NextOf
  <2>5. \A r \in Sources : r # s => wire'[r] = wire[r]
    BY <1>t, <2>3
  <2> QED BY <2>2, <2>3, <2>4, <2>5 DEF WireInv, NextOf
<1>3. CASE StartRun
  <2>1. run' = run + 1 /\ wire' = wire /\ trigger' = [s \in Sources |-> 0]
    BY <1>3 DEF StartRun
  <2>2. ASSUME NEW s \in Sources, NEW i \in 1 .. Len(wire[s])
        PROVE  Before(wire[s][i], NextOf(s)')
    BY <1>t, <1>n, <2>1 DEF WireInv, Before, NextOf
  <2> QED BY <2>1, <2>2 DEF WireInv
<1>4. CASE UNCHANGED <<run, wire, trigger>>
  BY <1>4 DEF WireInv, NextOf
<1>5. Sending \/ Turn \/ Tick \/ StopRequest \/ BuildMask \/ Merge \/ PostRunEnd \/ UNCHANGED vars
          => UNCHANGED <<run, wire, trigger>>
  BY SendingFrame, TurnFrame DEF BuildMask, Merge, PostRunEnd, inputVars
<1> QED BY <1>1, <1>2, <1>3, <1>4, <1>5, Cases

\* A message that is taken is before all others, and what has not been received.
LEMMA FirstIsBefore ==
  ASSUME TypeOK, WireInv, ReceivedInv, NEW s \in Sources, Incoming(s)
  PROVE  /\ Before(PieceOf(s), NextOf(s))
         /\ \A i \in 1 .. Len(wire'[s]) : Before(PieceOf(s), wire'[s][i])
         /\ PieceOf(s) \notin received
<1>1. /\ Head(wire[s]) = wire[s][1] /\ Head(wire[s]) \in Message
      /\ Len(wire[s]) \in Nat \ {0} /\ Len(Tail(wire[s])) = Len(wire[s]) - 1
      /\ \A i \in 1 .. Len(wire[s]) - 1 : Tail(wire[s])[i] = wire[s][i + 1]
      /\ wire'[s] = Tail(wire[s])
  BY Taken DEF TypeOK, InputType
<1>2. \A n : Before(PieceOf(s), n) <=> Before(wire[s][1], n)
  BY <1>1 DEF PieceOf, Before
<1>3. Before(PieceOf(s), NextOf(s))
  BY <1>1, <1>2 DEF WireInv
<1>4. ASSUME NEW i \in 1 .. Len(wire'[s]) PROVE Before(PieceOf(s), wire'[s][i])
  <2>1. wire'[s][i] = wire[s][i + 1] /\ i + 1 \in 1 .. Len(wire[s]) /\ 1 \in 1 .. (i + 1) - 1
    BY <1>1
  <2> QED BY <1>2, <2>1 DEF WireInv
<1>5. ASSUME PieceOf(s) \in received PROVE FALSE
  <2>1. Before(PieceOf(s), wire[s][1])
    BY <1>1, <1>5 DEF ReceivedInv, PieceOf
  <2>2. PieceOf(s).run = wire[s][1].run /\ PieceOf(s).tag = wire[s][1].tag
        /\ wire[s][1].run \in Nat /\ wire[s][1].tag \in Nat
    BY <1>1, BuilderAssumption DEF PieceOf, Message
  <2> QED BY <2>1, <2>2 DEF Before
<1> QED BY <1>3, <1>4, <1>5

LEMMA ReceivedStep == ASSUME TypeOK, WireInv, ReceivedInv, [Next]_vars PROVE ReceivedInv'
<1>t. /\ wire \in [Sources -> Seq(Message)] /\ run \in Nat /\ MaxTag \in Nat
      /\ \A s \in Sources : trigger[s] \in 0 .. MaxTag + 1
      /\ DOMAIN trigger = Sources
      /\ \A f \in received : f.src \in Sources /\ f.run \in Nat /\ f.tag \in Nat
  BY BuilderAssumption DEF TypeOK, InputType, DeviceType, DataType, Piece, Tags
<1>1. CASE SourceStep
  <2>1. run' = run /\ received' = received
    BY <1>1, SourceData DEF history
  <2>2. PICK s \in Sources, n \in 0 .. MaxTag + 1 :
               /\ trigger[s] <= MaxTag /\ n > trigger[s]
               /\ trigger' = [trigger EXCEPT ![s] = n]
               /\ wire' = wire \/ wire' = [wire EXCEPT ![s] = Append(wire[s], NextOf(s))]
    BY <1>1, SourceData DEF Advances
  <2>3. ASSUME NEW f \in received
        PROVE  Before(f, NextOf(f.src)')
    <3>1. Before(f, [run |-> run, tag |-> trigger[f.src]])
      BY DEF ReceivedInv, NextOf
    <3>2. /\ trigger'[f.src] \in Nat /\ trigger[f.src] \in Nat /\ trigger[f.src] <= trigger'[f.src]
          /\ NextOf(f.src)' = [run |-> run, tag |-> trigger'[f.src]]
      BY <1>t, <2>1, <2>2 DEF NextOf
    <3> QED BY <1>t, <3>1, <3>2, BeforeNext
  <2>4. ASSUME NEW f \in received, NEW i \in 1 .. Len(wire'[f.src])
        PROVE  Before(f, wire'[f.src][i])
    <3>1. CASE wire'[f.src] = wire[f.src]
      BY <3>1 DEF ReceivedInv
    <3>2. CASE f.src = s /\ wire' = [wire EXCEPT ![s] = Append(wire[s], NextOf(s))]
      <4>1. NextOf(s) \in Message
        <5>1. trigger[s] \in 0 .. MaxTag
          BY <1>t, <2>2
        <5> QED BY <1>t, <5>1 DEF NextOf, Message
      <4>2. /\ Len(wire'[s]) = Len(wire[s]) + 1 /\ Len(wire[s]) \in Nat
            /\ \A k \in 1 .. Len(wire[s]) : wire'[s][k] = wire[s][k]
            /\ wire'[s][Len(wire[s]) + 1] = NextOf(s)
        BY <1>t, <3>2, <4>1, AppendProperties, LenProperties
      <4>3. CASE i \in 1 .. Len(wire[s])
        BY <3>2, <4>2, <4>3 DEF ReceivedInv
      <4>4. CASE i = Len(wire[s]) + 1
        BY <3>2, <4>2, <4>4 DEF ReceivedInv
      <4> QED BY <3>2, <4>2, <4>3, <4>4
    <3> QED BY <1>t, <2>2, <3>1, <3>2
  <2> QED BY <2>1, <2>3, <2>4 DEF ReceivedInv
<1>2. CASE Receive
  <2>1. PICK s \in Sources :
            /\ Incoming(s)
            /\ received' \in {received, received \union {PieceOf(s)}}
    BY <1>2, ReceiveData DEF TypeOK
  <2>2. run' = run /\ trigger' = trigger
    BY <2>1 DEF Incoming
  <2>3. /\ wire' = [wire EXCEPT ![s] = Tail(wire[s])]
        /\ Len(wire[s]) \in Nat \ {0} /\ Len(Tail(wire[s])) = Len(wire[s]) - 1
        /\ \A i \in 1 .. Len(wire[s]) - 1 : Tail(wire[s])[i] = wire[s][i + 1]
    BY <2>1, Taken DEF TypeOK
  <2>4. ASSUME NEW f \in received
        PROVE  /\ Before(f, NextOf(f.src)')
               /\ \A i \in 1 .. Len(wire'[f.src]) : Before(f, wire'[f.src][i])
    <3>1. Before(f, NextOf(f.src)')
      BY <2>2 DEF ReceivedInv, NextOf
    <3>2. ASSUME NEW i \in 1 .. Len(wire'[f.src]) PROVE Before(f, wire'[f.src][i])
      <4>1. CASE f.src = s
        <5>1. wire'[s][i] = wire[s][i + 1] /\ i + 1 \in 1 .. Len(wire[s])
          BY <1>t, <2>3, <4>1
        <5> QED BY <4>1, <5>1 DEF ReceivedInv
      <4>2. CASE f.src # s
        BY <1>t, <2>3, <4>2 DEF ReceivedInv
      <4> QED BY <4>1, <4>2
    <3> QED BY <3>1, <3>2
  <2>5. /\ Before(PieceOf(s), NextOf(s)')
        /\ \A i \in 1 .. Len(wire'[s]) : Before(PieceOf(s), wire'[s][i])
        /\ PieceOf(s).src = s
    BY <2>1, <2>2, FirstIsBefore DEF PieceOf, NextOf
  <2>6. ASSUME NEW f \in received'
        PROVE  /\ Before(f, NextOf(f.src)')
               /\ \A i \in 1 .. Len(wire'[f.src]) : Before(f, wire'[f.src][i])
    <3>1. CASE f \in received
      BY <2>4, <3>1
    <3>2. CASE f = PieceOf(s)
      BY <2>5, <3>2 DEF NextOf
    <3> QED BY <2>1, <3>1, <3>2
  <2> QED BY <2>6 DEF ReceivedInv
<1>3. CASE StartRun
  BY <1>3 DEF StartRun, ReceivedInv
<1>4. CASE UNCHANGED <<run, wire, trigger, received>>
  BY <1>4 DEF ReceivedInv, NextOf
<1>5. Sending \/ Turn \/ Tick \/ StopRequest \/ BuildMask \/ Merge \/ PostRunEnd \/ UNCHANGED vars
          => UNCHANGED <<run, wire, trigger, received>>
  BY SendingFrame, TurnFrame DEF BuildMask, Merge, PostRunEnd, inputVars, history
<1> QED BY <1>1, <1>2, <1>3, <1>4, <1>5, Cases

-----------------------------------------------------------------------------
(* What waits. *)

BufferOK(buffer, s) ==
    \A i \in 1 .. Len(buffer) :
        /\ buffer[i].src = s
        /\ \A j \in 1 .. i - 1 : buffer[j] # buffer[i]

LEMMA BufferedAre ==
  ASSUME DataType
  PROVE  \A f : f \in Buffered <=>
            \E s \in Sources : \E i \in 1 .. Len(fInBuffer[s]) : f = fInBuffer[s][i]
<1>1. ASSUME NEW s \in Sources PROVE ToSet(fInBuffer[s]) = {fInBuffer[s][i] : i \in 1 .. Len(fInBuffer[s])}
  BY LenProperties DEF DataType, ToSet
<1>2. \A f : f \in Buffered <=> \E s \in Sources : f \in ToSet(fInBuffer[s])
  BY DEF Buffered
<1>3. ASSUME NEW f, NEW s \in Sources
      PROVE  f \in ToSet(fInBuffer[s]) <=> \E i \in 1 .. Len(fInBuffer[s]) : f = fInBuffer[s][i]
  BY <1>1
<1> QED BY <1>2, <1>3

LEMMA AppendBuffer ==
  ASSUME NEW buffer \in Seq(Piece), NEW s, BufferOK(buffer, s), NEW f \in Piece, f.src = s,
         \A i \in 1 .. Len(buffer) : buffer[i] # f
  PROVE  BufferOK(Append(buffer, f), s)
<1>1. /\ Len(Append(buffer, f)) = Len(buffer) + 1 /\ Len(buffer) \in Nat
      /\ \A i \in 1 .. Len(buffer) : Append(buffer, f)[i] = buffer[i]
      /\ Append(buffer, f)[Len(buffer) + 1] = f
  <2> HIDE DEF Piece
  <2> QED BY AppendProperties, LenProperties
<1>2. ASSUME NEW i \in 1 .. Len(buffer) + 1
      PROVE  /\ Append(buffer, f)[i].src = s
             /\ \A j \in 1 .. i - 1 : Append(buffer, f)[j] # Append(buffer, f)[i]
  <2>1. CASE i \in 1 .. Len(buffer)
    BY <1>1, <2>1 DEF BufferOK
  <2>2. CASE i = Len(buffer) + 1
    BY <1>1, <2>2
  <2> QED BY <1>1, <2>1, <2>2
<1> QED BY <1>1, <1>2 DEF BufferOK

LEMMA BufferStep ==
  ASSUME TypeOK, WireInv, ReceivedInv, BufferInv, [Next]_vars,
         pc # "Ready" => Buffered \subseteq received
  PROVE  BufferInv'
<1>t. DataType /\ InputType /\ fInBuffer \in [Sources -> Seq(Piece)]
  BY DEF TypeOK, DataType
<1>b. BufferInv <=> \A s \in Sources : BufferOK(fInBuffer[s], s)
  BY DEF BufferInv, BufferOK
<1>c. BufferInv' <=> \A s \in Sources : BufferOK(fInBuffer'[s], s)
  BY DEF BufferInv, BufferOK
<1>1. CASE fInBuffer' = fInBuffer
  BY <1>1, <1>b, <1>c
<1>2. CASE Receive
  <2>1. PICK s \in Sources :
            /\ Incoming(s)
            /\ \/ fInBuffer' = fInBuffer
               \/ /\ Head(wire[s]).tag # 0
                  /\ fInBuffer' = [fInBuffer EXCEPT ![s] = Append(fInBuffer[s], PieceOf(s))]
    BY <1>2, <1>t, ReceiveData
  <2>2. CASE Head(wire[s]).tag # 0
             /\ fInBuffer' = [fInBuffer EXCEPT ![s] = Append(fInBuffer[s], PieceOf(s))]
    <3>1. PieceOf(s) \in Piece /\ PieceOf(s).src = s
      BY <1>t, <2>1, <2>2, PieceIsOne DEF PieceOf
    <3>2. PieceOf(s) \notin received /\ pc # "Ready"
      BY <2>1, FirstIsBefore DEF Incoming
    <3>3. \A i \in 1 .. Len(fInBuffer[s]) : fInBuffer[s][i] # PieceOf(s)
      BY <1>t, <3>2, BufferedAre
    <3>4. BufferOK(Append(fInBuffer[s], PieceOf(s)), s)
      BY <1>b, <1>t, <3>1, <3>3, AppendBuffer
    <3> QED BY <1>b, <1>c, <1>t, <2>2, <3>4
  <2> QED BY <2>1, <2>2, <1>1
<1>3. CASE Merge
  <2>1. ASSUME NEW s \in Sources PROVE BufferOK(fInBuffer'[s], s)
    <3>1. CASE s \in Waiting
      <4>1. /\ Len(fInBuffer[s]) \in Nat \ {0} /\ fInBuffer'[s] = Tail(fInBuffer[s])
            /\ Len(Tail(fInBuffer[s])) = Len(fInBuffer[s]) - 1
            /\ \A i \in 1 .. Len(fInBuffer[s]) - 1 : Tail(fInBuffer[s])[i] = fInBuffer[s][i + 1]
        BY <1>3, <1>t, <3>1, FrontIsOne, MergeData
      <4>2. ASSUME NEW i \in 1 .. Len(fInBuffer'[s])
            PROVE  /\ fInBuffer'[s][i].src = s
                   /\ \A j \in 1 .. i - 1 : fInBuffer'[s][j] # fInBuffer'[s][i]
        <5>1. /\ fInBuffer'[s][i] = fInBuffer[s][i + 1] /\ i + 1 \in 1 .. Len(fInBuffer[s])
              /\ \A j \in 1 .. i - 1 : fInBuffer'[s][j] = fInBuffer[s][j + 1]
                                       /\ j + 1 \in 1 .. (i + 1) - 1
          BY <4>1
        <5> QED BY <5>1 DEF BufferInv
      <4> QED BY <4>2 DEF BufferOK
    <3>2. CASE s \notin Waiting
      <4>1. fInBuffer'[s] = <<>> /\ Len(<<>>) = 0
        BY <1>3, <1>t, <3>2, MergeData
      <4> QED BY <4>1 DEF BufferOK
    <3> QED BY <3>1, <3>2
  <2> QED BY <1>c, <2>1
<1>4. CASE PostRunEnd
  <2>1. ASSUME NEW s \in Sources PROVE BufferOK(fInBuffer'[s], s)
    BY <1>4 DEF PostRunEnd, ClearBuffers, Empty, BufferOK
  <2> QED BY <1>c, <2>1
<1>5. SourceStep \/ Sending \/ Turn \/ Tick \/ StopRequest \/ StartRun \/ BuildMask \/ UNCHANGED vars
          => fInBuffer' = fInBuffer
  BY SourceData, SendingFrame, TurnFrame DEF StartRun, BuildMask, bufferVars
<1> QED BY <1>1, <1>2, <1>3, <1>4, <1>5, Cases

-----------------------------------------------------------------------------
(* What is in the frames, and the mask. *)

LEMMA FrontSource ==
  ASSUME DataType, BufferInv, NEW s \in Waiting
  PROVE  FirstOf(s).src = s
<1>1. s \in Sources /\ FirstOf(s) = fInBuffer[s][1] /\ 1 \in 1 .. Len(fInBuffer[s])
  BY FrontIsOne
<1> QED BY <1>1 DEF BufferInv

LEMMA FrameStep == ASSUME TypeOK, BufferInv, FrameInv, MaskInv, [Next]_vars PROVE FrameInv'
<1>t. DataType /\ fEventFrames \in [Masked -> SUBSET Piece]
  BY DEF TypeOK, DataType
<1>1. CASE UNCHANGED <<fEventFrames, fTagMask>>
  BY <1>1 DEF FrameInv, MaskTag
<1>2. CASE Sending
  <2>1. PICK t \in Masked : fEventFrames' = [fEventFrames EXCEPT ![t] = {}]
    BY <1>2, SendingFrame DEF Leaves
  <2>2. \A u \in Masked : fEventFrames'[u] \subseteq fEventFrames[u]
    BY <1>t, <2>1
  <2>3. fTagMask' = fTagMask
    BY <1>2, SendingFrame
  <2> QED BY <2>2, <2>3 DEF FrameInv, MaskTag
<1>3. CASE BuildMask
  <2>1. fEventFrames' = fEventFrames /\ (fTagMask # 0 => fTagMask' = fTagMask)
    BY <1>3 DEF BuildMask
  <2>2. CASE fTagMask = 0
    BY <2>1, <2>2 DEF FrameInv
  <2> QED BY <1>1, <2>1, <2>2
<1>4. CASE Merge
  <2>1. /\ \A t \in Masked : fEventFrames'[t] = fEventFrames[t] \union MergedInto(t)
        /\ fTagMask' = fTagMask /\ pc = "Dup" /\ Duplicated = {}
    BY <1>4, <1>t, MergeData
  <2>2. ASSUME NEW t \in Masked, NEW f \in MergedInto(t)
        PROVE  /\ fTagMask # 0 /\ MaskTag(f) = t
               /\ f.src \in Waiting /\ f = FirstOf(f.src)
               /\ \A g \in fEventFrames[t] : g.src # f.src
    <3>1. PICK w \in Waiting : MaskTag(FirstOf(w)) = t /\ f = FirstOf(w)
      BY DEF MergedInto
    <3>2. f.src = w
      BY <1>t, <3>1, FrontSource
    <3>3. fTagMask # 0
      BY <2>1, <3>1 DEF MaskInv
    <3>4. \A g \in fEventFrames[t] : g.src # w
      BY <2>1, <3>1 DEF Duplicated
    <3> QED BY <3>1, <3>2, <3>3, <3>4
  <2>3. ASSUME NEW t \in Masked, NEW f \in fEventFrames'[t]
        PROVE  /\ fTagMask # 0 /\ MaskTag(f) = t
               /\ \A g \in fEventFrames'[t] : f.src = g.src => f = g
    <3>1. fTagMask # 0 /\ MaskTag(f) = t
      BY <2>1, <2>2 DEF FrameInv
    <3>2. ASSUME NEW g \in fEventFrames'[t], f.src = g.src PROVE f = g
      <4>1. CASE f \in fEventFrames[t] /\ g \in fEventFrames[t]
        BY <4>1, <3>2 DEF FrameInv
      <4>2. CASE f \in MergedInto(t) /\ g \in MergedInto(t)
        BY <4>2, <3>2, <2>2
      <4>3. CASE f \in MergedInto(t) /\ g \in fEventFrames[t]
        BY <4>3, <3>2, <2>2
      <4>4. CASE f \in fEventFrames[t] /\ g \in MergedInto(t)
        BY <4>4, <3>2, <2>2
      <4> QED BY <2>1, <4>1, <4>2, <4>3, <4>4
    <3> QED BY <3>1, <3>2
  <2> QED BY <2>1, <2>3 DEF FrameInv, MaskTag
<1>5. CASE PostRunEnd
  <2>1. \A t \in Masked : fEventFrames'[t] = {}
    BY <1>5 DEF PostRunEnd, ClearBuffers, NoFrame
  <2> QED BY <2>1 DEF FrameInv
<1>6. SourceStep \/ Receive \/ Turn \/ Tick \/ StopRequest \/ StartRun \/ UNCHANGED vars
          => UNCHANGED <<fEventFrames, fTagMask>>
  BY SourceData, TurnFrame, ReceiveData DEF StartRun, bufferVars, TypeOK
<1> QED BY <1>1, <1>2, <1>3, <1>4, <1>5, <1>6, Cases

LEMMA MaskStep == ASSUME TypeOK, FrameInv, MaskInv, [Next]_vars PROVE MaskInv'
<1>t. DataType /\ InputType /\ fNumSource \in Nat \ {0}
  BY BuilderAssumption DEF TypeOK
<1> DEFINE NoneOut == \A g \in sent : g.output # "out"
<1>1. CASE SourceStep
  BY <1>1, SourceData DEF MaskInv, history, bufferVars, Waiting
<1>2. CASE Receive
  <2>1. PICK s \in Sources :
            /\ Incoming(s) /\ fTagMask' = fTagMask
            /\ \/ sent' = sent
               \/ \E frags \in SUBSET {PieceOf(s)}, o \in Outcomes : Note("incomplete", 0, frags, o)
    BY <1>2, <1>t, ReceiveData
  <2>2. NoneOut => NoneOut'
    BY <2>1 DEF Note
  <2>3. pc # "Ready" /\ pc' # "Dup"
    BY <2>1 DEF Incoming
  <2> QED BY <2>1, <2>2, <2>3 DEF MaskInv
<1>3. CASE Sending
  <2>1. PICK t \in Masked, output \in Outputs, o \in Outcomes :
            \E sink : Leaves(t, output, sink, o)
    BY <1>3, SendingFrame
  <2>2. /\ UNCHANGED <<pc, fTagMask, fInBuffer>> /\ pc # "Ready"
    BY <1>3, SendingFrame
  <2>3. ASSUME fTagMask = 0, output = "out" PROVE FALSE
    <3>1. fEventFrames[t] = {}
      BY <2>3 DEF FrameInv
    <3>2. Cardinality(fEventFrames[t]) = fNumSource
      BY <2>1, <2>3 DEF Leaves
    <3> QED BY <3>1, <3>2, <1>t, FS_EmptySet
  <2>4. fTagMask = 0 /\ NoneOut => NoneOut'
    BY <2>1, <2>3 DEF Leaves, Note
  <2> QED BY <2>2, <2>4 DEF MaskInv, Waiting
<1>4. CASE Turn \/ Tick \/ StopRequest \/ UNCHANGED vars
  BY <1>4, TurnFrame DEF MaskInv, Waiting
<1>5. CASE StartRun
  BY <1>5 DEF StartRun, MaskInv
<1>6. CASE BuildMask
  <2>1. /\ sent' = sent /\ fInBuffer' = fInBuffer /\ pc # "Ready"
        /\ fTagMask' = IF fTagMask = 0 /\ Waiting # {} THEN CoarsestFront ELSE fTagMask
    BY <1>6 DEF BuildMask, history
  <2>2. Waiting' = Waiting
    BY <2>1 DEF Waiting
  <2> QED BY <2>1, <2>2, CoarsestIsOne DEF MaskInv
<1>7. CASE Merge
  BY <1>7, <1>t, MergeData DEF MaskInv
<1>8. CASE PostRunEnd
  BY <1>8 DEF PostRunEnd, MaskInv
<1> QED BY <1>1, <1>2, <1>3, <1>4, <1>5, <1>6, <1>7, <1>8, Cases

-----------------------------------------------------------------------------
(* Runs, and the begin-run data. *)

LEMMA ReadyStep == ASSUME TypeOK, ReadyInv, [Next]_vars PROVE ReadyInv'
<1>1. CASE UNCHANGED <<pc, fInBuffer, fEventFrames, fTagMask, fBeginRunData>>
  BY <1>1 DEF ReadyInv
<1>2. CASE pc' # "Ready"
  BY <1>2 DEF ReadyInv
<1>3. CASE PostRunEnd
  BY <1>3 DEF PostRunEnd, ClearBuffers, ReadyInv
<1>4. CASE Turn \/ Tick \/ StopRequest \/ UNCHANGED vars
  BY <1>4, TurnFrame DEF ReadyInv
<1>5. CASE SourceStep
  BY <1>1, <1>5, SourceData DEF bufferVars
<1>6. Receive \/ Sending \/ StartRun \/ BuildMask \/ Merge => pc' # "Ready"
  BY SendingFrame DEF Receive, RecvTooMany, RecvBeginRun, RecvFragment, Incoming, StartRun,
     BuildMask, Merge
<1> QED BY <1>2, <1>3, <1>4, <1>5, <1>6, Cases

BegunSet == {s \in Sources : fBeginRunData[s] # 0}

LEMMA BegunIs == /\ IsFiniteSet(BegunSet) /\ Begun = Cardinality(BegunSet) /\ Begun \in Nat
<1>1. BegunSet \subseteq Sources
  BY DEF BegunSet
<1> QED BY <1>1, BuilderAssumption, FS_Subset, FS_CardinalityType DEF BegunSet, Begun

LEMMA BegunStep == ASSUME TypeOK, BegunInv, ReadyInv, [Next]_vars PROVE BegunInv'
<1>n. fNumSource \in Nat \ {0} /\ Begun \in Nat /\ Begun' \in Nat
  <2>1. IsFiniteSet(BegunSet') /\ Begun' = Cardinality(BegunSet')
    <3>1. BegunSet' \subseteq Sources
      BY DEF BegunSet
    <3> QED BY <3>1, BuilderAssumption, FS_Subset DEF BegunSet, Begun
  <2> QED BY <2>1, BuilderAssumption, BegunIs, FS_CardinalityType
<1>s. fBeginRunData' = fBeginRunData => Begun' = Begun
  BY DEF Begun
<1>1. CASE /\ UNCHANGED <<fBeginRunData, began>>
           /\ pc' \in {"Dup", "Check", "Timeout"} =>
                pc \in {"Dup", "Check", "Timeout"} \/ Begun >= fNumSource
  BY <1>1, <1>s DEF BegunInv
<1>2. ASSUME NEW s \in Sources, RecvBeginRun(s) PROVE BegunInv'
  <2>1. /\ fBeginRunData' = fBeginRunData \/ fBeginRunData' = [fBeginRunData EXCEPT ![s] = Head(wire[s]).run]
        /\ began' = IF Begun < fNumSource /\ Begun' = fNumSource THEN BeginRunOutputs ELSE began
        /\ pc' \in {"Recv", "Build"}
    BY <1>2 DEF RecvBeginRun, Incoming
  <2>2. Begun' <= Begun + 1
    <3>1. CASE fBeginRunData' = fBeginRunData
      BY <1>n, <1>s, <3>1
    <3>2. CASE fBeginRunData' = [fBeginRunData EXCEPT ![s] = Head(wire[s]).run]
      <4>1. BegunSet' \subseteq BegunSet \union {s}
        BY <3>2 DEF BegunSet, TypeOK, DeviceType
      <4>a. IsFiniteSet(BegunSet) /\ Cardinality(BegunSet) = Begun
        BY BegunIs
      <4>b. /\ IsFiniteSet(BegunSet \union {s})
            /\ Cardinality(BegunSet \union {s}) =
                 IF s \in BegunSet THEN Cardinality(BegunSet) ELSE Cardinality(BegunSet) + 1
        BY <4>a, FS_AddElement
      <4>2. IsFiniteSet(BegunSet \union {s}) /\ Cardinality(BegunSet \union {s}) <= Begun + 1
        BY <1>n, <4>a, <4>b
      <4>3. Cardinality(BegunSet') <= Cardinality(BegunSet \union {s})
        BY <4>1, <4>2, FS_Subset
      <4>4. Cardinality(BegunSet') = Begun' /\ Cardinality(BegunSet \union {s}) \in Nat
        BY <4>2, FS_CardinalityType DEF BegunSet, Begun
      <4> QED BY <1>n, <4>2, <4>3, <4>4
    <3> QED BY <2>1, <3>1, <3>2
  <2> QED BY <1>n, <2>1, <2>2 DEF BegunInv, BeginRunOutputs
<1>3. ASSUME NEW s \in Sources, RecvTooMany(s) \/ RecvFragment(s) PROVE BegunInv'
  BY <1>1, <1>3 DEF RecvTooMany, RecvFragment, Incoming, bufferVars
<1>4. CASE Turn \/ Tick \/ StopRequest \/ UNCHANGED vars
  BY <1>1, <1>4, TurnFrame
<1>5. CASE SourceStep
  BY <1>1, <1>5, SourceData DEF bufferVars, history
<1>6. CASE Sending
  BY <1>1, <1>6, SendingFrame
<1>7. CASE StartRun
  <2>1. Begun = 0
    <3>1. BegunSet = {}
      BY <1>7 DEF StartRun, ReadyInv, BegunSet
    <3> QED BY <3>1, BegunIs, FS_EmptySet
  <2> QED BY <1>n, <1>s, <1>7, <2>1 DEF StartRun, BegunInv, bufferVars
<1>8. CASE BuildMask \/ Merge
  BY <1>1, <1>8 DEF BuildMask, Merge, history
<1>9. CASE PostRunEnd
  <2>1. Begun' = 0
    <3>1. BegunSet' = {}
      BY <1>9 DEF PostRunEnd, ClearBuffers, BegunSet
    <3>2. Begun' = Cardinality(BegunSet')
      BY DEF BegunSet, Begun
    <3> QED BY <3>1, <3>2, FS_EmptySet
  <2> QED BY <1>n, <1>9, <2>1 DEF PostRunEnd, BegunInv, history
<1> QED BY <1>2, <1>3, <1>4, <1>5, <1>6, <1>7, <1>8, <1>9, Cases DEF Receive

\* Whichever rule chooses the sub-channel, it is one of the output's.
LEMMA DirectionIsSink ==
  ASSUME TypeOK, NEW t \in Masked
  PROVE  Direction(fEventFrames[t]) \subseteq Sinks
<1>1. ASSUME NEW n \in Nat PROVE n % fNumSink \in Sinks
  BY BuilderAssumption DEF Sinks
<1>2. \A f \in fEventFrames[t] : f.tag \in Nat
  BY BuilderAssumption DEF TypeOK, DataType, Piece, Tags
<1>3. fNumSequence \in Nat
  BY DEF TypeOK, DeviceType
<1> QED BY <1>1, <1>2, <1>3 DEF Direction, Finest

LEMMA BeginRunStep ==
  ASSUME TypeOK, BegunInv, BeginRunFirst, [Next]_vars
  PROVE  BeginRunFirst'
<1> DEFINE OK(g, to) == g.frags # {} /\ (g.output # "incomplete" \/ g.sink # 0)
                            => <<g.output, g.sink>> \in to
<1>1. CASE UNCHANGED <<sent, began>>
  BY <1>1 DEF BeginRunFirst
<1>2. CASE Sending
  <2>1. PICK t \in Masked, output \in Outputs, o \in Outcomes :
            \E sink : Leaves(t, output, sink, o)
    BY <1>2, SendingFrame
  <2>2. PICK sink : Leaves(t, output, sink, o)
    BY <2>1
  <2>3. began' = began /\ began = BeginRunOutputs
    BY <1>2, SendingFrame DEF BegunInv
  <2>4. (output = "incomplete" /\ sink = 0) \/ sink \in Sinks
    BY <2>2, DirectionIsSink DEF Leaves
  <2>5. (output = "incomplete" /\ sink = 0) \/ <<output, sink>> \in began
    BY <2>3, <2>4 DEF BeginRunOutputs
  <2>6. \A g \in sent' : g \in sent \/ g = [output |-> output, sink |-> sink, frags |-> fEventFrames[t]]
    BY <2>2 DEF Leaves, Note
  <2> QED BY <2>3, <2>5, <2>6 DEF BeginRunFirst
<1>3. ASSUME NEW s \in Sources, RecvBeginRun(s) PROVE BeginRunFirst'
  <2>1. sent' = sent /\ began' \in {began, BeginRunOutputs}
    BY <1>3 DEF RecvBeginRun
  <2>2. began \subseteq began'
    BY <2>1 DEF BegunInv
  <2> QED BY <2>1, <2>2 DEF BeginRunFirst
<1>4. ASSUME NEW s \in Sources, RecvTooMany(s) PROVE BeginRunFirst'
  <2>1. began' = began
    BY <1>4 DEF RecvTooMany
  <2>2. \A g \in sent' : g \in sent \/ (g.output = "incomplete" /\ g.sink = 0)
    BY <1>4 DEF RecvTooMany, Note
  <2> QED BY <2>1, <2>2 DEF BeginRunFirst
<1>5. CASE StartRun
  BY <1>5 DEF StartRun, BeginRunFirst
<1>6. ASSUME NEW s \in Sources PROVE RecvFragment(s) => UNCHANGED <<sent, began>>
  BY DEF RecvFragment
<1>7. SourceStep \/ Turn \/ Tick \/ StopRequest \/ BuildMask \/ Merge \/ PostRunEnd \/ UNCHANGED vars
          => UNCHANGED <<sent, began>>
  BY SourceData, TurnFrame DEF BuildMask, Merge, PostRunEnd, history
<1> QED BY <1>1, <1>2, <1>3, <1>4, <1>5, <1>6, <1>7, Cases DEF Receive

LEMMA RunStep == ASSUME TypeOK, RunInv, [Next]_vars PROVE RunInv'
<1>l. late' = late
  BY Cases, SourceData, SendingFrame, TurnFrame
     DEF options, Receive, RecvTooMany, RecvBeginRun, RecvFragment, Incoming, StartRun, BuildMask,
         Merge, PostRunEnd
<1> SUFFICES ASSUME ~late PROVE RunInv'
  BY <1>l DEF RunInv
<1>t. /\ InputType /\ wire \in [Sources -> Seq(Message)] /\ MaxTag \in Nat
      /\ DOMAIN trigger = Sources
  BY BuilderAssumption DEF TypeOK, InputType
<1>1. CASE SourceStep
  <2>1. UNCHANGED <<pc, run, received>>
    BY <1>1, SourceData DEF history
  <2>2. PICK s \in Sources, n \in 0 .. MaxTag + 1 : Advances(s, n)
    BY <1>1, SourceData
  <2>3. pc # "Ready"
    BY <2>2, <1>t DEF Advances, RunInv
  <2>4. ASSUME NEW r \in Sources, NEW i \in 1 .. Len(wire'[r]) PROVE wire'[r][i].run = run
    <3>1. CASE wire'[r] = wire[r]
      BY <3>1 DEF RunInv
    <3>2. CASE r = s /\ wire' = [wire EXCEPT ![s] = Append(wire[s], NextOf(s))]
      <4>1. NextOf(s) \in Message
        <5>1. trigger[s] \in 0 .. MaxTag /\ run \in Nat
          BY <1>t, <2>2 DEF Advances, TypeOK, InputType, DeviceType
        <5> QED BY <5>1 DEF NextOf, Message
      <4>2. /\ Len(wire'[s]) = Len(wire[s]) + 1 /\ Len(wire[s]) \in Nat
            /\ \A k \in 1 .. Len(wire[s]) : wire'[s][k] = wire[s][k]
            /\ wire'[s][Len(wire[s]) + 1] = NextOf(s)
        BY <1>t, <3>2, <4>1, AppendProperties, LenProperties
      <4>3. CASE i \in 1 .. Len(wire[s])
        BY <3>2, <4>2, <4>3 DEF RunInv
      <4>4. CASE i = Len(wire[s]) + 1
        BY <3>2, <4>2, <4>4 DEF NextOf
      <4> QED BY <3>2, <4>2, <4>3, <4>4
    <3> QED BY <1>t, <2>2, <3>1, <3>2 DEF Advances
  <2> QED BY <2>1, <2>3, <2>4 DEF RunInv
<1>2. CASE Receive
  <2>1. PICK s \in Sources :
            /\ Incoming(s)
            /\ received' \in {received, received \union {PieceOf(s)}}
    BY <1>2, ReceiveData DEF TypeOK
  <2>2. run' = run /\ trigger' = trigger /\ pc' # "Ready"
    BY <2>1 DEF Incoming
  <2>3. /\ wire' = [wire EXCEPT ![s] = Tail(wire[s])]
        /\ Len(wire[s]) \in Nat \ {0} /\ Len(Tail(wire[s])) = Len(wire[s]) - 1
        /\ \A i \in 1 .. Len(wire[s]) - 1 : Tail(wire[s])[i] = wire[s][i + 1]
        /\ Head(wire[s]) = wire[s][1]
    BY <1>t, <2>1, Taken
  <2>4. PieceOf(s).run = run
    BY <2>3 DEF PieceOf, RunInv
  <2>5. ASSUME NEW r \in Sources, NEW i \in 1 .. Len(wire'[r]) PROVE wire'[r][i].run = run
    <3>1. CASE r = s
      <4>1. wire'[s][i] = wire[s][i + 1] /\ i + 1 \in 1 .. Len(wire[s])
        BY <1>t, <2>3, <3>1
      <4> QED BY <3>1, <4>1 DEF RunInv
    <3>2. CASE r # s
      BY <1>t, <2>3, <3>2 DEF RunInv
    <3> QED BY <3>1, <3>2
  <2>6. \A f \in received' : f.run = run
    BY <2>1, <2>4 DEF RunInv
  <2> QED BY <2>2, <2>5, <2>6 DEF RunInv
<1>3. CASE StartRun
  <2>1. wire = Empty /\ wire' = wire /\ received' = {} /\ pc' # "Ready"
    BY <1>3 DEF StartRun, RunInv
  <2>2. \A s \in Sources : wire'[s] = <<>> /\ Len(<<>>) = 0
    BY <2>1 DEF Empty
  <2> QED BY <2>1, <2>2 DEF RunInv
<1>4. CASE PostRunEnd
  BY <1>4 DEF PostRunEnd, RunInv, inputVars, history
<1>5. CASE UNCHANGED <<run, wire, trigger, received>> /\ (pc' = "Ready" => pc = "Ready")
  BY <1>5 DEF RunInv
<1>6. Sending \/ Turn \/ Tick \/ StopRequest \/ BuildMask \/ Merge \/ UNCHANGED vars
          => UNCHANGED <<run, wire, trigger, received>> /\ (pc' = "Ready" => pc = "Ready")
  BY SendingFrame, TurnFrame DEF BuildMask, Merge, inputVars, history
<1> QED BY <1>1, <1>2, <1>3, <1>4, <1>5, <1>6, Cases

-----------------------------------------------------------------------------
(* Where the fragments are. *)

Accounted ==
    /\ received = Buffered \union Framed \union Sent \union lost
    /\ Buffered \intersect (Framed \union Sent \union lost) = {}
    /\ Framed \intersect (Sent \union lost) = {}
    /\ Sent \intersect lost = {}
    /\ \A g, h \in sent : g # h => g.frags \intersect h.frags = {}

\* Fragments that were nowhere among those sent or given up are so now.
LEMMA NoteKeeps ==
  ASSUME NEW output, NEW sink, NEW frags, NEW o \in Outcomes, Note(output, sink, frags, o),
         Sent \intersect lost = {}, frags \intersect (Sent \union lost) = {},
         \A g, h \in sent : g # h => g.frags \intersect h.frags = {}
  PROVE  /\ Sent' \union lost' = Sent \union lost \union frags
         /\ Sent' \intersect lost' = {}
         /\ \A g, h \in sent' : g # h => g.frags \intersect h.frags = {}
<1>1. CASE o = "ok"
  <2> DEFINE new == [output |-> output, sink |-> sink, frags |-> frags]
  <2>1. sent' = sent \union {new} /\ lost' = lost /\ new.frags = frags
    BY <1>1 DEF Note
  <2>2. \A f : f \in Sent' <=> \E g \in sent' : f \in g.frags
    BY DEF Sent
  <2>3. \A f : f \in Sent <=> \E g \in sent : f \in g.frags
    BY DEF Sent
  <2> HIDE DEF new
  <2>4. Sent' = Sent \union frags
    BY <2>1, <2>2, <2>3
  <2>5. ASSUME NEW g \in sent', NEW h \in sent', g # h PROVE g.frags \intersect h.frags = {}
    <3>1. \A k \in sent : k.frags \intersect frags = {}
      BY <2>3
    <3> QED BY <2>1, <2>5, <3>1
  <2> QED BY <2>1, <2>4, <2>5
<1>2. CASE o # "ok"
  <2>1. sent' = sent /\ lost' = lost \union frags
    BY <1>2 DEF Note
  <2>2. Sent' = Sent
    BY <2>1 DEF Sent
  <2> QED BY <2>1, <2>2
<1> QED BY <1>1, <1>2

LEMMA FramedAre == \A f : f \in Framed <=> \E t \in Masked : f \in fEventFrames[t]
  BY DEF Framed

LEMMA MaskedIsOne ==
  ASSUME NEW f \in Piece, fTagMask \in Nat \ {0}
  PROVE  MaskTag(f) \in Masked
<1>1. f.tag \in 1 .. MaxTag /\ MaxTag \in Nat
  BY BuilderAssumption DEF Piece, Tags
<1>2. ASSUME NEW a \in Nat, NEW m \in Nat \ {0} PROVE a \div m \in Nat /\ a \div m <= a
  BY <1>2
<1>3. f.tag - 1 \in Nat /\ f.tag - 1 <= MaxTag
  BY <1>1
<1>4. (f.tag - 1) \div fTagMask \in Nat /\ (f.tag - 1) \div fTagMask <= f.tag - 1
  BY <1>2, <1>3
<1> QED BY <1>1, <1>3, <1>4 DEF MaskTag, Masked

\* Merging moves the fragments at the fronts into the frames.
LEMMA MergeMoves ==
  ASSUME TypeOK, BufferInv, MaskInv, Merge, Buffered \intersect Framed = {}
  PROVE  /\ Buffered' \union Framed' = Buffered \union Framed
         /\ Buffered' \intersect Framed' = {}
<1>t. DataType /\ DataType' /\ fTagMask \in Nat
  BY DataTypeStep DEF TypeOK, DeviceType, Next
<1>1. /\ \A t \in Masked : fEventFrames'[t] = fEventFrames[t] \union MergedInto(t)
      /\ \A s \in Sources : fInBuffer'[s] = IF s \in Waiting THEN Tail(fInBuffer[s]) ELSE <<>>
      /\ pc = "Dup"
  BY <1>t, MergeData
<1>2. ASSUME NEW w \in Waiting
      PROVE  /\ w \in Sources /\ FirstOf(w) = fInBuffer[w][1] /\ FirstOf(w).src = w
             /\ MaskTag(FirstOf(w)) \in Masked
             /\ Len(fInBuffer[w]) \in Nat \ {0} /\ Len(fInBuffer'[w]) = Len(fInBuffer[w]) - 1
             /\ \A i \in 1 .. Len(fInBuffer[w]) - 1 : fInBuffer'[w][i] = fInBuffer[w][i + 1]
  <2>1. fTagMask \in Nat \ {0}
    BY <1>1, <1>t DEF MaskInv
  <2>2. /\ w \in Sources /\ FirstOf(w) \in Piece /\ FirstOf(w) = fInBuffer[w][1]
        /\ Len(fInBuffer[w]) \in Nat \ {0} /\ Len(Tail(fInBuffer[w])) = Len(fInBuffer[w]) - 1
        /\ \A i \in 1 .. Len(fInBuffer[w]) - 1 : Tail(fInBuffer[w])[i] = fInBuffer[w][i + 1]
    BY <1>t, FrontIsOne
  <2>3. fInBuffer'[w] = Tail(fInBuffer[w])
    BY <1>1, <2>2
  <2>4. FirstOf(w).src = w
    BY <1>t, FrontSource
  <2>5. MaskTag(FirstOf(w)) \in Masked
    BY <2>1, <2>2, MaskedIsOne
  <2> QED BY <2>2, <2>3, <2>4, <2>5
<1>3. ASSUME NEW s \in Sources, s \notin Waiting PROVE Len(fInBuffer[s]) = 0 /\ Len(fInBuffer'[s]) = 0
  BY <1>1, <1>3 DEF Waiting
<1>f. \A f : f \in Framed' <=> \E t \in Masked : f \in fEventFrames'[t]
  BY DEF Framed
<1>b. \A f : f \in Buffered' <=>
            \E s \in Sources : \E i \in 1 .. Len(fInBuffer'[s]) : f = fInBuffer'[s][i]
  <2>1. ASSUME NEW s \in Sources
        PROVE  ToSet(fInBuffer'[s]) = {fInBuffer'[s][i] : i \in 1 .. Len(fInBuffer'[s])}
    BY <1>t, LenProperties DEF DataType, ToSet
  <2>2. \A f : f \in Buffered' <=> \E s \in Sources : f \in ToSet(fInBuffer'[s])
    BY DEF Buffered
  <2>3. ASSUME NEW f, NEW s \in Sources
        PROVE  f \in ToSet(fInBuffer'[s]) <=> \E i \in 1 .. Len(fInBuffer'[s]) : f = fInBuffer'[s][i]
    BY <2>1
  <2> QED BY <2>2, <2>3
<1>4. ASSUME NEW f \in Framed'
      PROVE  f \in Framed \/ \E w \in Waiting : f = FirstOf(w)
  BY <1>1, <1>f, FramedAre DEF MergedInto
<1>5. ASSUME NEW f \in Buffered'
      PROVE  \E w \in Waiting : \E i \in 2 .. Len(fInBuffer[w]) : f = fInBuffer[w][i]
  <2>0. PICK s \in Sources : \E i \in 1 .. Len(fInBuffer'[s]) : f = fInBuffer'[s][i]
    BY <1>b
  <2>1. PICK i \in 1 .. Len(fInBuffer'[s]) : f = fInBuffer'[s][i]
    BY <2>0
  <2>2. s \in Waiting
    BY <1>3, <2>1
  <2>3. f = fInBuffer[s][i + 1] /\ i + 1 \in 2 .. Len(fInBuffer[s])
    BY <1>2, <2>1, <2>2
  <2> QED BY <2>2, <2>3
<1>6. \A w \in Waiting : FirstOf(w) \in Framed' /\ FirstOf(w) \in Buffered
  <2>1. ASSUME NEW w \in Waiting PROVE FirstOf(w) \in Framed' /\ FirstOf(w) \in Buffered
    <3>1. FirstOf(w) \in MergedInto(MaskTag(FirstOf(w)))
      BY DEF MergedInto
    <3>2. FirstOf(w) \in Framed'
      BY <1>1, <1>2, <1>f, <3>1
    <3>3. 1 \in 1 .. Len(fInBuffer[w]) /\ FirstOf(w) = fInBuffer[w][1] /\ w \in Sources
      BY <1>2
    <3> QED BY <1>t, <3>2, <3>3, BufferedAre
  <2> QED BY <2>1
<1>7. ASSUME NEW f \in Buffered PROVE f \in Buffered' \union Framed'
  <2>0. PICK s \in Sources : \E i \in 1 .. Len(fInBuffer[s]) : f = fInBuffer[s][i]
    BY <1>t, BufferedAre
  <2>1. PICK i \in 1 .. Len(fInBuffer[s]) : f = fInBuffer[s][i]
    BY <2>0
  <2>2. s \in Waiting
    BY <1>3, <2>1
  <2>3. CASE i = 1
    BY <1>2, <1>6, <2>1, <2>2, <2>3
  <2>4. CASE i # 1
    <3>1. i - 1 \in 1 .. Len(fInBuffer'[s]) /\ f = fInBuffer'[s][i - 1]
      BY <1>2, <2>1, <2>2, <2>4
    <3> QED BY <1>b, <3>1
  <2> QED BY <2>3, <2>4
<1>8. Framed \subseteq Framed'
  BY <1>1, <1>f, FramedAre
<1>9. Buffered' \subseteq Buffered
  <2>1. ASSUME NEW f \in Buffered' PROVE f \in Buffered
    <3>0. PICK w \in Waiting : \E i \in 2 .. Len(fInBuffer[w]) : f = fInBuffer[w][i]
      BY <1>5
    <3>1. PICK i \in 2 .. Len(fInBuffer[w]) : f = fInBuffer[w][i]
      BY <3>0
    <3>2. w \in Sources /\ i \in 1 .. Len(fInBuffer[w])
      BY <1>2, <3>1
    <3> QED BY <1>t, <3>1, <3>2, BufferedAre
  <2> QED BY <2>1
<1>10. ASSUME NEW f \in Buffered', f \in Framed' PROVE FALSE
  <2>0. PICK w \in Waiting : \E i \in 2 .. Len(fInBuffer[w]) : f = fInBuffer[w][i]
    BY <1>5
  <2>1. PICK i \in 2 .. Len(fInBuffer[w]) : f = fInBuffer[w][i]
    BY <2>0
  <2>2. f \in Buffered
    BY <1>9
  <2>3. PICK v \in Waiting : f = FirstOf(v)
    BY <1>4, <1>10, <2>2
  <2>4. w \in Sources /\ i \in 1 .. Len(fInBuffer[w]) /\ 1 \in 1 .. i - 1
    BY <1>2, <2>1
  <2>5. f.src = w /\ fInBuffer[w][1] # f
    BY <2>1, <2>4 DEF BufferInv
  <2> QED BY <1>2, <2>3, <2>5
<1> QED BY <1>4, <1>6, <1>7, <1>8, <1>9, <1>10

LEMMA AccountStep ==
  ASSUME TypeOK, WireInv, ReceivedInv, BufferInv, FrameInv, MaskInv, ReadyInv,
         FragmentsAccounted, [Next]_vars
  PROVE  FragmentsAccounted'
<1> SUFFICES ASSUME pc' # "Ready" PROVE Accounted'
  BY DEF FragmentsAccounted, Accounted
<1>a. pc # "Ready" => Accounted
  BY DEF FragmentsAccounted, Accounted
<1>t. DataType /\ InputType
  BY DEF TypeOK
<1>1. CASE UNCHANGED <<fInBuffer, fEventFrames, sent, lost, received>> /\ pc # "Ready"
  BY <1>a, <1>1 DEF Accounted, Buffered, Framed, Sent
<1>2. CASE Receive
  <2>1. PICK s \in Sources :
            /\ Incoming(s)
            /\ UNCHANGED <<fTagMask, fEventFrames, fNumSequence>>
            /\ \/ UNCHANGED <<fInBuffer, received, sent, lost>>
               \/ /\ Head(wire[s]).tag # 0
                  /\ fInBuffer' = [fInBuffer EXCEPT ![s] = Append(fInBuffer[s], PieceOf(s))]
                  /\ received' = received \union {PieceOf(s)}
                  /\ UNCHANGED <<sent, lost>>
               \/ /\ fInBuffer' = fInBuffer
                  /\ \E frags \in SUBSET {PieceOf(s)}, o \in Outcomes :
                        /\ frags # {} => Head(wire[s]).tag # 0
                        /\ received' = received \union frags
                        /\ Note("incomplete", 0, frags, o)
    BY <1>2, <1>t, ReceiveData
  <2>2. Accounted /\ pc # "Ready"
    BY <1>a, <2>1 DEF Incoming
  <2>3. PieceOf(s) \notin received
    BY <2>1, FirstIsBefore
  <2>4. Framed' = Framed
    BY <2>1 DEF Framed
  <2>5. CASE UNCHANGED <<fInBuffer, received, sent, lost>>
    BY <1>1, <2>1, <2>2, <2>5
  <2>6. CASE /\ Head(wire[s]).tag # 0
             /\ fInBuffer' = [fInBuffer EXCEPT ![s] = Append(fInBuffer[s], PieceOf(s))]
             /\ received' = received \union {PieceOf(s)}
             /\ UNCHANGED <<sent, lost>>
    <3>1. Buffered' = Buffered \union {PieceOf(s)}
      <4>1. /\ fInBuffer \in [Sources -> Seq(Piece)] /\ PieceOf(s) \in Piece
        BY <1>t, <2>1, <2>6, PieceIsOne DEF DataType
      <4>2. ToSet(fInBuffer'[s]) = ToSet(fInBuffer[s]) \union {PieceOf(s)}
        <5>1. fInBuffer[s] \in Seq(Piece) /\ fInBuffer'[s] = Append(fInBuffer[s], PieceOf(s))
          BY <2>6, <4>1
        <5>2. /\ Len(fInBuffer'[s]) = Len(fInBuffer[s]) + 1 /\ Len(fInBuffer[s]) \in Nat
              /\ \A i \in 1 .. Len(fInBuffer[s]) : fInBuffer'[s][i] = fInBuffer[s][i]
              /\ fInBuffer'[s][Len(fInBuffer[s]) + 1] = PieceOf(s)
              /\ DOMAIN fInBuffer[s] = 1 .. Len(fInBuffer[s])
              /\ DOMAIN fInBuffer'[s] = 1 .. Len(fInBuffer'[s])
          <6> HIDE DEF Piece
          <6> QED BY <4>1, <5>1, AppendProperties, LenProperties
        <5>3. \A i : i \in 1 .. Len(fInBuffer[s]) + 1 <=> i \in 1 .. Len(fInBuffer[s]) \/ i = Len(fInBuffer[s]) + 1
          BY <5>2
        <5> QED BY <5>2, <5>3 DEF ToSet
      <4>3. \A r \in Sources : r # s => fInBuffer'[r] = fInBuffer[r]
        BY <2>6, <4>1
      <4>4. \A f : f \in Buffered' <=> \E r \in Sources : f \in ToSet(fInBuffer'[r])
        BY DEF Buffered
      <4>5. \A f : f \in Buffered <=> \E r \in Sources : f \in ToSet(fInBuffer[r])
        BY DEF Buffered
      <4> QED BY <4>2, <4>3, <4>4, <4>5
    <3>2. Sent' = Sent
      BY <2>6 DEF Sent
    <3> QED BY <2>2, <2>3, <2>4, <2>6, <3>1, <3>2 DEF Accounted
  <2>7. ASSUME fInBuffer' = fInBuffer, NEW frags \in SUBSET {PieceOf(s)}, NEW o \in Outcomes,
               received' = received \union frags, Note("incomplete", 0, frags, o)
        PROVE  Accounted'
    <3>1. Buffered' = Buffered
      BY <2>7 DEF Buffered
    <3>2. frags \intersect received = {}
      BY <2>3
    <3>3. /\ Sent' \union lost' = Sent \union lost \union frags
          /\ Sent' \intersect lost' = {}
          /\ \A g, h \in sent' : g # h => g.frags \intersect h.frags = {}
      BY <2>2, <2>7, <3>2, NoteKeeps DEF Accounted
    <3> QED BY <2>2, <2>4, <2>7, <3>1, <3>2, <3>3 DEF Accounted
  <2> QED BY <2>1, <2>5, <2>6, <2>7
<1>3. CASE Sending
  <2>1. PICK t \in Masked, output \in Outputs, o \in Outcomes :
            \E sink : Leaves(t, output, sink, o)
    BY <1>3, SendingFrame
  <2>2. PICK sink : Leaves(t, output, sink, o)
    BY <2>1
  <2>3. UNCHANGED <<fInBuffer, received>> /\ Accounted
    BY <1>3, <1>a, SendingFrame
  <2>4. fEventFrames[t] \subseteq Framed /\ Framed' = Framed \ fEventFrames[t]
    <3>1. \A u \in Masked : fEventFrames'[u] = IF u = t THEN {} ELSE fEventFrames[u]
      BY <1>t, <2>2 DEF Leaves, DataType
    <3>2. \A u \in Masked : u # t => fEventFrames[u] \intersect fEventFrames[t] = {}
      BY DEF FrameInv
    <3>3. \A f : f \in Framed' <=> \E u \in Masked : f \in fEventFrames'[u]
      BY DEF Framed
    <3> QED BY <3>1, <3>2, <3>3, FramedAre
  <2>5. /\ Sent' \union lost' = Sent \union lost \union fEventFrames[t]
        /\ Sent' \intersect lost' = {}
        /\ \A g, h \in sent' : g # h => g.frags \intersect h.frags = {}
    <3>1. fEventFrames[t] \intersect (Sent \union lost) = {}
      BY <2>3, <2>4 DEF Accounted
    <3> QED BY <2>2, <2>3, <3>1, NoteKeeps DEF Accounted, Leaves
  <2>6. Buffered' = Buffered
    BY <2>3 DEF Buffered
  <2> QED BY <2>3, <2>4, <2>5, <2>6 DEF Accounted
<1>4. CASE Merge
  <2>1. UNCHANGED <<received, sent, lost>> /\ pc = "Dup"
    BY <1>4, <1>t, MergeData
  <2>2. Accounted /\ Sent' = Sent
    BY <1>a, <2>1 DEF Sent
  <2>3. /\ Buffered' \union Framed' = Buffered \union Framed
        /\ Buffered' \intersect Framed' = {}
    BY <1>4, <2>2, MergeMoves DEF Accounted
  <2> QED BY <2>1, <2>2, <2>3 DEF Accounted
<1>5. CASE StartRun
  <2>1. /\ fInBuffer' = Empty /\ fEventFrames' = NoFrame
        /\ received' = {} /\ sent' = {} /\ lost' = {}
    BY <1>5 DEF StartRun, ReadyInv, bufferVars
  <2>2. Buffered' = {}
    BY <2>1 DEF Buffered, Empty, ToSet
  <2>3. Framed' = {} /\ Sent' = {}
    BY <2>1 DEF Framed, Sent, NoFrame
  <2> QED BY <2>1, <2>2, <2>3 DEF Accounted
<1>6. CASE PostRunEnd
  BY <1>6 DEF PostRunEnd
<1>7. SourceStep \/ Turn \/ Tick \/ StopRequest \/ BuildMask \/ UNCHANGED vars
          => UNCHANGED <<fInBuffer, fEventFrames, sent, lost, received>> /\ pc # "Ready"
  BY SourceData, TurnFrame DEF BuildMask, bufferVars, history
<1> QED BY <1>1, <1>2, <1>3, <1>4, <1>5, <1>6, <1>7, Cases

-----------------------------------------------------------------------------
(* What is complete. *)

Whole(g) ==
    /\ Cardinality({f.src : f \in g.frags}) = fNumSource
    /\ Cardinality(g.frags) = fNumSource
    /\ \E t \in Masked : \A f \in g.frags : MaskTag(f) = t

\* A frame has as many sources as fragments.
LEMMA OneOfASource ==
  ASSUME DataType, FrameInv, NEW t \in Masked
  PROVE  Cardinality({f.src : f \in fEventFrames[t]}) = Cardinality(fEventFrames[t])
<1> DEFINE F == fEventFrames[t]
           S == {f.src : f \in F}
           src == [f \in F |-> f.src]
<1>1. S \subseteq Sources /\ IsFiniteSet(Sources)
  BY BuilderAssumption DEF DataType, Piece
<1>2. IsFiniteSet(S)
  BY <1>1, FS_Subset
<1>3. \A f, g \in F : f.src = g.src => f = g
  BY DEF FrameInv
<1>4. src \in Injection(F, S) /\ src \in Surjection(F, S)
  <2>1. src \in [F -> S] /\ \A f \in F : src[f] = f.src
    OBVIOUS
  <2>2. \A x \in S : \E f \in F : src[f] = x
    OBVIOUS
  <2> HIDE DEF src, F, S
  <2> QED BY <2>1, <2>2, <1>3 DEF Injection, IsInjective, Surjection
<1>5. Cardinality(F) = Cardinality(S)
  <2> HIDE DEF src, F, S
  <2> QED BY <1>2, <1>4, FS_Injection
<1> QED BY <1>5

LEMMA CompleteStep ==
  ASSUME TypeOK, FrameInv, MaskInv, CompleteWhole, [Next]_vars
  PROVE  CompleteWhole'
<1> SUFFICES ASSUME pc' # "Ready", NEW g \in sent', g.output = "out" PROVE Whole(g)'
  BY DEF CompleteWhole, Whole
<1>a. pc # "Ready" /\ g \in sent => Whole(g)
  BY DEF CompleteWhole, Whole
<1>t. DataType /\ InputType
  BY DEF TypeOK
<1>1. CASE fTagMask' = fTagMask /\ Whole(g)
  BY <1>1 DEF Whole, MaskTag
<1>2. CASE UNCHANGED <<fTagMask, sent>> /\ pc # "Ready"
  BY <1>1, <1>2, <1>a
<1>3. CASE BuildMask
  <2>1. pc = "Build" /\ sent' = sent /\ (fTagMask # 0 => fTagMask' = fTagMask)
    BY <1>3 DEF BuildMask, history
  <2>2. fTagMask # 0
    BY <2>1 DEF MaskInv
  <2> QED BY <1>2, <2>1, <2>2
<1>4. CASE Receive
  <2>1. PICK s \in Sources :
            /\ Incoming(s) /\ fTagMask' = fTagMask
            /\ \/ sent' = sent
               \/ \E frags \in SUBSET {PieceOf(s)}, o \in Outcomes : Note("incomplete", 0, frags, o)
    BY <1>4, <1>t, ReceiveData
  <2>2. pc # "Ready"
    BY <2>1 DEF Incoming
  <2>3. g \in sent
    <3>1. ASSUME NEW frags, NEW o, Note("incomplete", 0, frags, o) PROVE g \in sent
      <4>1. g \in sent \/ g = [output |-> "incomplete", sink |-> 0, frags |-> frags]
        BY <3>1 DEF Note
      <4> QED BY <4>1
    <3> QED BY <2>1, <3>1
  <2> QED BY <1>1, <1>a, <2>1, <2>2, <2>3
<1>5. CASE Sending
  <2>1. PICK t \in Masked, output \in Outputs, o \in Outcomes :
            \E sink : Leaves(t, output, sink, o)
    BY <1>5, SendingFrame
  <2>2. PICK sink : Leaves(t, output, sink, o)
    BY <2>1
  <2>3. fTagMask' = fTagMask /\ pc # "Ready"
    BY <1>5, SendingFrame
  <2>4. g \in sent \/ g = [output |-> output, sink |-> sink, frags |-> fEventFrames[t]]
    BY <2>2 DEF Leaves, Note
  <2>5. CASE g = [output |-> output, sink |-> sink, frags |-> fEventFrames[t]]
    <3>1. g.frags = fEventFrames[t] /\ output = "out"
      BY <2>5
    <3>2. Cardinality(g.frags) = fNumSource
      BY <2>2, <3>1 DEF Leaves
    <3>3. Cardinality({f.src : f \in g.frags}) = fNumSource
      BY <1>t, <3>1, <3>2, OneOfASource
    <3>4. \A f \in g.frags : MaskTag(f) = t
      BY <3>1 DEF FrameInv
    <3>5. Whole(g)
      BY <3>2, <3>3, <3>4 DEF Whole
    <3> QED BY <1>1, <2>3, <3>5
  <2> QED BY <1>1, <1>a, <2>3, <2>4, <2>5
<1>6. CASE StartRun
  BY <1>6 DEF StartRun
<1>7. CASE PostRunEnd
  BY <1>7 DEF PostRunEnd
<1>8. CASE SourceStep
  BY <1>2, <1>8, SourceData DEF bufferVars, history
<1>9. CASE Turn \/ Tick \/ StopRequest \/ UNCHANGED vars
  BY <1>2, <1>9, TurnFrame
<1>10. CASE Merge
  BY <1>2, <1>10, <1>t, MergeData
<1> QED BY <1>3, <1>4, <1>5, <1>6, <1>7, <1>8, <1>9, <1>10, Cases

-----------------------------------------------------------------------------
(* The theorems. *)

LEMMA InitIInv == ASSUME Init PROVE IInv
<1>1. TypeOK
  BY TypeInit
<1>2. pc = "Ready" /\ wire = Empty /\ fInBuffer = Empty /\ fEventFrames = NoFrame
      /\ fTagMask = 0 /\ fBeginRunData = [s \in Sources |-> 0]
      /\ sent = {} /\ received = {} /\ began = {}
      /\ trigger = [s \in Sources |-> MaxTag + 1]
  BY DEF Init, Cleared
<1>3. \A s \in Sources : wire[s] = <<>> /\ fInBuffer[s] = <<>> /\ Len(<<>>) = 0
  BY <1>2 DEF Empty
<1>4. WireInv /\ ReceivedInv /\ BufferInv
  BY <1>2, <1>3 DEF WireInv, ReceivedInv, BufferInv
<1>5. FrameInv /\ MaskInv /\ ReadyInv
  BY <1>2 DEF FrameInv, MaskInv, ReadyInv, NoFrame
<1>6. BegunInv
  <2>1. Begun = 0
    <3>1. {s \in Sources : fBeginRunData[s] # 0} = {}
      BY <1>2
    <3> QED BY <3>1, FS_EmptySet DEF Begun
  <2>2. ~(Begun >= fNumSource)
    BY <2>1, BuilderAssumption
  <2> QED BY <1>2, <2>2 DEF BegunInv
<1>7. RunInv
  <2>1. \A s \in Sources : trigger[s] = MaxTag + 1
    BY <1>2
  <2> QED BY <1>2, <1>3, <2>1 DEF RunInv
<1>8. FragmentsAccounted /\ CompleteWhole /\ BeginRunFirst
  BY <1>2 DEF FragmentsAccounted, CompleteWhole, BeginRunFirst
<1> QED BY <1>1, <1>4, <1>5, <1>6, <1>7, <1>8 DEF IInv

LEMMA StepIInv == ASSUME IInv, [Next]_vars PROVE IInv'
<1>1. TypeOK'
  BY DeviceTypeStep, InputTypeStep, DataTypeStep DEF IInv, TypeOK
<1>2. WireInv' /\ ReceivedInv'
  BY WireStep, ReceivedStep DEF IInv
<1>3. pc # "Ready" => Buffered \subseteq received
  BY DEF IInv, FragmentsAccounted
<1>4. BufferInv'
  BY <1>3, BufferStep DEF IInv
<1>5. FrameInv' /\ MaskInv' /\ ReadyInv'
  BY FrameStep, MaskStep, ReadyStep DEF IInv
<1>6. BegunInv' /\ BeginRunFirst'
  BY BegunStep, BeginRunStep DEF IInv
<1>7. RunInv'
  BY RunStep DEF IInv
<1>8. FragmentsAccounted' /\ CompleteWhole'
  BY AccountStep, CompleteStep DEF IInv
<1> QED BY <1>1, <1>2, <1>4, <1>5, <1>6, <1>7, <1>8 DEF IInv

LEMMA AlwaysIInv == Spec => []IInv
<1>1. Init => IInv
  BY InitIInv
<1>2. IInv /\ [Next]_vars => IInv'
  BY StepIInv
<1> QED BY <1>1, <1>2, PTL DEF Spec

\* The messages, the buffers, the frames and the state of the device are always of
\* their types; the tag mask and the sequence never leave the naturals.
THEOREM TypeCorrect == Spec => []TypeOK
<1>1. IInv => TypeOK
  BY DEF IInv
<1> QED BY <1>1, AlwaysIInv, PTL

\* Every fragment the builder took in a run waits, is in one frame, was sent in
\* one frame or went with a frame that was given up, in every order the sources,
\* the timeout and the stop allow, and whatever the tag masks are.
THEOREM FragmentsAreAccounted == Spec => []FragmentsAccounted
<1>1. IInv => FragmentsAccounted
  BY DEF IInv
<1> QED BY <1>1, AlwaysIInv, PTL

\* A frame sent as complete has one fragment of each of fNumSource sources, all of
\* one tag, for any number of sources and any tag masks.
THEOREM CompleteAreWhole == Spec => []CompleteWhole
<1>1. IInv => CompleteWhole
  BY DEF IInv
<1> QED BY <1>1, AlwaysIInv, PTL

\* If the sources end before PostRun does, no frame has a fragment of another run.
THEOREM SentIsOfItsRun == Spec => []SentIsOfThisRun
<1>1. ASSUME IInv, ~late, pc # "Ready", NEW g \in sent, NEW f \in g.frags PROVE f.run = run
  <2>1. f \in Sent
    BY DEF Sent
  <2>2. f \in received
    BY <1>1, <2>1 DEF IInv, FragmentsAccounted
  <2> QED BY <1>1, <2>2 DEF IInv, RunInv
<1>2. IInv => SentIsOfThisRun
  BY <1>1 DEF SentIsOfThisRun
<1> QED BY <1>2, AlwaysIInv, PTL

\* The begin-run data go to a sub-channel before any frame that Build sends there.
THEOREM BeginRunGoesFirst == Spec => []BeginRunFirst
<1>1. IInv => BeginRunFirst
  BY DEF IInv
<1> QED BY <1>1, AlwaysIInv, PTL
=============================================================================
