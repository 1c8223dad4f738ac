---------------------------- MODULE EventBuilder ----------------------------
(***************************************************************************)
(* The event builder of the e16 system                                     *)
(* (e16/EventBuilder/EventBuilder.cxx): one thread that alternates Recv,   *)
(* which takes one message, and Build, which merges the fragments of the   *)
(* sources by their tag and sends the frames that are complete, duplicated *)
(* or too old.  In PostRun it goes on with what is left on the input.      *)
(*                                                                         *)
(* A tag is a number; a source with tag resolution r cannot tell apart the *)
(* tags of a group of r.                                                   *)
(***************************************************************************)
EXTENDS Integers, Sequences, FiniteSets, SequencesExt

CONSTANTS
    Sources,        \* the sources there are
    fNumSource,     \* --num-source: the sources there should be
    fNumSourceStatus, fNumSourceSpillStart, fNumSourceSpillEnd,
    fNumSink,       \* --num-sink: sub-channels of every output
    RoundRobin,     \* --round-robin: "tag" (event, spill or timestamp) or "sequence"
    Resolution,     \* source -> its tag mask
    TrgTyp,         \* tag -> its trigger type
    Quota,          \* source -> bound: events it has in a run
    InputLength,    \* bound: messages of a source on the input channel
    MaxTag,         \* bound: triggers in a run
    MaxRuns         \* bound: runs

Tags == 1 .. MaxTag
Runs == 1 .. MaxRuns
Types == {"Normal", "Monitor", "SpillStart", "SpillEnd"}

ASSUME BuilderAssumption ==
    /\ IsFiniteSet(Sources)
    /\ fNumSource \in Nat \ {0} /\ fNumSink \in Nat \ {0}
    /\ {fNumSourceStatus, fNumSourceSpillStart, fNumSourceSpillEnd} \subseteq Nat
    /\ RoundRobin \in {"tag", "sequence"}
    /\ Resolution \in [Sources -> Nat \ {0}]
    /\ TrgTyp \in [Tags -> Types]
    /\ Quota \in [Sources -> Nat]
    /\ {InputLength, MaxTag, MaxRuns} \subseteq Nat

Fragment == [src : Sources, run : Runs, tag : Tags]
Masked   == 0 .. MaxTag
Sinks    == 0 .. fNumSink - 1
Outputs  == {"status-data", "spill-start-data", "spill-end-data", "out", "incomplete"}

VARIABLES
    fDiscard,       \* --discard: PostRun does not build
    late,           \* the sources may go on when the run of the builder has ended
    pc,             \* "Ready", "Recv", "Build", "Dup", "Check", "Timeout"
    stopping,       \* "No", "Requested": NewStatePending, or "PostRun"
    run,            \* number of runs begun
    fBeginRunData,  \* source -> the run its begin-run data are of, or 0
    known,          \* the keys of fInBuffer
    fInBuffer,      \* source -> the fragments that wait to be merged
    fTagMask,       \* fTagMaskMin as a resolution, 0: not ready
    fEventFrames,   \* masked tag -> the fragments of its frame
    fNumSequence,   \* frames sent or given up
    young,          \* the fragments held for less than the buffer timeout, in order of arrival
    todo,           \* the masked tags CheckTimeout has found obsolete
    wire,           \* source -> its messages on the input channel
    trigger,        \* source -> its next trigger, 0: begin-run data, MaxTag + 1: ended
    sent,           \* history: the frames sent in this run
    began,          \* history: the sub-channels begin-run data were sent to or given up for
    received,       \* history: the fragments taken in this run
    lost            \* history: the fragments of the frames given up

options   == <<fDiscard, late>>
bufferVars == <<fBeginRunData, known, fInBuffer, fTagMask, fEventFrames, fNumSequence, young>>
inputVars == <<wire, trigger>>
history   == <<sent, began, received, lost>>
vars == <<options, pc, stopping, run, bufferVars, todo, inputVars, history>>

Empty   == [s \in Sources |-> <<>>]
NoFrame == [t \in Masked |-> {}]

\* InitTask clears the buffers.
Cleared ==
    /\ fBeginRunData = [s \in Sources |-> 0]
    /\ known = {} /\ fInBuffer = Empty
    /\ fEventFrames = NoFrame
    /\ fTagMask = 0 /\ fNumSequence = 0
    /\ young = <<>>

Init ==
    /\ fDiscard \in BOOLEAN /\ late \in BOOLEAN
    /\ pc = "Ready" /\ stopping = "No" /\ run = 0
    /\ Cleared /\ todo = {}
    /\ wire = Empty /\ trigger = [s \in Sources |-> MaxTag + 1]
    /\ sent = {} /\ began = {} /\ received = {} /\ lost = {}

-----------------------------------------------------------------------------
(* The sources, the time and the run control. *)

SourceBegin(s) ==
    /\ trigger[s] = 0 /\ Len(wire[s]) < InputLength
    /\ wire' = [wire EXCEPT ![s] = Append(@, [run |-> run, tag |-> 0])]
    /\ trigger' = [trigger EXCEPT ![s] = IF Quota[s] = 0 THEN MaxTag + 1 ELSE 1]
    /\ UNCHANGED <<options, pc, stopping, run, bufferVars, todo, history>>

AfterTrigger(s) == IF trigger[s] = Quota[s] THEN MaxTag + 1 ELSE trigger[s] + 1

SourceSend(s) ==
    /\ trigger[s] \in Tags /\ Len(wire[s]) < InputLength
    /\ wire' = [wire EXCEPT ![s] = Append(@, [run |-> run, tag |-> trigger[s]])]
    /\ trigger' = [trigger EXCEPT ![s] = AfterTrigger(s)]
    /\ UNCHANGED <<options, pc, stopping, run, bufferVars, todo, history>>

\* A front end has no data of a trigger.
SourceMiss(s) ==
    /\ trigger[s] \in Tags
    /\ trigger' = [trigger EXCEPT ![s] = AfterTrigger(s)]
    /\ UNCHANGED <<options, pc, stopping, run, bufferVars, todo, wire, history>>

SourceStop(s) ==
    /\ stopping # "No" /\ trigger[s] <= MaxTag
    /\ trigger' = [trigger EXCEPT ![s] = MaxTag + 1]
    /\ UNCHANGED <<options, pc, stopping, run, bufferVars, todo, wire, history>>

\* The fragment that came first passes the buffer timeout.
Tick ==
    /\ young # <<>>
    /\ young' = Tail(young)
    /\ UNCHANGED <<options, pc, stopping, run, fBeginRunData, known, fInBuffer, fTagMask,
                   fEventFrames, fNumSequence, todo, inputVars, history>>

StopRequest ==
    /\ pc # "Ready" /\ stopping = "No"
    /\ stopping' = "Requested"
    /\ UNCHANGED <<options, pc, run, bufferVars, todo, inputVars, history>>

\* A run begins; PreRun itself clears nothing.
StartRun ==
    /\ pc = "Ready" /\ run < MaxRuns
    /\ \A s \in Sources : trigger[s] = MaxTag + 1
    /\ pc' = "Recv" /\ stopping' = "No" /\ run' = run + 1
    /\ trigger' = [s \in Sources |-> 0]
    /\ sent' = {} /\ began' = {} /\ received' = {} /\ lost' = {}
    /\ UNCHANGED <<options, bufferVars, todo, wire>>

-----------------------------------------------------------------------------
(* Sending. *)

\* Send is done, or it gives up after fNumRetry tries or at a stop (a negative
\* fNumRetry is not modelled); its result is ignored and the frame is gone.
Outcomes == {"ok", "failed"}

Note(output, sink, frags, outcome) ==
    IF outcome = "ok"
    THEN /\ sent' = sent \union {[output |-> output, sink |-> sink, frags |-> frags]}
         /\ UNCHANGED lost
    ELSE /\ lost' = lost \union frags
         /\ UNCHANGED sent

\* The fragments whose tags have the most bits: the first of them gives the
\* frame its tag.
Finest(frags) == {f \in frags : \A g \in frags : Resolution[f.src] <= Resolution[g.src]}

Direction(frags) ==
    IF RoundRobin = "sequence" THEN {fNumSequence % fNumSink}
    ELSE {f.tag % fNumSink : f \in Finest(frags)}

Holding(frames, buffer) ==
    UNION {frames[t] : t \in Masked} \union UNION {ToSet(buffer[s]) : s \in Sources}

\* SendFrame, and the erase that follows it.
SendFrame(t, output) ==
    /\ \E d \in Direction(fEventFrames[t]), o \in Outcomes :
        Note(output, d, fEventFrames[t], o)
    /\ fNumSequence' = fNumSequence + 1
    /\ fEventFrames' = [fEventFrames EXCEPT ![t] = {}]
    /\ young' = SelectSeq(young, LAMBDA f : f \in Holding(fEventFrames', fInBuffer))
    /\ UNCHANGED <<fBeginRunData, known, fInBuffer, fTagMask, began, received>>

-----------------------------------------------------------------------------
(* Recv. *)

Begun == Cardinality({s \in Sources : fBeginRunData[s] # 0})

Incoming(s) ==
    /\ pc = "Recv" /\ wire[s] # <<>>
    /\ wire' = [wire EXCEPT ![s] = Tail(@)]
    /\ pc' = IF stopping = "PostRun" /\ fDiscard THEN "Recv" ELSE "Build"
    /\ UNCHANGED <<options, stopping, run, todo, trigger>>

\* fInBuffer has as many sources as there should be, and not this one.
TooMany(s) == Cardinality(known) >= fNumSource /\ s \notin known

\* Its message goes out as it is, with no place in the sequence.
RecvTooMany(s) ==
    /\ Incoming(s)
    /\ TooMany(s)
    /\ LET m == Head(wire[s])
           frags == IF m.tag = 0 THEN {} ELSE {[src |-> s, run |-> m.run, tag |-> m.tag]}
       IN  /\ \E o \in Outcomes : Note("incomplete", 0, frags, o)
           /\ received' = received \union frags
    /\ UNCHANGED <<bufferVars, began>>

\* Mutant: only the first sub-channel gets the begin-run data.
BeginRunOutputsFirst == Outputs \X {0}

\* Every sub-channel gets a copy of the begin-run data.
BeginRunOutputs == Outputs \X Sinks

\* SendBeginRunData: when those of all the sources are there they are sent on;
\* further ones are dropped, also those of a source that sends them again.
RecvBeginRun(s) ==
    /\ Incoming(s)
    /\ ~TooMany(s) /\ Head(wire[s]).tag = 0
    /\ fBeginRunData' =
        IF Begun = fNumSource \/ fBeginRunData[s] # 0 THEN fBeginRunData
        ELSE [fBeginRunData EXCEPT ![s] = Head(wire[s]).run]
    /\ began' = IF Begun < fNumSource /\ Begun' = fNumSource
                THEN BeginRunOutputs ELSE began
    /\ UNCHANGED <<known, fInBuffer, fTagMask, fEventFrames, fNumSequence, young,
                   sent, received, lost>>

RecvFragment(s) ==
    /\ Incoming(s)
    /\ ~TooMany(s) /\ Head(wire[s]).tag # 0
    /\ LET f == [src |-> s, run |-> Head(wire[s]).run, tag |-> Head(wire[s]).tag]
       IN  /\ fInBuffer' = [fInBuffer EXCEPT ![s] = Append(@, f)]
           /\ young' = Append(young, f)
           /\ received' = received \union {f}
    /\ known' = known \union {s}
    /\ UNCHANGED <<fBeginRunData, fTagMask, fEventFrames, fNumSequence, sent, began, lost>>

\* No message came within the poll timeout.  ConditionalRun builds all the same.
RecvNothing ==
    /\ pc = "Recv" /\ stopping # "PostRun"
    /\ pc' = "Build"
    /\ UNCHANGED <<options, stopping, run, bufferVars, todo, inputVars, history>>

-----------------------------------------------------------------------------
(* Build. *)

\* CheckTimeout takes the time once, and then goes through the frames.
Obsolete ==
    {t \in Masked : \E f \in fEventFrames[t] : f \notin ToSet(young)}

ToTimeout == pc' = "Timeout" /\ todo' = Obsolete

\* Build returns, to the loop that looks for a stop or to that of PostRun.
Return ==
    /\ pc' = "Recv"
    /\ stopping' = IF stopping = "Requested" THEN "PostRun" ELSE stopping

\* Not all begin-run data are there: Build returns.
BuildNotBegun ==
    /\ pc = "Build" /\ Begun < fNumSource
    /\ Return
    /\ UNCHANGED <<options, run, bufferVars, todo, inputVars, history>>

\* A source has not yet sent any fragment.
BuildNotReady ==
    /\ pc = "Build" /\ Begun >= fNumSource /\ Cardinality(known) < fNumSource
    /\ ToTimeout
    /\ UNCHANGED <<options, stopping, run, bufferVars, inputVars, history>>

Waiting == {s \in Sources : fInBuffer[s] # <<>>}
FirstOf(s) == Head(fInBuffer[s])

\* The coarsest resolution of the fragments at the fronts.
CoarsestFront ==
    CHOOSE r \in {Resolution[s] : s \in Waiting} :
        \A s \in Waiting : Resolution[s] <= r

BuildMask ==
    /\ pc = "Build" /\ Begun >= fNumSource /\ Cardinality(known) >= fNumSource
    /\ fTagMask' = IF fTagMask = 0 /\ Waiting # {} THEN CoarsestFront ELSE fTagMask
    /\ pc' = "Dup"
    /\ UNCHANGED <<options, stopping, run, fBeginRunData, known, fInBuffer, fEventFrames,
                   fNumSequence, young, todo, inputVars, history>>

MaskTag(f) == (f.tag - 1) \div fTagMask

\* The frames that already have a fragment of a source that now has another one.
Duplicated ==
    {t \in Masked : \E s \in Waiting :
        MaskTag(FirstOf(s)) = t /\ \E f \in fEventFrames[t] : f.src = s}

\* SendFrame is given the map of the fragments, not the frame: the overload for a
\* message takes it, which knows no direction and counts no sequence.  What the
\* conversion makes of the map is up to FairMQ; the frame is erased all the same.
DupSend(t) ==
    /\ pc = "Dup" /\ t \in Duplicated
    /\ \E o \in Outcomes : Note("incomplete", 0, fEventFrames[t], o)
    /\ fEventFrames' = [fEventFrames EXCEPT ![t] = {}]
    /\ young' = SelectSeq(young, LAMBDA f : f \in Holding(fEventFrames', fInBuffer))
    /\ UNCHANGED <<options, pc, stopping, run, fBeginRunData, known, fInBuffer, fTagMask,
                   fNumSequence, todo, inputVars, began, received>>

\* Mutant: the fragments are merged without a look for duplicates: emplace keeps
\* the fragment of the source that is there.
MergeBlind ==
    /\ pc = "Dup"
    /\ fEventFrames' =
        [t \in Masked |-> fEventFrames[t] \union
            {FirstOf(s) : s \in {w \in Waiting : MaskTag(FirstOf(w)) = t
                                   /\ ~\E f \in fEventFrames[t] : f.src = w}}]
    /\ fInBuffer' = [s \in Sources |-> IF s \in Waiting THEN Tail(fInBuffer[s]) ELSE <<>>]
    /\ pc' = "Check"
    /\ UNCHANGED <<options, stopping, run, fBeginRunData, known, fTagMask, fNumSequence,
                   young, todo, inputVars, history>>

\* Mutant: nothing is merged as long as a source has nothing.
MergeAllOrNone ==
    /\ pc = "Dup" /\ Duplicated = {}
    /\ fEventFrames' =
        [t \in Masked |-> fEventFrames[t] \union
            {FirstOf(s) : s \in {w \in Waiting : Waiting = known /\ MaskTag(FirstOf(w)) = t}}]
    /\ fInBuffer' = [s \in Sources |-> IF s \in Waiting /\ Waiting = known THEN Tail(fInBuffer[s]) ELSE fInBuffer[s]]
    /\ pc' = "Check"
    /\ UNCHANGED <<options, stopping, run, fBeginRunData, known, fTagMask, fNumSequence,
                   young, todo, inputVars, history>>

\* The front fragment of every source goes to its frame.
Merge ==
    /\ pc = "Dup" /\ Duplicated = {}
    /\ fEventFrames' =
        [t \in Masked |-> fEventFrames[t] \union
            {FirstOf(s) : s \in {w \in Waiting : MaskTag(FirstOf(w)) = t}}]
    /\ fInBuffer' = [s \in Sources |-> IF s \in Waiting THEN Tail(fInBuffer[s]) ELSE <<>>]
    /\ pc' = "Check"
    /\ UNCHANGED <<options, stopping, run, fBeginRunData, known, fTagMask, fNumSequence,
                   young, todo, inputVars, history>>

\* Mutant: a frame with all but one of the fragments is complete.
NeededOneLess(type) == IF type = "Normal" THEN fNumSource - 1 ELSE fNumSourceStatus

\* The fragments a frame of a type needs, and where it goes.
Needed(type) ==
    CASE type = "Normal"     -> fNumSource
      [] type = "Monitor"    -> fNumSourceStatus
      [] type = "SpillStart" -> fNumSourceSpillStart
      [] type = "SpillEnd"   -> fNumSourceSpillEnd

OutputOf(type) ==
    CASE type = "Normal"     -> "out"
      [] type = "Monitor"    -> "status-data"
      [] type = "SpillStart" -> "spill-start-data"
      [] type = "SpillEnd"   -> "spill-end-data"

\* The types of a frame, fMessageType: the union of those of its fragments.
HasTrgTyp(t) == {TrgTyp[f.tag] : f \in fEventFrames[t]}
Satisfied(t) == {y \in HasTrgTyp(t) : Cardinality(fEventFrames[t]) = Needed(y)}

\* The types are tried in this order.
Order == <<"Normal", "Monitor", "SpillStart", "SpillEnd">>
FirstType(types) == Order[CHOOSE i \in 1 .. 4 : Order[i] \in types
                                     /\ \A j \in 1 .. i - 1 : Order[j] \notin types]

CheckSend(t) ==
    /\ pc = "Check" /\ Satisfied(t) # {}
    /\ SendFrame(t, OutputOf(FirstType(Satisfied(t))))
    /\ UNCHANGED <<options, pc, stopping, run, todo, inputVars>>

CheckDone ==
    /\ pc = "Check" /\ \A t \in Masked : Satisfied(t) = {}
    /\ ToTimeout
    /\ UNCHANGED <<options, stopping, run, bufferVars, inputVars, history>>

TimeoutSend(t) ==
    /\ pc = "Timeout" /\ t \in todo
    /\ SendFrame(t, "incomplete")
    /\ todo' = todo \ {t}
    /\ UNCHANGED <<options, pc, stopping, run, inputVars>>

\* Mutant: obsolete frames are kept.
TimeoutDoneEarly ==
    /\ pc = "Timeout"
    /\ Return /\ todo' = {}
    /\ UNCHANGED <<options, run, bufferVars, inputVars, history>>

TimeoutDone ==
    /\ pc = "Timeout" /\ todo = {}
    /\ Return
    /\ UNCHANGED <<options, run, bufferVars, todo, inputVars, history>>

-----------------------------------------------------------------------------
(* PostRun. *)

\* Mutant: the tags are cleared, the frames are not.
ClearBuffersKeepsFrames ==
    /\ fBeginRunData' = [s \in Sources |-> 0]
    /\ known' = {} /\ fInBuffer' = Empty
    /\ fTagMask' = 0 /\ fNumSequence' = 0
    /\ young' = SelectSeq(young, LAMBDA f : f \in Holding(fEventFrames, Empty))
    /\ UNCHANGED fEventFrames

\* Clear
ClearBuffers ==
    /\ fBeginRunData' = [s \in Sources |-> 0]
    /\ known' = {} /\ fInBuffer' = Empty
    /\ fEventFrames' = NoFrame
    /\ fTagMask' = 0 /\ fNumSequence' = 0
    /\ young' = <<>>

\* The channel is empty when PostRun looks for the last time.
PostRunEnd ==
    /\ pc = "Recv" /\ stopping = "PostRun"
    /\ wire = Empty
    /\ late \/ \A s \in Sources : trigger[s] = MaxTag + 1
    /\ ClearBuffers
    /\ pc' = "Ready"
    /\ UNCHANGED <<options, stopping, run, todo, inputVars, history>>

-----------------------------------------------------------------------------

Finished ==
    /\ pc = "Ready" /\ run = MaxRuns /\ \A s \in Sources : trigger[s] = MaxTag + 1
    /\ UNCHANGED vars

Device ==
    \/ \E s \in Sources : RecvTooMany(s) \/ RecvBeginRun(s) \/ RecvFragment(s)
    \/ RecvNothing \/ BuildNotBegun \/ BuildNotReady \/ BuildMask
    \/ \E t \in Masked : DupSend(t) \/ CheckSend(t) \/ TimeoutSend(t)
    \/ Merge \/ CheckDone \/ TimeoutDone
    \/ PostRunEnd

Next ==
    \/ \E s \in Sources :
        \/ SourceBegin(s) \/ SourceSend(s) \/ SourceMiss(s) \/ SourceStop(s)
        \/ RecvTooMany(s) \/ RecvBeginRun(s) \/ RecvFragment(s)
    \/ \E t \in Masked : DupSend(t) \/ CheckSend(t) \/ TimeoutSend(t)
    \/ Tick \/ StopRequest \/ StartRun
    \/ RecvNothing \/ BuildNotBegun \/ BuildNotReady \/ BuildMask
    \/ Merge \/ CheckDone \/ TimeoutDone
    \/ PostRunEnd
    \/ Finished

Spec == Init /\ [][Next]_vars

\* The device thread goes on, and so does the time; the receive takes a message
\* of every source in turn.
FairSpec ==
    /\ Spec
    /\ WF_vars(Device)
    /\ WF_vars(Tick)
    /\ \A s \in Sources :
        /\ SF_vars(RecvTooMany(s) \/ RecvBeginRun(s) \/ RecvFragment(s))
        /\ WF_vars(SourceStop(s))

-----------------------------------------------------------------------------

Buffered == UNION {ToSet(fInBuffer[s]) : s \in Sources}
Framed   == UNION {fEventFrames[t] : t \in Masked}
Sent     == UNION {g.frags : g \in sent}

\* While the builder runs, a fragment that was taken in is in one place: it
\* waits, belongs to one frame, was sent in one frame, or went with a frame that
\* was given up.  None vanishes and none is sent twice.
FragmentsAccounted ==
    pc # "Ready" =>
        /\ received = Buffered \union Framed \union Sent \union lost
        /\ Buffered \intersect (Framed \union Sent \union lost) = {}
        /\ Framed \intersect (Sent \union lost) = {}
        /\ Sent \intersect lost = {}
        /\ \A g, h \in sent : g # h => g.frags \intersect h.frags = {}

\* A frame that is sent as complete has a fragment of each of fNumSource sources,
\* all with the same tag as far as the tag mask goes, whatever was late,
\* duplicated or rejected before.
CompleteWhole ==
    pc # "Ready" => \A g \in sent : g.output = "out" =>
        /\ Cardinality({f.src : f \in g.frags}) = fNumSource
        /\ Cardinality(g.frags) = fNumSource
        /\ \E t \in Masked : \A f \in g.frags : MaskTag(f) = t

\* If the sources end before PostRun does, what is sent is of this run, although
\* the builder never looks at the run number of a fragment.
SentIsOfThisRun ==
    (~late /\ pc # "Ready") => \A g \in sent : \A f \in g.frags : f.run = run

\* Every sub-channel that gets a frame from Build has been sent the begin-run
\* data before (or Send has given up on them), whatever the sources send first.
BeginRunFirst ==
    \A g \in sent :
        g.frags # {} /\ (g.output # "incomplete" \/ g.sink # 0)
            => <<g.output, g.sink>> \in began

\* A frame does not stay for ever: it is completed, timed out or cleared.
FramesLeave ==
    \A t \in Masked : fEventFrames[t] # {} ~> fEventFrames[t] = {}

\* A fragment that waits is merged, if every source has sent one and the
\* begin-run data are complete; a stop clears it.
WaitingIsMerged ==
    \A s \in Sources :
        (Begun = fNumSource /\ Cardinality(known) = fNumSource /\ fInBuffer[s] # <<>>)
            ~> (fInBuffer[s] = <<>> \/ stopping # "No")

\* Neither fragments nor frames stay in the builder for ever.
NothingStays == FramesLeave /\ WaitingIsMerged
=============================================================================
