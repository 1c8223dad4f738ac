------------------------- MODULE HulStrTdcTFBuilder -------------------------
(***************************************************************************)
(* The time frame builder of elph2018: it puts the sub time frames of all  *)
(* front ends with one number together.  Unlike its successor in exam6 it  *)
(* remembers which numbers it gave up, and copies what it sends to all but *)
(* the first of its outputs.                                               *)
(***************************************************************************)
EXTENDS HulStrTdcSTFBuilder

CONSTANTS
    Outputs,      \* sub-channels of the output channel
    DeadOutputs   \* <<d, i>> if nobody reads output i of builder d

ASSUME TFBuilderAssumption == Outputs \in Nat \ {0} /\ DeadOutputs \subseteq Destinations \X Nat

VARIABLES
    fTFBuffer,    \* by builder and number, the parts as <<front end, frame>>
    fDiscarded,   \* by builder, the numbers given up
    sweep,        \* by builder, the numbers that the loop has still to visit
    sending       \* the frame in the send loop: number, parts, output; or NoFrame

tfVars == <<fTFBuffer, fDiscarded, sweep, sending>>

fNumSource == Cardinality(Fems)
NoFrame == [id |-> -1, parts |-> << >>, isock |-> 0]
Ids(buffer) == DOMAIN buffer

TFBuilderInit ==
    /\ fTFBuffer = [d \in Destinations |-> << >>]
    /\ fDiscarded = [d \in Destinations |-> {}]
    /\ sweep = [d \in Destinations |-> {}]
    /\ sending = [d \in Destinations |-> NoFrame]

\* The Receive of ConditionalRun, between two loops over the buffers.
Waiting(d) == sweep[d] = {} /\ sending[d] = NoFrame

TakenIn(d, id) == id \notin fDiscarded[d]

With(buffer, id, part) ==
    [i \in Ids(buffer) \cup {id} |->
        IF i = id THEN Append(IF id \in Ids(buffer) THEN buffer[id] ELSE << >>, part)
                  ELSE buffer[i]]

Without(buffer, id) == [i \in Ids(buffer) \ {id} |-> buffer[i]]

ReceiveSTF(d, f) ==
    /\ Waiting(d)
    /\ link[f][d] # << >>
    /\ LET frame == Head(link[f][d])
       IN  fTFBuffer' = IF TakenIn(d, frame.id)
                        THEN [fTFBuffer EXCEPT ![d] = With(@, frame.id, <<f, frame>>)]
                        ELSE fTFBuffer
    /\ link' = [link EXCEPT ![f][d] = << >>]
    /\ sweep' = [sweep EXCEPT ![d] = Ids(fTFBuffer'[d])]
    /\ UNCHANGED <<fDiscarded, sending>>

\* Nothing came within a second.
ReceiveNoSTF(d) ==
    /\ Waiting(d)
    /\ Ids(fTFBuffer[d]) # {}
    /\ \A f \in Fems : link[f][d] = << >>
    /\ sweep' = [sweep EXCEPT ![d] = Ids(fTFBuffer[d])]
    /\ UNCHANGED <<fTFBuffer, fDiscarded, sending, link>>

\* The visit of one buffer: it is complete, too old, or stays.
Visit(d, id) ==
    /\ id \in sweep[d]
    /\ sending[d] = NoFrame
    /\ sweep' = [sweep EXCEPT ![d] = @ \ {id}]
    /\ UNCHANGED link

SweepComplete(d, id) ==
    /\ Visit(d, id)
    /\ Len(fTFBuffer[d][id]) = fNumSource
    /\ sending' = [sending EXCEPT ![d] = [id |-> id, parts |-> fTFBuffer[d][id],
                                          isock |-> Outputs - 1]]
    /\ fTFBuffer' = [fTFBuffer EXCEPT ![d] = Without(@, id)]
    /\ UNCHANGED fDiscarded

SweepExpire(d, id) ==
    /\ Visit(d, id)
    /\ Len(fTFBuffer[d][id]) # fNumSource
    /\ fDiscarded' = [fDiscarded EXCEPT ![d] = @ \cup {id}]
    /\ fTFBuffer' = [fTFBuffer EXCEPT ![d] = Without(@, id)]
    /\ UNCHANGED sending

SweepKeep(d, id) ==
    /\ Visit(d, id)
    /\ Len(fTFBuffer[d][id]) # fNumSource
    /\ UNCHANGED <<fTFBuffer, fDiscarded, sending>>

\* The copy for output isock > 0, a Send without timeout.
CopySent(d) ==
    /\ sending[d].isock > 0
    /\ <<d, sending[d].isock>> \notin DeadOutputs
    /\ sending' = [sending EXCEPT ![d].isock = @ - 1]
    /\ UNCHANGED <<fTFBuffer, fDiscarded, sweep, link>>

\* The same Send ended by a stop: its result is ignored.
CopyInterrupted(d) ==
    /\ sending[d].isock > 0
    /\ sending' = [sending EXCEPT ![d].isock = @ - 1]
    /\ UNCHANGED <<fTFBuffer, fDiscarded, sweep, link>>

\* The frame itself, to output 0.
FrameSent(d) ==
    /\ sending[d] # NoFrame
    /\ sending[d].isock = 0
    /\ <<d, 0>> \notin DeadOutputs
    /\ sending' = [sending EXCEPT ![d] = NoFrame]
    /\ UNCHANGED <<fTFBuffer, fDiscarded, sweep, link>>

\* A stop is seen between two calls of ConditionalRun.  The loop that sends to
\* output 0 tests GetCurrentState(), which is Running until the call returns.
MayStopTF(d) == Waiting(d)

\* Mutant: the buffers are kept.
PostRunTFKeepsBuffer(d) ==
    /\ fDiscarded' = [fDiscarded EXCEPT ![d] = {}]
    /\ sweep' = [sweep EXCEPT ![d] = {}]
    /\ sending' = [sending EXCEPT ![d] = NoFrame]
    /\ UNCHANGED <<link, fTFBuffer>>

\* PostRun clears the buffers.  What is in the channel stays there.
PostRunTF(d) ==
    /\ fTFBuffer' = [fTFBuffer EXCEPT ![d] = << >>]
    /\ fDiscarded' = [fDiscarded EXCEPT ![d] = {}]
    /\ sweep' = [sweep EXCEPT ![d] = {}]
    /\ sending' = [sending EXCEPT ![d] = NoFrame]
    /\ UNCHANGED link
=============================================================================
