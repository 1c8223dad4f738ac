--------------------------- MODULE TagSubscriber ---------------------------
(***************************************************************************)
(* The test sampler of e16 (e16/Sampler/TagSubscriber.cxx): it makes up a  *)
(* fragment for every tag it receives and sends it to the first            *)
(* sub-channel of its data channel.                                        *)
(***************************************************************************)
EXTENDS Integers, Sequences

CONSTANTS
    TagQueue        \* bound: tags that wait for the subscriber (a full queue drops)

ASSUME SubscriberAssumption == TagQueue \in Nat \ {0}

VARIABLES
    fDiscard,       \* option: what PostRun receives is not handled
    subscriber,     \* the device: state, pending, fNSequence, fRunNumber
    tagIn,          \* the tags that wait on the input channel
    fragments       \* history: what was sent since the run began
subscriberVars == <<fDiscard, subscriber, tagIn, fragments>>

SubscriberInit ==
    /\ fDiscard \in BOOLEAN
    /\ subscriber = [state |-> "Ready", pending |-> FALSE, fNSequence |-> 0, fRunNumber |-> 0]
    /\ tagIn = <<>> /\ fragments = <<>>

\* PreRun: the begin-run data go to sub-channel 0 alone, as count() of a channel
\* name is 1, and so do all data.
SubscriberPreRun(run) ==
    /\ subscriber.state = "Ready"
    /\ subscriber' = [state |-> "Running", pending |-> FALSE, fNSequence |-> 0, fRunNumber |-> run]
    /\ fragments' = <<>>
    /\ UNCHANGED <<fDiscard, tagIn>>

\* A published tag arrives, or finds the queue full.
Publish(tag) == tagIn' = IF Len(tagIn) < TagQueue THEN Append(tagIn, tag) ELSE tagIn

HandleTag(tag) ==
    /\ fragments' = Append(fragments, [tag |-> tag, num_sequence |-> subscriber.fNSequence,
                                       run_id |-> subscriber.fRunNumber])
    /\ subscriber' = [subscriber EXCEPT !.fNSequence = @ + 1]

ReceiveTag ==
    /\ subscriber.state = "Running" /\ tagIn # <<>>
    /\ HandleTag(Head(tagIn)) /\ tagIn' = Tail(tagIn)
    /\ UNCHANGED fDiscard

\* The run loop looks for a stop between two tags.
SubscriberStop ==
    /\ subscriber.state = "Running" /\ subscriber.pending
    /\ subscriber' = [subscriber EXCEPT !.state = "PostRun"]
    /\ UNCHANGED <<fDiscard, tagIn, fragments>>

\* PostRun takes what is left ...
DrainTag ==
    /\ subscriber.state = "PostRun" /\ tagIn # <<>>
    /\ IF fDiscard THEN UNCHANGED <<subscriber, fragments>> ELSE HandleTag(Head(tagIn))
    /\ tagIn' = Tail(tagIn) /\ UNCHANGED fDiscard

\* Mutant: PostRun is empty, as it is in the broadcaster.
DrainDoneAtOnce ==
    /\ subscriber.state = "PostRun"
    /\ subscriber' = [subscriber EXCEPT !.state = "Ready"]
    /\ UNCHANGED <<fDiscard, tagIn, fragments>>

\* ... until nothing came for fTimeoutMS.
DrainDone ==
    /\ subscriber.state = "PostRun" /\ tagIn = <<>>
    /\ subscriber' = [subscriber EXCEPT !.state = "Ready"]
    /\ UNCHANGED <<fDiscard, tagIn, fragments>>
=============================================================================
