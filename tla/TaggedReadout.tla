--------------------------- MODULE TaggedReadout ---------------------------
(***************************************************************************)
(* The samplers of e16 in a run, in either of two setups.  With front ends *)
(* the trigger system numbers the events, as the broadcaster does; a front *)
(* end may miss one or have a frame of its own, and monitors ask for the   *)
(* begin-run data.  Without, the broadcaster publishes to the subscriber.  *)
(* The command to stop reaches the devices one after the other.            *)
(***************************************************************************)
EXTENDS TagBroadcaster, TagSubscriber, Sampler

CONSTANTS
    FemLength,      \* bound: frames in a front end, which is then busy
    MaxRuns         \* bound: runs

ASSUME RunAssumption == FemLength \in Nat \ {0} /\ MaxRuns \in Nat

VARIABLES
    setup,          \* "fem" or "test"
    run,            \* number of runs begun
    stopping,       \* the run control has asked for a stop
    uneven,         \* a front end has missed a tag, or had a frame of its own
    late            \* the subscriber's PostRun was over before the broadcaster stopped
vars == <<broadcaster, subscriberVars, samplerVars, setup, run, stopping, uneven, late>>
control == <<setup, run, stopping>>

Init ==
    /\ BroadcasterInit /\ SubscriberInit /\ SamplerInit
    /\ setup \in {"fem", "test"}
    /\ IF setup = "fem" THEN ~fDiscard ELSE fRoundRobin = "event"   \* not in the setup
    /\ run = 0 /\ stopping = FALSE /\ uneven = FALSE /\ late = FALSE

\* The run control waits for all devices.
StartRun ==
    /\ run < MaxRuns /\ run' = run + 1
    /\ BroadcasterPreRun
    /\ IF setup = "fem" THEN SamplersPreRun(run + 1) /\ UNCHANGED subscriberVars
                        ELSE SubscriberPreRun(run + 1) /\ UNCHANGED samplerVars
    /\ stopping' = FALSE /\ uneven' = FALSE
    /\ UNCHANGED <<setup, late>>

\* The trigger waits for a busy front end.  Front ends that are read out get the
\* tag, but for one that may miss it, once in a run.
Trigger ==
    /\ setup = "fem" /\ \A s \in Samplers : Len(fem[s]) < FemLength
    /\ \E missing \in IF uneven THEN {{}} ELSE {{}} \union {{s} : s \in Samplers} :
        /\ fem' = [s \in Samplers |-> IF s \in missing \/ sampler[s].pc # "Daq" THEN fem[s]
                                      ELSE Append(fem[s], Tag(run))]
        /\ uneven' = (uneven \/ missing # {})
    /\ UNCHANGED <<subscriberVars, options, sampler, requests, sent>>

Broadcast ==
    /\ Running(broadcaster) /\ broadcaster.fEventId < MaxTag
    /\ \/ Trigger
       \/ /\ setup = "test" /\ Publish(Tag(run))
          /\ UNCHANGED <<fDiscard, subscriber, fragments, samplerVars, uneven>>
    /\ NextNumbers
    /\ UNCHANGED <<control, late>>

OtherFrame(s) ==
    /\ ~uneven /\ uneven' = TRUE
    /\ sampler[s].pc = "Daq" /\ Len(fem[s]) < FemLength
    /\ fem' = [fem EXCEPT ![s] = Append(@, NoTag)]
    /\ UNCHANGED <<broadcaster, subscriberVars, options, sampler, requests, sent,
                   control, late>>

StopRequest ==
    /\ run > 0 /\ ~stopping /\ stopping' = TRUE
    /\ IF setup = "fem" THEN broadcaster' = [broadcaster EXCEPT !.state = "Ready"]
                        ELSE UNCHANGED broadcaster
    /\ UNCHANGED <<subscriberVars, samplerVars, setup, run, uneven, late>>

StopArrives ==
    /\ stopping
    /\ \/ /\ Running(broadcaster) /\ ~broadcaster.pending
          /\ broadcaster' = [broadcaster EXCEPT !.pending = TRUE]
          /\ UNCHANGED <<subscriberVars, samplerVars>>
       \/ /\ subscriber.state = "Running" /\ ~subscriber.pending
          /\ subscriber' = [subscriber EXCEPT !.pending = TRUE]
          /\ UNCHANGED <<broadcaster, fDiscard, tagIn, fragments, samplerVars>>
       \/ \E s \in Samplers :
          /\ sampler[s].pc \notin {"Ready", "Terminated"} /\ ~sampler[s].pending
          /\ sampler' = [sampler EXCEPT ![s].pending = TRUE]
          /\ UNCHANGED <<broadcaster, subscriberVars, options, fem, requests, sent>>
    /\ UNCHANGED <<control, uneven, late>>

Subscriber ==
    /\ ReceiveTag \/ SubscriberStop \/ DrainTag \/ DrainDone
    /\ late' = (late \/ (subscriber.state = "PostRun" /\ subscriber'.state = "Ready"
                            /\ Running(broadcaster)))
    /\ UNCHANGED <<broadcaster, samplerVars, control, uneven>>

Broadcaster ==
    /\ BroadcasterStop
    /\ UNCHANGED <<subscriberVars, samplerVars, control, uneven, late>>

Device(s) ==
    /\ SamplerStep(s)
    /\ UNCHANGED <<broadcaster, subscriberVars, control, uneven, late>>

Thread(s) ==
    /\ ThreadEnd(s) \/ ThreadAnswer(s)
    /\ UNCHANGED <<broadcaster, subscriberVars, control, uneven, late>>

Outside(s) ==
    /\ DaqThrows(s) \/ Request(s)
    /\ UNCHANGED <<broadcaster, subscriberVars, control, uneven, late>>

Next ==
    \/ StartRun \/ Broadcast \/ StopRequest \/ StopArrives \/ Subscriber \/ Broadcaster
    \/ \E s \in Samplers : OtherFrame(s) \/ Device(s) \/ Thread(s) \/ Outside(s)

Spec == Init /\ [][Next]_vars

\* The operating system runs the threads of the samplers; the request thread looks
\* at its loop condition after every poll, so that neither starves the other.
FairSpec ==
    /\ Spec
    /\ \A s \in Samplers :
        /\ WF_vars(Device(s))
        /\ WF_vars(ThreadEnd(s) /\ Thread(s)) /\ WF_vars(ThreadAnswer(s) /\ Thread(s))

-----------------------------------------------------------------------------

\* The policy can bring the fragments of an event together: all front ends can
\* tell the numbers apart as far as the destinations do, or every one has counted
\* the same frames.
PolicyFits ==
    CASE fRoundRobin = "event"    -> \A s \in Samplers : EventTags[s] % NDestination = 0
      [] fRoundRobin = "spill"    -> \A s \in Samplers : SpillTags[s] % NDestination = 0
      [] fRoundRobin = "sequence" -> ~uneven

\* The fragments of an event all go to the same builder, although every sampler
\* chooses by itself.
FragmentsMeet ==
    PolicyFits => \A f, g \in sent : f.tag = g.tag => f.to = g.to

\* The subscriber's fragments are of the run they say, one for each tag, in
\* order and numbered without a gap, discarded or not at the end of a run, if
\* the broadcaster stops before the subscriber's PostRun is over.
TagsOfThisRun ==
    ~late => \A i \in DOMAIN fragments :
        /\ fragments[i].tag.run = fragments[i].run_id
        /\ fragments[i].num_sequence = i - 1
        /\ \A j \in DOMAIN fragments : i < j => fragments[i].tag.event < fragments[j].tag.event

\* A request that comes while the sampler reads its front end is answered in
\* every run, unless the run is over before.
RequestAnswered ==
    \A s \in Samplers :
        (sampler[s].pc = "Daq" /\ s \in requests) ~> (sampler[s].pc # "Daq" \/ s \notin requests)

\* A stop ends the run of a sampler, and so does the last iteration if no stop
\* is to be waited for: the request thread never keeps it.
SamplerEnds ==
    \A s \in Samplers :
        (sampler[s].pending \/ (sampler[s].pc = "Daq" /\ CancelRequested(s) /\ ~fWaitStopCommand))
            ~> sampler[s].pc \in {"Ready", "Terminated"}
=============================================================================
