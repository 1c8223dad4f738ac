------------------------------ MODULE Sampler ------------------------------
(***************************************************************************)
(* The front-end samplers of e16 (e16/Sampler/Sampler.cxx and the          *)
(* ProcessData of drs4qdc, srs-atca and hul-hrtdc).  Run starts a thread   *)
(* that answers requests for the begin-run data, runs the DAQ loop of the  *)
(* library (external), and joins the thread.  What the loop reads is sent  *)
(* to one of the builders, chosen by the number of the event, of the       *)
(* spill, or of the iteration.                                             *)
(***************************************************************************)
EXTENDS Integers, Sequences, FiniteSets

CONSTANTS
    Samplers,
    EventTags, SpillTags,   \* sampler -> the events and spills its tag tells apart
    NDestination,           \* --n-peers of the data channel
    fMaxIteration,          \* --max-iteration, 0: none
    Options                 \* the pairs of --round-robin and --wait-stop-command in use

ASSUME SamplerAssumption ==
    /\ EventTags \in [Samplers -> Nat \ {0}] /\ SpillTags \in [Samplers -> Nat \ {0}]
    /\ NDestination \in Nat \ {0} /\ fMaxIteration \in Nat
    /\ Options \subseteq {"event", "spill", "sequence"} \X BOOLEAN

VARIABLES
    fRoundRobin, fWaitStopCommand,  \* options
    sampler,        \* sampler -> the device, its counters and its request thread
    fem,            \* sampler -> the frames its front end has for it
    requests,       \* the samplers that a request waits at: a monitor asks one at a time
    sent            \* history: the events sent since the run began, and where to
options == <<fRoundRobin, fWaitStopCommand>>
samplerVars == <<options, sampler, fem, requests, sent>>

NoTag == [run |-> 0, event |-> 0, spill |-> 0]
Off == [pc |-> "Ready", thread |-> "Off", pending |-> FALSE, fDaqThreadEnd |-> FALSE,
        fNumIteration |-> 0, fBeginRunData |-> 0]
InRun == [Off EXCEPT !.pc = "Daq", !.thread = "Poll"]

SamplerInit ==
    /\ \E o \in Options : fRoundRobin = o[1] /\ fWaitStopCommand = o[2]
    /\ sampler = [s \in Samplers |-> Off]
    /\ fem = [s \in Samplers |-> <<>>]
    /\ requests = {} /\ sent = {}

\* Mutants: PreRun leaves the count of iterations, or the flag of the last run.
PreRunKeepsIteration(s, run) == [InRun EXCEPT
    !.fNumIteration = sampler[s].fNumIteration, !.fBeginRunData = run]
PreRunKeepsEnd(s, run) == [InRun EXCEPT
    !.fDaqThreadEnd = sampler[s].fDaqThreadEnd, !.fBeginRunData = run]

\* PreRun: the counters, the flag for the thread, and new begin-run data.  Run
\* starts the request thread and then the DAQ loop.
PreRun(s, run) == [InRun EXCEPT !.fBeginRunData = run]

SamplersPreRun(run) ==
    /\ \A s \in Samplers : sampler[s].pc = "Ready"
    /\ sampler' = [s \in Samplers |-> PreRun(s, run)]
    /\ sent' = {}
    /\ UNCHANGED <<options, fem, requests>>

-----------------------------------------------------------------------------
(* The request thread: HandleRequest. *)

\* Mutant: the loop of TagSubscriber, which looks at the pending state alone.
ThreadMayEndStop(s) == sampler[s].pending
ThreadMayEnd(s) == sampler[s].pending \/ sampler[s].fDaqThreadEnd

\* The loop ends before a poll ...
ThreadEnd(s) ==
    /\ sampler[s].thread = "Poll" /\ ThreadMayEnd(s)
    /\ sampler' = [sampler EXCEPT ![s].thread = "Done"]
    /\ UNCHANGED <<options, fem, requests, sent>>

\* ... or the poll has found a request, which is answered.
ThreadAnswer(s) ==
    /\ sampler[s].thread = "Poll" /\ s \in requests
    /\ requests' = requests \ {s}
    /\ UNCHANGED <<options, sampler, fem, sent>>

-----------------------------------------------------------------------------
(* The DAQ loop. *)

CancelRequested(s) ==
    sampler[s].pending \/ (fMaxIteration > 0 /\ sampler[s].fNumIteration >= fMaxIteration)

\* Start() comes back; the thread is told.
DaqEnds(s) ==
    /\ sampler[s].pc = "Daq" /\ CancelRequested(s)
    /\ sampler' = [sampler EXCEPT ![s].pc = "Join", ![s].fDaqThreadEnd = TRUE]
    /\ UNCHANGED <<options, fem, requests, sent>>

\* Start() throws: the catch of Run is reached through the destructor of a
\* thread that is joinable, and that terminates the process.
DaqThrows(s) ==
    /\ sampler[s].pc = "Daq"
    /\ sampler' = [sampler EXCEPT ![s] = [Off EXCEPT !.pc = "Terminated"]]
    /\ fem' = [fem EXCEPT ![s] = <<>>] /\ requests' = requests \ {s}
    /\ UNCHANGED <<options, sent>>

\* GetDirection.  The policy "timestamp" is left out: the time in a tag comes from
\* the unpacker of the front end, which is not in the repository.
Direction(s, event, spill) ==
    CASE fRoundRobin = "event"    -> event % NDestination
      [] fRoundRobin = "spill"    -> spill % NDestination
      [] fRoundRobin = "sequence" -> sampler[s].fNumIteration % NDestination

\* ProcessData of an event: its tag, as far as this front end has it, gives the
\* direction.
ProcessEvent(s) ==
    /\ sampler[s].pc = "Daq" /\ fem[s] # <<>> /\ Head(fem[s]) # NoTag
    /\ LET tag   == Head(fem[s])
           event == tag.event % EventTags[s]
           spill == tag.spill % SpillTags[s]
       IN  /\ sent' = sent \union {[tag |-> tag, to |-> Direction(s, event, spill)]}
           /\ sampler' = [sampler EXCEPT ![s].fNumIteration = @ + 1]
    /\ fem' = [fem EXCEPT ![s] = Tail(@)]
    /\ UNCHANGED <<options, requests>>

\* ProcessData of a frame without a tag: scalers, pedestals, the limits of a
\* spill.  It goes to another channel and counts as an iteration all the same.
ProcessOther(s) ==
    /\ sampler[s].pc = "Daq" /\ fem[s] # <<>> /\ Head(fem[s]) = NoTag
    /\ sampler' = [sampler EXCEPT ![s].fNumIteration = @ + 1]
    /\ fem' = [fem EXCEPT ![s] = Tail(@)]
    /\ UNCHANGED <<options, requests, sent>>

Join(s) ==
    /\ sampler[s].pc = "Join" /\ sampler[s].thread = "Done"
    /\ sampler' = [sampler EXCEPT ![s].pc = "Wait", ![s].thread = "Off"]
    /\ UNCHANGED <<options, fem, requests, sent>>

\* Run ends, at the stop if that is to be waited for; PostRun closes the
\* connection, and what the front end still had is gone.
SamplerPostRun(s) ==
    /\ sampler[s].pc = "Wait" /\ (fWaitStopCommand => sampler[s].pending)
    /\ sampler' = [sampler EXCEPT ![s].pc = "Ready"]
    /\ fem' = [fem EXCEPT ![s] = <<>>]
    /\ UNCHANGED <<options, requests, sent>>

SamplerStep(s) ==
    \/ DaqEnds(s) \/ ProcessEvent(s) \/ ProcessOther(s)
    \/ Join(s) \/ SamplerPostRun(s)

\* A monitor asks for the begin-run data.
Request(s) ==
    /\ requests = {} /\ requests' = {s}
    /\ UNCHANGED <<options, sampler, fem, sent>>
=============================================================================
