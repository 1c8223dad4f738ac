------------------------ MODULE HulStrTdcSTFBuilder ------------------------
(***************************************************************************)
(* The sub time frame builder of elph2018: it cuts the words of its        *)
(* sampler into sub time frames of fMaxHBF heartbeats and sends each to    *)
(* the time frame builder its number stands for.                           *)
(***************************************************************************)
EXTENDS HulStrTdcSampler, SequencesExt

CONSTANTS
    fMaxHBF,           \* heartbeats of a sub time frame
    SplitMethods,      \* 0: the heartbeat ends a frame, else it begins one
    fNumDestination,   \* time frame builders
    Monitored          \* front ends whose builder has a dqm channel

ASSUME STFBuilderAssumption ==
    /\ {fMaxHBF, fNumDestination} \subseteq Nat \ {0}
    /\ SplitMethods \subseteq Nat
    /\ Monitored \subseteq Fems

VARIABLES
    fSplitMethod,
    built,        \* fInputPayloads, fWorkingPayloads, fOutputPayloads, fSTFId,
                  \* and fHBFCounter of each builder
    handling,     \* HandleData: "no", "dqm" or "out", its two sends
    link          \* the sub time frames on their way, by builder and destination

stfVars == <<fSplitMethod, built, handling, link>>

Destinations == 0 .. fNumDestination - 1

NewBuilder == [fInputPayloads |-> << >>, fWorkingPayloads |-> << >>,
               fOutputPayloads |-> << >>, fSTFId |-> 0, fHBFCounter |-> 0]

Full(b) == b.fHBFCounter % fMaxHBF = 0 /\ b.fHBFCounter > 0

\* Mutant: the counter of heartbeats goes on.
FinalizeSTFKeepsCounter(b) ==
    [b EXCEPT !.fOutputPayloads = Append(@, [id |-> b.fSTFId,
                                             payloads |-> b.fWorkingPayloads]),
              !.fWorkingPayloads = << >>,
              !.fSTFId = @ + 1]

FinalizeSTF(b) ==
    [b EXCEPT !.fOutputPayloads = Append(@, [id |-> b.fSTFId,
                                             payloads |-> b.fWorkingPayloads]),
              !.fWorkingPayloads = << >>,
              !.fSTFId = @ + 1,
              !.fHBFCounter = 0]

\* The data that wait become a message of the frame.
Flushed(b) ==
    IF b.fInputPayloads = << >> THEN b
    ELSE [b EXCEPT !.fWorkingPayloads = Append(@, b.fInputPayloads),
                   !.fInputPayloads = << >>]

FillData(b) ==
    IF fSplitMethod # 0 /\ Full(b) THEN FinalizeSTF(Flushed(b)) ELSE Flushed(b)

Delimiter(b, word) == [b EXCEPT !.fWorkingPayloads = Append(@, <<word>>)]

\* Mutant: the word goes before the data that came before it.
HeartbeatBeforeData(b, word) ==
    LET counted == [FillData(Delimiter(b, word)) EXCEPT !.fHBFCounter = @ + 1]
    IN  IF fSplitMethod = 0 /\ Full(counted) THEN FinalizeSTF(counted) ELSE counted

\* A heartbeat or an error recovery.
Heartbeat(b, word) ==
    LET counted == [Delimiter(FillData(b), word) EXCEPT !.fHBFCounter = @ + 1]
    IN  IF fSplitMethod = 0 /\ Full(counted) THEN FinalizeSTF(counted) ELSE counted

\* The end of a spill, after FillData has run for the data before it and once
\* more for the word itself.
SpillEnd(b, word) ==
    FinalizeSTF(FillData([FillData(b) EXCEPT !.fInputPayloads = <<word>>]))

\* One turn of the loop over the words of a message.
NextWord(b, word) ==
    CASE word.head = "Data" -> [b EXCEPT !.fInputPayloads = Append(@, word)]
      [] word.head \in {"Heartbeat", "ErrorRecovery"} -> Heartbeat(b, word)
      [] word.head = "SpillEnd" -> SpillEnd(b, word)
      [] OTHER -> b

BuildFrame(b, message) == FoldLeft(NextWord, b, message)

\* Where HandleData goes on: to the sends of the first frame in fOutputPayloads.
NextFrame(f, b) ==
    IF b.fOutputPayloads = << >> THEN "no"
    ELSE IF f \in Monitored THEN "dqm" ELSE "out"

STFBuilderInit ==
    /\ fSplitMethod \in SplitMethods
    /\ built = [f \in Fems |-> NewBuilder]
    /\ handling = [f \in Fems |-> "no"]
    /\ link = [f \in Fems |-> [d \in Destinations |-> << >>]]

HandleData(f) ==
    /\ handling[f] = "no"
    /\ raw[f] # << >>
    /\ built' = [built EXCEPT ![f] = BuildFrame(@, Head(raw[f]))]
    /\ raw' = [raw EXCEPT ![f] = Tail(@)]
    /\ handling' = [handling EXCEPT ![f] = NextFrame(f, built'[f])]
    /\ UNCHANGED <<fSplitMethod, link>>

\* The dqm Send has no timeout: it waits for the monitor.
DqmSent(f) ==
    /\ handling[f] = "dqm"
    /\ handling' = [handling EXCEPT ![f] = "out"]
    /\ UNCHANGED <<fSplitMethod, built, link>>

\* Mutant: the dqm Send is tried again, as the output is.
DqmInterruptedRetries(f) == handling[f] = "dqm" /\ UNCHANGED stfVars

\* A stop ends the same Send.  GetCurrentState() is Running until the handler has
\* returned, so that the failure is only logged.
DqmInterrupted(f) ==
    /\ handling[f] = "dqm"
    /\ handling' = [handling EXCEPT ![f] = "out"]
    /\ UNCHANGED <<fSplitMethod, built, link>>

Destination(frame) == frame.id % fNumDestination

OutputSent(f) ==
    /\ handling[f] = "out"
    /\ LET frame == Head(built[f].fOutputPayloads)
           d == Destination(frame)
       IN  /\ link[f][d] = << >>
           /\ link' = [link EXCEPT ![f][d] = <<frame>>]
    /\ built' = [built EXCEPT ![f].fOutputPayloads = Tail(@)]
    /\ handling' = [handling EXCEPT ![f] = NextFrame(f, built'[f])]
    /\ UNCHANGED fSplitMethod

\* A stop is seen between two calls of HandleData.  Its loop over an output that
\* is not ready waits for a state that only its own return would bring.
MayStopSTF(f) == handling[f] = "no"

\* Clears the payloads, and neither number nor counter.
PostRunSTF(f) ==
    /\ built' = [built EXCEPT ![f] = [@ EXCEPT !.fInputPayloads = << >>,
                                               !.fWorkingPayloads = << >>,
                                               !.fOutputPayloads = << >>]]
    /\ handling' = [handling EXCEPT ![f] = "no"]
    /\ UNCHANGED <<fSplitMethod, link>>

\* InitTask after a reset of the task.
InitTaskSTF ==
    /\ built' = [f \in Fems |-> [built[f] EXCEPT !.fSTFId = 0, !.fHBFCounter = 0]]
    /\ UNCHANGED <<fSplitMethod, handling, link>>
=============================================================================
