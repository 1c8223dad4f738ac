-------------------------- MODULE TaskProcessorMT --------------------------
(***************************************************************************)
(* The threads a device puts behind its input handler                      *)
(* (e16/TaskProcessorMT.cxx): the device thread splits the messages over   *)
(* the workers, every worker passes its results on, and the merger takes   *)
(* one result of each worker in turn.  A worker has a channel of its own   *)
(* from the splitter and one to the merger.  The handlers belong to the    *)
(* devices that use the processor: FileSink and RawToDST0.                 *)
(*                                                                         *)
(* A message is known by its number: the position, from 0, at which the    *)
(* device took it in this run.                                             *)
(***************************************************************************)
EXTENDS Integers, Sequences

CONSTANTS
    fNThreads,      \* --n-threads
    QueueLength     \* messages an in-process channel holds: its two buffers

ASSUME ThreadsAssumption ==
    /\ fNThreads \in Nat \ {0}
    /\ QueueLength \in Nat \ {0}

Workers == 0 .. fNThreads - 1

VARIABLES
    statePending,   \* NewStatePending()
    fSplitter,      \* worker -> its channel from the device thread
    job,            \* worker -> <<the message it works on>>, or <<>>
    worker,         \* worker -> "Off", "Recv", "Work", "Send"
    fMergerCh,      \* worker -> its channel to the merger
    merger,         \* "Off", "Recv", "Send"
    fNOutput        \* results the merger has taken

channels == <<fSplitter, job, fMergerCh, fNOutput>>
threads  == <<worker, merger>>
taskVars == <<statePending, channels, threads>>

NoMessage == [i \in Workers |-> <<>>]

TaskInit ==
    /\ statePending = FALSE
    /\ fSplitter = NoMessage /\ job = NoMessage /\ fMergerCh = NoMessage
    /\ worker = [i \in Workers |-> "Off"]
    /\ merger = "Off"
    /\ fNOutput = 0

\* Mutant: the messages of the last run are kept.
InitChannelsKeepsMessages ==
    /\ fNOutput' = 0
    /\ UNCHANGED <<fSplitter, job, fMergerCh>>

\* Mutant: the count of the last run is kept.
InitChannelsKeepsCount ==
    /\ fSplitter' = NoMessage /\ job' = NoMessage /\ fMergerCh' = NoMessage
    /\ fNOutput' = fNOutput

\* New channels and counters; the old channels go with what they hold.
InitChannels ==
    /\ fSplitter' = NoMessage /\ job' = NoMessage /\ fMergerCh' = NoMessage
    /\ fNOutput' = 0

RunThreads ==
    /\ worker' = [i \in Workers |-> "Recv"]
    /\ merger' = "Recv"

\* Join returns when every thread has left its loop.
Joined == merger = "Off" /\ \A i \in Workers : worker[i] = "Off"

\* The loops look for a pending state change before they wait for a message.
LoopTop == IF statePending THEN "Off" ELSE "Recv"

-----------------------------------------------------------------------------

\* The splitter's side: a message for worker i.
SplitterHasRoom(i) == Len(fSplitter[i]) < QueueLength
Split(i, m) == fSplitter' = [fSplitter EXCEPT ![i] = Append(@, m)]

\* A worker gets a message, and its handler begins.
WorkerReceive(i) ==
    /\ worker[i] = "Recv" /\ fSplitter[i] # <<>>
    /\ job' = [job EXCEPT ![i] = <<Head(fSplitter[i])>>]
    /\ fSplitter' = [fSplitter EXCEPT ![i] = Tail(@)]
    /\ worker' = [worker EXCEPT ![i] = "Work"]
    /\ UNCHANGED <<statePending, fMergerCh, fNOutput, merger>>

\* Mutant: the worker's loop has no condition.
WorkerEndNever(i) == i < 0 /\ UNCHANGED taskVars

\* A worker's Receive has timed out, and the state is to change.
WorkerEnd(i) ==
    /\ worker[i] = "Recv" /\ statePending
    /\ worker' = [worker EXCEPT ![i] = "Off"]
    /\ UNCHANGED <<statePending, channels, merger>>

\* The handler has a result to send, for fMQTimeoutMS at most.
WorkerResult(i) ==
    /\ worker[i] = "Work"
    /\ worker' = [worker EXCEPT ![i] = "Send"]
    /\ UNCHANGED <<statePending, channels, merger>>

\* The handler returns without a result.
WorkerReturn(i) ==
    /\ job' = [job EXCEPT ![i] = <<>>]
    /\ worker' = [worker EXCEPT ![i] = LoopTop]
    /\ UNCHANGED <<statePending, fSplitter, fMergerCh, fNOutput, merger>>

WorkerSend(i) ==
    /\ worker[i] = "Send" /\ Len(fMergerCh[i]) < QueueLength
    /\ fMergerCh' = [fMergerCh EXCEPT ![i] = @ \o job[i]]
    /\ job' = [job EXCEPT ![i] = <<>>]
    /\ worker' = [worker EXCEPT ![i] = LoopTop]
    /\ UNCHANGED <<statePending, fSplitter, fNOutput, merger>>

\* The channel stayed full for fMQTimeoutMS: the result of Send is ignored, and
\* the message is gone.
WorkerTimeout(i) ==
    /\ worker[i] = "Send" /\ Len(fMergerCh[i]) = QueueLength
    /\ WorkerReturn(i)

\* Mutant: the merger begins with the second worker.
TurnOffByOne == (fNOutput + 1) % fNThreads

\* The worker the merger waits for.
Turn == fNOutput % fNThreads

\* The merger gets the result of the worker whose turn it is, for the handler
\* that the device adds; it is in state next when the step ends.
MergerReceive(next) ==
    /\ merger = "Recv" /\ fMergerCh[Turn] # <<>>
    /\ fMergerCh' = [fMergerCh EXCEPT ![Turn] = Tail(@)]
    /\ fNOutput' = fNOutput + 1
    /\ merger' = next
    /\ UNCHANGED <<statePending, fSplitter, job, worker>>

MergerEnd ==
    /\ merger = "Recv" /\ statePending
    /\ merger' = "Off"
    /\ UNCHANGED <<statePending, channels, worker>>

-----------------------------------------------------------------------------

\* What is on its way to the merger by worker i, the first to arrive first.
Line(i) == fMergerCh[i] \o job[i] \o fSplitter[i]
=============================================================================
