----------------------------- MODULE RawToDST0 -----------------------------
(***************************************************************************)
(* The unpacker of the e16 system (e16/RawToDST0/RawToDST0.cxx) with its   *)
(* worker threads.  The input channel holds begin-run data and events, each*)
(* with the run it was sent in, as an event builder sends them: the        *)
(* begin-run data first.  One source stands for all of them: an event has  *)
(* data of every source, and so has the begin-run data.                    *)
(***************************************************************************)
EXTENDS TaskProcessorMT

CONSTANTS
    DrainTries,     \* messages PostRun takes away at most (10 in the code)
    InputLength,    \* bound: messages on the input channel
    OutputLength,   \* bound: messages on the output channel
    MaxEvents,      \* bound: events sent in a run
    MaxRuns         \* bound: runs

ASSUME RawAssumption ==
    /\ fNThreads > 1
    /\ {DrainTries, InputLength, OutputLength, MaxEvents, MaxRuns} \subseteq Nat

Runs == 1 .. MaxRuns

VARIABLES
    pc,             \* the device thread: "Ready", "Run", "Begin", "Split", "Join", "Drain"
    run,            \* number of runs begun
    fNReceived,     \* events taken in this run
    fBeginRunData,  \* the runs whose begin-run data are stored, in order
    hasEntry,       \* the map fBeginRunData has an entry, empty or not
    tries,          \* receptions of PostRun
    timeoutEnds,    \* fMQTimeoutMS, which is never set, is not negative
    inQ,            \* the input channel
    beginSent,      \* the sender has dealt with its begin-run data
    toSend,         \* events the sender may still send in this run
    outQ,           \* number of messages on the output channel
    outgoing,       \* <<the event the merger is to send>>, or <<>>
    used,           \* history: the run whose begin-run data an event was unpacked with
    taken,          \* history: the runs of the events taken in this run
    sent,           \* history: the numbers of the events sent
    beginLost,      \* history: the begin-run data of this run were given up
    undrained,      \* history: the last PostRun may have left messages behind
    corrupt,        \* history: two threads have used the map at the same time
    timedOut        \* history: a worker gave a result up

beginRunVars == <<fBeginRunData, hasEntry, corrupt>>
deviceVars  == <<pc, run, fNReceived, timeoutEnds, tries, undrained, beginRunVars>>
senderVars  == <<inQ, beginSent, toSend>>
outputVars  == <<outQ, outgoing, sent>>
historyVars == <<used, taken, beginLost, timedOut>>
vars == <<taskVars, deviceVars, senderVars, outputVars, historyVars>>

\* What an event is unpacked with when there are no begin-run data: nothing.
NoData == 0
NotYet == -1
Events == 0 .. MaxEvents + InputLength
Running == {"Run", "Begin", "Split"}

Init ==
    /\ TaskInit
    /\ pc = "Ready" /\ run = 0 /\ fNReceived = 0 /\ tries = 0
    /\ fBeginRunData = <<>> /\ hasEntry = FALSE
    /\ timeoutEnds \in BOOLEAN
    /\ inQ = <<>> /\ beginSent = TRUE /\ toSend = 0
    /\ outQ = 0 /\ outgoing = <<>> /\ sent = <<>>
    /\ used = [n \in Events |-> NotYet] /\ taken = <<>>
    /\ beginLost = FALSE /\ timedOut = FALSE /\ undrained = FALSE /\ corrupt = FALSE

-----------------------------------------------------------------------------
(* The event builder before, the receiver behind, and the run control. *)

SenderBegin ==
    /\ ~beginSent /\ Len(inQ) < InputLength
    /\ inQ' = Append(inQ, [type |-> "BeginRun", run |-> run])
    /\ beginSent' = TRUE
    /\ UNCHANGED <<taskVars, deviceVars, toSend, outputVars, historyVars>>

\* EventBuilder::Send gives up after fNumRetry tries.
SenderBeginLost ==
    /\ ~beginSent
    /\ beginSent' = TRUE /\ beginLost' = TRUE
    /\ UNCHANGED <<taskVars, deviceVars, inQ, toSend, outputVars, used, taken, timedOut>>

SenderEvent ==
    /\ beginSent /\ toSend > 0 /\ Len(inQ) < InputLength
    /\ inQ' = Append(inQ, [type |-> "Event", run |-> run])
    /\ toSend' = toSend - 1
    /\ UNCHANGED <<taskVars, deviceVars, beginSent, outputVars, historyVars>>

SenderStop ==
    /\ pc \notin Running /\ (toSend > 0 \/ ~beginSent)
    /\ toSend' = 0 /\ beginSent' = TRUE
    /\ UNCHANGED <<taskVars, deviceVars, inQ, outputVars, historyVars>>

OutputTake ==
    /\ outQ > 0
    /\ outQ' = outQ - 1
    /\ UNCHANGED <<taskVars, deviceVars, senderVars, outgoing, sent, historyVars>>

StopRequest ==
    /\ pc \in Running /\ ~statePending
    /\ statePending' = TRUE
    /\ UNCHANGED <<channels, threads, deviceVars, senderVars, outputVars, historyVars>>

-----------------------------------------------------------------------------
(* The device thread. *)

\* PreRun clears the unpackers, and not the begin-run data.
KeepBeginRunData == UNCHANGED fBeginRunData

\* The next run: everyone has been stopped before.  The channel may still hold
\* messages of the runs before it.
PreRun ==
    /\ pc = "Ready" /\ toSend = 0 /\ beginSent /\ run < MaxRuns
    /\ pc' = "Run" /\ run' = run + 1 /\ fNReceived' = 0 /\ tries' = 0
    /\ KeepBeginRunData
    /\ InitChannels /\ RunThreads
    /\ toSend' = MaxEvents /\ beginSent' = FALSE
    /\ outgoing' = <<>> /\ sent' = <<>>
    /\ used' = [n \in Events |-> NotYet] /\ taken' = <<>>
    /\ beginLost' = FALSE /\ timedOut' = FALSE
    /\ UNCHANGED <<statePending, timeoutEnds, hasEntry, corrupt, undrained, inQ, outQ>>

\* Begin-run data are stored while a worker unpacks an event.
StoringRace == pc = "Begin" /\ \E i \in Workers : worker[i] = "Work"

\* operator[] inserts the entry that is missing: Convert writes the map, too, and
\* the test before it never stops one (count(id) < 0).
InsertingRace ==
    ~hasEntry /\ \E i, j \in Workers : i # j /\ worker[i] = "Work" /\ worker[j] = "Work"

Race == StoringRace \/ InsertingRace

\* CheckBeginRunData has found begin-run data and begins to store them.
BeginRunData ==
    /\ pc = "Run" /\ ~statePending
    /\ inQ # <<>> /\ Head(inQ).type = "BeginRun"
    /\ pc' = "Begin"
    /\ UNCHANGED <<taskVars, run, fNReceived, timeoutEnds, tries, undrained, beginRunVars,
                   senderVars, outputVars, historyVars>>

BeginRunStored ==
    /\ pc = "Begin"
    /\ fBeginRunData' = Append(fBeginRunData, Head(inQ).run)
    /\ hasEntry' = TRUE
    /\ corrupt' = (corrupt \/ Race)
    /\ inQ' = Tail(inQ)
    /\ pc' = "Run"
    /\ UNCHANGED <<taskVars, run, fNReceived, timeoutEnds, tries, undrained, beginSent, toSend,
                   outputVars, historyVars>>

\* HandleDataMT has an event and chooses its worker.
HandleDataMT ==
    /\ pc = "Run" /\ ~statePending
    /\ inQ # <<>> /\ Head(inQ).type = "Event"
    /\ inQ' = Tail(inQ)
    /\ taken' = Append(taken, Head(inQ).run)
    /\ fNReceived' = fNReceived + 1
    /\ pc' = "Split"
    /\ UNCHANGED <<taskVars, run, timeoutEnds, tries, undrained, beginRunVars, beginSent, toSend,
                   outputVars, used, beginLost, timedOut>>

InHand == fNReceived - 1
SplitTo == InHand % fNThreads

SplitSend ==
    /\ pc = "Split" /\ SplitterHasRoom(SplitTo)
    /\ Split(SplitTo, InHand)
    /\ pc' = "Run"
    /\ UNCHANGED <<statePending, job, fMergerCh, fNOutput, threads, run, fNReceived, timeoutEnds,
                   tries, undrained, beginRunVars, senderVars, outputVars, historyVars>>

\* Mutant: a stop is not looked for between the tries.
SplitGiveUpNever == FALSE /\ UNCHANGED vars

SplitGiveUp ==
    /\ pc = "Split" /\ ~SplitterHasRoom(SplitTo) /\ statePending /\ timeoutEnds
    /\ pc' = "Join"
    /\ UNCHANGED <<taskVars, run, fNReceived, timeoutEnds, tries, undrained, beginRunVars,
                   senderVars, outputVars, historyVars>>

RunExit ==
    /\ pc = "Run" /\ statePending
    /\ pc' = "Join"
    /\ UNCHANGED <<taskVars, run, fNReceived, timeoutEnds, tries, undrained, beginRunVars,
                   senderVars, outputVars, historyVars>>

JoinDone ==
    /\ pc = "Join" /\ Joined
    /\ pc' = "Drain"
    /\ UNCHANGED <<taskVars, run, fNReceived, timeoutEnds, tries, undrained, beginRunVars,
                   senderVars, outputVars, historyVars>>

\* PostRun takes away what it finds on the channel.
DrainReceive ==
    /\ pc = "Drain" /\ tries < DrainTries /\ inQ # <<>>
    /\ tries' = tries + 1
    /\ inQ' = Tail(inQ)
    /\ UNCHANGED <<taskVars, pc, run, fNReceived, timeoutEnds, undrained, beginRunVars,
                   beginSent, toSend, outputVars, historyVars>>

\* It ends no matter what is still to come: messages may stay behind if the
\* sender is not stopped yet, or if the tries were used up.
DrainOver ==
    /\ pc' = "Ready" /\ statePending' = FALSE
    /\ undrained' = (toSend > 0 \/ ~beginSent \/ tries = DrainTries)
    /\ UNCHANGED <<channels, threads, run, fNReceived, timeoutEnds, tries, beginRunVars,
                   senderVars, outputVars, historyVars>>

\* Mutant: PostRun does not look at the channel.
DrainEndAtOnce == pc = "Drain" /\ DrainOver

\* The channel was empty for the timeout, or the tries are used up.
DrainEnd == pc = "Drain" /\ (inQ = <<>> \/ tries = DrainTries) /\ DrainOver

-----------------------------------------------------------------------------
(* The worker threads and the merger. *)

ReceiveInput(i) ==
    /\ WorkerReceive(i)
    /\ UNCHANGED <<deviceVars, senderVars, outputVars, historyVars>>

EndWorker(i) ==
    /\ timeoutEnds
    /\ WorkerEnd(i)
    /\ UNCHANGED <<deviceVars, senderVars, outputVars, historyVars>>

\* Mutant: the second of the begin-run data is used.
FirstBeginRunSecond == IF Len(fBeginRunData) < 2 THEN NoData ELSE fBeginRunData[2]

\* Mutant: the newest of the begin-run data are used.
FirstBeginRunNewest ==
    IF fBeginRunData = <<>> THEN NoData ELSE fBeginRunData[Len(fBeginRunData)]

\* beginRun[0] is used; without begin-run data the source is left out.
FirstBeginRun == IF fBeginRunData = <<>> THEN NoData ELSE fBeginRunData[1]

\* What Convert finds in a map that two threads have used at the same time: the
\* behaviour is undefined.  A crash is left out: it ends the behaviour.
Unpacked == IF corrupt \/ Race THEN {NoData} \cup Runs ELSE {FirstBeginRun}

Convert(i) ==
    /\ WorkerResult(i)
    /\ \E b \in Unpacked : used' = [used EXCEPT ![Head(job[i])] = b]
    /\ hasEntry' = TRUE
    /\ corrupt' = (corrupt \/ Race)
    /\ UNCHANGED <<pc, run, fNReceived, fBeginRunData, timeoutEnds, tries, undrained,
                   senderVars, outputVars, taken, beginLost, timedOut>>

ConvertSend(i) ==
    /\ WorkerSend(i)
    /\ UNCHANGED <<deviceVars, senderVars, outputVars, historyVars>>

ConvertTimeout(i) ==
    /\ timeoutEnds
    /\ WorkerTimeout(i)
    /\ timedOut' = TRUE
    /\ UNCHANGED <<deviceVars, senderVars, outputVars, used, taken, beginLost>>

MergeReceive ==
    /\ MergerReceive("Send")
    /\ outgoing' = <<Head(fMergerCh[Turn])>>
    /\ UNCHANGED <<deviceVars, senderVars, outQ, sent, historyVars>>

SendDone ==
    /\ outgoing' = <<>>
    /\ merger' = LoopTop
    /\ UNCHANGED <<statePending, channels, worker, deviceVars, senderVars, historyVars>>

\* SendData waits for room in the output channel.
SendData ==
    /\ merger = "Send" /\ outQ < OutputLength
    /\ outQ' = outQ + 1
    /\ sent' = sent \o outgoing
    /\ SendDone

\* The state change interrupts the wait; the event is lost.
SendInterrupted ==
    /\ merger = "Send" /\ outQ = OutputLength /\ statePending
    /\ UNCHANGED <<outQ, sent>>
    /\ SendDone

EndMerger ==
    /\ timeoutEnds
    /\ MergerEnd
    /\ UNCHANGED <<deviceVars, senderVars, outputVars, historyVars>>

-----------------------------------------------------------------------------

Finished == pc = "Ready" /\ run = MaxRuns /\ toSend = 0 /\ UNCHANGED vars

Device ==
    \/ BeginRunData \/ BeginRunStored \/ HandleDataMT \/ SplitSend \/ SplitGiveUp
    \/ RunExit \/ JoinDone \/ DrainReceive \/ DrainEnd

Worker(i) ==
    \/ ReceiveInput(i) \/ EndWorker(i)
    \/ Convert(i) \/ ConvertSend(i) \/ ConvertTimeout(i)

Merger == MergeReceive \/ SendData \/ SendInterrupted \/ EndMerger

Next ==
    \/ SenderBegin \/ SenderBeginLost \/ SenderEvent \/ SenderStop
    \/ OutputTake \/ StopRequest \/ PreRun
    \/ BeginRunData \/ BeginRunStored \/ HandleDataMT \/ SplitSend \/ SplitGiveUp
    \/ RunExit \/ JoinDone \/ DrainReceive \/ DrainEnd
    \/ \E i \in Workers :
        \/ ReceiveInput(i) \/ EndWorker(i)
        \/ Convert(i) \/ ConvertSend(i) \/ ConvertTimeout(i)
    \/ MergeReceive \/ SendData \/ SendInterrupted \/ EndMerger
    \/ Finished

Spec == Init /\ [][Next]_vars

\* The threads run.  Nobody has to send, to read or to stop.
FairSpec ==
    /\ Spec
    /\ WF_vars(Device)
    /\ WF_vars(Merger)
    /\ \A i \in Workers : WF_vars(Worker(i))

-----------------------------------------------------------------------------

\* fBeginRunData is written by the device thread, and read and written by the
\* workers, with no lock.  Begin-run data are stored beside a worker only after
\* a drain that may have left messages behind: the event builder sends them first.
\* Two workers insert the missing entry only after such a drain, too, or if the
\* begin-run data were given up on the way.
NoRace ==
    /\ StoringRace => undrained
    /\ InsertingRace => undrained \/ beginLost

\* An event that leaves was unpacked, and with the begin-run data of its run if
\* it is of the first one and these were not given up on the way.  fBeginRunData
\* is never cleared: in every run the data that came first are used, however
\* many have come since, as long as the map was never used by two at a time.
UnpackedWithOwnRun ==
    /\ \A k \in DOMAIN sent :
        /\ used[sent[k]] # NotYet
        /\ (run = 1 /\ ~beginLost) => used[sent[k]] = taken[sent[k] + 1]
    /\ ~corrupt => \A n \in Events : used[n] \in Runs => used[n] = fBeginRunData[1]

\* A stop ends the run if the memory fMQTimeoutMS has no value of its own in
\* happens not to hold a negative number, and the map was not used by two at a
\* time: after that a look-up need not end.
StopEndsRun == (statePending /\ timeoutEnds) ~> (pc = "Ready" \/ corrupt)
=============================================================================
