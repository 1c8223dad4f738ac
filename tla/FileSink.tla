------------------------------ MODULE FileSink ------------------------------
(***************************************************************************)
(* The file writer of the e16 system (e16/FileSink/FileSink.cxx).  If the  *)
(* file is compressed by several threads, the workers compress and the     *)
(* merger writes; else the device thread does both.  The input channel     *)
(* holds, for each message, the run it was sent in.                        *)
(***************************************************************************)
EXTENDS TaskProcessorMT

CONSTANTS
    NumParts,       \* parts of an input message
    fMaxIteration,  \* --max-iteration, 0: no limit
    DrainTries,     \* messages PostRun takes away at most (10 in the code)
    InputLength,    \* bound: messages on the input channel
    MaxMessages,    \* bound: messages sent in a run
    MaxRuns         \* bound: runs

ASSUME SinkAssumption ==
    /\ NumParts \in Nat \ {0}
    /\ fMaxIteration \in Nat
    /\ {DrainTries, InputLength, MaxMessages, MaxRuns} \subseteq Nat

VARIABLES
    useWorkers,     \* InitTask: fNThreads > 1, and the file is compressed
    fMultipart,     \* InitTask: a message has parts, of the handler's kind
    fMergeMessage,  \* InitTask: the parts are written as one
    pc,             \* the device thread: "Ready", "Run", "Split", "Join", "Drain"
    run,            \* number of runs begun
    fNReceived,     \* messages taken in this run
    fStopRequested, \* the limit of iterations is reached
    fNWrite,        \* writes to the file
    tries,          \* receptions of PostRun
    inQ,            \* the input channel
    toSend,         \* messages the sender may still send in this run
    taken,          \* history: the runs of the messages taken
    written,        \* history: the numbers of the messages written
    timedOut        \* history: a worker gave a result up

options     == <<useWorkers, fMultipart, fMergeMessage>>
deviceVars  == <<options, pc, run, fNReceived, tries>>
fileVars    == <<fStopRequested, fNWrite, written>>
senderVars  == <<inQ, toSend>>
historyVars == <<taken, timedOut>>
vars == <<taskVars, deviceVars, fileVars, senderVars, historyVars>>

Running == {"Run", "Split"}

\* The options: workers need more than one thread and a compressed file.
InitTask ==
    /\ useWorkers \in (IF fNThreads > 1 THEN BOOLEAN ELSE {FALSE})
    /\ fMultipart \in BOOLEAN
    /\ fMergeMessage \in (IF fMultipart THEN BOOLEAN ELSE {TRUE})

Init ==
    /\ TaskInit
    /\ InitTask
    /\ pc = "Ready" /\ run = 0 /\ fNReceived = 0 /\ tries = 0
    /\ fStopRequested = FALSE /\ fNWrite = 0 /\ written = <<>>
    /\ inQ = <<>> /\ toSend = 0
    /\ taken = <<>> /\ timedOut = FALSE

-----------------------------------------------------------------------------
(* The device that sends, and the run control. *)

SenderSend ==
    /\ toSend > 0 /\ Len(inQ) < InputLength
    /\ inQ' = Append(inQ, run)
    /\ toSend' = toSend - 1
    /\ UNCHANGED <<taskVars, deviceVars, fileVars, historyVars>>

SenderStop ==
    /\ toSend > 0 /\ pc \notin Running
    /\ toSend' = 0
    /\ UNCHANGED <<taskVars, deviceVars, fileVars, inQ, historyVars>>

StopRequest ==
    /\ pc \in Running /\ ~statePending
    /\ statePending' = TRUE
    /\ UNCHANGED <<channels, threads, deviceVars, fileVars, senderVars, historyVars>>

-----------------------------------------------------------------------------
(* The device thread. *)

PreRun ==
    /\ pc = "Ready" /\ toSend = 0 /\ run < MaxRuns
    /\ pc' = "Run" /\ run' = run + 1 /\ tries' = 0
    /\ fNReceived' = 0
    /\ fNWrite' = 0 /\ fStopRequested' = FALSE /\ written' = <<>>
    /\ IF useWorkers
       THEN InitChannels /\ RunThreads
       ELSE UNCHANGED <<channels, threads>>
    /\ toSend' = MaxMessages
    /\ taken' = <<>> /\ timedOut' = FALSE
    /\ UNCHANGED <<options, statePending, inQ>>

\* A handler that returns false ends the run.
EndRun == pc' = "Join" /\ statePending' = TRUE

\* Writes per message: a merged message has one part.
WritesPerMessage == IF fMultipart /\ ~fMergeMessage THEN NumParts ELSE 1

\* WriteMultipartData: the limit is tested when all the parts are written.
LimitReached(n) == fMaxIteration > 0 /\ n = fMaxIteration

WriteData(m) ==
    IF fStopRequested
    THEN UNCHANGED fileVars
    ELSE /\ fNWrite' = fNWrite + WritesPerMessage
         /\ fStopRequested' = LimitReached(fNWrite')
         /\ written' = Append(written, m)

TakeInput ==
    /\ pc = "Run" /\ ~statePending /\ inQ # <<>> /\ ~fStopRequested
    /\ inQ' = Tail(inQ)
    /\ taken' = Append(taken, Head(inQ))
    /\ fNReceived' = fNReceived + 1

\* Mutant: the result of the write is not passed on.
HandleDataHereGoesOn ==
    /\ ~useWorkers
    /\ TakeInput
    /\ WriteData(fNReceived)
    /\ UNCHANGED <<pc, statePending, channels, threads, options, run, tries, toSend, timedOut>>

\* HandleData, HandleMultipartData: one thread, the message is written at once.
HandleDataHere ==
    /\ ~useWorkers
    /\ TakeInput
    /\ WriteData(fNReceived)
    /\ IF fStopRequested' THEN EndRun ELSE UNCHANGED <<pc, statePending>>
    /\ UNCHANGED <<channels, threads, options, run, tries, toSend, timedOut>>

\* A message arrives and gets its worker: fNReceived % fNThreads.
HandleDataMT ==
    /\ useWorkers
    /\ TakeInput
    /\ pc' = "Split"
    /\ UNCHANGED <<taskVars, options, run, tries, fileVars, toSend, timedOut>>

\* The handler returns at once when the limit is reached.
HandleRefuse ==
    /\ pc = "Run" /\ ~statePending /\ inQ # <<>> /\ fStopRequested
    /\ inQ' = Tail(inQ)
    /\ EndRun
    /\ UNCHANGED <<channels, threads, options, run, fNReceived, tries, fileVars, toSend, historyVars>>

\* Mutant: the worker is chosen after the count was raised.
SplitToLate == fNReceived % fNThreads

\* The number and the worker of the message in hand.
InHand == fNReceived - 1
SplitTo == InHand % fNThreads

SplitSend ==
    /\ pc = "Split" /\ SplitterHasRoom(SplitTo)
    /\ Split(SplitTo, InHand)
    /\ pc' = "Run"
    /\ UNCHANGED <<statePending, job, fMergerCh, fNOutput, threads, options, run, fNReceived,
                   tries, fileVars, senderVars, historyVars>>

\* Mutant: the handler for single messages tries on, too.
SplitGiveUpNever == FALSE /\ UNCHANGED vars

\* HandleDataMT gives the message up at a stop; HandleMultipartDataMT tries on.
SplitGiveUp ==
    /\ pc = "Split" /\ ~SplitterHasRoom(SplitTo) /\ ~fMultipart
    /\ fStopRequested \/ statePending
    /\ EndRun
    /\ UNCHANGED <<channels, threads, options, run, fNReceived, tries, fileVars, senderVars, historyVars>>

RunExit ==
    /\ pc = "Run" /\ statePending
    /\ pc' = "Join"
    /\ UNCHANGED <<taskVars, options, run, fNReceived, tries, fileVars, senderVars, historyVars>>

JoinDone ==
    /\ pc = "Join" /\ Joined
    /\ pc' = "Drain"
    /\ UNCHANGED <<taskVars, options, run, fNReceived, tries, fileVars, senderVars, historyVars>>

DrainReceive ==
    /\ pc = "Drain" /\ tries < DrainTries /\ inQ # <<>>
    /\ tries' = tries + 1
    /\ inQ' = Tail(inQ)
    /\ UNCHANGED <<taskVars, pc, options, run, fNReceived, fileVars, toSend, historyVars>>

\* The channel was empty for the timeout, or the tries are used up.
DrainEnd ==
    /\ pc = "Drain" /\ (inQ = <<>> \/ tries = DrainTries)
    /\ pc' = "Ready"
    /\ statePending' = FALSE
    /\ UNCHANGED <<channels, threads, options, run, fNReceived, tries, fileVars, senderVars, historyVars>>

-----------------------------------------------------------------------------
(* The handlers the threads run. *)

CompressRefuse(i) ==
    /\ worker[i] = "Work" /\ fStopRequested
    /\ WorkerReturn(i)
    /\ UNCHANGED <<deviceVars, fileVars, senderVars, historyVars>>

Compress(i) ==
    /\ ~fStopRequested
    /\ WorkerResult(i)
    /\ UNCHANGED <<deviceVars, fileVars, senderVars, historyVars>>

CompressSend(i) ==
    /\ WorkerSend(i)
    /\ UNCHANGED <<deviceVars, fileVars, senderVars, historyVars>>

CompressTimeout(i) ==
    /\ WorkerTimeout(i)
    /\ timedOut' = TRUE
    /\ UNCHANGED <<deviceVars, fileVars, senderVars, taken>>

ReceiveInput(i) ==
    /\ WorkerReceive(i)
    /\ UNCHANGED <<deviceVars, fileVars, senderVars, historyVars>>

EndWorker(i) ==
    /\ WorkerEnd(i)
    /\ UNCHANGED <<deviceVars, fileVars, senderVars, historyVars>>

Merge ==
    /\ MergerReceive(LoopTop)
    /\ WriteData(Head(fMergerCh[Turn]))
    /\ UNCHANGED <<deviceVars, senderVars, historyVars>>

EndMerger ==
    /\ MergerEnd
    /\ UNCHANGED <<deviceVars, fileVars, senderVars, historyVars>>

-----------------------------------------------------------------------------

Finished == pc = "Ready" /\ run = MaxRuns /\ toSend = 0 /\ UNCHANGED vars

Worker(i) ==
    \/ ReceiveInput(i) \/ EndWorker(i)
    \/ CompressRefuse(i) \/ Compress(i) \/ CompressSend(i) \/ CompressTimeout(i)

Merger == Merge \/ EndMerger

Device ==
    \/ HandleDataHere \/ HandleDataMT \/ HandleRefuse \/ SplitSend \/ SplitGiveUp \/ RunExit
    \/ JoinDone \/ DrainReceive \/ DrainEnd

Next ==
    \/ SenderSend \/ SenderStop \/ StopRequest \/ PreRun
    \/ HandleDataHere \/ HandleDataMT \/ HandleRefuse \/ SplitSend \/ SplitGiveUp \/ RunExit
    \/ JoinDone \/ DrainReceive \/ DrainEnd
    \/ \E i \in Workers :
        \/ ReceiveInput(i) \/ EndWorker(i)
        \/ CompressRefuse(i) \/ Compress(i) \/ CompressSend(i) \/ CompressTimeout(i)
    \/ Merge \/ EndMerger
    \/ Finished

Spec == Init /\ [][Next]_vars

\* The operating system runs every thread; the handlers end.
FairSpec ==
    /\ Spec
    /\ WF_vars(Device)
    /\ WF_vars(Merger)
    /\ \A i \in Workers : WF_vars(Worker(i))

-----------------------------------------------------------------------------

\* The file has the messages in the order they arrived in, from the first, with
\* none missing or twice - as long as no worker gave a result up.
InOrder == ~timedOut => \A k \in DOMAIN written : written[k] = k - 1

\* Given-up results shift the order: the k-th place of the file then has a later
\* message, never an earlier one, always one of the same worker, whose messages
\* stay in order, and never one of an earlier run, although Join may leave
\* messages in all the in-process channels.
OrderWithinWorker ==
    \A k \in DOMAIN written :
        /\ written[k] >= k - 1 /\ written[k] < Len(taken)
        /\ written[k] % fNThreads = (k - 1) % fNThreads
        /\ k > fNThreads => written[k] > written[k - fNThreads]

\* A message is written, if no result was given up and the run goes on.
AllWritten ==
    \A n \in 0 .. MaxMessages * MaxRuns - 1 :
        (pc \in Running /\ fNReceived > n)
            ~> (timedOut \/ fStopRequested \/ statePending
                    \/ \E k \in DOMAIN written : written[k] = n)

\* The device thread tries to send to a worker that has ended.
SplitStuck ==
    /\ pc = "Split" /\ fMultipart
    /\ worker[SplitTo] = "Off" /\ ~SplitterHasRoom(SplitTo)

\* The write that reached the limit ends the run: at once if the device thread
\* writes, and with the next message if the merger does.
SeenLimit == fStopRequested /\ (useWorkers => inQ # <<>>)

\* A stop, or the limit, ends the run, except for the one hang that
\* HandleMultipartDataMT allows: it does not look for a stop while it tries to
\* send.
StopEndsRun == (statePending \/ SeenLimit) ~> (pc = "Ready" \/ [](SplitStuck))
=============================================================================
