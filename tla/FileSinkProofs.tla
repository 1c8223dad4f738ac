--------------------------- MODULE FileSinkProofs ---------------------------
(***************************************************************************)
(* Theorems about the file writer and the threads behind it, for any number*)
(* of threads, any lengths of the queues and any number of messages and    *)
(* runs.                                                                   *)
(***************************************************************************)
EXTENDS FileSink, TLAPS, SequenceTheorems

-----------------------------------------------------------------------------
(* The inductive invariant. *)

ThreadType ==
    /\ statePending \in BOOLEAN
    /\ fSplitter \in [Workers -> Seq(Nat)]
    /\ job \in [Workers -> Seq(Nat)]
    /\ fMergerCh \in [Workers -> Seq(Nat)]
    /\ worker \in [Workers -> {"Off", "Recv", "Work", "Send"}]
    /\ merger \in {"Off", "Recv"}
    /\ fNOutput \in Nat

DeviceType ==
    /\ useWorkers \in BOOLEAN /\ fMultipart \in BOOLEAN /\ fMergeMessage \in BOOLEAN
    /\ pc \in {"Ready", "Run", "Split", "Join", "Drain"}
    /\ pc = "Split" => fNReceived > 0
    /\ run \in Nat /\ fNReceived \in Nat /\ tries \in Nat
    /\ fStopRequested \in BOOLEAN
    /\ fNWrite \in Nat
    /\ inQ \in Seq(Nat)
    /\ toSend \in Nat
    /\ taken \in Seq(Nat) /\ Len(taken) = fNReceived
    /\ written \in Seq(Nat)
    /\ timedOut \in BOOLEAN

TypeOK == ThreadType /\ DeviceType

\* A worker has a message in hand while it works or sends, and only then.
JobInv ==
    \A i \in Workers :
        /\ Len(job[i]) <= 1
        /\ worker[i] \in {"Off", "Recv"} => job[i] = <<>>

\* Without workers nothing moves, and every message taken is written at once.
IdleInv ==
    ~useWorkers =>
        /\ merger = "Off" /\ ~timedOut /\ pc # "Split"
        /\ \A i \in Workers : worker[i] = "Off" /\ Line(i) = <<>>
        /\ ~fStopRequested => Len(written) = fNReceived

\* The messages that may have been handed to a worker have smaller numbers, and
\* those that certainly were, if none was given up after a stop.
Handed == IF pc = "Split" THEN fNReceived - 1 ELSE fNReceived
Certain == IF pc = "Run" THEN fNReceived ELSE fNReceived - 1

\* The messages on their way by a worker are its own, in order, and none of them
\* should have been merged already.
LineInv ==
    \A i \in Workers : \A k \in 1 .. Len(Line(i)) :
        /\ Line(i)[k] % fNThreads = i
        /\ fNOutput <= Line(i)[k]
        /\ Line(i)[k] < Handed
        /\ \A j \in 1 .. k - 1 : Line(i)[j] < Line(i)[k]

\* They are newer than what the worker has put into the file.
NewerInv ==
    \A i \in Workers : \A k \in 1 .. Len(Line(i)) : \A p \in 1 .. Len(written) :
        (p - 1) % fNThreads = i => written[p] < Line(i)[k]

\* Every message to be merged yet is on its way, if none was given up.
OnItsWay(n) == \E k \in 1 .. Len(Line(n % fNThreads)) : Line(n % fNThreads)[k] = n

GaplessInv ==
    (useWorkers /\ ~timedOut /\ ~fStopRequested) =>
        \A n \in fNOutput .. Certain - 1 : OnItsWay(n)

\* The merger writes what it takes until the limit is reached.
CountInv ==
    useWorkers => /\ fNOutput <= Handed
                  /\ ~fStopRequested => Len(written) = fNOutput

WrittenInv ==
    \A p \in 1 .. Len(written) :
        /\ written[p] >= p - 1 /\ written[p] < Handed
        /\ written[p] % fNThreads = (p - 1) % fNThreads
        /\ p > fNThreads => written[p] > written[p - fNThreads]

FileInv == WrittenInv /\ CountInv /\ InOrder

IInv == TypeOK /\ JobInv /\ IdleInv /\ LineInv /\ NewerInv /\ GaplessInv /\ FileInv

-----------------------------------------------------------------------------
(* Facts about the pieces. *)

LEMMA TurnIsWorker == ASSUME NEW n \in Nat PROVE n % fNThreads \in Workers
BY ThreadsAssumption DEF Workers

LEMMA Bounds ==
    /\ NumParts \in Nat /\ NumParts > 0 /\ fMaxIteration \in Nat
    /\ MaxMessages \in Nat /\ MaxRuns \in Nat /\ DrainTries \in Nat
BY SinkAssumption

LEMMA NoMessageType == NoMessage \in [Workers -> Seq(Nat)]
BY DEF NoMessage

\* What HandleDataHere and Merge write.
LEMMA WriteType ==
    ASSUME DeviceType, NEW m \in Nat, WriteData(m)
    PROVE  /\ fStopRequested' \in BOOLEAN /\ fNWrite' \in Nat
           /\ written' \in Seq(Nat)
<1>1. CASE fStopRequested
    BY <1>1 DEF DeviceType, WriteData, fileVars
<1>2. CASE ~fStopRequested
    <2>1. WritesPerMessage \in Nat
        BY Bounds DEF WritesPerMessage
    <2>2. fNWrite' \in Nat
        BY <1>2, <2>1 DEF DeviceType, WriteData
    <2>3. fStopRequested' \in BOOLEAN
        BY <1>2 DEF WriteData, LimitReached
    <2>4. written' \in Seq(Nat)
        <3>1. written \in Seq(Nat) /\ written' = Append(written, m)
            BY <1>2 DEF DeviceType, WriteData
        <3> QED BY <3>1, AppendProperties
    <2> QED BY <2>2, <2>3, <2>4
<1> QED BY <1>1, <1>2

\* What the device thread takes from the input channel.
LEMMA TakeType ==
    ASSUME DeviceType, TakeInput
    PROVE  /\ taken' \in Seq(Nat) /\ Len(taken') = fNReceived'
           /\ inQ' \in Seq(Nat) /\ fNReceived' \in Nat /\ fNReceived' > 0
<1>1. /\ inQ \in Seq(Nat) /\ inQ # <<>> /\ taken \in Seq(Nat) /\ Len(taken) = fNReceived
      /\ fNReceived \in Nat
      /\ inQ' = Tail(inQ) /\ taken' = Append(taken, Head(inQ))
      /\ fNReceived' = fNReceived + 1
    BY DEF DeviceType, TakeInput
<1>2. Head(inQ) \in Nat /\ Tail(inQ) \in Seq(Nat)
    BY <1>1, HeadTailProperties
<1>3. taken' \in Seq(Nat) /\ Len(taken') = Len(taken) + 1
    BY <1>1, <1>2, AppendProperties
<1> QED BY <1>1, <1>2, <1>3

\* The sequence new is old with some of its messages left out.
Thinner(new, old) ==
    \E f \in [1 .. Len(new) -> 1 .. Len(old)] :
        \A k \in 1 .. Len(new) :
            new[k] = old[f[k]] /\ \A j \in 1 .. k - 1 : f[j] < f[k]

LEMMA ThinnerSame == ASSUME NEW s \in Seq(Nat) PROVE Thinner(s, s)
<1> DEFINE f == [k \in 1 .. Len(s) |-> k]
<1>1. f \in [1 .. Len(s) -> 1 .. Len(s)]
    OBVIOUS
<1>2. \A k \in 1 .. Len(s) : s[k] = s[f[k]] /\ \A j \in 1 .. k - 1 : f[j] < f[k]
    OBVIOUS
<1> QED BY <1>1, <1>2 DEF Thinner

LEMMA ThinnerRemoved ==
    ASSUME NEW a \in Seq(Nat), NEW x \in Seq(Nat), NEW c \in Seq(Nat)
    PROVE  Thinner(a \o <<>> \o c, a \o x \o c)
<1> DEFINE new == a \o <<>> \o c
           old == a \o x \o c
           f == [k \in 1 .. Len(new) |-> IF k <= Len(a) THEN k ELSE k + Len(x)]
<1>1. /\ Len(a) \in Nat /\ Len(x) \in Nat /\ Len(c) \in Nat
      /\ Len(new) = Len(a) + Len(c) /\ Len(old) = Len(a) + Len(x) + Len(c)
    BY LenProperties
<1>2. f \in [1 .. Len(new) -> 1 .. Len(old)]
    BY <1>1
<1>3. ASSUME NEW k \in 1 .. Len(new)
      PROVE  new[k] = old[f[k]]
    <2>1. CASE k <= Len(a)
        BY <1>1, <2>1
    <2>2. CASE ~(k <= Len(a))
        BY <1>1, <2>2
    <2> QED BY <2>1, <2>2
<1>4. ASSUME NEW k \in 1 .. Len(new), NEW j \in 1 .. k - 1
      PROVE  f[j] < f[k]
    BY <1>1
<1> HIDE DEF new, old, f
<1>5. Thinner(new, old)
    BY <1>2, <1>3, <1>4 DEF Thinner
<1> QED BY <1>5 DEF new, old

-----------------------------------------------------------------------------
(* Types. *)

LEMMA TypeStep == TypeOK /\ [Next]_vars => TypeOK'
<1> SUFFICES ASSUME TypeOK, [Next]_vars PROVE TypeOK'
    OBVIOUS
<1> USE DEF TypeOK
<1>1. CASE SenderSend
    <2>1. inQ' \in Seq(Nat) /\ toSend' \in Nat
        BY <1>1, AppendProperties DEF SenderSend, DeviceType
    <2> QED BY <1>1, <2>1 DEF SenderSend, ThreadType, DeviceType, taskVars, channels, threads,
        deviceVars, options, fileVars, historyVars
<1>1a. CASE SenderStop
    BY <1>1a DEF SenderStop, ThreadType, DeviceType, taskVars, channels, threads,
        deviceVars, options, fileVars, historyVars
<1>1b. CASE StopRequest
    BY <1>1b DEF StopRequest, ThreadType, DeviceType, channels, threads,
        deviceVars, options, fileVars, senderVars, historyVars
<1>2. CASE PreRun
    <2>1. ThreadType'
        BY <1>2, NoMessageType DEF PreRun, InitChannels, RunThreads, ThreadType,
            channels, threads
    <2>2. DeviceType'
        <3>1. /\ <<>> \in Seq(Nat) /\ Len(<<>>) = 0
              /\ run + 1 \in Nat /\ MaxMessages \in Nat
            BY Bounds, EmptySeq DEF DeviceType
        <3> QED BY <1>2, <3>1 DEF PreRun, DeviceType, options
    <2> QED BY <2>1, <2>2
<1>3. CASE HandleDataHere
    <2>1. /\ fStopRequested' \in BOOLEAN /\ fNWrite' \in Nat
          /\ written' \in Seq(Nat)
        BY <1>3, WriteType DEF HandleDataHere, DeviceType
    <2>2. /\ taken' \in Seq(Nat) /\ Len(taken') = fNReceived'
          /\ inQ' \in Seq(Nat) /\ fNReceived' \in Nat /\ fNReceived' > 0
        BY <1>3, TakeType DEF HandleDataHere
    <2> QED BY <1>3, <2>1, <2>2 DEF HandleDataHere, TakeInput, EndRun, ThreadType, DeviceType,
        channels, threads, options
<1>4. CASE HandleDataMT
    <2>2. /\ taken' \in Seq(Nat) /\ Len(taken') = fNReceived'
          /\ inQ' \in Seq(Nat) /\ fNReceived' \in Nat /\ fNReceived' > 0
        BY <1>4, TakeType DEF HandleDataMT
    <2> QED BY <1>4, <2>2 DEF HandleDataMT, ThreadType, DeviceType,
        taskVars, channels, threads, options, fileVars
<1>5. CASE HandleRefuse
    BY <1>5, HeadTailProperties DEF HandleRefuse, EndRun, ThreadType, DeviceType,
        channels, threads, options, fileVars, historyVars
<1>6. CASE SplitSend
    <2>1. InHand \in Nat
        BY <1>6 DEF SplitSend, DeviceType, InHand
    <2>2. fSplitter' \in [Workers -> Seq(Nat)]
        BY <1>6, <2>1, AppendProperties DEF SplitSend, Split, ThreadType
    <2> QED BY <1>6, <2>2 DEF SplitSend,
        ThreadType, DeviceType, threads, options, fileVars, senderVars, historyVars
<1>7. ASSUME SplitGiveUp \/ RunExit \/ JoinDone \/ DrainEnd PROVE TypeOK'
    BY <1>7 DEF SplitGiveUp, RunExit, JoinDone, DrainEnd, EndRun, ThreadType, DeviceType,
        taskVars, channels, threads, options, fileVars, senderVars, historyVars
<1>8. CASE DrainReceive
    <2>1. inQ' \in Seq(Nat) /\ tries' \in Nat
        BY <1>8, HeadTailProperties DEF DrainReceive, DeviceType
    <2> QED BY <1>8, <2>1 DEF DrainReceive, ThreadType, DeviceType,
        taskVars, channels, threads, options, fileVars, historyVars
<1>9. ASSUME NEW i \in Workers, ReceiveInput(i) PROVE TypeOK'
    <2>1. Head(fSplitter[i]) \in Nat /\ Tail(fSplitter[i]) \in Seq(Nat)
        BY <1>9, HeadTailProperties DEF ReceiveInput, WorkerReceive, ThreadType
    <2>2. ThreadType'
        BY <1>9, <2>1 DEF ReceiveInput, WorkerReceive, ThreadType
    <2> QED BY <1>9, <2>2 DEF ReceiveInput, DeviceType,
        deviceVars, options, fileVars, senderVars, historyVars
<1>10. ASSUME NEW i \in Workers,
              EndWorker(i) \/ CompressRefuse(i) \/ Compress(i) \/ CompressTimeout(i)
       PROVE  TypeOK'
    <2>1. ThreadType'
        <3>1. CASE EndWorker(i)
            BY <3>1 DEF EndWorker, WorkerEnd, ThreadType, channels
        <3>2. ASSUME WorkerReturn(i) PROVE ThreadType'
            <4>1. LoopTop \in {"Off", "Recv"}
                BY DEF LoopTop
            <4> QED BY <3>2, <4>1, EmptySeq DEF WorkerReturn, ThreadType
        <3>3. CASE Compress(i)
            BY <3>3 DEF Compress, WorkerResult, ThreadType, channels
        <3> QED BY <1>10, <3>1, <3>2, <3>3 DEF CompressRefuse, CompressTimeout, WorkerTimeout
    <2>2. DeviceType'
        BY <1>10 DEF EndWorker, CompressRefuse, Compress, CompressTimeout, DeviceType,
            deviceVars, options, fileVars, senderVars, historyVars
    <2> QED BY <2>1, <2>2
<1>11. ASSUME NEW i \in Workers, CompressSend(i) PROVE TypeOK'
    <2>1. fMergerCh[i] \o job[i] \in Seq(Nat)
        BY ConcatProperties DEF ThreadType
    <2>2. ThreadType'
        BY <1>11, <2>1 DEF CompressSend, WorkerSend, LoopTop, ThreadType
    <2> QED BY <1>11, <2>2 DEF CompressSend, DeviceType,
        deviceVars, options, fileVars, senderVars, historyVars
<1>12. CASE Merge
    <2>1. Turn \in Workers
        BY TurnIsWorker DEF Turn, ThreadType
    <2>2. Head(fMergerCh[Turn]) \in Nat /\ Tail(fMergerCh[Turn]) \in Seq(Nat)
        BY <1>12, <2>1, HeadTailProperties DEF Merge, MergerReceive, ThreadType
    <2>3. ThreadType'
        BY <1>12, <2>1, <2>2 DEF Merge, MergerReceive, LoopTop, ThreadType
    <2>4. /\ fStopRequested' \in BOOLEAN /\ fNWrite' \in Nat
          /\ written' \in Seq(Nat)
        BY <1>12, <2>2, WriteType DEF Merge
    <2> QED BY <1>12, <2>3, <2>4 DEF Merge, DeviceType,
        deviceVars, options, senderVars, historyVars
<1>13. CASE EndMerger
    BY <1>13 DEF EndMerger, MergerEnd, ThreadType, DeviceType,
        deviceVars, options, fileVars, senderVars, historyVars, channels
<1>14. CASE UNCHANGED vars
    BY <1>14 DEF vars, taskVars, channels, threads, ThreadType, DeviceType,
        deviceVars, options, fileVars, senderVars, historyVars
<1> QED BY <1>1, <1>1a, <1>1b, <1>2, <1>3, <1>4, <1>5, <1>6, <1>7, <1>8, <1>9, <1>10, <1>11, <1>12,
           <1>13, <1>14 DEF Next, Finished

-----------------------------------------------------------------------------
(* How a step changes what is on the way. *)

Thin == \A i \in Workers : Thinner(Line(i)', Line(i))
Kept == \A i \in Workers : Line(i)' = Line(i)

LEMMA LineType == ASSUME ThreadType, NEW i \in Workers PROVE Line(i) \in Seq(Nat)
<1>1. fMergerCh[i] \in Seq(Nat) /\ job[i] \in Seq(Nat) /\ fSplitter[i] \in Seq(Nat)
    BY DEF ThreadType
<1> QED BY <1>1, ConcatProperties DEF Line

LEMMA LineTypeNext == ASSUME ThreadType', NEW i \in Workers PROVE Line(i)' \in Seq(Nat)
<1>1. fMergerCh'[i] \in Seq(Nat) /\ job'[i] \in Seq(Nat) /\ fSplitter'[i] \in Seq(Nat)
    BY DEF ThreadType
<1>2. fMergerCh'[i] \o job'[i] \o fSplitter'[i] \in Seq(Nat)
    BY <1>1, ConcatProperties
<1> QED BY <1>2 DEF Line

LEMMA KeptIsThin == ASSUME ThreadType, Kept PROVE Thin
BY LineType, ThinnerSame DEF Thin, Kept

LEMMA ChannelsKept == ASSUME UNCHANGED <<fSplitter, job, fMergerCh>> PROVE Kept
BY DEF Kept, Line

LEMMA Associative ==
    ASSUME NEW a \in Seq(Nat), NEW b \in Seq(Nat), NEW c \in Seq(Nat)
    PROVE  (a \o b) \o c = a \o (b \o c)
BY ConcatAssociative

\* The message moves from the splitter's channel into the worker's hands.
LEMMA ReceiveKeeps ==
    ASSUME ThreadType, JobInv, NEW i \in Workers, WorkerReceive(i)
    PROVE  Kept
<1> SUFFICES ASSUME NEW j \in Workers PROVE Line(j)' = Line(j)
    BY DEF Kept
<1>1. CASE j = i
    <2>1. /\ job[i] = <<>> /\ job'[i] = <<Head(fSplitter[i])>>
          /\ fSplitter'[i] = Tail(fSplitter[i]) /\ fMergerCh'[i] = fMergerCh[i]
          /\ fSplitter[i] \in Seq(Nat) /\ fSplitter[i] # <<>> /\ fMergerCh[i] \in Seq(Nat)
        BY DEF ThreadType, JobInv, WorkerReceive
    <2>2. /\ Head(fSplitter[i]) \in Nat /\ Tail(fSplitter[i]) \in Seq(Nat)
          /\ fSplitter[i] = <<Head(fSplitter[i])>> \o Tail(fSplitter[i])
        BY <2>1, HeadTailProperties
    <2>3. (fMergerCh[i] \o <<Head(fSplitter[i])>>) \o Tail(fSplitter[i])
            = fMergerCh[i] \o (<<Head(fSplitter[i])>> \o Tail(fSplitter[i]))
        <3>1. <<Head(fSplitter[i])>> \in Seq(Nat)
            BY <2>2
        <3> QED BY <2>1, <2>2, <3>1, Associative
    <2>4. fMergerCh[i] \o <<>> = fMergerCh[i]
        BY <2>1, ConcatEmptySeq
    <2> QED BY <1>1, <2>1, <2>2, <2>3, <2>4 DEF Line
<1>2. CASE j # i
    BY <1>2 DEF Line, ThreadType, WorkerReceive
<1> QED BY <1>1, <1>2

\* The result moves from the worker's hands into the merger's channel.
LEMMA SendKeeps ==
    ASSUME ThreadType, NEW i \in Workers, WorkerSend(i)
    PROVE  Kept
<1> SUFFICES ASSUME NEW j \in Workers PROVE Line(j)' = Line(j)
    BY DEF Kept
<1>1. CASE j = i
    <2>1. /\ job[i] \in Seq(Nat) /\ job'[i] = <<>>
          /\ fMergerCh'[i] = fMergerCh[i] \o job[i] /\ fSplitter'[i] = fSplitter[i]
          /\ fMergerCh[i] \in Seq(Nat)
        BY DEF ThreadType, WorkerSend
    <2>2. (fMergerCh[i] \o job[i]) \o <<>> = fMergerCh[i] \o job[i]
        BY <2>1, ConcatEmptySeq, ConcatProperties
    <2> QED BY <1>1, <2>1, <2>2 DEF Line
<1>2. CASE j # i
    BY <1>2 DEF Line, ThreadType, WorkerSend
<1> QED BY <1>1, <1>2

\* The worker's message is gone.
LEMMA ReturnThins ==
    ASSUME ThreadType, NEW i \in Workers, WorkerReturn(i)
    PROVE  Thin
<1> SUFFICES ASSUME NEW j \in Workers PROVE Thinner(Line(j)', Line(j))
    BY DEF Thin
<1>1. CASE j = i
    BY <1>1, ThinnerRemoved DEF Line, ThreadType, WorkerReturn
<1>2. CASE j # i
    <2>1. Line(j)' = Line(j)
        BY <1>2 DEF Line, ThreadType, WorkerReturn
    <2> QED BY <2>1, LineType, ThinnerSame
<1> QED BY <1>1, <1>2

\* A message comes to the end of its worker's line.
LEMMA SplitAppends ==
    ASSUME ThreadType, NEW i \in Workers, NEW m \in Nat, Split(i, m),
           UNCHANGED <<job, fMergerCh>>
    PROVE  /\ Line(i)' = Append(Line(i), m)
           /\ \A j \in Workers \ {i} : Line(j)' = Line(j)
<1>1. /\ fMergerCh[i] \in Seq(Nat) /\ job[i] \in Seq(Nat) /\ fSplitter[i] \in Seq(Nat)
      /\ fSplitter'[i] = Append(fSplitter[i], m)
    BY DEF ThreadType, Split
<1>2. \A a \in Seq(Nat) : a \o Append(fSplitter[i], m) = Append(a \o fSplitter[i], m)
    <2> TAKE a \in Seq(Nat)
    <2>1. Append(fSplitter[i], m) = fSplitter[i] \o <<m>>
        BY <1>1, AppendIsConcat
    <2>2. a \o (fSplitter[i] \o <<m>>) = (a \o fSplitter[i]) \o <<m>>
        <3>1. <<m>> \in Seq(Nat)
            OBVIOUS
        <3> QED BY <1>1, <3>1, Associative
    <2>3. Append(a \o fSplitter[i], m) = (a \o fSplitter[i]) \o <<m>>
        BY <1>1, AppendIsConcat, ConcatProperties
    <2> QED BY <2>1, <2>2, <2>3
<1>3. fMergerCh[i] \o job[i] \in Seq(Nat)
    BY <1>1, ConcatProperties
<1>4. Line(i)' = Append(Line(i), m)
    BY <1>1, <1>2, <1>3 DEF Line
<1>5. \A j \in Workers \ {i} : Line(j)' = Line(j)
    BY DEF Line, ThreadType, Split
<1> QED BY <1>4, <1>5

LEMMA HeadTailOfConcat ==
    ASSUME NEW a \in Seq(Nat), a # <<>>, NEW b \in Seq(Nat)
    PROVE  /\ a \o b # <<>>
           /\ Head(a \o b) = Head(a)
           /\ Tail(a \o b) = Tail(a) \o b
<1>1. /\ Head(a) \in Nat /\ Tail(a) \in Seq(Nat) /\ a = <<Head(a)>> \o Tail(a)
      /\ a \o b \in Seq(Nat) /\ Len(a \o b) = Len(a) + Len(b)
      /\ Len(a) \in Nat /\ Len(b) \in Nat /\ Len(a) > 0
    BY HeadTailProperties, ConcatProperties, LenProperties, EmptySeq
<1>2. a \o b # <<>>
    BY <1>1, EmptySeq
<1>3. Head(a \o b) = Head(a)
    BY <1>1, <1>2
<1>4. Tail(a \o b) = Tail(a) \o b
    BY <1>1, <1>2
<1> QED BY <1>2, <1>3, <1>4

\* The merger takes the first message of the worker whose turn it is.
LEMMA MergerTakes ==
    ASSUME ThreadType, NEW next, MergerReceive(next)
    PROVE  /\ Turn \in Workers
           /\ Line(Turn) # <<>> /\ Head(fMergerCh[Turn]) = Head(Line(Turn))
           /\ \A j \in Workers : Line(j)' = IF j = Turn THEN Tail(Line(j)) ELSE Line(j)
<1> DEFINE i == Turn
<1>1. i \in Workers
    BY TurnIsWorker DEF ThreadType, Turn
<1> HIDE DEF i
<1>2. /\ fMergerCh[i] \in Seq(Nat) /\ fMergerCh[i] # <<>>
      /\ job[i] \in Seq(Nat) /\ fSplitter[i] \in Seq(Nat)
      /\ fMergerCh' = [fMergerCh EXCEPT ![i] = Tail(fMergerCh[i])]
      /\ fMergerCh \in [Workers -> Seq(Nat)]
      /\ UNCHANGED <<job, fSplitter>>
    BY <1>1 DEF ThreadType, MergerReceive, i
<1>3. \A b \in Seq(Nat) : /\ fMergerCh[i] \o b # <<>>
                          /\ Head(fMergerCh[i] \o b) = Head(fMergerCh[i])
                          /\ Tail(fMergerCh[i] \o b) = Tail(fMergerCh[i]) \o b
    <2>1. fMergerCh[i] \in Seq(Nat) /\ fMergerCh[i] # <<>>
        BY <1>2
    <2> QED BY <2>1, HeadTailOfConcat
<1>4. Line(i) = fMergerCh[i] \o (job[i] \o fSplitter[i])
    <2>1. fMergerCh[i] \in Seq(Nat) /\ job[i] \in Seq(Nat) /\ fSplitter[i] \in Seq(Nat)
        BY <1>2
    <2> QED BY <2>1, Associative DEF Line
<1>5. job[i] \o fSplitter[i] \in Seq(Nat) /\ Tail(fMergerCh[i]) \in Seq(Nat)
    BY <1>2, ConcatProperties, HeadTailProperties
<1>6. fMergerCh'[i] \o job'[i] \o fSplitter'[i] = Tail(fMergerCh[i]) \o (job[i] \o fSplitter[i])
    <2>1. job[i] \in Seq(Nat) /\ fSplitter[i] \in Seq(Nat)
        BY <1>2
    <2>2. fMergerCh'[i] \o job'[i] \o fSplitter'[i] = (Tail(fMergerCh[i]) \o job[i]) \o fSplitter[i]
        BY <1>1, <1>2
    <2> QED BY <2>1, <2>2, <1>5, Associative
<1>7. ASSUME NEW j \in Workers, j # i
      PROVE  fMergerCh'[j] \o job'[j] \o fSplitter'[j] = Line(j)
    BY <1>2, <1>7 DEF Line
<1>8. ASSUME NEW j \in Workers
      PROVE  Line(j)' = IF j = i THEN Tail(Line(j)) ELSE Line(j)
    <2>1. CASE j = i
        <3>1. Tail(Line(i)) = Tail(fMergerCh[i]) \o (job[i] \o fSplitter[i])
            BY <1>3, <1>4, <1>5
        <3> QED BY <2>1, <1>6, <3>1 DEF Line
    <2>2. CASE j # i
        BY <2>2, <1>7 DEF Line
    <2> QED BY <2>1, <2>2
<1>9. Line(i) # <<>> /\ Head(fMergerCh[i]) = Head(Line(i))
    <2> DEFINE b == job[i] \o fSplitter[i]
    <2>1. b \in Seq(Nat) /\ Line(i) = fMergerCh[i] \o b
        BY <1>4, <1>5
    <2> HIDE DEF b
    <2>2. fMergerCh[i] \o b # <<>> /\ Head(fMergerCh[i] \o b) = Head(fMergerCh[i])
        BY <1>3, <2>1
    <2> QED BY <2>1, <2>2
<1>10. Turn = i
    BY DEF i
<1> HIDE DEF i
<1> QED BY <1>1, <1>8, <1>9, <1>10

-----------------------------------------------------------------------------
(* Steps that hand nothing to a worker and write nothing. *)

Complete == useWorkers /\ ~timedOut /\ ~fStopRequested

LEMMA HandedType ==
    ASSUME TypeOK PROVE Handed \in Nat /\ Handed <= fNReceived /\ Certain \in Int
BY DEF TypeOK, DeviceType, Handed, Certain

LEMMA HandedTypeNext ==
    ASSUME TypeOK' PROVE Handed' \in Nat /\ Handed' <= fNReceived' /\ Certain' \in Int
<1>1. fNReceived' \in Nat /\ (pc' = "Split" => fNReceived' > 0)
    BY DEF TypeOK, DeviceType
<1>2. ASSUME NEW q, NEW n \in Nat, q = "Split" => n > 0
      PROVE  /\ (IF q = "Split" THEN n - 1 ELSE n) \in Nat
             /\ (IF q = "Split" THEN n - 1 ELSE n) <= n
             /\ (IF q = "Run" THEN n ELSE n - 1) \in Int
    BY <1>2
<1>3. PICK n \in Nat : n = fNReceived'
    BY <1>1
<1>4. PICK q : q = pc'
    OBVIOUS
<1>5. /\ Handed' = (IF q = "Split" THEN n - 1 ELSE n)
      /\ Certain' = (IF q = "Run" THEN n ELSE n - 1)
    BY <1>3, <1>4 DEF Handed, Certain
<1>6. q = "Split" => n > 0
    BY <1>1, <1>3, <1>4
<1> QED BY <1>2, <1>3, <1>5, <1>6

LEMMA ThinLines ==
    ASSUME TypeOK, TypeOK', LineInv, NewerInv, Thin, fNOutput' = fNOutput,
           written' = written, Handed' >= Handed
    PROVE  LineInv' /\ NewerInv'
<1> SUFFICES ASSUME NEW i \in Workers, NEW k \in 1 .. Len(Line(i)')
             PROVE  /\ Line(i)'[k] % fNThreads = i
                    /\ fNOutput <= Line(i)'[k]
                    /\ Line(i)'[k] < Handed'
                    /\ \A j \in 1 .. k - 1 : Line(i)'[j] < Line(i)'[k]
                    /\ \A p \in 1 .. Len(written) :
                            (p - 1) % fNThreads = i => written[p] < Line(i)'[k]
    BY DEF LineInv, NewerInv
<1>1. Line(i) \in Seq(Nat) /\ Line(i)' \in Seq(Nat) /\ Thinner(Line(i)', Line(i))
    BY LineType, LineTypeNext DEF TypeOK, Thin
<1>2. PICK old \in Seq(Nat) : old = Line(i)
    BY <1>1
<1>3. PICK new \in Seq(Nat) : new = Line(i)'
    BY <1>1
<1>4. PICK f \in [1 .. Len(new) -> 1 .. Len(old)] :
            \A q \in 1 .. Len(new) :
                new[q] = old[f[q]] /\ \A j \in 1 .. q - 1 : f[j] < f[q]
    BY <1>1, <1>2, <1>3 DEF Thinner
<1>5. Len(old) \in Nat /\ Len(new) \in Nat /\ k \in 1 .. Len(new)
    <2>1. Len(old) \in Nat /\ Len(new) \in Nat
        BY LenProperties
    <2>2. k \in 1 .. Len(new)
        BY <1>3
    <2> QED BY <2>1, <2>2
<1>6. f[k] \in 1 .. Len(old) /\ new[k] = old[f[k]] /\ old[f[k]] \in Nat
    <2>1. f[k] \in 1 .. Len(old)
        BY <1>4, <1>5
    <2>2. new[k] = old[f[k]]
        BY <1>4, <1>5
    <2>3. old[f[k]] \in Nat
        BY <2>1, ElementOfSeq
    <2> QED BY <2>1, <2>2, <2>3
<1>7. /\ old[f[k]] % fNThreads = i
      /\ fNOutput <= old[f[k]] /\ old[f[k]] < Handed
    BY <1>2, <1>6 DEF LineInv
<1>8. ASSUME NEW j \in 1 .. k - 1 PROVE new[j] < new[k]
    <2>1. j \in 1 .. Len(new)
        BY <1>5
    <2>2. f[j] < f[k]
        BY <1>4, <1>5
    <2>3. f[j] \in 1 .. Len(old) /\ f[k] \in 1 .. Len(old)
        BY <1>4, <1>5, <2>1
    <2>4. f[j] \in 1 .. f[k] - 1
        BY <1>5, <2>2, <2>3
    <2>5. new[j] = old[f[j]]
        BY <1>4, <2>1
    <2> QED BY <1>2, <1>6, <2>4, <2>5 DEF LineInv
<1>9. ASSUME NEW p \in 1 .. Len(written), (p - 1) % fNThreads = i
      PROVE  written[p] < new[k]
    BY <1>2, <1>6, <1>9 DEF NewerInv
<1>10. new[k] < Handed'
    BY <1>6, <1>7, HandedType, HandedTypeNext
<1> QED BY <1>3, <1>6, <1>7, <1>8, <1>9, <1>10

LEMMA KeptIsGapless ==
    ASSUME TypeOK, TypeOK', GaplessInv, fNOutput' = fNOutput,
           Complete' => Complete /\ Certain' <= Certain /\ Kept
    PROVE  GaplessInv'
<1> SUFFICES ASSUME Complete', NEW n \in (fNOutput .. Certain - 1)'
             PROVE  OnItsWay(n)'
    BY DEF GaplessInv, Complete
<1>1. n \in fNOutput .. Certain - 1 /\ n \in Nat
    BY HandedType, HandedTypeNext DEF TypeOK, ThreadType
<1>2. OnItsWay(n)
    BY <1>1 DEF GaplessInv, Complete
<1>3. n % fNThreads \in Workers
    BY <1>1, TurnIsWorker
<1>4. Line(n % fNThreads)' = Line(n % fNThreads)
    BY <1>3 DEF Kept
<1> QED BY <1>2, <1>4 DEF OnItsWay

LEMMA FileKept ==
    ASSUME TypeOK, TypeOK', FileInv, UNCHANGED <<useWorkers, fNOutput, written, fStopRequested>>,
           Handed' >= Handed, timedOut => timedOut'
    PROVE  FileInv'
<1>1. WrittenInv'
    <2>1. written \in Seq(Nat)
        BY DEF TypeOK, DeviceType
    <2>2. \A p \in 1 .. Len(written) : written[p] \in Nat
        BY <2>1, ElementOfSeq
    <2> QED BY <2>2, HandedType, HandedTypeNext DEF FileInv, WrittenInv
<1>2. CountInv' /\ InOrder'
    BY HandedType, HandedTypeNext DEF FileInv, CountInv, InOrder, TypeOK, ThreadType
<1> QED BY <1>1, <1>2 DEF FileInv

\* The part of the invariant that is about the numbers.
NumberInv == LineInv /\ NewerInv /\ GaplessInv /\ FileInv

LEMMA QuietStep ==
    ASSUME TypeOK, TypeOK', NumberInv, Thin,
           UNCHANGED <<useWorkers, fNOutput, written, fStopRequested>>,
           Handed' >= Handed, timedOut => timedOut',
           Complete' => Certain' <= Certain /\ Kept
    PROVE  NumberInv'
<1>1. Complete' => Complete
    BY DEF Complete
<1> QED BY <1>1, ThinLines, KeptIsGapless, FileKept DEF NumberInv

-----------------------------------------------------------------------------
(* A message is handed to its worker. *)

LEMMA SplitStep ==
    ASSUME TypeOK, TypeOK', NumberInv, SplitSend, useWorkers
    PROVE  NumberInv'
<1>0. InHand \in Nat
    BY DEF TypeOK, DeviceType, SplitSend, InHand
<1>s. PICK s \in Nat : s = InHand
    BY <1>0
<1>i. PICK i \in Workers : i = SplitTo
    BY <1>0, TurnIsWorker DEF SplitTo
<1>1. /\ s \in Nat /\ s = Handed /\ s = Certain /\ Handed' = s + 1 /\ Certain' = s + 1
      /\ fNReceived' = fNReceived /\ s + 1 = fNReceived
    BY <1>s DEF TypeOK, DeviceType, SplitSend, InHand, Handed, Certain
<1>2. i \in Workers /\ s % fNThreads = i
    BY <1>s, <1>i DEF SplitTo
<1>3. UNCHANGED <<useWorkers, fNOutput, fStopRequested, written, timedOut>>
    BY DEF SplitSend, options, fileVars, historyVars
<1>4. /\ Line(i)' = Append(Line(i), s)
      /\ \A j \in Workers \ {i} : Line(j)' = Line(j)
    BY <1>1, <1>2, <1>s, <1>i, SplitAppends DEF TypeOK, SplitSend
<1>5. PICK old \in Seq(Nat) : old = Line(i)
    BY <1>2, LineType DEF TypeOK
<1>6. /\ Append(old, s) \in Seq(Nat) /\ Len(Append(old, s)) = Len(old) + 1 /\ Len(old) \in Nat
      /\ Append(old, s)[Len(old) + 1] = s
      /\ \A k \in 1 .. Len(old) : Append(old, s)[k] = old[k] /\ old[k] \in Nat
    BY <1>1, AppendProperties, LenProperties, ElementOfSeq
<1>7. fNOutput \in Nat /\ fNOutput <= s
    BY <1>1 DEF TypeOK, ThreadType, NumberInv, FileInv, CountInv
<1>8. ASSUME NEW j \in Workers \ {i}, NEW k \in 1 .. Len(Line(j)')
      PROVE  /\ Line(j)'[k] % fNThreads = j
             /\ fNOutput <= Line(j)'[k]
             /\ Line(j)'[k] < s + 1
             /\ \A m \in 1 .. k - 1 : Line(j)'[m] < Line(j)'[k]
             /\ \A p \in 1 .. Len(written) :
                    (p - 1) % fNThreads = j => written[p] < Line(j)'[k]
    <2>1. PICK new \in Seq(Nat) : new = Line(j)
        BY LineType DEF TypeOK
    <2>2. k \in 1 .. Len(new) /\ new = Line(j)'
        BY <1>4, <2>1
    <2>3. new[k] \in Nat
        BY <2>2, ElementOfSeq
    <2>4. /\ new[k] % fNThreads = j /\ fNOutput <= new[k] /\ new[k] < s
          /\ \A m \in 1 .. k - 1 : new[m] < new[k]
          /\ \A p \in 1 .. Len(written) : (p - 1) % fNThreads = j => written[p] < new[k]
        BY <1>1, <2>1, <2>2 DEF NumberInv, LineInv, NewerInv
    <2> QED BY <1>1, <2>2, <2>3, <2>4
<1>9. ASSUME NEW k \in 1 .. Len(old) + 1
      PROVE  /\ Append(old, s)[k] % fNThreads = i
             /\ fNOutput <= Append(old, s)[k]
             /\ Append(old, s)[k] < s + 1
             /\ \A m \in 1 .. k - 1 : Append(old, s)[m] < Append(old, s)[k]
             /\ \A p \in 1 .. Len(written) :
                    (p - 1) % fNThreads = i => written[p] < Append(old, s)[k]
    <2>1. \A q \in 1 .. Len(old) :
            /\ old[q] % fNThreads = i /\ fNOutput <= old[q] /\ old[q] < s
            /\ \A m \in 1 .. q - 1 : old[m] < old[q]
            /\ \A p \in 1 .. Len(written) : (p - 1) % fNThreads = i => written[p] < old[q]
        BY <1>1, <1>2, <1>5 DEF NumberInv, LineInv, NewerInv
    <2>2. CASE k \in 1 .. Len(old)
        BY <1>1, <1>6, <2>1, <2>2
    <2>3. CASE k = Len(old) + 1
        <3>1. Append(old, s)[k] = s
            BY <1>6, <2>3
        <3>2. \A m \in 1 .. k - 1 : Append(old, s)[m] < s
            BY <1>6, <2>1, <2>3
        <3>3. \A p \in 1 .. Len(written) : written[p] < s
            BY <1>1 DEF NumberInv, FileInv, WrittenInv
        <3> QED BY <1>1, <1>2, <1>7, <3>1, <3>2, <3>3
    <2> QED BY <1>6, <2>2, <2>3
<1>10. LineInv'
    <2> SUFFICES ASSUME NEW j \in Workers, NEW k \in 1 .. Len(Line(j)')
                 PROVE  /\ Line(j)'[k] % fNThreads = j
                        /\ fNOutput' <= Line(j)'[k]
                        /\ Line(j)'[k] < Handed'
                        /\ \A m \in 1 .. k - 1 : Line(j)'[m] < Line(j)'[k]
        BY DEF LineInv
    <2>1. CASE j = i
        <3>1. k \in 1 .. Len(old) + 1 /\ Line(j)' = Append(old, s)
            BY <1>4, <1>5, <1>6, <2>1
        <3> QED BY <1>1, <1>3, <1>9, <2>1, <3>1
    <2> QED BY <1>1, <1>3, <1>8, <2>1
<1>11. NewerInv'
    <2> SUFFICES ASSUME NEW j \in Workers, NEW k \in 1 .. Len(Line(j)'),
                        NEW p \in 1 .. Len(written), (p - 1) % fNThreads = j
                 PROVE  written[p] < Line(j)'[k]
        BY <1>3 DEF NewerInv
    <2>1. CASE j = i
        <3>1. k \in 1 .. Len(old) + 1 /\ Line(j)' = Append(old, s)
            BY <1>4, <1>5, <1>6, <2>1
        <3> QED BY <1>9, <2>1, <3>1
    <2> QED BY <1>8, <2>1
<1>12. GaplessInv'
    <2> SUFFICES ASSUME Complete', NEW n \in fNOutput .. s
                 PROVE  OnItsWay(n)'
        BY <1>1, <1>3 DEF GaplessInv, Complete
    <2>1. CASE n = s
        <3>1. Line(s % fNThreads)' = Append(old, s)
            BY <1>2, <1>4, <1>5
        <3>2. Len(old) + 1 \in 1 .. Len(Append(old, s)) /\ Append(old, s)[Len(old) + 1] = s
            BY <1>6
        <3> QED BY <2>1, <3>1, <3>2 DEF OnItsWay
    <2>2. CASE n # s
        <3>1. n \in fNOutput .. Certain - 1 /\ n \in Nat
            BY <1>1, <1>7, <2>2
        <3>2. OnItsWay(n)
            BY <1>3, <3>1 DEF NumberInv, GaplessInv, Complete
        <3>3. n % fNThreads \in Workers
            BY <3>1, TurnIsWorker
        <3>4. CASE n % fNThreads = i
            <4>1. PICK k \in 1 .. Len(old) : old[k] = n
                BY <1>5, <3>2, <3>4 DEF OnItsWay
            <4>2. k \in 1 .. Len(Append(old, s)) /\ Append(old, s)[k] = n
                BY <1>6, <4>1
            <4>3. Line(n % fNThreads)' = Append(old, s)
                BY <1>4, <1>5, <3>4
            <4> QED BY <4>2, <4>3 DEF OnItsWay
        <3>5. CASE n % fNThreads # i
            BY <1>4, <3>2, <3>3, <3>5 DEF OnItsWay
        <3> QED BY <3>4, <3>5
    <2> QED BY <2>1, <2>2
<1>13. FileInv'
    BY <1>1, <1>3, FileKept DEF NumberInv
<1> QED BY <1>10, <1>11, <1>12, <1>13 DEF NumberInv

-----------------------------------------------------------------------------
(* The merger takes a message and writes it. *)

LEMMA RemainderUnique ==
    ASSUME NEW n \in Nat \ {0}, NEW p \in Int, NEW q \in Int,
           NEW r \in 0 .. n - 1, NEW s \in 0 .. n - 1, n * p + r = n * q + s
    PROVE  r = s
<1>1. CASE p = q
    BY <1>1
<1>2. CASE p > q
    <2>1. p - q >= 1 /\ n * (p - q) = s - r
        BY <1>2
    <2>2. n * (p - q) >= n
        BY <2>1
    <2> QED BY <2>1, <2>2
<1>3. CASE p < q
    <2>1. q - p >= 1 /\ n * (q - p) = r - s
        BY <1>3
    <2>2. n * (q - p) >= n
        BY <2>1
    <2> QED BY <2>1, <2>2
<1> QED BY <1>1, <1>2, <1>3

LEMMA Quotient ==
    ASSUME NEW a \in Nat, NEW n \in Nat \ {0}
    PROVE  \E q \in Nat : a = n * q + (a % n) /\ a % n \in 0 .. n - 1
<1>1. a \div n \in Nat /\ a % n \in 0 .. n - 1
    OBVIOUS
<1>2. a = n * (a \div n) + (a % n)
    OBVIOUS
<1> QED BY <1>1, <1>2

\* The worker of a place in the file is the one of the place fNThreads before.
LEMMA RemainderShift ==
    ASSUME NEW n \in Nat \ {0}, NEW a \in Nat, a >= n
    PROVE  (a - n) % n = a % n
<1>1. PICK p \in Nat : a = n * p + (a % n) /\ a % n \in 0 .. n - 1
    BY Quotient
<1>2. a - n \in Nat
    OBVIOUS
<1>3. PICK q \in Nat : a - n = n * q + ((a - n) % n) /\ (a - n) % n \in 0 .. n - 1
    BY <1>2, Quotient
<1>4. n * (q + 1) = n * q + n
    BY <1>3
<1>5. n * (q + 1) + ((a - n) % n) = n * p + (a % n)
    BY <1>1, <1>3, <1>4
<1>6. PICK r \in 0 .. n - 1 : r = (a - n) % n
    BY <1>3
<1>7. PICK s \in 0 .. n - 1 : s = a % n
    BY <1>1
<1>8. q + 1 \in Int /\ p \in Int /\ n * (q + 1) + r = n * p + s
    BY <1>5, <1>6, <1>7
<1>9. r = s
    BY <1>8, RemainderUnique
<1> QED BY <1>6, <1>7, <1>9

\* What is known of the message the merger takes, x, and of its worker, i.
Taken(i, x) ==
    /\ i = fNOutput % fNThreads
    /\ Line(i) # <<>> /\ x = Head(Line(i)) /\ x = Line(i)[1]
    /\ x \in fNOutput .. Handed - 1
    /\ x % fNThreads = i
    /\ Complete => x = fNOutput

LEMMA MergerTakesNext ==
    ASSUME TypeOK, NumberInv, useWorkers, NEW next, MergerReceive(next)
    PROVE  \E i \in Workers, x \in Nat : i = Turn /\ x = Head(fMergerCh[Turn]) /\ Taken(i, x)
<1>1. PICK i \in Workers : i = Turn
    BY MergerTakes DEF TypeOK
<1>2. PICK L \in Seq(Nat) : L = Line(i)
    BY LineType DEF TypeOK
<1>3. L # <<>> /\ Head(fMergerCh[Turn]) = Head(L)
    BY <1>1, <1>2, MergerTakes DEF TypeOK
<1>4. Head(L) \in Nat /\ Head(L) = L[1] /\ Len(L) \in Nat /\ 1 \in 1 .. Len(L)
    BY <1>3, HeadTailProperties, EmptySeq, LenProperties
<1>5. PICK x \in Nat : x = Head(L)
    BY <1>4
<1>6. x % fNThreads = i /\ fNOutput <= x /\ x < Handed
    BY <1>2, <1>4, <1>5 DEF NumberInv, LineInv
<1>7. fNOutput \in Nat /\ Handed \in Nat
    BY HandedType DEF TypeOK, ThreadType
<1>8. ASSUME Complete PROVE x = fNOutput
    <2>1. Handed <= Certain + 1 /\ Certain \in Int
        BY DEF TypeOK, DeviceType, Handed, Certain
    <2>2. CASE fNOutput \in fNOutput .. Certain - 1
        <3>1. OnItsWay(fNOutput)
            BY <1>8, <2>2 DEF NumberInv, GaplessInv, Complete
        <3>2. PICK k \in 1 .. Len(L) : L[k] = fNOutput
            BY <1>1, <1>2, <3>1 DEF OnItsWay, Turn
        <3>3. k # 1 => L[1] < L[k]
            <4>1. k # 1 => 1 \in 1 .. k - 1
                BY <1>4
            <4> QED BY <1>2, <4>1 DEF NumberInv, LineInv
        <3> QED BY <1>4, <1>5, <1>6, <1>7, <3>2, <3>3
    <2>3. CASE fNOutput >= Certain
        BY <1>6, <1>7, <2>1, <2>3
    <2> QED BY <1>7, <2>1, <2>2, <2>3
<1>9. x \in fNOutput .. Handed - 1
    BY <1>6, <1>7
<1>10. Taken(i, x)
    BY <1>1, <1>2, <1>3, <1>4, <1>5, <1>6, <1>8, <1>9 DEF Taken, Turn
<1> QED BY <1>1, <1>3, <1>5, <1>10

LEMMA MergeStep ==
    ASSUME TypeOK, TypeOK', NumberInv, useWorkers, Merge
    PROVE  NumberInv'
<1>1. PICK i \in Workers, x \in Nat : i = Turn /\ x = Head(fMergerCh[Turn]) /\ Taken(i, x)
    BY MergerTakesNext DEF Merge
<1>2. PICK L \in Seq(Nat) : L = Line(i)
    BY LineType DEF TypeOK
<1>3. PICK out \in Nat : out = fNOutput
    BY DEF TypeOK, ThreadType
<1>4. PICK h \in Nat : h = Handed
    BY HandedType
<1>5. PICK w \in Seq(Nat) : w = written
    BY DEF TypeOK, DeviceType
<1>6. /\ fNOutput' = out + 1 /\ Handed' = h /\ Certain' = Certain
      /\ UNCHANGED <<useWorkers, timedOut, fNReceived>>
    BY <1>3, <1>4 DEF Merge, MergerReceive, deviceVars, options, historyVars, Handed, Certain
<1>7. /\ L # <<>> /\ x = L[1] /\ out <= x /\ x < h /\ x % fNThreads = i
      /\ i = out % fNThreads /\ (Complete => x = out)
    BY <1>1, <1>2, <1>3, <1>4 DEF Taken
<1>8. /\ Tail(L) \in Seq(Nat) /\ Len(L) \in Nat /\ Len(L) >= 1 /\ Len(Tail(L)) = Len(L) - 1
      /\ \A k \in 1 .. Len(Tail(L)) : Tail(L)[k] = L[k + 1]
    BY <1>7, HeadTailProperties, LenProperties, EmptySeq
<1>9. \A j \in Workers : Line(j)' = IF j = i THEN Tail(Line(j)) ELSE Line(j)
    BY <1>1, MergerTakes DEF TypeOK, Merge
<1>10. \/ w = written' /\ fStopRequested /\ fStopRequested'
       \/ written' = Append(w, x) /\ ~fStopRequested /\ Len(w) = out
    <2>1. WriteData(x)
        BY <1>1 DEF Merge
    <2> QED BY <1>3, <1>5, <2>1 DEF WriteData, fileVars, NumberInv, FileInv, CountInv
<1>11. \A k \in 1 .. Len(L) :
            /\ L[k] \in Nat /\ L[k] % fNThreads = i /\ out <= L[k] /\ L[k] < h
            /\ \A m \in 1 .. k - 1 : L[m] < L[k]
            /\ \A p \in 1 .. Len(w) : (p - 1) % fNThreads = i => w[p] < L[k]
    <2>1. \A k \in 1 .. Len(L) : L[k] \in Nat
        BY ElementOfSeq
    <2> QED BY <2>1, <1>2, <1>3, <1>4, <1>5 DEF NumberInv, LineInv, NewerInv
\* The messages that stay on the way.
<1>12. ASSUME NEW j \in Workers, NEW k \in 1 .. Len(Line(j)')
       PROVE  /\ Line(j)'[k] % fNThreads = j
              /\ out + 1 <= Line(j)'[k]
              /\ Line(j)'[k] < h
              /\ \A m \in 1 .. k - 1 : Line(j)'[m] < Line(j)'[k]
              /\ \A p \in 1 .. Len(w) : (p - 1) % fNThreads = j => w[p] < Line(j)'[k]
              /\ j = i => x < Line(j)'[k]
    <2>1. CASE j = i
        <3>1. Line(j)' = Tail(L) /\ k \in 1 .. Len(Tail(L))
            BY <1>2, <1>9, <2>1
        <3>2. k + 1 \in 1 .. Len(L) /\ 1 \in 1 .. (k + 1) - 1 /\ Tail(L)[k] = L[k + 1]
            BY <1>8, <3>1
        <3>3. x < L[k + 1] /\ out + 1 <= L[k + 1]
            BY <1>7, <1>11, <3>2
        <3>4. \A m \in 1 .. k - 1 : Tail(L)[m] < Tail(L)[k]
            <4> TAKE m \in 1 .. k - 1
            <4>1. m + 1 \in 1 .. (k + 1) - 1 /\ m \in 1 .. Len(Tail(L))
                BY <1>8, <3>1
            <4>2. Tail(L)[m] = L[m + 1]
                BY <1>8, <4>1
            <4> QED BY <1>11, <3>2, <4>1, <4>2
        <3> QED BY <1>11, <2>1, <3>1, <3>2, <3>3, <3>4
    <2>2. CASE j # i
        <3>1. PICK M \in Seq(Nat) : M = Line(j)
            BY LineType DEF TypeOK
        <3>2. M = Line(j)' /\ k \in 1 .. Len(M)
            BY <1>9, <2>2, <3>1
        <3>3. M[k] \in Nat
            BY <3>2, ElementOfSeq
        <3>4. /\ M[k] % fNThreads = j /\ out <= M[k] /\ M[k] < h
              /\ \A m \in 1 .. k - 1 : M[m] < M[k]
              /\ \A p \in 1 .. Len(w) : (p - 1) % fNThreads = j => w[p] < M[k]
            BY <1>3, <1>4, <1>5, <3>1, <3>2 DEF NumberInv, LineInv, NewerInv
        <3>5. M[k] # out
            BY <1>7, <2>2, <3>4
        <3> QED BY <2>2, <3>2, <3>3, <3>4, <3>5
    <2> QED BY <2>1, <2>2
<1>13. LineInv'
    BY <1>6, <1>12 DEF LineInv
\* The file.
<1>14. CASE w = written' /\ fStopRequested /\ fStopRequested'
    <2>1. NewerInv'
        BY <1>12, <1>14 DEF NewerInv
    <2>2. GaplessInv'
        BY <1>14 DEF GaplessInv
    <2>3. WrittenInv'
        BY <1>4, <1>5, <1>6, <1>14 DEF NumberInv, FileInv, WrittenInv
    <2>4. CountInv'
        BY <1>3, <1>4, <1>6, <1>7, <1>14 DEF CountInv
    <2>5. InOrder'
        BY <1>5, <1>6, <1>14 DEF NumberInv, FileInv, InOrder
    <2> QED BY <1>13, <2>1, <2>2, <2>3, <2>4, <2>5 DEF NumberInv, FileInv
<1>15. CASE written' = Append(w, x) /\ ~fStopRequested /\ Len(w) = out
    <2>1. PICK new \in Seq(Nat) : new = Append(w, x)
        BY AppendProperties
    <2>2. /\ Len(new) = out + 1 /\ new[out + 1] = x
          /\ \A p \in 1 .. out : new[p] = w[p] /\ w[p] \in Nat
        BY <1>15, <2>1, AppendProperties, ElementOfSeq
    <2>3. written' = new
        BY <1>15, <2>1
    <2>4. \A p \in 1 .. Len(new) : p \in 1 .. out \/ p = out + 1
        BY <2>2
    <2>5. NewerInv'
        <3> SUFFICES ASSUME NEW j \in Workers, NEW k \in 1 .. Len(Line(j)'),
                            NEW p \in 1 .. Len(new), (p - 1) % fNThreads = j
                     PROVE  new[p] < Line(j)'[k]
            BY <2>3 DEF NewerInv
        <3>1. CASE p \in 1 .. out
            BY <1>12, <1>15, <2>2, <3>1
        <3>2. CASE p = out + 1
            <4>1. j = i
                BY <1>7, <3>2
            <4> QED BY <1>12, <2>2, <3>2, <4>1
        <3> QED BY <2>4, <3>1, <3>2
    <2>6. GaplessInv'
        <3> SUFFICES ASSUME Complete', NEW n \in out + 1 .. Certain - 1
                     PROVE  OnItsWay(n)'
            BY <1>6 DEF GaplessInv, Complete
        <3>1. Complete /\ x = out
            BY <1>6, <1>7, <1>15 DEF Complete
        <3>2. n \in fNOutput .. Certain - 1 /\ n \in Nat /\ n # x
            BY <1>3, <3>1, HandedType
        <3>3. OnItsWay(n)
            BY <3>1, <3>2 DEF NumberInv, GaplessInv, Complete
        <3>4. n % fNThreads \in Workers
            BY <3>2, TurnIsWorker
        <3>5. CASE n % fNThreads = i
            <4>1. PICK k \in 1 .. Len(L) : L[k] = n
                BY <1>2, <3>3, <3>5 DEF OnItsWay
            <4>2. k # 1
                BY <1>7, <3>2, <4>1
            <4>3. k - 1 \in 1 .. Len(Tail(L)) /\ Tail(L)[k - 1] = n
                BY <1>8, <4>1, <4>2
            <4>4. Line(n % fNThreads)' = Tail(L)
                BY <1>2, <1>9, <3>5
            <4> QED BY <4>3, <4>4 DEF OnItsWay
        <3>6. CASE n % fNThreads # i
            <4>1. Line(n % fNThreads)' = Line(n % fNThreads)
                BY <1>9, <3>4, <3>6
            <4> QED BY <3>3, <4>1 DEF OnItsWay
        <3> QED BY <3>5, <3>6
    <2>7. WrittenInv'
        <3> SUFFICES ASSUME NEW p \in 1 .. Len(new)
                     PROVE  /\ new[p] >= p - 1 /\ new[p] < h
                            /\ new[p] % fNThreads = (p - 1) % fNThreads
                            /\ p > fNThreads => new[p] > new[p - fNThreads]
            BY <1>6, <2>3 DEF WrittenInv
        <3>1. CASE p \in 1 .. out
            <4>1. /\ w[p] >= p - 1 /\ w[p] < h
                  /\ w[p] % fNThreads = (p - 1) % fNThreads
                  /\ p > fNThreads => w[p] > w[p - fNThreads]
                BY <1>4, <1>5, <1>15, <3>1 DEF NumberInv, FileInv, WrittenInv
            <4>2. p > fNThreads => p - fNThreads \in 1 .. out
                BY <3>1, ThreadsAssumption
            <4> QED BY <2>2, <3>1, <4>1, <4>2
        <3>2. CASE p = out + 1
            <4>1. ASSUME p > fNThreads PROVE x > new[p - fNThreads]
                <5>1. p - fNThreads \in 1 .. out /\ out >= fNThreads
                    BY <3>2, <4>1, ThreadsAssumption
                <5>2. ((p - fNThreads) - 1) % fNThreads = i
                    <6>1. (out - fNThreads) % fNThreads = out % fNThreads
                        BY <5>1, ThreadsAssumption, RemainderShift
                    <6>2. (p - fNThreads) - 1 = out - fNThreads
                        BY <3>2, ThreadsAssumption
                    <6> QED BY <1>7, <6>1, <6>2
                <5>3. w[p - fNThreads] < L[1]
                    BY <1>8, <1>11, <1>15, <5>1, <5>2
                <5> QED BY <1>7, <2>2, <5>1, <5>3
            <4> QED BY <1>7, <2>2, <3>2, <4>1
        <3> QED BY <2>4, <3>1, <3>2
    <2>8. CountInv'
        BY <1>6, <1>7, <2>2, <2>3 DEF CountInv
    <2>9. InOrder'
        <3> SUFFICES ASSUME ~timedOut, NEW p \in 1 .. Len(new) PROVE new[p] = p - 1
            BY <1>6, <2>1, <2>3 DEF InOrder
        <3>1. x = out
            BY <1>7, <1>15 DEF Complete
        <3>2. \A q \in 1 .. out : w[q] = q - 1
            <4>1. DOMAIN w = 1 .. out
                BY <1>15, LenProperties
            <4> QED BY <1>5, <4>1 DEF NumberInv, FileInv, InOrder
        <3> QED BY <2>2, <2>4, <3>1, <3>2
    <2> QED BY <1>13, <2>5, <2>6, <2>7, <2>8, <2>9 DEF NumberInv, FileInv
<1> QED BY <1>10, <1>14, <1>15

-----------------------------------------------------------------------------
(* The other steps. *)

\* Without workers there is nothing on the way.
Idle == ~useWorkers /\ \A i \in Workers : Line(i) = <<>>

LEMMA IdleLines ==
    ASSUME Idle' PROVE LineInv' /\ NewerInv' /\ GaplessInv' /\ CountInv'
<1>1. \A i \in Workers : 1 .. Len(Line(i)') = {}
    <2> SUFFICES ASSUME NEW i \in Workers PROVE 1 .. Len(Line(i)') = {}
        OBVIOUS
    <2>1. Line(i)' = <<>>
        BY DEF Idle
    <2>2. Len(<<>>) = 0
        BY EmptySeq
    <2> QED BY <2>1, <2>2
<1>2. LineInv' /\ NewerInv'
    BY <1>1 DEF LineInv, NewerInv
<1>3. GaplessInv' /\ CountInv'
    BY DEF Idle, GaplessInv, CountInv
<1> QED BY <1>2, <1>3

LEMMA HereStep ==
    ASSUME TypeOK, TypeOK', IdleInv, NumberInv, HandleDataHere
    PROVE  NumberInv' /\ IdleInv'
<1>1. /\ ~useWorkers /\ ~useWorkers' /\ pc = "Run" /\ pc' \in {"Run", "Join"}
      /\ UNCHANGED <<fSplitter, job, fMergerCh, worker, merger, timedOut>>
      /\ ~fStopRequested /\ ~timedOut
      /\ fNReceived' = fNReceived + 1 /\ WriteData(fNReceived)
    BY DEF HandleDataHere, TakeInput, EndRun, channels, threads, options, IdleInv
<1>2. /\ merger = "Off" /\ (\A i \in Workers : worker[i] = "Off" /\ Line(i) = <<>>)
      /\ Len(written) = fNReceived
    BY <1>1 DEF IdleInv
<1>3. Idle'
    <2>1. Kept
        BY <1>1, ChannelsKept
    <2> QED BY <1>1, <1>2, <2>1 DEF Idle, Kept
<1>4. PICK w \in Seq(Nat) : w = written
    BY DEF TypeOK, DeviceType
<1>5. PICK n \in Nat : n = fNReceived
    BY DEF TypeOK, DeviceType
<1>6. PICK new \in Seq(Nat) : new = Append(w, n)
    BY AppendProperties
<1>7. written' = new /\ Len(w) = n /\ Handed = n /\ Handed' = n + 1
    BY <1>1, <1>2, <1>4, <1>5, <1>6 DEF WriteData, Handed
<1>8. /\ Len(new) = n + 1 /\ new[n + 1] = n
      /\ \A p \in 1 .. n : new[p] = w[p]
    BY <1>6, <1>7, AppendProperties
<1>9. \A p \in 1 .. n : w[p] = p - 1
    <2>1. DOMAIN w = 1 .. n
        BY <1>7, LenProperties
    <2> QED BY <1>1, <1>4, <2>1 DEF NumberInv, FileInv, InOrder
<1>10. \A p \in 1 .. Len(new) : new[p] = p - 1
    BY <1>8, <1>9
<1>11. InOrder'
    <2>1. DOMAIN new = 1 .. Len(new)
        BY LenProperties
    <2> QED BY <1>7, <1>10, <2>1 DEF InOrder
<1>12. WrittenInv'
    <2> SUFFICES ASSUME NEW p \in 1 .. Len(new)
                 PROVE  /\ new[p] >= p - 1 /\ new[p] < n + 1
                        /\ new[p] % fNThreads = (p - 1) % fNThreads
                        /\ p > fNThreads => new[p] > new[p - fNThreads]
        BY <1>7 DEF WrittenInv
    <2>1. p > fNThreads => p - fNThreads \in 1 .. Len(new)
        BY <1>8, ThreadsAssumption
    <2> QED BY <1>8, <1>10, <2>1, ThreadsAssumption
<1>13. NumberInv'
    BY <1>3, <1>11, <1>12, IdleLines DEF NumberInv, FileInv
<1>14. IdleInv'
    <2>1. Len(written') = fNReceived'
        BY <1>1, <1>5, <1>7, <1>8
    <2>2. timedOut' = FALSE /\ pc' # "Split" /\ merger' = "Off"
        BY <1>1, <1>2 DEF TypeOK, DeviceType
    <2>3. \A i \in Workers : worker'[i] = "Off" /\ Line(i)' = <<>>
        BY <1>1, <1>2, <1>3 DEF Idle
    <2> QED BY <2>1, <2>2, <2>3 DEF IdleInv
<1> QED BY <1>13, <1>14

LEMMA NoMessageLine ==
    ASSUME fSplitter' = NoMessage, job' = NoMessage, fMergerCh' = NoMessage, NEW i \in Workers
    PROVE  Line(i)' = <<>>
<1>1. fSplitter'[i] = <<>> /\ job'[i] = <<>> /\ fMergerCh'[i] = <<>>
    BY DEF NoMessage
<1>2. <<>> \o <<>> \o <<>> = <<>>
    <2>1. <<>> \in Seq(Nat)
        OBVIOUS
    <2> QED BY <2>1, ConcatEmptySeq
<1> QED BY <1>1, <1>2 DEF Line

LEMMA PreRunStep ==
    ASSUME TypeOK, TypeOK', IdleInv, JobInv, PreRun
    PROVE  NumberInv' /\ IdleInv' /\ JobInv'
<1>1. /\ pc' = "Run" /\ fNReceived' = 0 /\ written' = <<>> /\ timedOut' = FALSE
      /\ useWorkers' = useWorkers /\ fStopRequested' = FALSE
    BY DEF PreRun, options
<1>2. Handed' = 0 /\ Certain' = 0
    BY <1>1 DEF Handed, Certain
<1>3. Len(written') = 0 /\ DOMAIN written' = {}
    BY <1>1, EmptySeq
<1>4. WrittenInv' /\ InOrder'
    BY <1>3 DEF WrittenInv, InOrder
<1>5. CASE ~useWorkers
    <2>1. UNCHANGED <<fSplitter, job, fMergerCh, worker, merger>>
        BY <1>5 DEF PreRun, channels, threads
    <2>2. /\ merger = "Off" /\ \A i \in Workers : worker[i] = "Off" /\ Line(i) = <<>>
        BY <1>5 DEF IdleInv
    <2>3. Idle'
        <3>1. Kept
            BY <2>1, ChannelsKept
        <3> QED BY <1>1, <1>5, <2>2, <3>1 DEF Idle, Kept
    <2>4. NumberInv'
        BY <1>4, <2>3, IdleLines DEF NumberInv, FileInv
    <2>5. IdleInv'
        BY <1>1, <1>3, <2>1, <2>2, <2>3 DEF IdleInv, Idle
    <2>6. JobInv'
        BY <2>1 DEF JobInv
    <2> QED BY <2>4, <2>5, <2>6
<1>6. CASE useWorkers
    <2>1. /\ fSplitter' = NoMessage /\ job' = NoMessage /\ fMergerCh' = NoMessage
          /\ fNOutput' = 0
        BY <1>6 DEF PreRun, InitChannels
    <2>2. \A i \in Workers : 1 .. Len(Line(i)') = {}
        <3> SUFFICES ASSUME NEW i \in Workers PROVE 1 .. Len(Line(i)') = {}
            OBVIOUS
        <3>1. Line(i)' = <<>>
            BY <2>1, NoMessageLine
        <3>2. Len(<<>>) = 0
            BY EmptySeq
        <3> QED BY <3>1, <3>2
    <2>3. LineInv' /\ NewerInv'
        BY <2>2 DEF LineInv, NewerInv
    <2>4. GaplessInv' /\ CountInv'
        BY <1>2, <1>3, <2>1 DEF GaplessInv, CountInv
    <2>5. IdleInv'
        BY <1>1, <1>6 DEF IdleInv
    <2>6. JobInv'
        <3>1. \A i \in Workers : job'[i] = <<>>
            BY <2>1 DEF NoMessage
        <3> QED BY <3>1, EmptySeq DEF JobInv
    <2> QED BY <1>4, <2>3, <2>4, <2>5, <2>6 DEF NumberInv, FileInv
<1> QED BY <1>5, <1>6

\* The rest of the invariant.
ThreadInv == JobInv /\ IdleInv

LEMMA ThreadsKept ==
    ASSUME ThreadInv, Kept,
           UNCHANGED <<useWorkers, job, worker, merger, timedOut, fStopRequested, written>>,
           useWorkers \/ (pc' # "Split" /\ fNReceived' = fNReceived)
    PROVE  ThreadInv'
<1>1. JobInv'
    BY DEF ThreadInv, JobInv
<1>2. IdleInv'
    BY DEF ThreadInv, IdleInv, Kept
<1> QED BY <1>1, <1>2 DEF ThreadInv

\* A step of a worker: with no workers there is none.
LEMMA WorkerStep ==
    ASSUME ThreadInv, NEW i \in Workers, worker[i] # "Off",
           \A k \in Workers \ {i} : job'[k] = job[k] /\ worker'[k] = worker[k],
           Len(job'[i]) <= 1, worker'[i] \in {"Off", "Recv"} => job'[i] = <<>>,
           useWorkers' = useWorkers
    PROVE  ThreadInv'
<1>1. JobInv'
    <2> SUFFICES ASSUME NEW k \in Workers
                 PROVE  /\ Len(job'[k]) <= 1
                        /\ worker'[k] \in {"Off", "Recv"} => job'[k] = <<>>
        BY DEF JobInv
    <2>1. CASE k = i
        BY <2>1
    <2>2. CASE k # i
        BY <2>2 DEF ThreadInv, JobInv
    <2> QED BY <2>1, <2>2
<1>2. useWorkers
    BY DEF ThreadInv, IdleInv
<1>3. IdleInv'
    BY <1>2 DEF IdleInv
<1> QED BY <1>1, <1>3 DEF ThreadInv

LEMMA DeviceStep ==
    ASSUME TypeOK, TypeOK', ThreadInv, NumberInv,
           \/ SenderSend \/ SenderStop \/ StopRequest
           \/ HandleDataMT \/ HandleRefuse \/ SplitGiveUp \/ RunExit
           \/ JoinDone \/ DrainReceive \/ DrainEnd \/ UNCHANGED vars
    PROVE  NumberInv' /\ ThreadInv'
<1>1. /\ UNCHANGED <<useWorkers, fNOutput, written, fStopRequested, timedOut>>
      /\ UNCHANGED <<fSplitter, job, fMergerCh, worker, merger>>
    BY DEF SenderSend, SenderStop, StopRequest, HandleDataMT, HandleRefuse, SplitGiveUp, RunExit,
           JoinDone, DrainReceive, DrainEnd, TakeInput, EndRun, vars, taskVars, channels, threads,
           deviceVars, options, fileVars, senderVars, historyVars
<1>2. \/ pc' = pc /\ fNReceived' = fNReceived
      \/ HandleDataMT \/ HandleRefuse \/ SplitGiveUp \/ RunExit \/ JoinDone \/ DrainEnd
    BY DEF SenderSend, SenderStop, StopRequest, DrainReceive, vars, deviceVars
<1>3. /\ Handed' >= Handed
      /\ Complete' => Certain' <= Certain
      /\ useWorkers \/ (pc' # "Split" /\ fNReceived' = fNReceived)
    <2>1. /\ fNReceived \in Nat /\ fNReceived' \in Nat
          /\ useWorkers \in BOOLEAN /\ (~useWorkers => pc # "Split")
        BY DEF TypeOK, DeviceType, ThreadInv, IdleInv
    <2>2. CASE pc' = pc /\ fNReceived' = fNReceived
        BY <2>1, <2>2 DEF Handed, Certain
    <2>3. CASE HandleDataMT
        BY <2>1, <2>3 DEF HandleDataMT, TakeInput, Handed, Certain
    <2>4. CASE HandleRefuse
        BY <1>1, <2>1, <2>4 DEF HandleRefuse, EndRun, Handed, Certain, Complete
    <2>5. CASE SplitGiveUp
        BY <2>1, <2>5 DEF SplitGiveUp, EndRun, Handed, Certain
    <2>6. CASE RunExit
        BY <2>1, <2>6 DEF RunExit, Handed, Certain
    <2>7. CASE JoinDone
        BY <2>1, <2>7 DEF JoinDone, Handed, Certain
    <2>8. CASE DrainEnd
        BY <2>1, <2>8 DEF DrainEnd, Handed, Certain
    <2> QED BY <1>2, <2>2, <2>3, <2>4, <2>5, <2>6, <2>7, <2>8
<1>4. Kept /\ Thin
    BY <1>1, ChannelsKept, KeptIsThin DEF TypeOK
<1> QED BY <1>1, <1>3, <1>4, QuietStep, ThreadsKept

LEMMA ThreadStep ==
    ASSUME TypeOK, TypeOK', ThreadInv, NumberInv, NEW i \in Workers,
           \/ ReceiveInput(i) \/ EndWorker(i) \/ CompressRefuse(i)
           \/ Compress(i) \/ CompressSend(i) \/ CompressTimeout(i)
    PROVE  NumberInv' /\ ThreadInv'
<1>1. /\ UNCHANGED <<useWorkers, fNOutput, written, fStopRequested, pc, fNReceived>>
      /\ timedOut => timedOut'
    <2>1. CASE ReceiveInput(i)
        BY <2>1 DEF ReceiveInput, WorkerReceive, deviceVars, options, fileVars, historyVars
    <2>2. CASE EndWorker(i) \/ Compress(i)
        BY <2>2 DEF EndWorker, Compress, WorkerEnd, WorkerResult, channels,
                    deviceVars, options, fileVars, historyVars
    <2>3. CASE CompressSend(i)
        BY <2>3 DEF CompressSend, WorkerSend, deviceVars, options, fileVars, historyVars
    <2>4. CASE CompressRefuse(i)
        BY <2>4 DEF CompressRefuse, WorkerReturn, deviceVars, options, fileVars, historyVars
    <2>5. CASE CompressTimeout(i)
        BY <2>5 DEF CompressTimeout, WorkerTimeout, WorkerReturn, deviceVars, options, fileVars
    <2> QED BY <2>1, <2>2, <2>3, <2>4, <2>5
<1>2. Handed' = Handed /\ Certain' = Certain
    BY <1>1 DEF Handed, Certain
<1>3. Handed' >= Handed /\ Certain' <= Certain
    BY <1>2, HandedType
<1>4. /\ job[i] \in Seq(Nat) /\ Len(job[i]) <= 1 /\ job \in [Workers -> Seq(Nat)]
      /\ worker[i] \in {"Off", "Recv"} => job[i] = <<>>
      /\ ThreadType /\ JobInv /\ worker \in [Workers -> {"Off", "Recv", "Work", "Send"}]
    BY DEF TypeOK, ThreadType, ThreadInv, JobInv
<1>5. Thin /\ (Complete' => Kept)
    <2>1. ASSUME Kept PROVE Thin
        BY <1>4, <2>1, KeptIsThin
    <2>2. CASE ReceiveInput(i)
        BY <1>4, <2>1, <2>2, ReceiveKeeps DEF ReceiveInput
    <2>3. CASE EndWorker(i) \/ Compress(i)
        BY <2>1, <2>3, ChannelsKept DEF EndWorker, Compress, WorkerEnd, WorkerResult, channels
    <2>4. CASE CompressSend(i)
        BY <1>4, <2>1, <2>4, SendKeeps DEF CompressSend
    <2>5. CASE CompressRefuse(i)
        BY <1>1, <1>4, <2>5, ReturnThins DEF CompressRefuse, Complete
    <2>6. CASE CompressTimeout(i)
        BY <1>4, <2>6, ReturnThins DEF CompressTimeout, WorkerTimeout, Complete
    <2> QED BY <2>2, <2>3, <2>4, <2>5, <2>6
<1>6. NumberInv'
    BY <1>1, <1>3, <1>5, QuietStep
<1>7. ThreadInv'
    <2>1. Len(<<>>) = 0
        BY EmptySeq
    <2>2. CASE ReceiveInput(i)
        <3>1. /\ worker[i] # "Off"
              /\ \A k \in Workers \ {i} : job'[k] = job[k] /\ worker'[k] = worker[k]
            BY <1>4, <2>2 DEF ReceiveInput, WorkerReceive
        <3>2. Len(job'[i]) <= 1 /\ (worker'[i] \in {"Off", "Recv"} => job'[i] = <<>>)
            <4>1. /\ job'[i] = <<Head(fSplitter[i])>> /\ worker'[i] = "Work"
                BY <1>4, <2>2 DEF ReceiveInput, WorkerReceive
            <4>2. Len(<<Head(fSplitter[i])>>) = 1
                OBVIOUS
            <4> QED BY <4>1, <4>2
        <3> QED BY <1>1, <1>4, <3>1, <3>2, WorkerStep
    <2>3. CASE EndWorker(i)
        <3>1. /\ worker[i] # "Off"
              /\ \A k \in Workers \ {i} : job'[k] = job[k] /\ worker'[k] = worker[k]
            BY <1>4, <2>3 DEF EndWorker, WorkerEnd, channels
        <3>2. Len(job'[i]) <= 1 /\ (worker'[i] \in {"Off", "Recv"} => job'[i] = <<>>)
            BY <1>4, <2>1, <2>3 DEF EndWorker, WorkerEnd, channels
        <3> QED BY <1>1, <1>4, <3>1, <3>2, WorkerStep
    <2>4. CASE Compress(i)
        <3>1. /\ worker[i] # "Off"
              /\ \A k \in Workers \ {i} : job'[k] = job[k] /\ worker'[k] = worker[k]
            BY <1>4, <2>4 DEF Compress, WorkerResult, channels
        <3>2. Len(job'[i]) <= 1 /\ (worker'[i] \in {"Off", "Recv"} => job'[i] = <<>>)
            BY <1>4, <2>4 DEF Compress, WorkerResult, channels
        <3> QED BY <1>1, <1>4, <3>1, <3>2, WorkerStep
    <2>5. CASE CompressSend(i)
        <3>1. /\ worker[i] # "Off"
              /\ \A k \in Workers \ {i} : job'[k] = job[k] /\ worker'[k] = worker[k]
            BY <1>4, <2>5 DEF CompressSend, WorkerSend
        <3>2. Len(job'[i]) <= 1 /\ (worker'[i] \in {"Off", "Recv"} => job'[i] = <<>>)
            BY <1>4, <2>1, <2>5 DEF CompressSend, WorkerSend
        <3> QED BY <1>1, <1>4, <3>1, <3>2, WorkerStep
    <2>6. CASE CompressRefuse(i) \/ CompressTimeout(i)
        <3>1. /\ worker[i] # "Off"
              /\ \A k \in Workers \ {i} : job'[k] = job[k] /\ worker'[k] = worker[k]
            BY <1>4, <2>6 DEF CompressRefuse, CompressTimeout, WorkerTimeout, WorkerReturn
        <3>2. Len(job'[i]) <= 1 /\ (worker'[i] \in {"Off", "Recv"} => job'[i] = <<>>)
            BY <1>4, <2>1, <2>6 DEF CompressRefuse, CompressTimeout, WorkerTimeout, WorkerReturn
        <3> QED BY <1>1, <1>4, <3>1, <3>2, WorkerStep
    <2> QED BY <2>2, <2>3, <2>4, <2>5, <2>6
<1> QED BY <1>6, <1>7

-----------------------------------------------------------------------------
(* The theorems. *)

LEMMA InitInv == Init => IInv
<1> SUFFICES ASSUME Init PROVE IInv
    OBVIOUS
<1> USE DEF Init, TaskInit, InitTask
<1>1. \A i \in Workers : Line(i) = <<>>
    <2>1. <<>> \o <<>> \o <<>> = <<>>
        <3>1. <<>> \in Seq(Nat)
            OBVIOUS
        <3> QED BY <3>1, ConcatEmptySeq
    <2> QED BY <2>1 DEF NoMessage, Line
<1>2. <<>> \in Seq(Nat) /\ Len(<<>>) = 0
    BY EmptySeq
<1>3. \A i \in Workers : 1 .. Len(Line(i)) = {}
    BY <1>1, <1>2
<1>4. ThreadType
    BY NoMessageType DEF ThreadType
<1>5. DeviceType
    BY <1>2 DEF DeviceType
<1>6. JobInv /\ IdleInv
    BY <1>1, <1>2 DEF JobInv, IdleInv, NoMessage
<1>7. LineInv /\ NewerInv
    BY <1>3 DEF LineInv, NewerInv
<1>8. GaplessInv /\ FileInv
    <2>1. Handed = 0 /\ Certain = -1 /\ Len(written) = 0 /\ DOMAIN written = {}
        BY <1>2 DEF Handed, Certain
    <2> QED BY <2>1 DEF GaplessInv, FileInv, CountInv, WrittenInv, InOrder
<1> QED BY <1>4, <1>5, <1>6, <1>7, <1>8 DEF IInv, TypeOK

LEMMA NextInv == IInv /\ [Next]_vars => IInv'
<1> SUFFICES ASSUME IInv, [Next]_vars PROVE IInv'
    OBVIOUS
<1>1. TypeOK /\ ThreadInv /\ NumberInv
    BY DEF IInv, ThreadInv, NumberInv
<1>2. TypeOK'
    BY <1>1, TypeStep
<1>3. ASSUME PreRun PROVE NumberInv' /\ ThreadInv'
    BY <1>1, <1>2, <1>3, PreRunStep DEF ThreadInv
<1>4. ASSUME HandleDataHere PROVE NumberInv' /\ ThreadInv'
    <2>1. JobInv'
        BY <1>1, <1>4 DEF HandleDataHere, channels, threads, ThreadInv, JobInv
    <2> QED BY <1>1, <1>2, <1>4, <2>1, HereStep DEF ThreadInv
<1>5. ASSUME SplitSend PROVE NumberInv' /\ ThreadInv'
    <2>1. useWorkers /\ useWorkers'
        BY <1>1, <1>5 DEF SplitSend, ThreadInv, IdleInv, options
    <2>2. ThreadInv'
        BY <1>1, <1>5, <2>1 DEF SplitSend, ThreadInv, JobInv, IdleInv, threads
    <2> QED BY <1>1, <1>2, <1>5, <2>1, <2>2, SplitStep
<1>6. ASSUME Merge PROVE NumberInv' /\ ThreadInv'
    <2>1. useWorkers /\ useWorkers'
        BY <1>1, <1>6 DEF Merge, MergerReceive, ThreadInv, IdleInv, deviceVars, options
    <2>2. ThreadInv'
        BY <1>1, <1>6, <2>1 DEF Merge, MergerReceive, ThreadInv, JobInv, IdleInv
    <2> QED BY <1>1, <1>2, <1>6, <2>1, <2>2, MergeStep
<1>7. ASSUME EndMerger PROVE NumberInv' /\ ThreadInv'
    <2>1. useWorkers /\ useWorkers'
        BY <1>1, <1>7 DEF EndMerger, MergerEnd, ThreadInv, IdleInv, deviceVars, options
    <2>2. ThreadInv'
        BY <1>1, <1>7, <2>1 DEF EndMerger, MergerEnd, ThreadInv, JobInv, IdleInv, channels
    <2>3. /\ UNCHANGED <<fSplitter, job, fMergerCh, useWorkers, fNOutput, written>>
          /\ UNCHANGED <<fStopRequested, timedOut, pc, fNReceived>>
        BY <1>7 DEF EndMerger, MergerEnd, channels, deviceVars, options, fileVars, historyVars
    <2>4. Handed' = Handed /\ Certain' = Certain
        BY <2>3 DEF Handed, Certain
    <2>5. Handed' >= Handed /\ Certain' <= Certain
        BY <1>1, <2>4, HandedType
    <2>6. Kept /\ Thin
        BY <1>1, <2>3, ChannelsKept, KeptIsThin DEF TypeOK
    <2> QED BY <1>1, <1>2, <2>2, <2>3, <2>5, <2>6, QuietStep
<1>8. ASSUME NEW i \in Workers,
             \/ ReceiveInput(i) \/ EndWorker(i) \/ CompressRefuse(i)
             \/ Compress(i) \/ CompressSend(i) \/ CompressTimeout(i)
      PROVE  NumberInv' /\ ThreadInv'
    BY <1>1, <1>2, <1>8, ThreadStep
<1>9. ASSUME \/ SenderSend \/ SenderStop \/ StopRequest
             \/ HandleDataMT \/ HandleRefuse \/ SplitGiveUp \/ RunExit
             \/ JoinDone \/ DrainReceive \/ DrainEnd \/ UNCHANGED vars
      PROVE  NumberInv' /\ ThreadInv'
    BY <1>1, <1>2, <1>9, DeviceStep
<1>10. NumberInv' /\ ThreadInv'
    BY <1>3, <1>4, <1>5, <1>6, <1>7, <1>8, <1>9 DEF Next, Finished
<1> QED BY <1>2, <1>10 DEF IInv, ThreadInv, NumberInv

THEOREM Invariance == Spec => []IInv
<1>1. Init => IInv
    BY InitInv
<1>2. IInv /\ [Next]_vars => IInv'
    BY NextInv
<1> QED BY <1>1, <1>2, PTL DEF Spec

\* Every variable of the file writer and its threads keeps its type.
THEOREM TypeCorrect == Spec => []TypeOK
<1>1. IInv => TypeOK
    BY DEF IInv
<1> QED BY <1>1, Invariance, PTL

\* However many threads compress, the merger's turns restore the order in which
\* the messages came: the file has all of them, from the first, as long as no
\* worker gave a result up.
THEOREM FileIsInOrder == Spec => []InOrder
<1>1. IInv => InOrder
    BY DEF IInv, FileInv
<1> QED BY <1>1, Invariance, PTL

\* If workers give results up, later messages of the same workers take their
\* places: what is written at a place was taken in this run, is of the worker of
\* that place, and newer than what this worker wrote before.
THEOREM WorkersStayInOrder == Spec => []OrderWithinWorker
<1>1. ASSUME IInv PROVE OrderWithinWorker
    <2>1. TypeOK /\ WrittenInv
        BY <1>1 DEF IInv, FileInv
    <2>2. /\ Handed \in Nat /\ Handed <= Len(taken)
          /\ DOMAIN written = 1 .. Len(written) /\ written \in Seq(Nat)
        BY <2>1, HandedType, LenProperties DEF TypeOK, DeviceType
    <2> SUFFICES ASSUME NEW k \in 1 .. Len(written)
                 PROVE  /\ written[k] >= k - 1 /\ written[k] < Len(taken)
                        /\ written[k] % fNThreads = (k - 1) % fNThreads
                        /\ k > fNThreads => written[k] > written[k - fNThreads]
        BY <2>2 DEF OrderWithinWorker
    <2>3. written[k] \in Nat /\ Len(taken) \in Nat
        BY <2>1, <2>2, ElementOfSeq DEF TypeOK, DeviceType
    <2> QED BY <2>1, <2>2, <2>3 DEF WrittenInv
<1> QED BY <1>1, Invariance, PTL
=============================================================================
