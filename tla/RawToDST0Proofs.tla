-------------------------- MODULE RawToDST0Proofs --------------------------
(***************************************************************************)
(* Theorems about the unpacker and the threads behind it, for any number   *)
(* of threads, any lengths of the queues and any number of events and runs.*)
(***************************************************************************)
EXTENDS RawToDST0, TLAPS, SequenceTheorems

-----------------------------------------------------------------------------
(* The inductive invariant. *)

Messages == [type : {"BeginRun", "Event"}, run : Runs]

DeviceType ==
    /\ statePending \in BOOLEAN
    /\ pc \in {"Ready", "Run", "Begin", "Split", "Join", "Drain"}
    /\ run \in 0 .. MaxRuns /\ fNReceived \in Nat /\ tries \in Nat
    /\ fBeginRunData \in Seq(Runs) /\ hasEntry \in BOOLEAN
    /\ timeoutEnds \in BOOLEAN
    /\ beginSent \in BOOLEAN /\ toSend \in Nat
    /\ outQ \in Nat
    /\ used \in [Events -> Nat \cup {NotYet}]
    /\ beginLost \in BOOLEAN /\ timedOut \in BOOLEAN
    /\ undrained \in BOOLEAN /\ corrupt \in BOOLEAN

TypeOK ==
    /\ DeviceType
    /\ inQ \in Seq(Messages)
    /\ taken \in Seq(Nat) /\ Len(taken) = fNReceived

\* The numbers of the events that were given to the workers, and of those that
\* a worker has unpacked.
Given == 0 .. (IF pc = "Split" THEN fNReceived - 2 ELSE fNReceived - 1)
Done == {n \in Given : used[n] # NotYet}

\* What is on the way, and how much of it is unpacked.
WorkersInv ==
    /\ fSplitter \in [Workers -> Seq(Given)]
    /\ job \in [Workers -> Seq(Given)]
    /\ fMergerCh \in [Workers -> Seq(Done)]
    /\ worker \in [Workers -> {"Off", "Recv", "Work", "Send"}]
    /\ \A i \in Workers :
        /\ Len(job[i]) <= 1
        /\ worker[i] \in {"Off", "Recv"} <=> job[i] = <<>>
        /\ worker[i] = "Send" => job[i] \in Seq(Done)

MergerInv ==
    /\ merger \in {"Off", "Recv", "Send"}
    /\ fNOutput \in Nat
    /\ outgoing \in Seq(Done) /\ sent \in Seq(Done)

\* No worker is left when PostRun drains the channel, and until the next run.
JoinInv == pc \in {"Drain", "Ready"} => \A i \in Workers : worker[i] = "Off"

\* Begin-run data are the next to come.
BeginIsNext == inQ # <<>> /\ inQ[1].type = "BeginRun"

RunInv ==
    /\ pc = "Begin" => BeginIsNext
    /\ pc = "Split" => fNReceived > 0
    /\ pc = "Ready" /\ ~undrained => inQ = <<>> /\ toSend = 0 /\ beginSent
    /\ run = 0 =>
        /\ pc = "Ready" /\ fNReceived = 0 /\ fBeginRunData = <<>>
        /\ inQ = <<>> /\ toSend = 0 /\ beginSent /\ ~beginLost

\* No earlier run has left messages behind on the channel.
Clean == run <= 1 \/ (~undrained /\ pc # "Ready")

\* What comes is of this run, and the begin-run data come before every event.
OrderInv ==
    /\ \A k \in 1 .. Len(inQ) :
        inQ[k].run = run /\ (k > 1 => inQ[k].type = "Event")
    /\ ~beginSent => inQ = <<>>
    /\ ~beginSent \/ BeginIsNext => fNReceived = 0
    /\ \A k \in 1 .. Len(taken) : taken[k] = run
    /\ pc \in Running /\ ~beginLost => ~beginSent \/ BeginIsNext \/ hasEntry
    /\ fNReceived > 0 /\ ~beginLost => hasEntry

InputInv == RunInv /\ (Clean => OrderInv)

\* No more comes in a run than is sent in it and was on the channel before.
BeginToCome == IF beginSent THEN 0 ELSE 1
ToCome == fNReceived + Len(inQ) + toSend + BeginToCome
CountInv ==
    /\ Len(inQ) <= InputLength
    /\ ToCome <= MaxEvents + InputLength + 1

\* In the first run, the begin-run data are those of this run.
FirstRunInv ==
    run = 1 =>
        /\ ~beginSent \/ BeginIsNext => fBeginRunData = <<>>
        /\ pc \in Running /\ ~beginLost =>
                ~beginSent \/ BeginIsNext \/ fBeginRunData = <<1>>
        /\ fNReceived > 0 /\ ~beginLost => fBeginRunData = <<1>>

UsedInv ==
    /\ run <= 1 /\ ~beginLost => ~corrupt
    /\ \A n \in Events :
        /\ ~corrupt /\ used[n] \in Runs =>
                fBeginRunData # <<>> /\ used[n] = fBeginRunData[1]
        /\ (run = 1 /\ ~beginLost /\ used[n] # NotYet) => used[n] = 1

IInv ==
    /\ TypeOK /\ WorkersInv /\ MergerInv /\ JoinInv
    /\ InputInv /\ CountInv /\ FirstRunInv /\ UsedInv

-----------------------------------------------------------------------------
(* Facts about the pieces. *)

LEMMA TurnIsWorker == ASSUME NEW n \in Nat PROVE n % fNThreads \in Workers
BY ThreadsAssumption DEF Workers

LEMMA Bounds == {MaxEvents, MaxRuns, InputLength, DrainTries} \subseteq Nat
BY RawAssumption

LEMMA SeqOfMore ==
    ASSUME NEW S, NEW T, S \subseteq T, NEW s \in Seq(S)
    PROVE  s \in Seq(T)
<1>1. \A n \in 1 .. Len(s) : s[n] \in T
    BY ElementOfSeq
<1> QED BY <1>1, SeqMonotonic

LEMMA Emptiness == ASSUME NEW S PROVE <<>> \in Seq(S) /\ Len(<<>>) = 0
BY EmptySeq

LEMMA FirstOf ==
    ASSUME NEW S, NEW s \in Seq(S), s # <<>>
    PROVE  /\ Head(s) \in S /\ Head(s) = s[1] /\ Tail(s) \in Seq(S)
           /\ Len(s) \in Nat \ {0} /\ Len(Tail(s)) = Len(s) - 1
           /\ \A k \in 1 .. Len(s) - 1 : Tail(s)[k] = s[k + 1]
<1>1. Len(s) \in Nat /\ Len(s) # 0
    BY EmptySeq, LenProperties
<1>2. /\ Head(s) \in S /\ Tail(s) \in Seq(S) /\ Len(Tail(s)) = Len(s) - 1
      /\ \A k \in 1 .. Len(Tail(s)) : Tail(s)[k] = s[k + 1]
    BY HeadTailProperties
<1>3. Head(s) = s[1]
    BY <1>1
<1> QED BY <1>1, <1>2, <1>3

\* A message is taken from the input channel.
LEMMA Popped ==
    ASSUME TypeOK, inQ # <<>>, inQ' = Tail(inQ)
    PROVE  /\ inQ' \in Seq(Messages) /\ Len(inQ) \in Nat \ {0} /\ Len(inQ') = Len(inQ) - 1
           /\ Head(inQ) = inQ[1] /\ Head(inQ) \in Messages /\ 1 \in 1 .. Len(inQ)
           /\ OrderInv =>
                /\ ~BeginIsNext'
                /\ \A k \in 1 .. Len(inQ') : inQ'[k].run = run /\ inQ'[k].type = "Event"
<1>1. PICK q \in Seq(Messages) : q = inQ
    BY DEF TypeOK
<1>2. PICK t \in Seq(Messages) : t = Tail(q)
    BY <1>1, FirstOf
<1>3. /\ Len(q) \in Nat \ {0} /\ Len(t) = Len(q) - 1
      /\ \A k \in 1 .. Len(q) - 1 : t[k] = q[k + 1]
      /\ Head(q) = q[1] /\ Head(q) \in Messages
    BY <1>1, <1>2, FirstOf
<1>4. inQ' = t
    BY <1>1, <1>2
<1>5. ASSUME OrderInv, NEW k \in 1 .. Len(t) PROVE t[k].run = run /\ t[k].type = "Event"
    <2>1. k + 1 \in 1 .. Len(q) /\ k + 1 > 1 /\ t[k] = q[k + 1]
        BY <1>3, <1>5
    <2> QED BY <1>1, <1>5, <2>1 DEF OrderInv
<1>6. OrderInv /\ t # <<>> => t[1].type = "Event"
    <2>1. t # <<>> => 1 \in 1 .. Len(t)
        BY FirstOf
    <2> QED BY <1>5, <2>1
<1>7. OrderInv => ~BeginIsNext'
    BY <1>4, <1>6 DEF BeginIsNext
<1> QED BY <1>1, <1>3, <1>4, <1>5, <1>7

\* A message is put into it.
LEMMA Pushed ==
    ASSUME TypeOK, NEW m \in Messages, inQ' = Append(inQ, m)
    PROVE  /\ inQ' \in Seq(Messages) /\ inQ' # <<>>
           /\ Len(inQ') = Len(inQ) + 1 /\ Len(inQ) \in Nat /\ inQ'[Len(inQ')] = m
           /\ \A k \in 1 .. Len(inQ) : inQ'[k] = inQ[k]
<1>1. PICK q \in Seq(Messages) : q = inQ
    BY DEF TypeOK
<1>2. /\ Append(q, m) \in Seq(Messages) /\ Append(q, m) # <<>>
      /\ Len(Append(q, m)) = Len(q) + 1 /\ Len(q) \in Nat
      /\ Append(q, m)[Len(q) + 1] = m
      /\ \A k \in 1 .. Len(q) : Append(q, m)[k] = q[k]
    BY AppendProperties, LenProperties
<1> QED BY <1>1, <1>2

\* The numbers that CountInv is about.
LEMMA Numbers ==
    ASSUME TypeOK
    PROVE  /\ fNReceived \in Nat /\ toSend \in Nat /\ Len(inQ) \in Nat
           /\ MaxEvents \in Nat /\ InputLength \in Nat /\ beginSent \in BOOLEAN
           /\ run \in Nat /\ BeginToCome \in Nat
BY Bounds, LenProperties DEF TypeOK, DeviceType, BeginToCome

\* What is taken, sent or given up does not add to what is to come.
LEMMA CountKept ==
    ASSUME TypeOK, TypeOK', CountInv, Len(inQ') <= InputLength,
           \/ /\ UNCHANGED <<toSend, beginSent>> /\ Len(inQ') = Len(inQ) - 1
              /\ fNReceived' = fNReceived \/ fNReceived' = fNReceived + 1
           \/ /\ UNCHANGED <<toSend, fNReceived>> /\ Len(inQ') = Len(inQ) + 1
              /\ ~beginSent /\ beginSent'
           \/ /\ UNCHANGED <<beginSent, fNReceived>> /\ Len(inQ') = Len(inQ) + 1
              /\ toSend' = toSend - 1
           \/ UNCHANGED <<inQ, fNReceived>> /\ beginSent' /\ toSend' <= toSend
    PROVE  CountInv'
<1>1. PICK f \in Nat, n \in Nat, t \in Nat, u \in Nat :
        f = fNReceived /\ n = Len(inQ) /\ t = toSend /\ u = BeginToCome
    BY Numbers
<1>2. PICK f2 \in Nat, n2 \in Nat, t2 \in Nat, u2 \in Nat :
        f2 = fNReceived' /\ n2 = Len(inQ') /\ t2 = toSend' /\ u2 = BeginToCome'
    BY LenProperties DEF TypeOK, DeviceType, BeginToCome
<1>3. \/ t2 = t /\ u2 = u /\ n2 = n - 1 /\ (f2 = f \/ f2 = f + 1)
      \/ t2 = t /\ f2 = f /\ n2 = n + 1 /\ u = 1 /\ u2 = 0
      \/ u2 = u /\ f2 = f /\ n2 = n + 1 /\ t2 = t - 1
      \/ n2 = n /\ f2 = f /\ u2 = 0 /\ t2 <= t
    BY <1>1, <1>2 DEF BeginToCome
<1>4. f2 + n2 + t2 + u2 <= f + n + t + u
    BY <1>3
<1>5. ToCome = f + n + t + u /\ ToCome' = f2 + n2 + t2 + u2
    BY <1>1, <1>2 DEF ToCome
<1> QED BY <1>4, <1>5, Numbers DEF CountInv

-----------------------------------------------------------------------------
(* The input channel and the begin-run data. *)

InputPart == TypeOK /\ InputInv /\ CountInv /\ FirstRunInv

\* Steps that leave the input channel and the counts alone.
LEMMA InputKept ==
    ASSUME InputPart, DeviceType',
           UNCHANGED <<inQ, taken, fNReceived, fBeginRunData, run, beginSent, toSend>>,
           beginLost' = beginLost, hasEntry => hasEntry', Clean' => Clean,
           pc' = "Begin" => BeginIsNext,
           pc' = "Split" => fNReceived > 0,
           pc' = "Ready" /\ ~undrained' => inQ = <<>> /\ toSend = 0 /\ beginSent,
           pc = "Ready" => pc' = "Ready",
           pc' \in Running => pc \in Running
    PROVE  InputPart'
<1>1. BeginIsNext' = BeginIsNext
    BY DEF BeginIsNext
<1>2. TypeOK'
    BY DEF InputPart, TypeOK
<1>3. RunInv'
    BY <1>1 DEF InputPart, InputInv, RunInv
<1>4. Clean' => OrderInv'
    BY <1>1 DEF InputPart, InputInv, OrderInv
<1>5. CountInv'
    BY DEF InputPart, CountInv, ToCome, BeginToCome
<1>6. FirstRunInv'
    BY <1>1 DEF InputPart, FirstRunInv
<1> QED BY <1>2, <1>3, <1>4, <1>5, <1>6 DEF InputPart, InputInv

\* PostRun takes a message away.
LEMMA InputDrained ==
    ASSUME InputPart, DeviceType', DrainReceive
    PROVE  InputPart'
<1>1. TypeOK /\ RunInv /\ (Clean => OrderInv) /\ CountInv /\ FirstRunInv
    BY DEF InputPart, InputInv
<1>2. /\ pc = "Drain" /\ inQ # <<>> /\ inQ' = Tail(inQ)
      /\ UNCHANGED <<pc, run, fNReceived, undrained, fBeginRunData, hasEntry, beginSent, toSend>>
      /\ UNCHANGED <<taken, beginLost>>
    BY DEF DrainReceive, beginRunVars, historyVars
<1>3. /\ inQ' \in Seq(Messages) /\ Len(inQ) \in Nat \ {0} /\ Len(inQ') = Len(inQ) - 1
      /\ OrderInv =>
            /\ ~BeginIsNext'
            /\ \A k \in 1 .. Len(inQ') : inQ'[k].run = run /\ inQ'[k].type = "Event"
    BY <1>1, <1>2, Popped
<1>4. TypeOK'
    BY <1>1, <1>2, <1>3 DEF TypeOK
<1>5. RunInv'
    BY <1>1, <1>2 DEF RunInv
<1>6. Clean' => Clean
    BY <1>2 DEF Clean
<1>7. Clean' => OrderInv'
    BY <1>1, <1>2, <1>3, <1>6 DEF OrderInv, Running
<1>8. CountInv'
    <2>1. Len(inQ') = Len(inQ) - 1 /\ Len(inQ') <= InputLength
        BY <1>1, <1>3, Numbers DEF CountInv
    <2> QED BY <1>1, <1>2, <1>4, <2>1, CountKept
<1>9. FirstRunInv'
    <2>1. run = 1 => Clean
        BY DEF Clean
    <2>2. run = 1 => beginSent'
        BY <1>1, <1>2, <2>1 DEF OrderInv
    <2> QED BY <1>1, <1>2, <1>3, <2>1, <2>2 DEF FirstRunInv, Running
<1> QED BY <1>4, <1>5, <1>7, <1>8, <1>9 DEF InputPart, InputInv

\* HandleDataMT takes an event.
LEMMA InputTaken ==
    ASSUME InputPart, DeviceType', HandleDataMT
    PROVE  InputPart'
<1>1. TypeOK /\ RunInv /\ (Clean => OrderInv) /\ CountInv /\ FirstRunInv
    BY DEF InputPart, InputInv
<1>2. /\ pc = "Run" /\ pc' = "Split" /\ inQ # <<>> /\ Head(inQ).type = "Event"
      /\ inQ' = Tail(inQ)
      /\ taken' = Append(taken, Head(inQ).run) /\ fNReceived' = fNReceived + 1
      /\ UNCHANGED <<run, undrained, fBeginRunData, hasEntry, beginSent, toSend, beginLost>>
    BY DEF HandleDataMT, beginRunVars
<1>3. /\ inQ' \in Seq(Messages) /\ Len(inQ) \in Nat \ {0} /\ Len(inQ') = Len(inQ) - 1
      /\ Head(inQ) = inQ[1] /\ Head(inQ) \in Messages /\ 1 \in 1 .. Len(inQ)
      /\ OrderInv =>
            /\ ~BeginIsNext'
            /\ \A k \in 1 .. Len(inQ') : inQ'[k].run = run /\ inQ'[k].type = "Event"
    BY <1>1, <1>2, Popped
<1>4. ~BeginIsNext /\ (OrderInv => Head(inQ).run = run /\ beginSent)
    BY <1>1, <1>2, <1>3 DEF BeginIsNext, OrderInv
<1>5. PICK r \in Nat : r = Head(inQ).run
    BY <1>3, Bounds DEF Messages, Runs
<1>6. PICK t \in Seq(Nat) : t = taken /\ Len(t) = fNReceived
    BY <1>1 DEF TypeOK
<1>7. /\ Append(t, r) \in Seq(Nat) /\ Len(Append(t, r)) = Len(t) + 1
      /\ Append(t, r)[Len(t) + 1] = r /\ Len(t) \in Nat
      /\ \A k \in 1 .. Len(t) : Append(t, r)[k] = t[k]
    BY AppendProperties, LenProperties
<1>8. taken' = Append(t, r)
    BY <1>2, <1>5, <1>6
<1>9. TypeOK'
    BY <1>2, <1>3, <1>6, <1>7, <1>8 DEF TypeOK
<1>10. RunInv'
    <2>1. fNReceived' > 0
        BY <1>1, <1>2, Numbers
    <2>2. run' # 0
        BY <1>1, <1>2 DEF RunInv
    <2> QED BY <1>2, <2>1, <2>2 DEF RunInv
<1>11. Clean' => Clean
    BY <1>2 DEF Clean
<1>12. OrderInv => \A k \in 1 .. Len(taken') : taken'[k] = run
    <2> SUFFICES ASSUME OrderInv, NEW k \in 1 .. Len(t) + 1 PROVE Append(t, r)[k] = run
        BY <1>7, <1>8
    <2>1. CASE k \in 1 .. Len(t)
        BY <1>6, <1>7, <2>1 DEF OrderInv
    <2>2. CASE k = Len(t) + 1
        BY <1>4, <1>5, <1>7, <2>2
    <2> QED BY <1>7, <2>1, <2>2
<1>13. Clean' => OrderInv'
    <2> SUFFICES ASSUME Clean, OrderInv PROVE OrderInv'
        BY <1>1, <1>11
    <2>1. ~beginLost => hasEntry
        BY <1>2, <1>4 DEF OrderInv, Running
    <2> QED BY <1>2, <1>3, <1>4, <1>12, <2>1 DEF OrderInv
<1>14. CountInv'
    <2>1. Len(inQ') = Len(inQ) - 1 /\ Len(inQ') <= InputLength
        BY <1>1, <1>3, Numbers DEF CountInv
    <2> QED BY <1>1, <1>2, <1>9, <2>1, CountKept
<1>15. FirstRunInv'
    <2>1. run = 1 => OrderInv
        BY <1>1 DEF Clean
    <2> QED BY <1>1, <1>2, <1>3, <1>4, <2>1 DEF FirstRunInv, Running
<1> QED BY <1>9, <1>10, <1>13, <1>14, <1>15 DEF InputPart, InputInv

LEMMA SendBegin ==
    ASSUME InputPart, DeviceType', SenderBegin
    PROVE  InputPart'
<1>1. TypeOK /\ RunInv /\ (Clean => OrderInv) /\ CountInv /\ FirstRunInv
    BY DEF InputPart, InputInv
<1>2. /\ ~beginSent /\ beginSent' /\ Len(inQ) < InputLength
      /\ inQ' = Append(inQ, [type |-> "BeginRun", run |-> run])
      /\ UNCHANGED <<taken, fNReceived, fBeginRunData, hasEntry, undrained, run, toSend, pc>>
      /\ beginLost' = beginLost
    BY DEF SenderBegin, deviceVars, beginRunVars, historyVars
<1>3. run \in Runs
    BY <1>1, <1>2, Bounds DEF RunInv, TypeOK, DeviceType, Runs
<1>4. PICK m \in Messages : m = [type |-> "BeginRun", run |-> run]
    <2>1. [type |-> "BeginRun", run |-> run] \in Messages
        BY <1>3 DEF Messages
    <2> QED BY <2>1
<1>5. m.type = "BeginRun" /\ m.run = run /\ inQ' = Append(inQ, m)
    BY <1>2, <1>4
<1>6. /\ inQ' \in Seq(Messages) /\ inQ' # <<>> /\ Len(inQ') = Len(inQ) + 1
      /\ Len(inQ) \in Nat /\ inQ'[Len(inQ')] = m
      /\ \A k \in 1 .. Len(inQ) : inQ'[k] = inQ[k]
    BY <1>1, <1>5, Pushed
<1>7. OrderInv => inQ = <<>> /\ Len(inQ') = 1 /\ inQ'[1] = m /\ BeginIsNext' /\ fNReceived = 0
    BY <1>2, <1>5, <1>6, EmptySeq DEF OrderInv, BeginIsNext
<1>8. TypeOK'
    BY <1>1, <1>2, <1>6 DEF TypeOK
<1>9. RunInv'
    <2>1. pc # "Begin" \/ BeginIsNext'
        <3>1. inQ # <<>> => 1 \in 1 .. Len(inQ)
            BY <1>1, <1>6, FirstOf DEF TypeOK
        <3> QED BY <1>1, <1>6, <3>1 DEF RunInv, BeginIsNext
    <2> QED BY <1>1, <1>2, <2>1 DEF RunInv
<1>10. Clean' => Clean
    BY <1>2 DEF Clean
<1>11. OrderInv => \A k \in 1 .. Len(inQ') : inQ'[k].run = run /\ ~(k > 1)
    <2> SUFFICES ASSUME OrderInv, NEW k \in 1 .. Len(inQ')
                 PROVE inQ'[k].run = run /\ ~(k > 1)
        OBVIOUS
    <2>1. Len(inQ') = 1 /\ inQ'[1] = m
        BY <1>7
    <2>2. k = 1
        BY <2>1
    <2> QED BY <1>5, <2>1, <2>2
<1>12. Clean' => OrderInv'
    BY <1>1, <1>2, <1>7, <1>10, <1>11 DEF OrderInv
<1>13. CountInv'
    <2>1. Len(inQ') = Len(inQ) + 1 /\ Len(inQ') <= InputLength
        BY <1>1, <1>2, <1>6, Numbers
    <2> QED BY <1>1, <1>2, <1>8, <2>1, CountKept
<1>14. FirstRunInv'
    <2>1. run = 1 => OrderInv
        BY <1>1 DEF Clean
    <2> QED BY <1>1, <1>2, <1>7, <2>1 DEF FirstRunInv
<1> QED BY <1>8, <1>9, <1>12, <1>13, <1>14 DEF InputPart, InputInv

LEMMA SendEvent ==
    ASSUME InputPart, DeviceType', SenderEvent
    PROVE  InputPart'
<1>1. TypeOK /\ RunInv /\ (Clean => OrderInv) /\ CountInv /\ FirstRunInv
    BY DEF InputPart, InputInv
<1>2. /\ beginSent /\ beginSent' /\ Len(inQ) < InputLength
      /\ toSend > 0 /\ toSend' = toSend - 1
      /\ inQ' = Append(inQ, [type |-> "Event", run |-> run])
      /\ UNCHANGED <<taken, fNReceived, fBeginRunData, hasEntry, undrained, run, pc>>
      /\ beginLost' = beginLost
    BY DEF SenderEvent, deviceVars, beginRunVars, historyVars
<1>3. run \in Runs
    BY <1>1, <1>2, Bounds DEF RunInv, TypeOK, DeviceType, Runs
<1>4. PICK m \in Messages : m = [type |-> "Event", run |-> run]
    <2>1. [type |-> "Event", run |-> run] \in Messages
        BY <1>3 DEF Messages
    <2> QED BY <2>1
<1>5. m.type = "Event" /\ m.run = run /\ inQ' = Append(inQ, m)
    BY <1>2, <1>4
<1>6. PICK n \in Nat : n = Len(inQ)
    BY <1>1, Numbers
<1>7. /\ inQ' \in Seq(Messages) /\ inQ' # <<>> /\ Len(inQ') = n + 1 /\ inQ'[n + 1] = m
      /\ \A k \in 1 .. n : inQ'[k] = inQ[k]
    BY <1>1, <1>5, <1>6, Pushed
<1>8. inQ = <<>> <=> n = 0
    BY <1>1, <1>6, EmptySeq DEF TypeOK
<1>9. BeginIsNext' = BeginIsNext
    <2>1. CASE n = 0
        BY <1>5, <1>7, <1>8, <2>1 DEF BeginIsNext
    <2>2. CASE n # 0
        <3>1. 1 \in 1 .. n
            BY <2>2
        <3> QED BY <1>7, <1>8, <2>2, <3>1 DEF BeginIsNext
    <2> QED BY <2>1, <2>2
<1>10. TypeOK'
    BY <1>1, <1>2, <1>7 DEF TypeOK
<1>11. RunInv'
    BY <1>1, <1>2, <1>9, Numbers DEF RunInv
<1>12. Clean' => Clean
    BY <1>2 DEF Clean
<1>13. ASSUME OrderInv, NEW k \in 1 .. n + 1
       PROVE  inQ'[k].run = run /\ (k > 1 => inQ'[k].type = "Event")
    <2>1. CASE k \in 1 .. n
        BY <1>6, <1>7, <1>13, <2>1 DEF OrderInv
    <2>2. CASE k = n + 1
        BY <1>5, <1>7, <2>2
    <2> QED BY <1>13, <2>1, <2>2
<1>14. Clean' => OrderInv'
    BY <1>1, <1>2, <1>7, <1>9, <1>12, <1>13 DEF OrderInv
<1>15. CountInv'
    <2>1. Len(inQ') = Len(inQ) + 1 /\ Len(inQ') <= InputLength
        BY <1>1, <1>2, <1>6, <1>7, Numbers
    <2> QED BY <1>1, <1>2, <1>10, <2>1, CountKept
<1>16. FirstRunInv'
    BY <1>1, <1>2, <1>9 DEF FirstRunInv
<1> QED BY <1>10, <1>11, <1>14, <1>15, <1>16 DEF InputPart, InputInv

LEMMA SendNothing ==
    ASSUME InputPart, DeviceType', SenderBeginLost \/ SenderStop
    PROVE  InputPart'
<1>1. TypeOK /\ RunInv /\ (Clean => OrderInv) /\ CountInv /\ FirstRunInv
    BY DEF InputPart, InputInv
<1>2. /\ UNCHANGED <<inQ, taken, fNReceived, fBeginRunData, hasEntry, undrained, run, pc>>
      /\ beginSent' = TRUE
      /\ toSend' = toSend \/ toSend' = 0
      /\ \/ ~beginSent /\ beginLost' = TRUE
         \/ pc \notin Running /\ beginLost' = beginLost
      /\ ~beginSent \/ toSend > 0
    BY DEF SenderBeginLost, SenderStop, deviceVars, beginRunVars, historyVars
<1>3. BeginIsNext' = BeginIsNext
    BY <1>2 DEF BeginIsNext
<1>4. TypeOK'
    BY <1>1, <1>2 DEF TypeOK
<1>5. RunInv'
    BY <1>1, <1>2, <1>3, Numbers DEF RunInv
<1>6. Clean' => Clean
    BY <1>2 DEF Clean
<1>7. Clean' => OrderInv'
    BY <1>1, <1>2, <1>3, <1>6 DEF OrderInv
<1>8. CountInv'
    <2>1. toSend' <= toSend /\ Len(inQ') <= InputLength
        BY <1>1, <1>2, Numbers DEF CountInv
    <2> QED BY <1>1, <1>2, <1>4, <2>1, CountKept
<1>9. FirstRunInv'
    BY <1>1, <1>2, <1>3 DEF FirstRunInv
<1> QED BY <1>4, <1>5, <1>7, <1>8, <1>9 DEF InputPart, InputInv

\* A run that begins with an empty channel is one whose messages come in order.
LEMMA RunBegins ==
    ASSUME InputPart, DeviceType', PreRun
    PROVE  InputPart'
<1>1. TypeOK /\ RunInv /\ (Clean => OrderInv) /\ CountInv /\ FirstRunInv
    BY DEF InputPart, InputInv
<1>2. /\ pc = "Ready" /\ inQ' = inQ /\ pc' = "Run" /\ run' = run + 1 /\ fNReceived' = 0
      /\ fBeginRunData' = fBeginRunData /\ hasEntry' = hasEntry
      /\ toSend' = MaxEvents /\ beginSent' = FALSE
      /\ taken' = <<>> /\ undrained' = undrained /\ beginLost' = FALSE
    BY DEF PreRun, KeepBeginRunData
<1>3. Len(taken') = 0
    BY <1>2, EmptySeq
<1>4. TypeOK'
    BY <1>1, <1>2, <1>3, EmptySeq DEF TypeOK
<1>5. RunInv'
    BY <1>1, <1>2, Numbers DEF RunInv
<1>6. Clean' => inQ = <<>>
    BY <1>1, <1>2, Numbers DEF Clean, RunInv
<1>7. inQ = <<>> => Len(inQ') = 0 /\ ~BeginIsNext'
    BY <1>2, EmptySeq DEF BeginIsNext
<1>8. Clean' => OrderInv'
    BY <1>2, <1>3, <1>6, <1>7 DEF OrderInv
<1>9. CountInv'
    BY <1>1, <1>2, Numbers DEF CountInv, ToCome, BeginToCome
<1>10. FirstRunInv'
    <2>1. run' = 1 => run = 0
        BY <1>1, <1>2, Numbers
    <2> QED BY <1>1, <1>2, <2>1 DEF FirstRunInv, RunInv
<1> QED BY <1>4, <1>5, <1>8, <1>9, <1>10 DEF InputPart, InputInv

LEMMA BeginRunTaken ==
    ASSUME InputPart, DeviceType', BeginRunStored
    PROVE  InputPart'
<1>1. TypeOK /\ RunInv /\ (Clean => OrderInv) /\ CountInv /\ FirstRunInv
    BY DEF InputPart, InputInv
<1>2. /\ pc = "Begin" /\ pc' = "Run" /\ inQ' = Tail(inQ) /\ inQ # <<>> /\ BeginIsNext
      /\ fBeginRunData' = Append(fBeginRunData, Head(inQ).run) /\ hasEntry' = TRUE
      /\ UNCHANGED <<taken, fNReceived, run, undrained, beginSent, toSend, beginLost>>
    BY <1>1 DEF BeginRunStored, RunInv, BeginIsNext, historyVars
<1>3. /\ inQ' \in Seq(Messages) /\ Len(inQ) \in Nat \ {0} /\ Len(inQ') = Len(inQ) - 1
      /\ Head(inQ) = inQ[1] /\ 1 \in 1 .. Len(inQ)
      /\ OrderInv =>
            /\ ~BeginIsNext'
            /\ \A k \in 1 .. Len(inQ') : inQ'[k].run = run /\ inQ'[k].type = "Event"
    BY <1>1, <1>2, Popped
<1>4. OrderInv => Head(inQ).run = run /\ fNReceived = 0 /\ beginSent
    BY <1>2, <1>3 DEF OrderInv
<1>5. TypeOK'
    BY <1>1, <1>2, <1>3 DEF TypeOK
<1>6. RunInv'
    BY <1>1, <1>2 DEF RunInv
<1>7. Clean' => Clean
    BY <1>2 DEF Clean
<1>8. Clean' => OrderInv'
    BY <1>1, <1>2, <1>3, <1>4, <1>7 DEF OrderInv
<1>9. CountInv'
    <2>1. Len(inQ') = Len(inQ) - 1 /\ Len(inQ') <= InputLength
        BY <1>1, <1>3, Numbers DEF CountInv
    <2> QED BY <1>1, <1>2, <1>5, <2>1, CountKept
<1>10. FirstRunInv'
    <2>1. run = 1 => OrderInv /\ fBeginRunData = <<>>
        BY <1>1, <1>2 DEF FirstRunInv, Clean
    <2>2. run = 1 => fBeginRunData' = <<1>>
        BY <1>2, <1>4, <2>1
    <2> QED BY <1>2, <1>3, <1>4, <2>1, <2>2 DEF FirstRunInv
<1> QED BY <1>5, <1>6, <1>8, <1>9, <1>10 DEF InputPart, InputInv

-----------------------------------------------------------------------------
(* The threads. *)

ThreadsInv == WorkersInv /\ MergerInv

\* Steps of the device and its neighbours: more events may be given and done.
LEMMA ThreadsKept ==
    ASSUME ThreadsInv, Given \subseteq Given', Done \subseteq Done',
           UNCHANGED <<fSplitter, job, fMergerCh, worker, merger, fNOutput, outgoing, sent>>
    PROVE  ThreadsInv'
<1>1. fSplitter' \in [Workers -> Seq(Given')] /\ job' \in [Workers -> Seq(Given')]
    BY SeqOfMore DEF ThreadsInv, WorkersInv
<1>2. fMergerCh' \in [Workers -> Seq(Done')]
    BY SeqOfMore DEF ThreadsInv, WorkersInv
<1>3. outgoing' \in Seq(Done') /\ sent' \in Seq(Done')
    BY SeqOfMore DEF ThreadsInv, MergerInv
<1>4. \A i \in Workers : worker[i] = "Send" => job[i] \in Seq(Done')
    BY SeqOfMore DEF ThreadsInv, WorkersInv
<1>5. WorkersInv'
    BY <1>1, <1>2, <1>4 DEF ThreadsInv, WorkersInv
<1>6. MergerInv'
    BY <1>3 DEF ThreadsInv, MergerInv
<1> QED BY <1>5, <1>6 DEF ThreadsInv

\* The events given and done, when no event was given and none unpacked.
LEMMA SameNumbers ==
    ASSUME TypeOK, TypeOK', UNCHANGED used, pc = "Split" => fNReceived > 0,
           \/ UNCHANGED fNReceived /\ (pc' = "Split" => pc = "Split")
           \/ fNReceived' = fNReceived + 1 /\ pc' = "Split" /\ pc # "Split"
    PROVE  Given \subseteq Given' /\ Done \subseteq Done'
<1>1. PICK n \in Nat : n = fNReceived
    BY DEF TypeOK, DeviceType
<1>2. Given \subseteq Given'
    <2>1. CASE UNCHANGED fNReceived /\ (pc' = "Split" => pc = "Split")
        BY <1>1, <2>1 DEF Given
    <2>2. CASE fNReceived' = fNReceived + 1 /\ pc' = "Split" /\ pc # "Split"
        BY <1>1, <2>2 DEF Given
    <2> QED BY <2>1, <2>2
<1> QED BY <1>2 DEF Done

LEMMA SplitStep ==
    ASSUME TypeOK, TypeOK', ThreadsInv, SplitSend, fNReceived > 0
    PROVE  ThreadsInv'
<1>1. PICK n \in Nat : n = fNReceived - 1
    BY DEF TypeOK, DeviceType
<1>2. n = InHand /\ fNReceived = n + 1
    BY <1>1 DEF InHand, TypeOK, DeviceType
<1>3. PICK i \in Workers : i = SplitTo
    BY <1>2, TurnIsWorker DEF SplitTo
<1>4. /\ fSplitter' = [fSplitter EXCEPT ![i] = Append(@, n)]
      /\ UNCHANGED <<job, fMergerCh, worker, merger, fNOutput, outgoing, sent, used>>
      /\ pc = "Split" /\ pc' = "Run" /\ fNReceived' = fNReceived
    BY <1>2, <1>3 DEF SplitSend, Split, threads, outputVars, historyVars
<1>5. Given = 0 .. n - 1 /\ Given' = 0 .. n
    BY <1>2, <1>4 DEF Given
<1>6. Given \subseteq Given' /\ n \in Given'
    BY <1>5
<1>7. Done \subseteq Done'
    BY <1>4, <1>6 DEF Done
<1>8. fSplitter' \in [Workers -> Seq(Given')]
    <2>1. \A j \in Workers : fSplitter[j] \in Seq(Given')
        BY <1>6, SeqOfMore DEF ThreadsInv, WorkersInv
    <2>2. Append(fSplitter[i], n) \in Seq(Given')
        BY <1>6, <2>1, AppendProperties
    <2>3. fSplitter \in [Workers -> Seq(Given)]
        BY DEF ThreadsInv, WorkersInv
    <2> HIDE DEF Given
    <2> QED BY <1>4, <2>1, <2>2, <2>3
<1>9. job' \in [Workers -> Seq(Given')] /\ fMergerCh' \in [Workers -> Seq(Done')]
    BY <1>4, <1>6, <1>7, SeqOfMore DEF ThreadsInv, WorkersInv
<1>10. outgoing' \in Seq(Done') /\ sent' \in Seq(Done')
    BY <1>4, <1>7, SeqOfMore DEF ThreadsInv, MergerInv
<1>11. \A j \in Workers : worker'[j] = "Send" => job'[j] \in Seq(Done')
    BY <1>4, <1>7, SeqOfMore DEF ThreadsInv, WorkersInv
<1>12. WorkersInv'
    BY <1>4, <1>8, <1>9, <1>11 DEF ThreadsInv, WorkersInv
<1>13. MergerInv'
    BY <1>4, <1>10 DEF ThreadsInv, MergerInv
<1> QED BY <1>12, <1>13 DEF ThreadsInv

LEMMA ThreadsBegin == ASSUME PreRun PROVE ThreadsInv'
<1>1. /\ fSplitter' = NoMessage /\ job' = NoMessage /\ fMergerCh' = NoMessage
      /\ fNOutput' = 0 /\ worker' = [i \in Workers |-> "Recv"] /\ merger' = "Recv"
      /\ outgoing' = <<>> /\ sent' = <<>>
    BY DEF PreRun, InitChannels, RunThreads
<1>2. /\ NoMessage \in [Workers -> Seq(Given')] /\ NoMessage \in [Workers -> Seq(Done')]
      /\ \A i \in Workers : NoMessage[i] = <<>>
    BY Emptiness DEF NoMessage
<1>3. <<>> \in Seq(Done') /\ Len(<<>>) = 0
    BY Emptiness
<1>4. WorkersInv'
    BY <1>1, <1>2, <1>3 DEF WorkersInv
<1>5. MergerInv'
    BY <1>1, <1>3 DEF MergerInv
<1> QED BY <1>4, <1>5 DEF ThreadsInv

\* A step of a worker on its own channels, its message and its state.
LEMMA WorkerMoves ==
    ASSUME ThreadsInv, NEW i \in Workers, Given' = Given, Done \subseteq Done',
           fSplitter' = [fSplitter EXCEPT ![i] = fSplitter'[i]],
           job' = [job EXCEPT ![i] = job'[i]],
           fMergerCh' = [fMergerCh EXCEPT ![i] = fMergerCh'[i]],
           worker' = [worker EXCEPT ![i] = worker'[i]],
           fSplitter'[i] \in Seq(Given), job'[i] \in Seq(Given), fMergerCh'[i] \in Seq(Done'),
           worker'[i] \in {"Off", "Recv", "Work", "Send"}, Len(job'[i]) <= 1,
           worker'[i] \in {"Off", "Recv"} <=> job'[i] = <<>>,
           worker'[i] = "Send" => job'[i] \in Seq(Done'),
           UNCHANGED <<merger, fNOutput, outgoing, sent>>
    PROVE  ThreadsInv'
<1>1. /\ fSplitter \in [Workers -> Seq(Given)] /\ job \in [Workers -> Seq(Given)]
      /\ worker \in [Workers -> {"Off", "Recv", "Work", "Send"}]
      /\ fMergerCh \in [Workers -> Seq(Done)]
    BY DEF ThreadsInv, WorkersInv
<1>2. fSplitter' \in [Workers -> Seq(Given')] /\ job' \in [Workers -> Seq(Given')]
    BY <1>1
<1>3. fMergerCh' \in [Workers -> Seq(Done')]
    <2>1. \A k \in Workers : fMergerCh[k] \in Seq(Done')
        BY <1>1, SeqOfMore
    <2> QED BY <1>1, <2>1
<1>4. worker' \in [Workers -> {"Off", "Recv", "Work", "Send"}]
    BY <1>1
<1>5. ASSUME NEW k \in Workers
      PROVE  /\ Len(job'[k]) <= 1
             /\ worker'[k] \in {"Off", "Recv"} <=> job'[k] = <<>>
             /\ worker'[k] = "Send" => job'[k] \in Seq(Done')
    <2>1. CASE k = i
        BY <1>1, <2>1
    <2>2. CASE k # i
        <3>1. job'[k] = job[k] /\ worker'[k] = worker[k]
            BY <1>1, <2>2
        <3> QED BY <3>1, SeqOfMore DEF ThreadsInv, WorkersInv
    <2> QED BY <2>1, <2>2
<1>6. WorkersInv'
    BY <1>2, <1>3, <1>4, <1>5 DEF WorkersInv
<1>7. outgoing' \in Seq(Done') /\ sent' \in Seq(Done')
    BY SeqOfMore DEF ThreadsInv, MergerInv
<1>8. MergerInv'
    BY <1>7 DEF ThreadsInv, MergerInv
<1> QED BY <1>6, <1>8 DEF ThreadsInv

LEMMA ReceiveStep ==
    ASSUME TypeOK, ThreadsInv, NEW i \in Workers, ReceiveInput(i)
    PROVE  ThreadsInv'
<1>1. /\ fSplitter \in [Workers -> Seq(Given)] /\ job \in [Workers -> Seq(Given)]
      /\ worker \in [Workers -> {"Off", "Recv", "Work", "Send"}]
      /\ fMergerCh \in [Workers -> Seq(Done)]
    BY DEF ThreadsInv, WorkersInv
<1>2. /\ UNCHANGED <<pc, fNReceived, used, fMergerCh, merger, fNOutput, outgoing, sent>>
      /\ fSplitter[i] # <<>>
      /\ fSplitter' = [fSplitter EXCEPT ![i] = Tail(fSplitter[i])]
      /\ job' = [job EXCEPT ![i] = <<Head(fSplitter[i])>>]
      /\ worker' = [worker EXCEPT ![i] = "Work"]
    BY DEF ReceiveInput, WorkerReceive, deviceVars, outputVars, historyVars
<1>3. Given' = Given /\ Done' = Done
    BY <1>2 DEF Given, Done
<1>4. Head(fSplitter[i]) \in Given /\ Tail(fSplitter[i]) \in Seq(Given)
    <2>1. fSplitter[i] \in Seq(Given)
        BY <1>1
    <2> QED BY <1>2, <2>1, FirstOf
<1>5. PICK x \in Given : x = Head(fSplitter[i])
    BY <1>4
<1>6. <<x>> \in Seq(Given) /\ Len(<<x>>) = 1 /\ <<x>> # <<>>
    OBVIOUS
<1>7. /\ fSplitter'[i] = Tail(fSplitter[i]) /\ job'[i] = <<x>> /\ worker'[i] = "Work"
      /\ fMergerCh'[i] = fMergerCh[i]
    BY <1>1, <1>2, <1>5
<1>8. /\ fSplitter' = [fSplitter EXCEPT ![i] = fSplitter'[i]]
      /\ job' = [job EXCEPT ![i] = job'[i]]
      /\ fMergerCh' = [fMergerCh EXCEPT ![i] = fMergerCh'[i]]
      /\ worker' = [worker EXCEPT ![i] = worker'[i]]
    BY <1>1, <1>2, <1>5, <1>7
<1>9. fMergerCh'[i] \in Seq(Done')
    BY <1>1, <1>3, <1>7
<1>10. /\ fSplitter'[i] \in Seq(Given) /\ job'[i] \in Seq(Given)
       /\ worker'[i] \in {"Off", "Recv", "Work", "Send"} /\ Len(job'[i]) <= 1
       /\ worker'[i] \in {"Off", "Recv"} <=> job'[i] = <<>>
       /\ worker'[i] = "Send" => job'[i] \in Seq(Done')
       /\ Done \subseteq Done'
    BY <1>3, <1>4, <1>6, <1>7
<1> QED BY <1>2, <1>3, <1>8, <1>9, <1>10, WorkerMoves

LEMMA EndStep ==
    ASSUME TypeOK, ThreadsInv, NEW i \in Workers, EndWorker(i)
    PROVE  ThreadsInv'
<1>1. /\ fSplitter \in [Workers -> Seq(Given)] /\ job \in [Workers -> Seq(Given)]
      /\ worker \in [Workers -> {"Off", "Recv", "Work", "Send"}]
      /\ fMergerCh \in [Workers -> Seq(Done)]
      /\ worker[i] \in {"Off", "Recv"} => job[i] = <<>>
    BY DEF ThreadsInv, WorkersInv
<1>2. /\ UNCHANGED <<pc, fNReceived, used, fSplitter, job, fMergerCh>>
      /\ UNCHANGED <<merger, fNOutput, outgoing, sent>>
      /\ worker[i] = "Recv" /\ worker' = [worker EXCEPT ![i] = "Off"]
    BY DEF EndWorker, WorkerEnd, channels, deviceVars, outputVars, historyVars
<1>3. Given' = Given /\ Done' = Done
    BY <1>2 DEF Given, Done
<1>4. worker'[i] = "Off" /\ job'[i] = <<>> /\ job'[i] \in Seq(Given) /\ Len(job'[i]) = 0
    BY <1>1, <1>2, Emptiness
<1>5. /\ fSplitter' = [fSplitter EXCEPT ![i] = fSplitter'[i]]
      /\ job' = [job EXCEPT ![i] = job'[i]]
      /\ fMergerCh' = [fMergerCh EXCEPT ![i] = fMergerCh'[i]]
      /\ worker' = [worker EXCEPT ![i] = worker'[i]]
    BY <1>1, <1>2
<1>6. fSplitter'[i] \in Seq(Given) /\ fMergerCh'[i] \in Seq(Done')
    BY <1>1, <1>2, <1>3
<1>7. /\ worker'[i] \in {"Off", "Recv", "Work", "Send"} /\ Len(job'[i]) <= 1
      /\ worker'[i] \in {"Off", "Recv"} <=> job'[i] = <<>>
      /\ worker'[i] = "Send" => job'[i] \in Seq(Done')
      /\ Done \subseteq Done'
    BY <1>3, <1>4
<1> QED BY <1>2, <1>3, <1>4, <1>5, <1>6, <1>7, WorkerMoves

\* An event that was given has its place in used.
LEMMA GivenIsEvent ==
    ASSUME TypeOK, CountInv, NEW n \in Given
    PROVE  n \in Events
<1>1. n \in Nat /\ n <= fNReceived - 1
    BY Numbers DEF Given
<1>2. n <= MaxEvents + InputLength
    BY <1>1, Numbers DEF CountInv, ToCome
<1> QED BY <1>1, <1>2, Numbers DEF Events

\* Who works has an event.
LEMMA WorkIsGiven ==
    ASSUME TypeOK, ThreadsInv, NEW i \in Workers, worker[i] = "Work"
    PROVE  fNReceived > 0
<1>1. job[i] \in Seq(Given) /\ job[i] # <<>>
    BY DEF ThreadsInv, WorkersInv
<1>2. Head(job[i]) \in Given
    BY <1>1, FirstOf
<1> QED BY <1>2, Numbers DEF Given

\* Nobody is in another's way if nothing was left behind, as long as the
\* begin-run data were not given up.
LEMMA CleanIsNoRace ==
    ASSUME TypeOK, InputInv, ThreadsInv, Clean
    PROVE  ~StoringRace /\ (InsertingRace => beginLost)
<1>1. OrderInv /\ RunInv
    BY DEF InputInv
<1>2. ~StoringRace
    <2>1. pc = "Begin" => fNReceived = 0
        BY <1>1 DEF OrderInv, RunInv
    <2> QED BY <2>1, WorkIsGiven DEF StoringRace
<1>3. InsertingRace => beginLost
    BY <1>1, WorkIsGiven DEF InsertingRace, OrderInv
<1> QED BY <1>2, <1>3

LEMMA ConvertStep ==
    ASSUME TypeOK, CountInv, ThreadsInv, NEW i \in Workers, Convert(i)
    PROVE  /\ ThreadsInv'
           /\ \E n \in Given \cap Events, b \in Unpacked : used' = [used EXCEPT ![n] = b]
           /\ Unpacked \subseteq Nat
<1>1. /\ fSplitter \in [Workers -> Seq(Given)] /\ job \in [Workers -> Seq(Given)]
      /\ worker \in [Workers -> {"Off", "Recv", "Work", "Send"}]
      /\ fMergerCh \in [Workers -> Seq(Done)]
      /\ worker[i] \notin {"Off", "Recv"} => job[i] # <<>>
      /\ Len(job[i]) <= 1
    BY DEF ThreadsInv, WorkersInv
<1>2. /\ UNCHANGED <<pc, fNReceived, fSplitter, job, fMergerCh>>
      /\ UNCHANGED <<merger, fNOutput, outgoing, sent>>
      /\ worker[i] = "Work" /\ worker' = [worker EXCEPT ![i] = "Send"]
      /\ \E b \in Unpacked : used' = [used EXCEPT ![Head(job[i])] = b]
    BY DEF Convert, WorkerResult, channels, outputVars
<1>3. Given' = Given
    BY <1>2 DEF Given
<1>4. PICK s \in Seq(Given) : s = job[i]
    BY <1>1
<1>5. s # <<>> /\ Len(s) <= 1
    BY <1>1, <1>2, <1>4
<1>6. Head(s) \in Given /\ Head(s) = s[1] /\ Len(s) = 1
    <2>1. Head(s) \in Given /\ Head(s) = s[1] /\ Len(s) \in Nat \ {0}
        BY <1>5, FirstOf
    <2>2. PICK n \in Nat \ {0} : n = Len(s)
        BY <2>1
    <2>3. n <= 1
        BY <1>5, <2>2
    <2>4. n = 1
        BY <2>3
    <2> QED BY <2>1, <2>2, <2>4
<1>7. PICK n \in Given : n = Head(s)
    BY <1>6
<1>8. n \in Events
    BY GivenIsEvent
<1>9. FirstBeginRun \in Nat
    <2>1. CASE fBeginRunData = <<>>
        BY <2>1 DEF FirstBeginRun, NoData
    <2>2. CASE fBeginRunData # <<>>
        <3>1. fBeginRunData[1] \in Runs
            BY <2>2, FirstOf DEF TypeOK, DeviceType
        <3> QED BY <2>2, <3>1, Bounds DEF FirstBeginRun, Runs
    <2> QED BY <2>1, <2>2
<1>17. Unpacked \subseteq Nat
    BY <1>9, Bounds DEF Unpacked, NoData, Runs
<1>10. PICK b \in Unpacked : used' = [used EXCEPT ![n] = b]
    BY <1>2, <1>4, <1>7
<1>11. used \in [Events -> Nat \cup {NotYet}]
    BY DEF TypeOK, DeviceType
<1>12. Done \subseteq Done' /\ n \in Done'
    BY <1>3, <1>8, <1>10, <1>11, <1>17 DEF Done, NotYet
<1>13. job'[i] = s /\ worker'[i] = "Send" /\ s \in Seq(Done')
    <2>1. \A k \in 1 .. Len(s) : s[k] \in Done'
        BY <1>6, <1>7, <1>12
    <2>2. s \in Seq(Done')
        BY <2>1, SeqMonotonic
    <2> QED BY <1>1, <1>2, <1>4, <2>2
<1>14. /\ fSplitter' = [fSplitter EXCEPT ![i] = fSplitter'[i]]
       /\ job' = [job EXCEPT ![i] = job'[i]]
       /\ fMergerCh' = [fMergerCh EXCEPT ![i] = fMergerCh'[i]]
       /\ worker' = [worker EXCEPT ![i] = worker'[i]]
    BY <1>1, <1>2
<1>15. fSplitter'[i] \in Seq(Given) /\ fMergerCh'[i] \in Seq(Done')
    BY <1>1, <1>2, <1>12, SeqOfMore
<1>16. ThreadsInv'
    BY <1>2, <1>3, <1>5, <1>12, <1>13, <1>14, <1>15, WorkerMoves
<1> QED BY <1>7, <1>8, <1>10, <1>16, <1>17

LEMMA SendStep ==
    ASSUME TypeOK, ThreadsInv, NEW i \in Workers, ConvertSend(i) \/ ConvertTimeout(i)
    PROVE  ThreadsInv'
<1>1. /\ fSplitter \in [Workers -> Seq(Given)] /\ job \in [Workers -> Seq(Given)]
      /\ worker \in [Workers -> {"Off", "Recv", "Work", "Send"}]
      /\ fMergerCh \in [Workers -> Seq(Done)]
      /\ worker[i] = "Send" => job[i] \in Seq(Done)
    BY DEF ThreadsInv, WorkersInv
<1>2. /\ UNCHANGED <<pc, fNReceived, used, fSplitter, merger, fNOutput, outgoing, sent>>
      /\ worker[i] = "Send" /\ worker' = [worker EXCEPT ![i] = LoopTop]
      /\ job' = [job EXCEPT ![i] = <<>>]
      /\ \/ fMergerCh' = fMergerCh
         \/ fMergerCh' = [fMergerCh EXCEPT ![i] = fMergerCh[i] \o job[i]]
    <2>1. CASE ConvertSend(i)
        BY <2>1 DEF ConvertSend, WorkerSend, deviceVars, outputVars, historyVars
    <2>2. CASE ConvertTimeout(i)
        BY <2>2 DEF ConvertTimeout, WorkerTimeout, WorkerReturn, deviceVars, outputVars
    <2> QED BY <2>1, <2>2
<1>3. Given' = Given /\ Done' = Done
    BY <1>2 DEF Given, Done
<1>4. LoopTop \in {"Off", "Recv"}
    BY DEF LoopTop
<1>5. /\ fSplitter'[i] \in Seq(Given) /\ job'[i] = <<>> /\ worker'[i] = LoopTop
      /\ fSplitter' = [fSplitter EXCEPT ![i] = fSplitter'[i]]
      /\ job' = [job EXCEPT ![i] = job'[i]]
      /\ worker' = [worker EXCEPT ![i] = worker'[i]]
    BY <1>1, <1>2
<1>6. fMergerCh[i] \o job[i] \in Seq(Done)
    BY <1>1, <1>2, ConcatProperties
<1>7. /\ fMergerCh' = [fMergerCh EXCEPT ![i] = fMergerCh'[i]]
      /\ fMergerCh'[i] \in Seq(Done)
    BY <1>1, <1>2, <1>6
<1>8. /\ job'[i] \in Seq(Given) /\ Len(job'[i]) <= 1 /\ fMergerCh'[i] \in Seq(Done')
      /\ worker'[i] \in {"Off", "Recv", "Work", "Send"}
      /\ worker'[i] \in {"Off", "Recv"} <=> job'[i] = <<>>
      /\ worker'[i] = "Send" => job'[i] \in Seq(Done')
      /\ Done \subseteq Done'
    BY <1>3, <1>4, <1>5, <1>7, Emptiness
<1> QED BY <1>2, <1>3, <1>5, <1>7, <1>8, WorkerMoves

LEMMA MergerStep ==
    ASSUME TypeOK, ThreadsInv, MergeReceive \/ SendData \/ SendInterrupted \/ EndMerger
    PROVE  ThreadsInv'
<1>1. /\ fMergerCh \in [Workers -> Seq(Done)]
      /\ outgoing \in Seq(Done) /\ sent \in Seq(Done) /\ fNOutput \in Nat
    BY DEF ThreadsInv, WorkersInv, MergerInv
<1>2. UNCHANGED <<pc, fNReceived, used, fSplitter, job, worker>>
    <2>1. CASE MergeReceive
        BY <2>1 DEF MergeReceive, MergerReceive, deviceVars, historyVars
    <2>2. CASE SendData \/ SendInterrupted
        BY <2>2 DEF SendData, SendInterrupted, SendDone, channels, deviceVars, historyVars
    <2>3. CASE EndMerger
        BY <2>3 DEF EndMerger, MergerEnd, channels, deviceVars, historyVars
    <2> QED BY <2>1, <2>2, <2>3
<1>3. Given' = Given /\ Done' = Done
    BY <1>2 DEF Given, Done
<1>4. /\ fMergerCh' \in [Workers -> Seq(Done)] /\ fNOutput' \in Nat
      /\ outgoing' \in Seq(Done) /\ sent' \in Seq(Done)
      /\ merger' \in {"Off", "Recv", "Send"}
    <2>1. CASE MergeReceive
        <3>1. PICK i \in Workers : i = Turn
            BY <1>1, TurnIsWorker DEF Turn
        <3>2. /\ fMergerCh[i] # <<>> /\ fMergerCh' = [fMergerCh EXCEPT ![i] = Tail(fMergerCh[i])]
              /\ fNOutput' = fNOutput + 1 /\ merger' = "Send"
              /\ outgoing' = <<Head(fMergerCh[i])>> /\ sent' = sent
            BY <2>1, <3>1 DEF MergeReceive, MergerReceive
        <3>3. Head(fMergerCh[i]) \in Done /\ Tail(fMergerCh[i]) \in Seq(Done)
            <4>1. fMergerCh[i] \in Seq(Done)
                BY <1>1
            <4> QED BY <3>2, <4>1, FirstOf
        <3>4. fMergerCh' \in [Workers -> Seq(Done)]
            BY <1>1, <3>2, <3>3
        <3>5. outgoing' \in Seq(Done)
            <4>1. PICK x \in Done : x = Head(fMergerCh[i])
                BY <3>3
            <4>2. <<x>> \in Seq(Done)
                OBVIOUS
            <4> QED BY <3>2, <4>1, <4>2
        <3> QED BY <1>1, <3>2, <3>4, <3>5
    <2>2. CASE SendData \/ SendInterrupted
        <3>1. /\ fMergerCh' = fMergerCh /\ fNOutput' = fNOutput
              /\ outgoing' = <<>> /\ (sent' = sent \/ sent' = sent \o outgoing)
              /\ merger' = LoopTop
            BY <2>2 DEF SendData, SendInterrupted, SendDone, channels
        <3>2. sent \o outgoing \in Seq(Done)
            BY <1>1, ConcatProperties
        <3>3. LoopTop \in {"Off", "Recv"}
            BY DEF LoopTop
        <3> QED BY <1>1, <3>1, <3>2, <3>3, Emptiness
    <2>3. CASE EndMerger
        BY <1>1, <2>3 DEF EndMerger, MergerEnd, channels, outputVars
    <2> QED BY <2>1, <2>2, <2>3
<1>5. WorkersInv'
    BY <1>2, <1>3, <1>4 DEF ThreadsInv, WorkersInv
<1>6. MergerInv'
    BY <1>3, <1>4 DEF MergerInv
<1> QED BY <1>5, <1>6 DEF ThreadsInv

-----------------------------------------------------------------------------
(* What the events are unpacked with. *)

LEMMA UsedKept ==
    ASSUME UsedInv, UNCHANGED <<used, run, fBeginRunData, corrupt>>, beginLost => beginLost'
    PROVE  UsedInv'
BY DEF UsedInv

LEMMA UsedConvert ==
    ASSUME TypeOK, InputInv, FirstRunInv, ThreadsInv, UsedInv, NEW n \in Given,
           NEW b \in Unpacked, used' = [used EXCEPT ![n] = b], corrupt' = (corrupt \/ Race),
           UNCHANGED <<run, fBeginRunData, beginLost>>
    PROVE  UsedInv'
<1>1. used \in [Events -> Nat \cup {NotYet}] /\ fNReceived \in Nat
    BY DEF TypeOK, DeviceType
<1>2. fNReceived > 0
    BY <1>1 DEF Given
<1>3. 0 \notin Runs
    BY DEF Runs
<1>4. run <= 1 /\ ~beginLost => ~corrupt'
    BY CleanIsNoRace DEF UsedInv, Clean, Race
<1>5. ~corrupt' => b = FirstBeginRun
    BY DEF Unpacked
<1>6. ~corrupt' /\ b \in Runs => fBeginRunData # <<>> /\ b = fBeginRunData[1]
    BY <1>3, <1>5 DEF FirstBeginRun, NoData
<1>7. run = 1 /\ ~beginLost => b = 1
    <2> SUFFICES ASSUME run = 1, ~beginLost PROVE FirstBeginRun = 1
        BY <1>4, <1>5
    <2>1. fBeginRunData = <<1>>
        BY <1>2 DEF FirstRunInv
    <2>2. <<1>> # <<>> /\ <<1>>[1] = 1
        OBVIOUS
    <2> QED BY <2>1, <2>2 DEF FirstBeginRun
<1>8. ASSUME NEW e \in Events
      PROVE  /\ ~corrupt' /\ used'[e] \in Runs => fBeginRunData # <<>> /\ used'[e] = fBeginRunData[1]
             /\ (run = 1 /\ ~beginLost /\ used'[e] # NotYet) => used'[e] = 1
    <2>1. CASE e = n
        BY <1>1, <1>6, <1>7, <2>1
    <2>2. CASE e # n
        <3>1. used'[e] = used[e]
            BY <1>1, <2>2
        <3> QED BY <3>1 DEF UsedInv
    <2> QED BY <2>1, <2>2
<1> QED BY <1>4, <1>8 DEF UsedInv

\* New begin-run data go behind those that are there.
LEMMA UsedStored ==
    ASSUME TypeOK, InputInv, ThreadsInv, UsedInv, NEW r \in Runs,
           fBeginRunData' = Append(fBeginRunData, r), corrupt' = (corrupt \/ Race),
           UNCHANGED <<used, run, beginLost>>
    PROVE  UsedInv'
<1>1. PICK b \in Seq(Runs) : b = fBeginRunData
    BY DEF TypeOK, DeviceType
<1>2. b # <<>> => 1 \in 1 .. Len(b)
    BY FirstOf
<1>3. /\ Append(b, r) # <<>>
      /\ b # <<>> => Append(b, r)[1] = b[1]
    BY <1>2, AppendProperties
<1>4. fBeginRunData' = Append(b, r)
    BY <1>1
<1>5. run <= 1 /\ ~beginLost => ~corrupt'
    BY CleanIsNoRace DEF UsedInv, Clean, Race
<1> QED BY <1>1, <1>3, <1>4, <1>5 DEF UsedInv

LEMMA UsedBegin == ASSUME TypeOK, RunInv, UsedInv, PreRun PROVE UsedInv'
<1>1. /\ used' = [n \in Events |-> NotYet] /\ run' = run + 1 /\ corrupt' = corrupt
      /\ beginLost' = FALSE
    BY DEF PreRun
<1>2. NotYet \notin Runs
    BY DEF NotYet, Runs
<1>3. run' <= 1 => ~corrupt'
    BY <1>1, Numbers DEF RunInv, UsedInv
<1> QED BY <1>1, <1>2, <1>3 DEF UsedInv

\* A worker that has ended does not begin again before the next run.
LEMMA JoinStep ==
    ASSUME WorkersInv, JoinInv, [Next]_vars
    PROVE  JoinInv'
<1>1. worker \in [Workers -> {"Off", "Recv", "Work", "Send"}]
    BY DEF WorkersInv
<1>2. CASE JoinDone
    BY <1>2 DEF JoinDone, Joined, JoinInv, taskVars, threads
<1>3. CASE PreRun
    BY <1>3 DEF PreRun, JoinInv
<1>4. ASSUME NEW i \in Workers, Worker(i) PROVE JoinInv'
    <2>1. pc' = pc /\ worker[i] # "Off"
        BY <1>4 DEF Worker, ReceiveInput, EndWorker, Convert, ConvertSend, ConvertTimeout,
            WorkerReceive, WorkerEnd, WorkerResult, WorkerSend, WorkerTimeout, deviceVars
    <2> QED BY <2>1 DEF JoinInv
<1>5. CASE \/ SenderBegin \/ SenderBeginLost \/ SenderEvent \/ SenderStop
           \/ OutputTake \/ StopRequest \/ BeginRunData \/ BeginRunStored
           \/ HandleDataMT \/ SplitSend \/ SplitGiveUp
    BY <1>5 DEF SenderBegin, SenderBeginLost, SenderEvent, SenderStop, OutputTake, StopRequest,
        BeginRunData, BeginRunStored, HandleDataMT, SplitSend, SplitGiveUp, JoinInv, taskVars,
        threads, deviceVars
<1>6. CASE \/ RunExit \/ DrainReceive \/ DrainEnd \/ UNCHANGED vars
           \/ MergeReceive \/ SendData \/ SendInterrupted \/ EndMerger
    BY <1>6 DEF RunExit, DrainReceive, DrainEnd, DrainOver, MergeReceive, MergerReceive, SendData,
        SendInterrupted, SendDone, EndMerger, MergerEnd, JoinInv, vars, taskVars, threads,
        deviceVars
<1> QED BY <1>2, <1>3, <1>4, <1>5, <1>6 DEF Next, Worker, Finished

-----------------------------------------------------------------------------
(* Types. *)

LEMMA TypeStep ==
    ASSUME TypeOK, CountInv, InputInv, ThreadsInv, [Next]_vars
    PROVE  DeviceType'
<1>1. DeviceType
    BY DEF TypeOK
<1>2. CASE SenderBegin
    BY <1>1, <1>2 DEF SenderBegin, DeviceType, taskVars, deviceVars, beginRunVars, outputVars, historyVars
<1>20. CASE SenderBeginLost
    BY <1>1, <1>20 DEF SenderBeginLost, DeviceType, taskVars, deviceVars, beginRunVars, outputVars
<1>21. CASE SenderStop
    BY <1>1, <1>21 DEF SenderStop, DeviceType, taskVars, deviceVars, beginRunVars, outputVars, historyVars
<1>22. CASE OutputTake
    <2>1. outQ \in Nat /\ outQ > 0 /\ outQ' = outQ - 1
        BY <1>1, <1>22 DEF OutputTake, DeviceType
    <2>2. outQ' \in Nat
        BY <2>1
    <2> QED BY <1>1, <1>22, <2>2 DEF OutputTake, DeviceType, taskVars, deviceVars, beginRunVars, senderVars,
            historyVars
<1>23. CASE StopRequest
    BY <1>1, <1>23 DEF StopRequest, DeviceType, deviceVars, beginRunVars, senderVars, outputVars, historyVars
<1>3. CASE SenderEvent
    BY <1>1, <1>3 DEF SenderEvent, DeviceType, taskVars, deviceVars, beginRunVars, outputVars, historyVars
<1>4. CASE PreRun
    <2>1. run' \in 0 .. MaxRuns /\ MaxEvents \in Nat
        BY <1>1, <1>4, Bounds DEF PreRun, DeviceType
    <2>2. used' \in [Events -> Nat \cup {NotYet}]
        BY <1>4 DEF PreRun
    <2> QED BY <1>1, <1>4, <2>1, <2>2 DEF PreRun, KeepBeginRunData, DeviceType
<1>5. CASE BeginRunData \/ SplitSend \/ SplitGiveUp \/ RunExit \/ JoinDone \/ DrainReceive \/ DrainEnd
    <2>1. /\ UNCHANGED <<run, fNReceived, fBeginRunData, hasEntry, corrupt, timeoutEnds>>
          /\ UNCHANGED <<beginSent, toSend, outQ, used, beginLost, timedOut>>
          /\ pc' \in {"Ready", "Run", "Begin", "Split", "Join", "Drain"}
        BY <1>1, <1>5 DEF BeginRunData, SplitSend, SplitGiveUp, RunExit, JoinDone, DrainReceive,
            DrainEnd, DrainOver, DeviceType, beginRunVars, senderVars, outputVars, historyVars
    <2>2. statePending' \in BOOLEAN
        BY <1>1, <1>5 DEF BeginRunData, SplitSend, SplitGiveUp, RunExit, JoinDone, DrainReceive,
            DrainEnd, DrainOver, DeviceType, taskVars
    <2>3. tries' = tries \/ tries' = tries + 1
        BY <1>5 DEF BeginRunData, SplitSend, SplitGiveUp, RunExit, JoinDone, DrainReceive,
            DrainEnd, DrainOver
    <2>4. \/ undrained' = undrained
          \/ undrained' = (toSend > 0 \/ ~beginSent \/ tries = DrainTries)
        BY <1>5 DEF BeginRunData, SplitSend, SplitGiveUp, RunExit, JoinDone, DrainReceive,
            DrainEnd, DrainOver
    <2>5. tries' \in Nat
        BY <1>1, <2>3 DEF DeviceType
    <2>6. undrained' \in BOOLEAN
        BY <1>1, <2>4, Zenon DEF DeviceType
    <2> QED BY <1>1, <2>1, <2>2, <2>5, <2>6 DEF DeviceType
<1>6. CASE BeginRunStored
    <2>1. inQ \in Seq(Messages) /\ inQ # <<>>
        BY <1>6 DEF BeginRunStored, TypeOK, InputInv, RunInv, BeginIsNext
    <2>5. Head(inQ) \in Messages
        BY <2>1, FirstOf
    <2>2. Head(inQ).run \in Runs
        BY <2>5 DEF Messages
    <2>3. Append(fBeginRunData, Head(inQ).run) \in Seq(Runs)
        BY <1>1, <2>2, AppendProperties DEF DeviceType
    <2>4. corrupt' \in BOOLEAN
        BY <1>1, <1>6 DEF BeginRunStored, DeviceType
    <2> QED BY <1>1, <1>6, <2>3, <2>4 DEF BeginRunStored, DeviceType, taskVars, outputVars, historyVars
<1>7. CASE HandleDataMT
    BY <1>1, <1>7 DEF HandleDataMT, DeviceType, taskVars, outputVars, beginRunVars
<1>8. ASSUME NEW i \in Workers, Convert(i) PROVE DeviceType'
    <2>1. used' \in [Events -> Nat \cup {NotYet}]
        BY <1>1, <1>8, ConvertStep DEF DeviceType
    <2>2. corrupt' = (corrupt \/ Race) /\ hasEntry' = TRUE
        BY <1>8 DEF Convert
    <2>3. corrupt' \in BOOLEAN
        BY <1>1, <2>2, Zenon DEF DeviceType
    <2>4. /\ UNCHANGED <<statePending, pc, run, fNReceived, fBeginRunData, timeoutEnds, tries>>
          /\ UNCHANGED <<undrained, beginSent, toSend, outQ, beginLost, timedOut>>
        BY <1>8 DEF Convert, WorkerResult, senderVars, outputVars
    <2> QED BY <1>1, <2>1, <2>2, <2>3, <2>4 DEF DeviceType
<1>9. ASSUME NEW i \in Workers,
             ReceiveInput(i) \/ EndWorker(i) \/ ConvertSend(i) \/ ConvertTimeout(i)
      PROVE  DeviceType'
    <2>1. UNCHANGED <<statePending, deviceVars, senderVars, outputVars, used, beginLost>>
        BY <1>9 DEF ReceiveInput, EndWorker, ConvertSend, ConvertTimeout, WorkerReceive,
            WorkerEnd, WorkerSend, WorkerTimeout, WorkerReturn, historyVars
    <2>2. timedOut' \in BOOLEAN
        BY <1>1, <1>9 DEF ReceiveInput, EndWorker, ConvertSend, ConvertTimeout, historyVars,
            DeviceType
    <2> QED BY <1>1, <2>1, <2>2 DEF DeviceType, deviceVars, beginRunVars, senderVars, outputVars
<1>10. CASE MergeReceive \/ SendData \/ SendInterrupted \/ EndMerger
    BY <1>1, <1>10 DEF MergeReceive, SendData, SendInterrupted, SendDone, EndMerger, MergerReceive,
        MergerEnd, DeviceType, deviceVars, beginRunVars, senderVars, outputVars, historyVars
<1>11. CASE UNCHANGED vars
    BY <1>1, <1>11 DEF vars, DeviceType, taskVars, deviceVars, beginRunVars, senderVars, outputVars, historyVars
<1> QED BY <1>2, <1>20, <1>21, <1>22, <1>23, <1>3, <1>4, <1>5, <1>6, <1>7, <1>8, <1>9, <1>10,
        <1>11 DEF Next, Finished

-----------------------------------------------------------------------------
(* The theorems. *)

LEMMA InitInv == Init => IInv
<1> SUFFICES ASSUME Init PROVE IInv
    OBVIOUS
<1> USE DEF Init, TaskInit
<1>1. \A S : <<>> \in Seq(S)
    BY Emptiness
<1>2. Len(<<>>) = 0
    BY EmptySeq
<1>3. TypeOK
    <2>1. NotYet \in Nat \cup {NotYet} /\ 0 \in 0 .. MaxRuns
        BY Bounds
    <2> QED BY <1>1, <1>2, <2>1 DEF TypeOK, DeviceType
<1>4. WorkersInv
    BY <1>1, <1>2 DEF WorkersInv, NoMessage
<1>5. MergerInv
    BY <1>1 DEF MergerInv
<1>6. ~BeginIsNext
    BY DEF BeginIsNext
<1>7. InputInv
    <2>1. RunInv
        BY DEF RunInv
    <2>2. OrderInv
        BY <1>2, <1>6 DEF OrderInv, Running
    <2> QED BY <2>1, <2>2 DEF InputInv
<1>8. CountInv
    BY <1>2, Bounds DEF CountInv, ToCome, BeginToCome
<1>9. FirstRunInv
    BY DEF FirstRunInv
<1>10. UsedInv
    <2>1. NotYet \notin Runs
        BY DEF NotYet, Runs
    <2> QED BY <2>1 DEF UsedInv
<1>11. JoinInv
    BY DEF JoinInv
<1> QED BY <1>3, <1>4, <1>5, <1>7, <1>8, <1>9, <1>10, <1>11 DEF IInv

LEMMA NextInv == IInv /\ [Next]_vars => IInv'
<1> SUFFICES ASSUME IInv, [Next]_vars PROVE IInv'
    OBVIOUS
<1>1. /\ InputPart /\ ThreadsInv /\ UsedInv /\ TypeOK /\ InputInv /\ RunInv /\ CountInv
      /\ FirstRunInv /\ WorkersInv /\ JoinInv
    BY DEF IInv, InputPart, InputInv, ThreadsInv
<1>2. DeviceType'
    BY <1>1, TypeStep
<1> DEFINE Goal == InputPart' /\ ThreadsInv' /\ UsedInv'
\* The neighbours, and the device thread.
<1>3. ASSUME \/ SenderBegin \/ SenderBeginLost \/ SenderEvent \/ SenderStop
             \/ OutputTake \/ StopRequest \/ BeginRunData \/ HandleDataMT \/ SplitGiveUp
             \/ RunExit \/ JoinDone \/ DrainReceive \/ DrainEnd \/ UNCHANGED vars
      PROVE  Goal
    <2>1. /\ UNCHANGED <<fSplitter, job, fMergerCh, worker, merger, fNOutput, outgoing, sent>>
          /\ UNCHANGED <<used, run, fBeginRunData, hasEntry, corrupt>>
        BY <1>3 DEF SenderBegin, SenderBeginLost, SenderEvent, SenderStop, OutputTake, StopRequest,
            BeginRunData, HandleDataMT, SplitGiveUp, RunExit, JoinDone, DrainReceive, DrainEnd,
            DrainOver, vars, taskVars, channels, threads, deviceVars, beginRunVars, senderVars,
            outputVars, historyVars
    <2>2. beginLost' = beginLost \/ beginLost' = TRUE
        BY <1>3 DEF SenderBegin, SenderBeginLost, SenderEvent, SenderStop, OutputTake, StopRequest,
            BeginRunData, HandleDataMT, SplitGiveUp, RunExit, JoinDone, DrainReceive, DrainEnd,
            DrainOver, vars, historyVars
    <2>3. InputPart'
        <3>1. CASE SenderBegin \/ SenderBeginLost \/ SenderEvent \/ SenderStop
            BY <1>1, <1>2, <3>1, SendBegin, SendEvent, SendNothing
        <3>2. CASE \/ OutputTake \/ StopRequest \/ BeginRunData \/ SplitGiveUp
                   \/ RunExit \/ JoinDone \/ DrainEnd \/ UNCHANGED vars
            <4>1. /\ UNCHANGED <<inQ, taken, fNReceived, beginSent, toSend, beginLost>>
                  /\ undrained' = undrained \/ pc' = "Ready"
                BY <3>2 DEF OutputTake, StopRequest, BeginRunData, SplitGiveUp, RunExit, JoinDone,
                    DrainEnd, DrainOver, vars, deviceVars, senderVars, outputVars, historyVars
            <4>2. \/ pc' = pc /\ undrained' = undrained
                  \/ pc = "Run" /\ pc' = "Begin" /\ inQ # <<>> /\ Head(inQ).type = "BeginRun"
                  \/ pc \in {"Run", "Split"} /\ pc' = "Join"
                  \/ pc = "Join" /\ pc' = "Drain"
                  \/ /\ pc = "Drain" /\ pc' = "Ready"
                     /\ ~undrained' => inQ = <<>> /\ ~(toSend > 0) /\ beginSent
                BY <3>2 DEF OutputTake, StopRequest, BeginRunData, SplitGiveUp, RunExit, JoinDone,
                    DrainEnd, DrainOver, vars, deviceVars
            <4>3. inQ # <<>> => Head(inQ) = inQ[1]
                BY <1>1, FirstOf DEF TypeOK
            <4>4. /\ pc' = "Begin" => BeginIsNext
                  /\ pc' = "Split" => fNReceived > 0
                  /\ pc' = "Ready" /\ ~undrained' => inQ = <<>> /\ toSend = 0 /\ beginSent
                  /\ pc = "Ready" => pc' = "Ready"
                  /\ pc' \in Running => pc \in Running
                BY <1>1, <4>2, <4>3, Numbers DEF RunInv, BeginIsNext, Running
            <4>5. Clean' => Clean
                BY <2>1, <4>1, <4>4 DEF Clean
            <4> QED BY <1>1, <1>2, <2>1, <4>1, <4>4, <4>5, InputKept
        <3> QED BY <1>1, <1>2, <1>3, <3>1, <3>2, InputTaken, InputDrained
    <2>4. \/ UNCHANGED fNReceived /\ (pc' = "Split" => pc = "Split")
          \/ fNReceived' = fNReceived + 1 /\ pc' = "Split" /\ pc # "Split"
        BY <1>3 DEF SenderBegin, SenderBeginLost, SenderEvent, SenderStop, OutputTake, StopRequest,
            BeginRunData, HandleDataMT, SplitGiveUp, RunExit, JoinDone, DrainReceive, DrainEnd,
            DrainOver, vars, deviceVars
    <2>5. Given \subseteq Given' /\ Done \subseteq Done'
        BY <1>1, <2>1, <2>3, <2>4, SameNumbers DEF InputPart, RunInv
    <2>6. ThreadsInv'
        BY <1>1, <2>1, <2>5, ThreadsKept
    <2>7. UsedInv'
        BY <1>1, <2>1, <2>2, UsedKept
    <2> QED BY <2>3, <2>6, <2>7
<1>4. ASSUME PreRun PROVE Goal
    BY <1>1, <1>2, <1>4, RunBegins, ThreadsBegin, UsedBegin
<1>5. ASSUME BeginRunStored PROVE Goal
    <2>1. /\ UNCHANGED <<fSplitter, job, fMergerCh, worker, merger, fNOutput, outgoing, sent>>
          /\ UNCHANGED <<used, run, fNReceived, beginLost>> /\ pc' = "Run"
          /\ fBeginRunData' = Append(fBeginRunData, Head(inQ).run) /\ pc = "Begin"
          /\ corrupt' = (corrupt \/ Race)
        BY <1>5 DEF BeginRunStored, taskVars, channels, threads, outputVars, historyVars
    <2>2. InputPart'
        BY <1>1, <1>2, <1>5, BeginRunTaken
    <2>3. Given \subseteq Given' /\ Done \subseteq Done'
        BY <1>1, <2>1, <2>2, SameNumbers DEF InputPart, RunInv
    <2>4. ThreadsInv'
        BY <1>1, <2>1, <2>3, ThreadsKept
    <2>5. Head(inQ).run \in Runs
        <3>1. inQ \in Seq(Messages) /\ inQ # <<>>
            BY <1>1, <2>1 DEF TypeOK, RunInv, BeginIsNext
        <3>2. Head(inQ) \in Messages
            BY <3>1, FirstOf
        <3> QED BY <3>2 DEF Messages
    <2>6. UsedInv'
        BY <1>1, <2>1, <2>5, UsedStored
    <2> QED BY <2>2, <2>4, <2>6
<1>6. ASSUME SplitSend PROVE Goal
    <2>1. /\ UNCHANGED <<inQ, taken, fNReceived, fBeginRunData, hasEntry, corrupt, run>>
          /\ UNCHANGED <<undrained, beginSent, toSend, beginLost, used>>
          /\ pc = "Split" /\ pc' = "Run"
        BY <1>6 DEF SplitSend, beginRunVars, senderVars, historyVars
    <2>2. InputPart'
        <3>1. Clean' => Clean
            BY <2>1 DEF Clean
        <3> QED BY <1>1, <1>2, <2>1, <3>1, InputKept DEF Running
    <2>3. fNReceived > 0
        BY <1>1, <2>1 DEF RunInv
    <2>4. ThreadsInv'
        BY <1>1, <1>6, <2>2, <2>3, SplitStep DEF InputPart
    <2>5. UsedInv'
        BY <1>1, <2>1, UsedKept
    <2> QED BY <2>2, <2>4, <2>5
\* The workers and the merger.
<1>7. ASSUME UNCHANGED <<pc, run, fNReceived, fBeginRunData, undrained, senderVars, taken>>,
             UNCHANGED beginLost, hasEntry => hasEntry'
      PROVE  InputPart'
    <2>1. UNCHANGED <<inQ, taken, fNReceived, fBeginRunData, run, beginSent, toSend, beginLost>>
        BY <1>7 DEF senderVars
    <2>2. Clean' = Clean
        BY <1>7 DEF Clean
    <2> QED BY <1>1, <1>2, <1>7, <2>1, <2>2, InputKept DEF RunInv
<1>8. ASSUME NEW i \in Workers, Convert(i) PROVE Goal
    <2>1. /\ UNCHANGED <<pc, run, fNReceived, fBeginRunData, undrained, senderVars, taken>>
          /\ UNCHANGED beginLost /\ hasEntry' /\ corrupt' = (corrupt \/ Race)
        BY <1>8 DEF Convert
    <2>2. PICK n \in Given, b \in Unpacked : used' = [used EXCEPT ![n] = b]
        BY <1>1, <1>8, ConvertStep
    <2>3. UsedInv'
        BY <1>1, <2>1, <2>2, UsedConvert
    <2> QED BY <1>1, <1>7, <1>8, <2>1, <2>3, ConvertStep
<1>9. ASSUME NEW i \in Workers,
             ReceiveInput(i) \/ EndWorker(i) \/ ConvertSend(i) \/ ConvertTimeout(i)
      PROVE  Goal
    <2>1. UNCHANGED <<deviceVars, senderVars, taken, beginLost, used>>
        BY <1>9 DEF ReceiveInput, EndWorker, ConvertSend, ConvertTimeout, historyVars
    <2>2. ThreadsInv'
        BY <1>1, <1>9, ReceiveStep, EndStep, SendStep
    <2>3. UsedInv'
        BY <1>1, <2>1, UsedKept DEF deviceVars, beginRunVars
    <2> QED BY <1>7, <2>1, <2>2, <2>3 DEF deviceVars, beginRunVars
<1>10. ASSUME MergeReceive \/ SendData \/ SendInterrupted \/ EndMerger PROVE Goal
    <2>1. UNCHANGED <<deviceVars, senderVars, taken, beginLost, used>>
        BY <1>10 DEF MergeReceive, SendData, SendInterrupted, SendDone, EndMerger, historyVars
    <2>2. ThreadsInv'
        BY <1>1, <1>10, MergerStep
    <2>3. UsedInv'
        BY <1>1, <2>1, UsedKept DEF deviceVars, beginRunVars
    <2> QED BY <1>7, <2>1, <2>2, <2>3 DEF deviceVars, beginRunVars
<1>11. Goal
    BY <1>3, <1>4, <1>5, <1>6, <1>8, <1>9, <1>10 DEF Next, Finished
<1>12. JoinInv'
    BY <1>1, JoinStep
<1> QED BY <1>11, <1>12 DEF IInv, InputPart, ThreadsInv

THEOREM Invariance == Spec => []IInv
<1>1. Init => IInv
    BY InitInv
<1>2. IInv /\ [Next]_vars => IInv'
    BY NextInv
<1> QED BY <1>1, <1>2, PTL DEF Spec

\* Every variable of the unpacker keeps its type.
THEOREM TypeCorrect == Spec => []TypeOK
<1>1. IInv => TypeOK
    BY DEF IInv
<1> QED BY <1>1, Invariance, PTL

\* The device thread stores begin-run data beside a worker, and two workers insert
\* the missing entry, only after a drain that may have left messages behind; two
\* workers also do if the begin-run data were given up.
THEOREM NoDataRace == Spec => []NoRace
<1>1. ASSUME IInv PROVE NoRace
    <2>1. TypeOK /\ InputInv /\ ThreadsInv /\ JoinInv
        BY <1>1 DEF IInv, ThreadsInv
    <2>2. CASE undrained
        BY <2>2 DEF NoRace
    <2>3. CASE pc = "Ready"
        BY <2>1, <2>3 DEF JoinInv, NoRace, StoringRace, InsertingRace
    <2>4. CASE ~undrained /\ pc # "Ready"
        BY <2>1, <2>4, CleanIsNoRace DEF Clean, NoRace
    <2> QED BY <2>2, <2>3, <2>4
<1> QED BY <1>1, Invariance, PTL

\* What leaves was unpacked; in the first run with the begin-run data of the run
\* unless these were given up, and in every run with those that came first, as
\* long as no two threads have used the map at the same time.
THEOREM UnpackedWithTheFirst == Spec => []UnpackedWithOwnRun
<1>1. ASSUME IInv PROVE UnpackedWithOwnRun
    <2>1. /\ TypeOK /\ MergerInv /\ InputInv /\ CountInv /\ UsedInv
        BY <1>1 DEF IInv
    <2>2. ASSUME NEW k \in DOMAIN sent
          PROVE  /\ used[sent[k]] # NotYet
                 /\ (run = 1 /\ ~beginLost) => used[sent[k]] = taken[sent[k] + 1]
        <3>1. sent \in Seq(Done) /\ k \in 1 .. Len(sent)
            BY <2>1, <2>2, LenProperties DEF MergerInv
        <3>2. sent[k] \in Done
            BY <3>1, ElementOfSeq
        <3>3. PICK n \in Given : n = sent[k]
            BY <3>2 DEF Done
        <3>4. used[n] # NotYet
            BY <3>2, <3>3 DEF Done
        <3>5. n \in Events
            BY <2>1, GivenIsEvent
        <3>6. n + 1 \in 1 .. Len(taken)
            <4>1. n \in Nat /\ n <= fNReceived - 1 /\ Len(taken) = fNReceived /\ fNReceived \in Nat
                BY <2>1 DEF Given, TypeOK, DeviceType
            <4> QED BY <4>1
        <3>7. run = 1 => taken[n + 1] = run
            BY <2>1, <3>6 DEF InputInv, OrderInv, Clean
        <3> QED BY <2>1, <3>3, <3>4, <3>5, <3>7 DEF UsedInv
    <2>3. ~corrupt => \A n \in Events : used[n] \in Runs => used[n] = fBeginRunData[1]
        BY <2>1 DEF UsedInv
    <2> QED BY <2>2, <2>3 DEF UnpackedWithOwnRun
<1> QED BY <1>1, Invariance, PTL
=============================================================================
