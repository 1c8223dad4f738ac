-------------------------- MODULE LogicFilterProofs --------------------------
(***************************************************************************)
(* Theorems about the logic filter, for any front ends, signals, windows,  *)
(* expressions, split methods, outputs, frames and runs (TLC: run filter). *)
(***************************************************************************)
EXTENDS LogicFilter, TLAPS, SequenceTheorems, FiniteSetTheorems

-----------------------------------------------------------------------------
(* The inductive invariant: the frames. *)

TypeOK ==
    /\ state \in {"Device", "Ready", "Running", "Error"} /\ statePending \in BOOLEAN
    /\ runs \in Nat
    /\ pc \in {"Receive", "Mark", "Scan", "Dqm", "Output"}
    /\ fSplitMethod \in SplitMethods
    /\ arrived \in 0 .. MaxFrames
    /\ fDirection \in 0 .. DirectionSize - 1
    /\ dqm \in Seq(Nat) /\ out \in [Outputs -> Seq(Nat)]
    /\ dqmSent \in Seq(Nat) /\ sent \in Seq(Nat) /\ lost \subseteq Nat

\* The number of the frame taken last, and of the last that was finished with.
Taken    == IF inQueue = <<>> THEN arrived ELSE arrived - 1
Finished == IF pc = "Receive" THEN Taken ELSE Taken - 1

\* The input channel and the hand hold the frames that came last.
HandInv ==
    /\ statePending \/ pc # "Receive" => state = "Running"
    /\ inQueue # <<>> => arrived \in 1 .. MaxFrames /\
            \E stfs \in FramesOf[arrived] : inQueue = <<Frame(fSplitMethod, arrived, stfs)>>
    /\ pc = "Receive" => inParts = <<>>
    /\ pc # "Receive" => Taken \in 1 .. MaxFrames /\
            \E stfs \in FramesOf[Taken] : inParts = <<Frame(fSplitMethod, Taken, stfs)>>

\* The dqm channel has what the outputs have, and before they have it.
DqmInv ==
    /\ Increasing(sent) /\ Increasing(dqmSent)
    /\ Range(sent) \subseteq Range(dqmSent)
    /\ Range(dqmSent) \subseteq 1 .. IF pc = "Output" THEN Taken ELSE Finished
    /\ pc = "Output" /\ ~statePending => Taken \in Range(dqmSent)

\* A run that goes on may still lose a frame.
MayLose == IF state = "Running" /\ (pc # "Receive" \/ ~statePending) THEN 1 ELSE 0

LostInv ==
    /\ Range(sent) \cup lost = 1 .. Finished
    /\ Range(sent) \cap lost = {}
    /\ Cardinality(lost) + MayLose <= runs

FrameInv == TypeOK /\ HandInv /\ DqmInv /\ LostInv

-----------------------------------------------------------------------------
LEMMA RangeAppend ==
  ASSUME NEW s \in Seq(Nat), NEW e \in Nat
  PROVE  Append(s, e) \in Seq(Nat) /\ Range(Append(s, e)) = Range(s) \cup {e}
<1>1. /\ Append(s, e) \in Seq(Nat) /\ Len(Append(s, e)) = Len(s) + 1
      /\ Append(s, e)[Len(s) + 1] = e
      /\ \A i \in 1 .. Len(s) : Append(s, e)[i] = s[i]
  BY AppendProperties
<1>2. /\ DOMAIN Append(s, e) = 1 .. Len(s) + 1 /\ DOMAIN s = 1 .. Len(s) /\ Len(s) \in Nat
  BY <1>1, LenProperties
<1> QED BY <1>1, <1>2 DEF Range

\* A number above all others goes to the end.
LEMMA IncreasingAppend ==
  ASSUME NEW s \in Seq(Nat), NEW e \in Nat, Increasing(s), \A x \in Range(s) : x < e
  PROVE  Increasing(Append(s, e))
<1>1. /\ Append(s, e) \in Seq(Nat) /\ Len(Append(s, e)) = Len(s) + 1
      /\ Append(s, e)[Len(s) + 1] = e
      /\ \A i \in 1 .. Len(s) : Append(s, e)[i] = s[i]
  BY AppendProperties
<1>2. /\ DOMAIN Append(s, e) = 1 .. Len(s) + 1 /\ DOMAIN s = 1 .. Len(s) /\ Len(s) \in Nat
  BY <1>1, LenProperties
<1>3. \A i \in 1 .. Len(s) : s[i] \in Range(s) /\ s[i] < e
  BY <1>2 DEF Range
<1> SUFFICES ASSUME NEW i \in 1 .. Len(s) + 1, NEW j \in 1 .. Len(s) + 1, i < j
             PROVE  Append(s, e)[i] < Append(s, e)[j]
  BY <1>2 DEF Increasing
<1>4. i \in 1 .. Len(s)
  BY <1>2
<1>5. CASE j \in 1 .. Len(s)
  BY <1>1, <1>2, <1>4, <1>5 DEF Increasing
<1>6. CASE j = Len(s) + 1
  BY <1>1, <1>3, <1>4, <1>6
<1> QED BY <1>2, <1>5, <1>6

LEMMA FrameInit == ASSUME Init PROVE FrameInv
<1> USE FilterAssumption DEF Init
<1>1. /\ <<>> \in Seq(Nat) /\ DOMAIN <<>> = {} /\ Range(<<>>) = {}
  BY EmptySeq DEF Range
<1>2. TypeOK
  <2>1. 0 \in 0 .. DirectionSize - 1 /\ 0 \in 0 .. MaxFrames
    OBVIOUS
  <2>2. /\ state \in {"Device", "Ready", "Running", "Error"} /\ statePending \in BOOLEAN
        /\ pc \in {"Receive", "Mark", "Scan", "Dqm", "Output"} /\ runs = 0
        /\ fSplitMethod \in SplitMethods /\ arrived = 0 /\ fDirection = 0
    OBVIOUS
  <2>3. /\ dqm \in Seq(Nat) /\ out \in [Outputs -> Seq(Nat)]
        /\ dqmSent \in Seq(Nat) /\ sent \in Seq(Nat) /\ lost \subseteq Nat
    <3>1. out = [d \in Outputs |-> <<>>] /\ dqm = <<>> /\ dqmSent = <<>> /\ sent = <<>> /\ lost = {}
      OBVIOUS
    <3> QED BY ONLY <1>1, <3>1
  <2> QED BY <2>1, <2>2, <2>3 DEF TypeOK
<1>3. HandInv
  BY DEF HandInv
<1>4. Taken = 0 /\ Finished = 0
  BY DEF Taken, Finished
<1>5. DqmInv
  BY <1>1, <1>4 DEF DqmInv, Increasing
<1>6. LostInv
  <2>1. Cardinality(lost) = 0 /\ MayLose = 0
    BY FS_EmptySet DEF MayLose
  <2>2. 1 .. Finished = {} /\ Range(sent) = {} /\ lost = {} /\ runs = 0
    BY <1>1, <1>4
  <2> QED BY ONLY <2>1, <2>2 DEF LostInv
<1> QED BY <1>2, <1>3, <1>5, <1>6 DEF FrameInv

\* The frame in hand.
LEMMA HandId ==
  ASSUME FrameInv, pc # "Receive"
  PROVE  /\ Taken \in 1 .. MaxFrames /\ Taken \in Nat /\ outParts.id = Taken
         /\ {f.id : f \in Range(inParts)} = {Taken}
<1>1. PICK stfs \in FramesOf[Taken] : inParts = <<Frame(fSplitMethod, Taken, stfs)>>
  BY DEF FrameInv, HandInv
<1>2. Taken \in 1 .. MaxFrames /\ Taken \in Nat
  BY DEF FrameInv, HandInv
<1>3. inParts[1].id = Taken /\ DOMAIN inParts = {1}
  BY <1>1 DEF Frame
<1>4. outParts.id = Taken
  BY <1>3 DEF outParts
<1>5. {f.id : f \in Range(inParts)} = {Taken}
  BY <1>3 DEF Range
<1> QED BY <1>2, <1>4, <1>5

LEMMA LostIsFinite == ASSUME FrameInv PROVE IsFiniteSet(lost)
<1>1. Finished \in Int /\ lost \subseteq 1 .. Finished
  BY FilterAssumption DEF FrameInv, TypeOK, LostInv, Finished, Taken
<1>2. IsFiniteSet(1 .. Finished)
  BY <1>1, FS_Interval
<1> QED BY ONLY <1>1, <1>2, FS_Subset

LEMMA TypeStep == ASSUME FrameInv, [Next]_vars PROVE TypeOK'
<1> USE FilterAssumption DEF FrameInv, TypeOK, control, options, channels, work, history
<1>1. CASE InitTask
  BY <1>1 DEF InitTask
<1>2. CASE Run
  BY <1>2 DEF Run
<1>3. CASE ResetTask
  BY <1>3 DEF ResetTask
<1>4. CASE StopRequest
  BY <1>4 DEF StopRequest
<1>5. CASE Receive
  BY <1>5 DEF Receive
<1>6. CASE ExecMark
  BY <1>6 DEF ExecMark
<1>7. CASE ExecScan
  BY <1>7 DEF ExecScan
<1>8. CASE NextTrigger
  BY <1>8 DEF NextTrigger
<1>9. CASE DqmSend
  <2>1. Taken \in Nat /\ outParts.id = Taken
    BY <1>9, HandId DEF DqmSend
  <2>2. <<Taken>> \in Seq(Nat) /\ Append(dqmSent, Taken) \in Seq(Nat)
    BY <2>1, RangeAppend
  <2> QED BY <1>9, <2>1, <2>2 DEF DqmSend
<1>10. CASE DqmInterrupted
  BY <1>10 DEF DqmInterrupted
<1>11. CASE OutputSend
  <2>1. Taken \in Nat /\ outParts.id = Taken
    BY <1>11, HandId DEF OutputSend
  <2>2. <<Taken>> \in Seq(Nat) /\ Append(sent, Taken) \in Seq(Nat)
    BY <2>1, RangeAppend
  <2>3. fDirection' \in 0 .. DirectionSize - 1
    BY <1>11 DEF OutputSend, NextDirection
  <2> QED BY <1>11, <2>1, <2>2, <2>3 DEF OutputSend, Done
<1>12. CASE OutputBusy
  BY <1>12 DEF OutputBusy, NextDirection
<1>13. CASE OutputAbandon
  <2>1. Taken \in Nat /\ outParts.id = Taken
    BY <1>13, HandId DEF OutputAbandon
  <2> QED BY <1>13, <2>1 DEF OutputAbandon, Done
<1>14. CASE EndRun
  BY <1>14 DEF EndRun
<1>15. CASE FrameArrives
  BY <1>15 DEF FrameArrives
<1>16. CASE DqmTake
  BY <1>16, EmptySeq DEF DqmTake
<1>17. ASSUME NEW d \in Outputs, OutputTake(d) PROVE TypeOK'
  BY <1>17, EmptySeq DEF OutputTake
<1>18. CASE UNCHANGED vars
  BY <1>18 DEF vars
<1> QED BY <1>1, <1>2, <1>3, <1>4, <1>5, <1>6, <1>7, <1>8, <1>9, <1>10, <1>11, <1>12, <1>13,
           <1>14, <1>15, <1>16, <1>17, <1>18 DEF Next, Device

LEMMA HandStep == ASSUME FrameInv, [Next]_vars PROVE HandInv'
<1> USE DEF FrameInv, HandInv, Taken, control, options, channels, work, history
<1>0. arrived \in Nat /\ MaxFrames \in Nat
  BY FilterAssumption DEF TypeOK
<1>1. CASE InitTask
  BY <1>1 DEF InitTask
<1>2. CASE Run
  BY <1>2 DEF Run
<1>3. CASE ResetTask
  BY <1>3 DEF ResetTask
<1>4. CASE StopRequest
  BY <1>4 DEF StopRequest
<1>5. CASE Receive
  <2>1. PICK stfs \in FramesOf[arrived] : inQueue = <<Frame(fSplitMethod, arrived, stfs)>>
    BY <1>5 DEF Receive
  <2>2. inQueue' = <<>> /\ inParts' = <<Frame(fSplitMethod, arrived, stfs)>>
    BY <1>5, <2>1 DEF Receive
  <2>3. Taken' = arrived /\ arrived \in 1 .. MaxFrames /\ arrived' = arrived
    BY <1>5, <2>2 DEF Receive
  <2>4. pc' # "Receive" /\ state' = "Running" /\ fSplitMethod' = fSplitMethod
    BY <1>5 DEF Receive
  <2> QED BY <2>2, <2>3, <2>4
<1>6. CASE ExecMark
  BY <1>6 DEF ExecMark
<1>7. CASE ExecScan
  BY <1>7 DEF ExecScan
<1>8. CASE NextTrigger
  BY <1>8 DEF NextTrigger
<1>9. CASE DqmSend
  BY <1>9 DEF DqmSend
<1>10. CASE DqmInterrupted
  BY <1>10 DEF DqmInterrupted
<1>11. CASE OutputSend
  BY <1>11 DEF OutputSend, Done
<1>12. CASE OutputBusy
  BY <1>12 DEF OutputBusy
<1>13. CASE OutputAbandon
  BY <1>13 DEF OutputAbandon, Done
<1>14. CASE EndRun
  BY <1>14 DEF EndRun
<1>15. CASE FrameArrives
  <2>1. PICK stfs \in FramesOf[arrived + 1] : inQueue' = <<Frame(fSplitMethod, arrived + 1, stfs)>>
    BY <1>15 DEF FrameArrives
  <2>2. /\ inQueue = <<>> /\ inQueue' # <<>> /\ arrived' = arrived + 1 /\ Taken' = Taken
        /\ arrived' \in 1 .. MaxFrames
    BY <1>0, <1>15, <2>1 DEF FrameArrives
  <2>3. UNCHANGED <<state, statePending, pc, fSplitMethod, inParts>>
    BY <1>15 DEF FrameArrives
  <2> HIDE DEF Taken
  <2> QED BY <2>1, <2>2, <2>3
<1>16. CASE DqmTake
  BY <1>16 DEF DqmTake
<1>17. ASSUME NEW d \in Outputs, OutputTake(d) PROVE HandInv'
  BY <1>17 DEF OutputTake
<1>18. CASE UNCHANGED vars
  BY <1>18 DEF vars
<1> QED BY <1>1, <1>2, <1>3, <1>4, <1>5, <1>6, <1>7, <1>8, <1>9, <1>10, <1>11, <1>12, <1>13,
           <1>14, <1>15, <1>16, <1>17, <1>18 DEF Next, Device

\* Steps that leave the frames where they are, and may take away what a run can lose.
LEMMA QuietStep ==
  ASSUME FrameInv, TypeOK', UNCHANGED <<arrived, inQueue, inParts, sent, dqmSent, lost>>,
         (pc' = "Receive") <=> (pc = "Receive"),
         pc' = "Output" => pc = "Output" \/ statePending',
         pc = "Output" => pc' = "Output" /\ (statePending => statePending'),
         \/ runs' = runs /\ MayLose' \in {0, MayLose}
         \/ runs' = runs + 1 /\ MayLose = 0
  PROVE  DqmInv' /\ LostInv'
<1>1. Taken' = Taken /\ Finished' = Finished
  BY DEF Taken, Finished
<1>2. DqmInv'
  <2>1. /\ Increasing(sent)' /\ Increasing(dqmSent)' /\ Range(sent)' = Range(sent)
        /\ Range(dqmSent)' = Range(dqmSent)
    BY DEF FrameInv, DqmInv, Increasing
  <2>2. Finished \in Int /\ Taken \in Int /\ Finished <= Taken
    BY FilterAssumption DEF FrameInv, TypeOK, Finished, Taken
  <2>3. Range(dqmSent) \subseteq 1 .. IF pc' = "Output" THEN Taken ELSE Finished
    BY <2>2 DEF FrameInv, DqmInv, Finished
  <2>4. pc' = "Output" /\ ~statePending' => Taken \in Range(dqmSent)
    BY DEF FrameInv, DqmInv
  <2> QED BY <1>1, <2>1, <2>3, <2>4 DEF FrameInv, DqmInv
<1>3. LostInv'
  <2>1. Range(sent)' = Range(sent) /\ Cardinality(lost)' = Cardinality(lost)
    OBVIOUS
  <2>2. Cardinality(lost) + MayLose <= runs /\ MayLose \in {0, 1} /\ MayLose' \in {0, 1}
    BY DEF FrameInv, LostInv, MayLose
  <2>3. Cardinality(lost) \in Nat
    BY FS_CardinalityType, LostIsFinite
  <2>4. Cardinality(lost)' + MayLose' <= runs'
    BY <2>1, <2>2, <2>3 DEF FrameInv, TypeOK
  <2>5. Range(sent)' \cup lost' = 1 .. Finished' /\ Range(sent)' \cap lost' = {}
    BY <1>1, <2>1 DEF FrameInv, LostInv
  <2> QED BY ONLY <2>4, <2>5, Zenon DEF LostInv
<1> QED BY <1>2, <1>3

LEMMA DqmStep == ASSUME FrameInv, [Next]_vars PROVE DqmInv' /\ LostInv'
<1> USE DEF control, options, channels, work, history
<1>0. TypeOK'
  BY TypeStep
<1>1. CASE InitTask
  BY <1>0, <1>1, QuietStep DEF InitTask, MayLose
<1>2. CASE Run
  BY <1>0, <1>2, QuietStep DEF Run, MayLose, FrameInv, HandInv
<1>3. CASE ResetTask
  BY <1>0, <1>3, QuietStep DEF ResetTask, MayLose
<1>4. CASE StopRequest
  BY <1>0, <1>4, QuietStep DEF StopRequest, MayLose
<1>5. CASE Receive
  <2>1. pc = "Receive" /\ pc' # "Receive" /\ pc' # "Output" /\ inQueue # <<>> /\ inQueue' = <<>>
    BY <1>5 DEF Receive, FrameInv, HandInv
  <2>2. UNCHANGED <<arrived, sent, dqmSent, lost, state, statePending, runs>>
    BY <1>5 DEF Receive
  <2>3. Taken = arrived - 1 /\ Taken' = arrived /\ Finished = Taken /\ Finished' = Taken
    BY <2>1, <2>2 DEF Taken, Finished, FrameInv, TypeOK
  <2>4. DqmInv'
    BY <2>1, <2>2, <2>3 DEF FrameInv, DqmInv, Increasing
  <2>5. MayLose' = MayLose
    BY <2>2, <1>5 DEF Receive, MayLose
  <2> QED BY <2>2, <2>3, <2>4, <2>5 DEF FrameInv, LostInv
<1>6. CASE ExecMark
  BY <1>0, <1>6, QuietStep DEF ExecMark, MayLose
<1>7. CASE ExecScan
  BY <1>0, <1>7, QuietStep DEF ExecScan, MayLose
<1>8. CASE NextTrigger
  BY <1>0, <1>8, QuietStep DEF NextTrigger, MayLose
<1>9. CASE DqmSend
  <2>1. Taken \in 1 .. MaxFrames /\ outParts.id = Taken
    BY <1>9, HandId DEF DqmSend
  <2>2. /\ pc = "Dqm" /\ pc' = "Output" /\ dqmSent' = Append(dqmSent, Taken)
        /\ UNCHANGED <<arrived, inQueue, sent, lost, state, statePending, runs>>
    BY <1>9, <2>1 DEF DqmSend
  <2>3. Taken' = Taken /\ Finished' = Finished /\ Finished = Taken - 1 /\ Taken \in Nat
    BY <2>1, <2>2, FilterAssumption DEF Taken, Finished
  <2>4. \A x \in Range(dqmSent) : x < Taken /\ x \in 1 .. Taken
    BY <2>2, <2>3 DEF FrameInv, DqmInv
  <2>5. Increasing(dqmSent') /\ Range(dqmSent') = Range(dqmSent) \cup {Taken}
    BY <2>2, <2>3, <2>4, IncreasingAppend, RangeAppend DEF FrameInv, TypeOK, DqmInv
  <2>6. Increasing(sent)' /\ Range(sent') = Range(sent)
    BY <2>2 DEF FrameInv, DqmInv, Increasing
  <2>7. DqmInv'
    BY <2>1, <2>2, <2>3, <2>4, <2>5, <2>6 DEF FrameInv, DqmInv, Increasing
  <2>8. MayLose' = MayLose
    BY <2>2 DEF MayLose
  <2> QED BY <2>2, <2>3, <2>7, <2>8 DEF FrameInv, LostInv
<1>10. CASE DqmInterrupted
  BY <1>0, <1>10, QuietStep DEF DqmInterrupted, MayLose
<1>11. CASE OutputSend
  <2>1. Taken \in 1 .. MaxFrames /\ outParts.id = Taken
    BY <1>11, HandId DEF OutputSend
  <2>2. /\ pc = "Output" /\ pc' = "Receive" /\ sent' = Append(sent, Taken) /\ ~statePending
        /\ UNCHANGED <<arrived, inQueue, dqmSent, lost, state, statePending, runs>>
    BY <1>11, <2>1 DEF OutputSend, Done
  <2>3. Taken' = Taken /\ Finished' = Taken /\ Finished = Taken - 1 /\ Taken \in Nat
    BY <2>1, <2>2, FilterAssumption DEF Taken, Finished
  <2>4. \A x \in Range(sent) \cup lost : x < Taken
    BY <2>3 DEF FrameInv, LostInv
  <2>5. Increasing(sent') /\ Range(sent') = Range(sent) \cup {Taken}
    BY <2>2, <2>3, <2>4, IncreasingAppend, RangeAppend DEF FrameInv, TypeOK, DqmInv
  <2>6. Increasing(dqmSent)' /\ Range(dqmSent') = Range(dqmSent) /\ Taken \in Range(dqmSent)
    BY <2>2 DEF FrameInv, DqmInv, Increasing
  <2>7. DqmInv'
    BY <2>1, <2>2, <2>3, <2>5, <2>6 DEF FrameInv, DqmInv, Increasing
  <2>8. MayLose' = MayLose
    BY <1>11, <2>2 DEF MayLose, OutputSend
  <2>9. Range(sent') \cup lost' = 1 .. Finished'
    <3>1. 1 .. Taken = (1 .. Taken - 1) \cup {Taken}
      BY <2>1, <2>3
    <3> QED BY <2>2, <2>3, <2>5, <3>1 DEF FrameInv, LostInv
  <2>10. Range(sent') \cap lost' = {}
    BY <2>2, <2>3, <2>4, <2>5 DEF FrameInv, LostInv
  <2> QED BY <2>2, <2>7, <2>8, <2>9, <2>10 DEF FrameInv, LostInv
<1>12. CASE OutputBusy
  BY <1>0, <1>12, QuietStep DEF OutputBusy, MayLose
<1>13. CASE OutputAbandon
  <2>1. Taken \in 1 .. MaxFrames /\ outParts.id = Taken
    BY <1>13, HandId DEF OutputAbandon
  <2>2. /\ pc = "Output" /\ pc' = "Receive" /\ lost' = lost \cup {Taken} /\ statePending
        /\ state = "Running"
        /\ UNCHANGED <<arrived, inQueue, dqmSent, sent, state, statePending, runs>>
    BY <1>13, <2>1 DEF OutputAbandon, Done
  <2>3. Taken' = Taken /\ Finished' = Taken /\ Finished = Taken - 1 /\ Taken \in Nat
    BY <2>1, <2>2, FilterAssumption DEF Taken, Finished
  <2>4. DqmInv'
    BY <2>2, <2>3 DEF FrameInv, DqmInv, Increasing
  <2>5. MayLose' = 0 /\ MayLose = 1
    BY <2>2 DEF MayLose
  <2>6. IsFiniteSet(lost) /\ Taken \notin lost /\ Taken \notin Range(sent)
    BY <2>3, LostIsFinite DEF FrameInv, LostInv
  <2>7. Cardinality(lost') = Cardinality(lost) + 1 /\ Cardinality(lost) \in Nat
    BY <2>2, <2>6, FS_AddElement, FS_CardinalityType
  <2>8. Range(sent') \cup lost' = 1 .. Finished'
    <3>1. 1 .. Taken = (1 .. Taken - 1) \cup {Taken}
      BY <2>1, <2>3
    <3> QED BY <2>2, <2>3, <3>1 DEF FrameInv, LostInv
  <2>9. Range(sent') \cap lost' = {}
    BY <2>2, <2>6 DEF FrameInv, LostInv
  <2>10. Cardinality(lost') + MayLose' <= runs'
    BY <2>2, <2>5, <2>7 DEF FrameInv, LostInv, TypeOK
  <2> QED BY <2>4, <2>8, <2>9, <2>10 DEF LostInv
<1>14. CASE EndRun
  BY <1>0, <1>14, QuietStep DEF EndRun, MayLose
<1>15. CASE FrameArrives
  <2>1. /\ inQueue = <<>> /\ inQueue' # <<>> /\ arrived' = arrived + 1
        /\ UNCHANGED <<pc, state, statePending, runs, sent, dqmSent, lost>>
    BY <1>15 DEF FrameArrives
  <2>2. Taken' = Taken /\ Finished' = Finished
    BY <2>1 DEF Taken, Finished, FrameInv, TypeOK
  <2>3. MayLose' = MayLose
    BY <2>1 DEF MayLose
  <2>4. DqmInv'
    BY <2>1, <2>2 DEF FrameInv, DqmInv, Increasing
  <2> QED BY <2>1, <2>2, <2>3, <2>4 DEF FrameInv, LostInv
<1>16. CASE DqmTake
  BY <1>0, <1>16, QuietStep DEF DqmTake, MayLose
<1>17. ASSUME NEW d \in Outputs, OutputTake(d) PROVE DqmInv' /\ LostInv'
  BY <1>0, <1>17, QuietStep DEF OutputTake, MayLose
<1>18. CASE UNCHANGED vars
  BY <1>0, <1>18, QuietStep DEF vars, MayLose
<1> QED BY <1>1, <1>2, <1>3, <1>4, <1>5, <1>6, <1>7, <1>8, <1>9, <1>10, <1>11, <1>12, <1>13,
           <1>14, <1>15, <1>16, <1>17, <1>18 DEF Next, Device

LEMMA FrameAlways == Spec => []FrameInv
<1>1. FrameInv /\ [Next]_vars => FrameInv'
  BY TypeStep, HandStep, DqmStep DEF FrameInv
<1> QED BY FrameInit, <1>1, PTL DEF Spec

\* All variables keep their type.
THEOREM TypeCorrect == Spec => []TypeOK
<1>1. FrameInv => TypeOK
  BY DEF FrameInv
<1> QED BY FrameAlways, <1>1, PTL

\* OutputWasMonitored: frames leave in their order, none without the copy that
\* monitors see, and none is given up but one at a stop.
LEMMA MonitoredFollows == ASSUME FrameInv PROVE OutputWasMonitored
<1>0. arrived \in Nat /\ Taken \in Int
  BY FilterAssumption DEF FrameInv, TypeOK, Taken
<1> DEFINE hand == {f.id : f \in Range(inParts)}
           waits == {f.id : f \in Range(inQueue)}
<1>1. IF pc = "Receive" THEN hand = {} ELSE hand = {Taken}
  <2>1. CASE pc = "Receive"
    BY <2>1 DEF FrameInv, HandInv, Range
  <2> QED BY <2>1, HandId
<1>2. IF inQueue = <<>> THEN waits = {} ELSE waits = {arrived} /\ arrived \in Nat \ {0}
  <2>1. CASE inQueue = <<>>
    BY <2>1 DEF Range
  <2>2. CASE inQueue # <<>>
    <3>1. PICK stfs \in FramesOf[arrived] : inQueue = <<Frame(fSplitMethod, arrived, stfs)>>
      BY <2>2 DEF FrameInv, HandInv
    <3>2. inQueue[1].id = arrived /\ DOMAIN inQueue = {1}
      BY <3>1 DEF Frame
    <3>3. arrived \in 1 .. MaxFrames
      BY <2>2 DEF FrameInv, HandInv
    <3> QED BY <2>2, <3>2, <3>3, FilterAssumption DEF Range
  <2> QED BY <2>1, <2>2
<1>3. pc # "Receive" => Taken \in Nat \ {0}
  BY HandId
<1>4. 1 .. arrived = (1 .. Finished) \cup hand \cup waits
  <2>1. 1 .. Taken = (1 .. Finished) \cup hand
    BY <1>0, <1>1, <1>3 DEF Finished
  <2>2. 1 .. arrived = (1 .. Taken) \cup waits
    <3> HIDE DEF waits
    <3>1. CASE inQueue = <<>>
      BY <1>2, <3>1 DEF Taken
    <3>2. CASE inQueue # <<>>
      <4>1. Taken = arrived - 1 /\ waits = {arrived} /\ arrived \in Nat \ {0}
        BY <1>2, <3>2 DEF Taken
      <4> QED BY ONLY <4>1
    <3> QED BY <3>1, <3>2
  <2> QED BY <2>1, <2>2
<1>5. {f.id : f \in Range(inParts) \cup Range(inQueue)} = hand \cup waits
  OBVIOUS
<1>6. Range(dqmSent) \ Range(sent) \subseteq lost \cup hand
  <2>1. Range(dqmSent) \subseteq (1 .. Finished) \cup hand
    BY <1>0, <1>1, <1>3 DEF FrameInv, DqmInv, Finished
  <2> QED BY <2>1 DEF FrameInv, LostInv
<1>7. Cardinality(lost) <= runs
  BY LostIsFinite, FS_CardinalityType DEF FrameInv, TypeOK, LostInv, MayLose
<1>8. 1 .. arrived = Range(sent) \cup lost \cup hand \cup waits
  BY <1>4 DEF FrameInv, LostInv
<1> QED BY <1>5, <1>6, <1>7, <1>8 DEF OutputWasMonitored, FrameInv, DqmInv, LostInv

\* OutputWasMonitored: every frame that goes to an output went to the dqm channel
\* before, in order, and a frame is lost at a stop only, one at most.
THEOREM FramesAreMonitored == Spec => []OutputWasMonitored
<1> QED BY FrameAlways, MonitoredFollows, PTL

-----------------------------------------------------------------------------
(* Recursive functions: what the loops of the filter go through. *)

\* A set of naturals has a least element.
LEMMA LeastNatural ==
  ASSUME NEW S \in SUBSET Nat, S # {}
  PROVE  \E x \in S : \A y \in S : x <= y
<1> DEFINE T == {0 .. n : n \in S}
<1>1. T \subseteq FiniteSubsetsOf(Nat)
  <2>1. ASSUME NEW n \in S PROVE 0 .. n \in SUBSET Nat /\ IsFiniteSet(0 .. n)
    BY FS_Interval
  <2> QED BY <2>1 DEF FiniteSubsetsOf
<1>2. T # {}
  OBVIOUS
<1>3. PICK t \in T : \A u \in T : <<u, t>> \notin StrictSubsetOrdering(Nat)
  <2> HIDE DEF T
  <2> QED BY <1>1, <1>2, FS_StrictSubsetOrderingWellFounded, WFMin
<1>4. PICK x \in S : t = 0 .. x
  BY <1>3
<1>5. ASSUME NEW y \in S, y < x PROVE FALSE
  <2>1. /\ 0 .. y \in T /\ 0 .. y \subseteq t /\ 0 .. y # t
    BY <1>4, <1>5
  <2>2. <<0 .. y, t>> \in StrictSubsetOrdering(Nat)
    BY <2>1, <1>4 DEF StrictSubsetOrdering
  <2> QED BY <2>1, <2>2, <1>3
<1> QED BY <1>5

\* Induction.
LEMMA Induction ==
  ASSUME NEW S, 0 \in S, \A n \in Nat : n \in S => n + 1 \in S
  PROVE  Nat \subseteq S
<1> SUFFICES ASSUME Nat \ S # {} PROVE FALSE
  OBVIOUS
<1>1. PICK x \in Nat \ S : \A y \in Nat \ S : x <= y
  BY LeastNatural
<1>2. x # 0 /\ x - 1 \in Nat
  BY <1>1
<1>3. x - 1 \in S
  BY <1>1, <1>2
<1> QED BY <1>1, <1>2, <1>3

\* A value that is made step by step from the one before it.
IsTrace(h, V, G, b, N) ==
    /\ h \in [0 .. N -> V] /\ h[0] = b
    /\ \A n \in 1 .. N : h[n] = G[<<h[n - 1], n>>]

LEMMA TraceExists ==
  ASSUME NEW V, NEW b \in V, NEW N \in Nat, NEW G \in [V \X (1 .. N) -> V]
  PROVE  \E h : IsTrace(h, V, G, b, N)
<1> DEFINE Upto(h, n) == /\ h \in [0 .. n -> V] /\ h[0] = b
                          /\ \A k \in 1 .. n : h[k] = G[<<h[k - 1], k>>]
           S == {n \in Nat : n <= N => \E h : Upto(h, n)}
<1>1. \E h : Upto(h, 0)
  <2> DEFINE h == [k \in 0 .. 0 |-> b]
  <2>1. Upto(h, 0)
    BY 1 .. 0 = {}
  <2> QED BY <2>1
<1>2. ASSUME NEW n \in Nat, n + 1 <= N, NEW g, Upto(g, n) PROVE \E h : Upto(h, n + 1)
  <2> PICK e : e = G[<<g[n], n + 1>>]
    OBVIOUS
  <2>1. e \in V
    <3>1. n + 1 \in 1 .. N /\ n \in 0 .. n
      BY <1>2
    <3>2. g[n] \in V
      BY <1>2, <3>1
    <3>3. <<g[n], n + 1>> \in V \X (1 .. N)
      BY ONLY <3>1, <3>2
    <3> QED BY ONLY <3>3, e = G[<<g[n], n + 1>>], G \in [V \X (1 .. N) -> V]
  <2> DEFINE h == [k \in 0 .. n + 1 |-> IF k = n + 1 THEN e ELSE g[k]]
  <2>2. h[n + 1] = e /\ \A k \in 0 .. n : h[k] = g[k]
    OBVIOUS
  <2>3. h \in [0 .. n + 1 -> V]
    <3>1. \A k \in 0 .. n + 1 : (IF k = n + 1 THEN e ELSE g[k]) \in V
      BY <1>2, <2>1
    <3> QED BY <3>1
  <2> HIDE DEF h
  <2>4. ASSUME NEW k \in 1 .. n + 1 PROVE h[k] = G[<<h[k - 1], k>>]
    <3>1. CASE k = n + 1
      BY <2>2, <3>1
    <3>2. CASE k \in 1 .. n
      BY <1>2, <2>2, <3>2
    <3> QED BY <3>1, <3>2
  <2>5. h[0] = b
    BY <1>2, <2>2
  <2>6. Upto(h, n + 1)
    BY <2>3, <2>4, <2>5
  <2> QED BY <2>6
<1> HIDE DEF Upto
<1>3. 0 \in S /\ \A n \in Nat : n \in S => n + 1 \in S
  BY <1>1, <1>2
<1>4. Nat \subseteq S
  <2> HIDE DEF S
  <2> QED BY <1>3, Induction
<1>5. \E h : Upto(h, N)
  BY <1>4
<1> QED BY <1>5 DEF IsTrace, Upto

\* What the steps of two recursive functions agree on, their values agree on.
LEMMA TracesAgree ==
  ASSUME NEW V, NEW b, NEW N \in Nat, NEW M \in 0 .. N, NEW G, NEW H, NEW g, NEW h,
         IsTrace(g, V, G, b, N), IsTrace(h, V, H, b, M),
         \A v \in V, n \in 1 .. M : G[<<v, n>>] = H[<<v, n>>]
  PROVE  \A n \in 0 .. M : g[n] = h[n]
<1> DEFINE S == {n \in Nat : n <= M => g[n] = h[n]}
<1>1. 0 \in S
  BY DEF IsTrace
<1>2. ASSUME NEW n \in Nat, n \in S PROVE n + 1 \in S
  <2> SUFFICES ASSUME n + 1 <= M PROVE g[n + 1] = h[n + 1]
    OBVIOUS
  <2>1. n + 1 \in 1 .. M /\ n + 1 \in 1 .. N /\ (n + 1) - 1 = n /\ n \in 0 .. N
    OBVIOUS
  <2>2. g[n + 1] = G[<<g[n], n + 1>>] /\ h[n + 1] = H[<<h[n], n + 1>>] /\ g[n] \in V
    BY <2>1 DEF IsTrace
  <2>3. g[n] = h[n]
    BY <1>2
  <2> QED BY <2>1, <2>2, <2>3
<1>3. Nat \subseteq S
  <2> HIDE DEF S
  <2> QED BY <1>1, <1>2, Induction
<1> QED BY <1>3
\* A function that makes each value from the one before it is such a trace.
LEMMA TraceOf ==
  ASSUME NEW V, NEW b \in V, NEW N \in Nat, NEW G \in [V \X (1 .. N) -> V], NEW f,
         f = [n \in 0 .. N |-> f[n]], f[0] = b,
         \A n \in 1 .. N : f[n - 1] \in V => f[n] = G[<<f[n - 1], n>>]
  PROVE  IsTrace(f, V, G, b, N)
<1> DEFINE S == {n \in Nat : n <= N => f[n] \in V}
<1>1. ASSUME NEW n \in 1 .. N, f[n - 1] \in V PROVE f[n] \in V
  <2>1. <<f[n - 1], n>> \in V \X (1 .. N)
    BY <1>1
  <2> QED BY <1>1, <2>1
<1>2. 0 \in S
  OBVIOUS
<1>3. ASSUME NEW n \in Nat, n \in S PROVE n + 1 \in S
  <2> SUFFICES ASSUME n + 1 <= N PROVE f[n + 1] \in V
    OBVIOUS
  <2>1. n + 1 \in 1 .. N /\ (n + 1) - 1 = n /\ f[n] \in V
    BY <1>3
  <2> QED BY <2>1, <1>1
<1>4. Nat \subseteq S
  <2> HIDE DEF S
  <2> QED BY <1>2, <1>3, Induction
<1>5. \A n \in 0 .. N : f[n] \in V
  BY <1>4
<1>6. f \in [0 .. N -> V]
  BY <1>5
<1>7. ASSUME NEW n \in 1 .. N PROVE f[n] = G[<<f[n - 1], n>>]
  <2>1. n - 1 \in 0 .. N
    OBVIOUS
  <2> QED BY <2>1, <1>5
<1> QED BY <1>6, <1>7 DEF IsTrace

-----------------------------------------------------------------------------
(* The tables. *)

\* The stack of the calculator.
LEMMA AppliedType ==
  ASSUME NEW com, NEW stack \in Seq(BOOLEAN), NEW bits
  PROVE  Applied(com, stack, bits) \in Seq(BOOLEAN)
<1>1. \A a \in BOOLEAN, s \in Seq(BOOLEAN) : <<a>> \o s \in Seq(BOOLEAN)
  OBVIOUS
<1>2. CASE IsNumber(com)
  <2>1. (Number[com] \in bits) \in BOOLEAN
    OBVIOUS
  <2>2. Applied(com, stack, bits) = <<Number[com] \in bits>> \o stack
    <3>1. com # "&" /\ com # "|" /\ com # "x" /\ com # "!" /\ com # "d"
      BY <1>2 DEF IsNumber, Number
    <3> QED BY <1>2, <3>1, Zenon DEF Applied
  <2> QED BY <1>1, <2>1, <2>2
<1>3. CASE ~IsNumber(com)
  <2>1. SubSeq(stack, 3, Len(stack)) \in Seq(BOOLEAN)
    OBVIOUS
  <2>2. stack # <<>> => stack[1] \in BOOLEAN /\ Tail(stack) \in Seq(BOOLEAN)
    OBVIOUS
  <2>3. Len(stack) > 1 => stack[1] \in BOOLEAN /\ stack[2] \in BOOLEAN
    OBVIOUS
  <2>4. CASE com = "&" /\ Len(stack) > 1
    <3>1. Applied(com, stack, bits) = <<stack[1] /\ stack[2]>> \o SubSeq(stack, 3, Len(stack))
      BY <1>3, <2>4, Zenon DEF Applied
    <3>2. (stack[1] /\ stack[2]) \in BOOLEAN
      OBVIOUS
    <3> QED BY <1>1, <2>1, <3>1, <3>2
  <2>5. CASE com = "|" /\ Len(stack) > 1
    <3>1. Applied(com, stack, bits) = <<stack[1] \/ stack[2]>> \o SubSeq(stack, 3, Len(stack))
      BY <1>3, <2>5, Zenon DEF Applied
    <3>2. (stack[1] \/ stack[2]) \in BOOLEAN
      OBVIOUS
    <3> QED BY <1>1, <2>1, <3>1, <3>2
  <2>6. CASE com = "x" /\ Len(stack) > 1
    <3>1. Applied(com, stack, bits) = <<stack[2], stack[1]>> \o SubSeq(stack, 3, Len(stack))
      BY <1>3, <2>6, Zenon DEF Applied
    <3>2. <<stack[2], stack[1]>> \in Seq(BOOLEAN)
      BY <2>3, <2>6
    <3> QED BY <2>1, <3>1, <3>2, ConcatProperties
  <2>7. CASE com = "!" /\ stack # <<>>
    <3>1. Applied(com, stack, bits) = <<~stack[1]>> \o Tail(stack)
      BY <1>3, <2>7, Zenon DEF Applied
    <3>2. (~stack[1]) \in BOOLEAN
      OBVIOUS
    <3> QED BY <1>1, <2>2, <2>7, <3>1, <3>2
  <2>8. CASE com = "d" /\ stack # <<>>
    <3>1. Applied(com, stack, bits) = Tail(stack)
      BY <1>3, <2>8, Zenon DEF Applied
    <3> QED BY <2>2, <2>8, <3>1
  <2>9. CASE ~(com \in {"&", "|", "x"} /\ Len(stack) > 1) /\ ~(com \in {"!", "d"} /\ stack # <<>>)
    <3>1. Applied(com, stack, bits) = stack
      BY <1>3, <2>9, Zenon DEF Applied
    <3> QED BY <3>1
  <2> QED BY <2>4, <2>5, <2>6, <2>7, <2>8, <2>9
<1> QED BY <1>2, <1>3

\* The stack after each command.
LEMMA StackTrace ==
  ASSUME NEW commands \in Seq(STRING), NEW bits
  PROVE  IsTrace(StackAfter(commands, bits), Seq(BOOLEAN),
                 [p \in Seq(BOOLEAN) \X (1 .. Len(commands)) |-> Applied(commands[p[2]], p[1], bits)],
                 <<>>, Len(commands))
<1> DEFINE V == Seq(BOOLEAN)
           N == Len(commands)
           G == [p \in V \X (1 .. N) |-> Applied(commands[p[2]], p[1], bits)]
           Fits(g) == g = [n \in 0 .. N |-> IF n = 0 THEN <<>>
                                            ELSE Applied(commands[n], g[n - 1], bits)]
<1>1. <<>> \in V /\ N \in Nat
  OBVIOUS
<1>2. G \in [V \X (1 .. N) -> V]
  BY AppliedType
<1>3. \A v \in V, n \in 1 .. N : G[<<v, n>>] = Applied(commands[n], v, bits)
  OBVIOUS
<1>4. \E f : f = StackAfter(commands, bits) /\ f = CHOOSE g : Fits(g)
  BY DEF StackAfter
<1> PICK f : f = StackAfter(commands, bits) /\ f = CHOOSE g : Fits(g)
  BY <1>4
<1> HIDE DEF V, N, G
<1>5. PICK h : IsTrace(h, V, G, <<>>, N)
  BY <1>1, <1>2, TraceExists
<1>6. Fits(h)
  <2>1. h \in [0 .. N -> V] /\ h[0] = <<>>
    BY <1>5 DEF IsTrace
  <2>2. ASSUME NEW n \in 0 .. N, n # 0 PROVE h[n] = Applied(commands[n], h[n - 1], bits)
    <3>1. n \in 1 .. N /\ n - 1 \in 0 .. N
      BY <1>1, <2>2
    <3>2. h[n] = G[<<h[n - 1], n>>] /\ h[n - 1] \in V
      BY <1>5, <3>1 DEF IsTrace
    <3> QED BY <1>3, <3>1, <3>2
  <2> QED BY <2>1, <2>2
<1>7. Fits(f)
  <2> HIDE DEF Fits
  <2> QED BY <1>6
<1>8. /\ f = [n \in 0 .. N |-> f[n]] /\ f[0] = <<>>
      /\ \A n \in 1 .. N : f[n] = Applied(commands[n], f[n - 1], bits)
  <2>1. f = [n \in 0 .. N |-> IF n = 0 THEN <<>> ELSE Applied(commands[n], f[n - 1], bits)]
    BY <1>7
  <2> HIDE DEF Fits
  <2>2. \A n \in 0 .. N : f[n] = IF n = 0 THEN <<>> ELSE Applied(commands[n], f[n - 1], bits)
    BY <2>1
  <2>3. f = [n \in 0 .. N |-> f[n]]
    BY <2>1
  <2>4. f[0] = <<>>
    <3>1. 0 \in 0 .. N
      BY <1>1
    <3> QED BY <2>2, <3>1
  <2>5. ASSUME NEW n \in 1 .. N PROVE f[n] = Applied(commands[n], f[n - 1], bits)
    BY <1>1, <2>2
  <2> QED BY ONLY <2>3, <2>4, <2>5
<1>9. IsTrace(f, V, G, <<>>, N)
  <2> HIDE DEF Fits
  <2>1. \A n \in 1 .. N : f[n - 1] \in V => f[n] = G[<<f[n - 1], n>>]
    BY <1>3, <1>8
  <2> QED BY ONLY <1>1, <1>2, <1>8, <2>1, TraceOf
<1> QED BY <1>9 DEF V, N, G

LEMMA MaxOfBounded ==
  ASSUME NEW S \in SUBSET Nat, S # {}, NEW B \in Nat, \A x \in S : x <= B
  PROVE  Max(S) \in S /\ \A x \in S : x <= Max(S)
<1> DEFINE T == {n \in Nat : \A x \in S : x <= n}
<1>1. PICK m \in T : \A n \in T : m <= n
  <2>1. B \in T /\ T \in SUBSET Nat
    OBVIOUS
  <2> HIDE DEF T
  <2> QED BY <2>1, LeastNatural
<1>2. m \in S
  <2> SUFFICES ASSUME m \notin S PROVE FALSE
    OBVIOUS
  <2>1. \A x \in S : x <= m - 1 /\ m - 1 \in Nat
    OBVIOUS
  <2>2. m - 1 \in T
    BY <2>1
  <2> QED BY <1>1, <2>2
<1>3. m \in S /\ \A y \in S : m >= y
  BY <1>2
<1>4. Max(S) \in S /\ \A y \in S : Max(S) >= y
  <2> HIDE DEF T
  <2> QED BY ONLY <1>3, Zenon DEF Max
<1> QED BY <1>4

\* No command names a signal above SigMax.
LEMMA SigMaxBounds ==
  ASSUME NEW commands, NEW n \in DOMAIN commands, IsNumber(commands[n])
  PROVE  Number[commands[n]] \in 0 .. SigMax(commands)
<1> DEFINE S == {Number[commands[i]] : i \in {k \in DOMAIN commands : IsNumber(commands[k])}} \cup {0}
<1>1. \A w : IsNumber(w) => Number[w] \in 0 .. 40
  BY DEF IsNumber, Number
<1>2. S \in SUBSET Nat /\ S # {} /\ \A x \in S : x <= 40
  BY <1>1
<1>3. Number[commands[n]] \in S
  OBVIOUS
<1>4. SigMax(commands) = Max(S)
  BY DEF SigMax
<1> HIDE DEF S
<1>5. Number[commands[n]] <= Max(S) /\ Max(S) \in Nat
  BY <1>2, <1>3, MaxOfBounded
<1> QED BY <1>1, <1>4, <1>5

\* A command looks at its own signal only.
LEMMA AppliedMasked ==
  ASSUME NEW com, NEW stack, NEW a, NEW b, IsNumber(com) => (Number[com] \in a <=> Number[com] \in b)
  PROVE  Applied(com, stack, a) = Applied(com, stack, b)
<1>1. CASE IsNumber(com)
  <2>1. com # "&" /\ com # "|" /\ com # "x" /\ com # "!" /\ com # "d"
    BY <1>1 DEF IsNumber, Number
  <2>2. /\ Applied(com, stack, a) = <<Number[com] \in a>> \o stack
        /\ Applied(com, stack, b) = <<Number[com] \in b>> \o stack
    BY <1>1, <2>1, Zenon DEF Applied
  <2>3. (Number[com] \in a) = (Number[com] \in b)
    BY <1>1
  <2> QED BY <2>2, <2>3
<1>2. CASE ~IsNumber(com)
  BY <1>2, Zenon DEF Applied
<1> QED BY <1>1, <1>2

\* Looking a pattern up gives what the calculator gives for it.
LEMMA LookUpCalculates ==
  ASSUME NEW formula, Commands(formula) \in Seq(STRING), NEW on
  PROVE  LookUp(MakeTable(formula), on) <=> Calc(Commands(formula), on)
<1> PICK commands : commands = Commands(formula)
  OBVIOUS
<1> DEFINE mask == 0 .. SigMax(commands)
           N == Len(commands)
           V == Seq(BOOLEAN)
           G(bits) == [p \in V \X (1 .. N) |-> Applied(commands[p[2]], p[1], bits)]
<1>1. N \in Nat /\ DOMAIN commands = 1 .. N /\ N \in 0 .. N
  OBVIOUS
<1>2. \A bits : IsTrace(StackAfter(commands, bits), V, G(bits), <<>>, N)
  BY StackTrace
<1>3. ASSUME NEW v \in V, NEW n \in 1 .. N PROVE G(on)[<<v, n>>] = G(on \cap mask)[<<v, n>>]
  <2>1. IsNumber(commands[n]) => Number[commands[n]] \in mask
    BY <1>1, SigMaxBounds
  <2>2. Applied(commands[n], v, on) = Applied(commands[n], v, on \cap mask)
    <3> HIDE DEF mask
    <3> QED BY <2>1, AppliedMasked
  <2> QED BY <2>2
<1>4. StackAfter(commands, on)[N] = StackAfter(commands, on \cap mask)[N]
  <2> HIDE DEF V, G, N, mask
  <2>1. /\ IsTrace(StackAfter(commands, on), V, G(on), <<>>, N)
        /\ IsTrace(StackAfter(commands, on \cap mask), V, G(on \cap mask), <<>>, N)
    BY <1>2
  <2>2. \A v \in V, n \in 1 .. N : G(on)[<<v, n>>] = G(on \cap mask)[<<v, n>>]
    BY <1>3
  <2> PICK g : g = StackAfter(commands, on)
    OBVIOUS
  <2> PICK h : h = StackAfter(commands, on \cap mask)
    OBVIOUS
  <2> PICK G1 : G1 = G(on)
    OBVIOUS
  <2> PICK G2 : G2 = G(on \cap mask)
    OBVIOUS
  <2>3. IsTrace(g, V, G1, <<>>, N) /\ IsTrace(h, V, G2, <<>>, N)
    BY ONLY <2>1, g = StackAfter(commands, on), h = StackAfter(commands, on \cap mask),
            G1 = G(on), G2 = G(on \cap mask)
  <2>4. \A v \in V, n \in 1 .. N : G1[<<v, n>>] = G2[<<v, n>>]
    BY ONLY <2>2, G1 = G(on), G2 = G(on \cap mask)
  <2>5. \A n \in 0 .. N : g[n] = h[n]
    BY ONLY <1>1, <2>3, <2>4, TracesAgree
  <2> QED BY <1>1, <2>5
<1>5. Calc(commands, on) <=> Calc(commands, on \cap mask)
  BY <1>4 DEF Calc
<1>6. LookUp(MakeTable(formula), on) <=> on \cap mask \in {bits \in SUBSET mask : Calc(commands, bits)}
  BY DEF LookUp, MakeTable
<1> QED BY <1>5, <1>6

-----------------------------------------------------------------------------
(* The triggers are those of the expressions. *)

TriggersInv ==
    state \in {"Ready", "Running"} =>
        /\ expressions \in Expressions
        /\ \A n \in DOMAIN expressions : ~FormulaThrows(expressions[n].formula)
        /\ fTrig = NewTriggers(expressions)

LEMMA TriggersStep == ASSUME TriggersInv, [Next]_vars PROVE TriggersInv'
<1> USE DEF TriggersInv, control, options, channels, work, history
<1>1. CASE InitTask
  <2>1. PICK es \in Expressions :
            /\ expressions' = es
            /\ IF \E n \in DOMAIN es : FormulaThrows(es[n].formula)
                 THEN state' = "Error" /\ fTrig' = <<>>
                 ELSE state' = "Ready" /\ fTrig' = NewTriggers(es)
    BY <1>1 DEF InitTask
  <2> QED BY <2>1
<1>2. CASE Run
  BY <1>2 DEF Run
<1>3. CASE ResetTask
  BY <1>3 DEF ResetTask
<1>4. CASE EndRun
  BY <1>4 DEF EndRun
<1>5. CASE UNCHANGED <<state, expressions, fTrig>>
  BY <1>5
<1>6. [Next]_vars => InitTask \/ Run \/ ResetTask \/ EndRun \/ UNCHANGED <<state, expressions, fTrig>>
  BY DEF Next, Device, vars, StopRequest, Receive, ExecMark, ExecScan, NextTrigger, DqmSend, DqmInterrupted,
         OutputSend, OutputBusy, OutputAbandon, FrameArrives, DqmTake, OutputTake
<1> QED BY <1>1, <1>2, <1>3, <1>4, <1>5, <1>6

LEMMA TriggersAlways == Spec => []TriggersInv
<1>1. Init => TriggersInv
  BY DEF Init, TriggersInv
<1> QED BY <1>1, TriggersStep, PTL DEF Spec

\* A table has, for every pattern of signals, what the calculator makes of the
\* commands of its expression: nothing is lost by a table that ends at the largest
\* signal named and masks out the rest.
TablesAreCalculated ==
    state \in {"Ready", "Running"} =>
        /\ Len(fTrig) = Len(expressions)
        /\ \A n \in DOMAIN fTrig, on \in SUBSET (0 .. Len(Signals) - 1) :
                LookUp(fTrig[n].map, on) <=> Calc(Commands(expressions[n].formula), on)

\* The shape of the triggers.
LEMMA TriggersOf ==
  ASSUME TriggersInv, state \in {"Ready", "Running"}
  PROVE  /\ Len(expressions) \in Nat /\ DOMAIN expressions = 1 .. Len(expressions)
         /\ Len(fTrig) = Len(expressions) /\ DOMAIN fTrig = 1 .. Len(fTrig)
         /\ \A n \in DOMAIN expressions :
                /\ fTrig[n].type = expressions[n].type
                /\ fTrig[n].map = MakeTable(expressions[n].formula)
                /\ Commands(expressions[n].formula) \in Seq(STRING)
<1>1. PICK E : expressions \in Seq(E)
  BY FilterAssumption DEF TriggersInv
<1>2. Len(expressions) \in Nat /\ DOMAIN expressions = 1 .. Len(expressions)
  BY <1>1
<1>3. fTrig = [n \in 1 .. Len(expressions) |->
                [type |-> expressions[n].type, map |-> MakeTable(expressions[n].formula)]]
  BY <1>2 DEF TriggersInv, NewTriggers
<1>4. fTrig \in Seq(Range(fTrig)) /\ Len(fTrig) = Len(expressions) /\ DOMAIN fTrig = 1 .. Len(fTrig)
  BY <1>2, <1>3 DEF Range
<1>5. \A n \in DOMAIN expressions : Commands(expressions[n].formula) \in Seq(STRING)
  BY FilterAssumption DEF TriggersInv
<1> QED BY <1>2, <1>3, <1>4, <1>5

LEMMA CalculatedFollows == ASSUME TriggersInv PROVE TablesAreCalculated
<1> SUFFICES ASSUME state \in {"Ready", "Running"},
                    NEW n \in DOMAIN fTrig, NEW on \in SUBSET (0 .. Len(Signals) - 1)
             PROVE  LookUp(fTrig[n].map, on) <=> Calc(Commands(expressions[n].formula), on)
  BY TriggersOf DEF TablesAreCalculated
<1> QED BY TriggersOf, LookUpCalculates

\* TablesAreCalculated: whatever the expressions are, the table of a trigger gives
\* what the calculator gives, for every setting of the signals.
THEOREM TablesAreTheCalculators == Spec => []TablesAreCalculated
<1> QED BY TriggersAlways, CalculatedFollows, PTL

-----------------------------------------------------------------------------
(* Scan finds the rising edges. *)

\* The expression becomes true at time t.
Edge(map, region, t) == ~LookUp(map, region[t - 1]) /\ LookUp(map, region[t])

ScanStep(map, region, v, t) == IF Edge(map, region, t) THEN Append(v, t) ELSE v

LEMMA ScanTrace ==
  ASSUME NEW map, NEW region
  PROVE  \E f, G : /\ IsTrace(f, Seq(Nat), G, <<>>, fTimeRegionSize - 1)
                   /\ Scan(map, region) = f[fTimeRegionSize - 1]
                   /\ \A v \in Seq(Nat), t \in 1 .. fTimeRegionSize - 1 :
                        G[<<v, t>>] = ScanStep(map, region, v, t)
<1> DEFINE V == Seq(Nat)
           N == fTimeRegionSize - 1
           Up(v, t) == ScanStep(map, region, v, t)
           G == [p \in V \X (1 .. N) |-> Up(p[1], p[2])]
           Fits(g) == g = [t \in 0 .. fTimeRegionSize - 1 |-> IF t = 0 THEN <<>>
                             ELSE IF ~LookUp(map, region[t - 1]) /\ LookUp(map, region[t])
                                    THEN Append(g[t - 1], t) ELSE g[t - 1]]
<1>1. <<>> \in V /\ N \in Nat
  BY TriggerAssumption
<1>2. G \in [V \X (1 .. N) -> V]
  <2>1. \A v \in V, t \in 1 .. N : Up(v, t) \in V
    BY DEF ScanStep
  <2> HIDE DEF Up, V
  <2> QED BY <2>1
<1>3. \A v \in V, t \in 1 .. N : G[<<v, t>>] = Up(v, t)
  OBVIOUS
<1>4. \E f : Scan(map, region) = f[fTimeRegionSize - 1] /\ f = CHOOSE g : Fits(g)
  BY DEF Scan
<1> PICK f : Scan(map, region) = f[fTimeRegionSize - 1] /\ f = CHOOSE g : Fits(g)
  BY <1>4
<1> HIDE DEF V, N, G
<1>5. PICK h : IsTrace(h, V, G, <<>>, N)
  BY <1>1, <1>2, TraceExists
<1>6. Fits(h)
  <2>1. h \in [0 .. N -> V] /\ h[0] = <<>>
    BY <1>5 DEF IsTrace
  <2>2. ASSUME NEW t \in 0 .. N, t # 0 PROVE h[t] = Up(h[t - 1], t)
    <3>1. t \in 1 .. N /\ t - 1 \in 0 .. N
      BY <1>1, <2>2
    <3>2. h[t] = G[<<h[t - 1], t>>] /\ h[t - 1] \in V
      BY <1>5, <3>1 DEF IsTrace
    <3> QED BY <1>3, <3>1, <3>2
  <2> QED BY <2>1, <2>2 DEF N, ScanStep, Edge
<1>7. Fits(f)
  <2> HIDE DEF Fits
  <2> QED BY <1>6
<1>8. /\ f = [t \in 0 .. N |-> f[t]] /\ f[0] = <<>>
      /\ \A t \in 1 .. N : f[t] = Up(f[t - 1], t)
  <2>1. f = [t \in 0 .. N |-> IF t = 0 THEN <<>> ELSE Up(f[t - 1], t)]
    BY <1>7 DEF N, ScanStep, Edge
  <2> HIDE DEF Fits, Up
  <2>2. \A t \in 0 .. N : f[t] = IF t = 0 THEN <<>> ELSE Up(f[t - 1], t)
    BY <2>1
  <2>3. f = [t \in 0 .. N |-> f[t]]
    BY <2>1
  <2>4. f[0] = <<>>
    BY <1>1, <2>2
  <2>5. ASSUME NEW t \in 1 .. N PROVE f[t] = Up(f[t - 1], t)
    BY <1>1, <2>2
  <2> QED BY ONLY <2>3, <2>4, <2>5
<1>9. IsTrace(f, V, G, <<>>, N)
  <2> HIDE DEF Fits, Up
  <2>1. \A t \in 1 .. N : f[t - 1] \in V => f[t] = G[<<f[t - 1], t>>]
    BY <1>3, <1>8
  <2> QED BY ONLY <1>1, <1>2, <1>8, <2>1, TraceOf
<1> HIDE DEF Fits
<1>10. \A v \in Seq(Nat), t \in 1 .. fTimeRegionSize - 1 : G[<<v, t>>] = ScanStep(map, region, v, t)
  BY <1>3 DEF V, N
<1>11. IsTrace(f, Seq(Nat), G, <<>>, fTimeRegionSize - 1)
  BY <1>9 DEF V, N
<1> QED BY <1>10, <1>11

\* The times Scan finds are those at which the expression becomes true, in order.
LEMMA ScanFinds ==
  ASSUME NEW map, NEW region
  PROVE  /\ Scan(map, region) \in Seq(Nat)
         /\ Range(Scan(map, region)) =
                {t \in Times \ {0} : ~LookUp(map, region[t - 1]) /\ LookUp(map, region[t])}
         /\ Increasing(Scan(map, region))
<1> DEFINE N == fTimeRegionSize - 1
           E(t) == Edge(map, region, t)
<1> PICK f, G : /\ IsTrace(f, Seq(Nat), G, <<>>, N) /\ Scan(map, region) = f[N]
                /\ \A v \in Seq(Nat), t \in 1 .. N : G[<<v, t>>] = ScanStep(map, region, v, t)
  BY ScanTrace
<1> HIDE DEF E
<1>1. N \in Nat /\ Times \ {0} = 1 .. N
  BY TriggerAssumption DEF Times
<1> HIDE DEF N
<1> DEFINE Good(v, n) == v \in Seq(Nat) /\ Range(v) = {t \in 1 .. n : E(t)} /\ Increasing(v)
           S == {n \in Nat : n <= N => Good(f[n], n)}
<1>2. 0 \in S
  <2>1. f[0] = <<>>
    BY DEF IsTrace
  <2>2. <<>> \in Seq(Nat) /\ DOMAIN <<>> = {} /\ Range(<<>>) = {}
    BY EmptySeq DEF Range
  <2>3. Increasing(<<>>)
    BY <2>2 DEF Increasing
  <2>4. {t \in 1 .. 0 : E(t)} = {}
    OBVIOUS
  <2> QED BY <2>1, <2>2, <2>3, <2>4
<1>3. ASSUME NEW n \in Nat, n \in S PROVE n + 1 \in S
  <2> SUFFICES ASSUME n + 1 <= N PROVE Good(f[n + 1], n + 1)
    OBVIOUS
  <2>1. n + 1 \in 1 .. N /\ (n + 1) - 1 = n
    BY <1>1
  <2>2. Good(f[n], n)
    BY <1>3, <1>1
  <2>3. f[n + 1] = G[<<f[n], n + 1>>]
    BY <2>1 DEF IsTrace
  <2>4. f[n + 1] = IF E(n + 1) THEN Append(f[n], n + 1) ELSE f[n]
    BY <2>1, <2>2, <2>3 DEF ScanStep, E
  <2>5. 1 .. n + 1 = (1 .. n) \cup {n + 1}
    OBVIOUS
  <2>6. CASE E(n + 1)
    <3>1. \A x \in Range(f[n]) : x < n + 1
      BY <2>2
    <3>2. Increasing(Append(f[n], n + 1))
      BY <2>2, <3>1, IncreasingAppend
    <3>3. Append(f[n], n + 1) \in Seq(Nat) /\ Range(Append(f[n], n + 1)) = Range(f[n]) \cup {n + 1}
      BY <2>2, RangeAppend
    <3> QED BY <2>2, <2>4, <2>5, <2>6, <3>2, <3>3
  <2>7. CASE ~E(n + 1)
    BY <2>2, <2>4, <2>5, <2>7
  <2> QED BY <2>6, <2>7
<1>4. Nat \subseteq S
  <2> HIDE DEF S
  <2> QED BY <1>2, <1>3, Induction
<1>5. Good(f[N], N)
  BY <1>1, <1>4
<1> QED BY <1>1, <1>5 DEF E, Edge

-----------------------------------------------------------------------------
(* The blocks of an STF are those of its heartbeats. *)

AnyWord == [type : {"TDC", "other", "HB", "HBF"}, ch : Nat, time : Nat]
Message == Seq(AnyWord)
Block   == [is_HB : BOOLEAN, msg : Message]

LEMMA AddBlockType ==
  ASSUME NEW split, NEW blocks \in Seq(Block), NEW msg \in Message
  PROVE  AddBlock(split, blocks, msg) \in Seq(Block)
<1>1. Data(msg) \in Block /\ Beat(msg) \in Block /\ Dummy \in Block
  BY DEF Data, Beat, Dummy, Block, Message
<1>2. Append(blocks, Data(msg)) \in Seq(Block) /\ Append(blocks, Beat(msg)) \in Seq(Block)
  BY <1>1
<1>3. <<Dummy, Beat(msg)>> \in Seq(Block)
  BY <1>1
<1>4. blocks \o <<Dummy, Beat(msg)>> \in Seq(Block)
  BY <1>3, ConcatProperties
<1> QED BY <1>2, <1>4, Zenon DEF AddBlock

\* f goes through the blocks of the messages, step by step as G says.
MakesBlocks(f, G, split, msgs) ==
    /\ IsTrace(f, Seq(Block), G, <<>>, Len(msgs))
    /\ Blocks(split, msgs) = f[Len(msgs)]
    /\ \A v \in Seq(Block), n \in 1 .. Len(msgs) : G[<<v, n>>] = AddBlock(split, v, msgs[n])

LEMMA BlocksTrace ==
  ASSUME NEW split, NEW msgs \in Seq(Message)
  PROVE  \E f, G : MakesBlocks(f, G, split, msgs)
<1> DEFINE V == Seq(Block)
           N == Len(msgs)
           G == [p \in V \X (1 .. N) |-> AddBlock(split, p[1], msgs[p[2]])]
           Fits(g) == g = [n \in 0 .. Len(msgs) |-> IF n = 0 THEN <<>>
                             ELSE AddBlock(split, g[n - 1], msgs[n])]
<1>1. <<>> \in V /\ N \in Nat
  OBVIOUS
<1>2. G \in [V \X (1 .. N) -> V]
  <2>1. \A v \in V, n \in 1 .. N : AddBlock(split, v, msgs[n]) \in V
    <3>1. \A n \in 1 .. N : msgs[n] \in Message
      OBVIOUS
    <3> QED BY <3>1, AddBlockType
  <2> HIDE DEF V
  <2> QED BY <2>1
<1>3. \A v \in V, n \in 1 .. N : G[<<v, n>>] = AddBlock(split, v, msgs[n])
  OBVIOUS
<1>4. \E f : Blocks(split, msgs) = f[Len(msgs)] /\ f = CHOOSE g : Fits(g)
  BY DEF Blocks
<1> PICK f : Blocks(split, msgs) = f[Len(msgs)] /\ f = CHOOSE g : Fits(g)
  BY <1>4
<1> HIDE DEF V, N, G
<1>5. PICK h : IsTrace(h, V, G, <<>>, N)
  BY <1>1, <1>2, TraceExists
<1>6. Fits(h)
  <2>1. h \in [0 .. N -> V] /\ h[0] = <<>>
    BY <1>5 DEF IsTrace
  <2>2. ASSUME NEW n \in 0 .. N, n # 0 PROVE h[n] = AddBlock(split, h[n - 1], msgs[n])
    <3>1. n \in 1 .. N /\ n - 1 \in 0 .. N
      BY <1>1, <2>2
    <3>2. h[n] = G[<<h[n - 1], n>>] /\ h[n - 1] \in V
      BY <1>5, <3>1 DEF IsTrace
    <3> QED BY <1>3, <3>1, <3>2
  <2> QED BY <2>1, <2>2 DEF N
<1>7. Fits(f)
  <2> HIDE DEF Fits
  <2> QED BY <1>6
<1>8. /\ f = [n \in 0 .. N |-> f[n]] /\ f[0] = <<>>
      /\ \A n \in 1 .. N : f[n] = AddBlock(split, f[n - 1], msgs[n])
  <2>1. f = [n \in 0 .. N |-> IF n = 0 THEN <<>> ELSE AddBlock(split, f[n - 1], msgs[n])]
    BY <1>7 DEF N
  <2> HIDE DEF Fits
  <2>2. \A n \in 0 .. N : f[n] = IF n = 0 THEN <<>> ELSE AddBlock(split, f[n - 1], msgs[n])
    BY <2>1
  <2>3. f = [n \in 0 .. N |-> f[n]]
    BY <2>1
  <2>4. f[0] = <<>>
    <3>1. 0 \in 0 .. N
      BY <1>1
    <3> QED BY <2>2, <3>1
  <2>5. ASSUME NEW n \in 1 .. N PROVE f[n] = AddBlock(split, f[n - 1], msgs[n])
    BY <1>1, <2>2
  <2> QED BY ONLY <2>3, <2>4, <2>5
<1> HIDE DEF Fits
<1>9. IsTrace(f, V, G, <<>>, N)
  <2>1. \A n \in 1 .. N : f[n - 1] \in V => f[n] = G[<<f[n - 1], n>>]
    BY <1>3, <1>8
  <2> QED BY ONLY <1>1, <1>2, <1>8, <2>1, TraceOf
<1>10. \A v \in Seq(Block), n \in 1 .. Len(msgs) : G[<<v, n>>] = AddBlock(split, v, msgs[n])
  BY <1>3 DEF V, N
<1>11. IsTrace(f, Seq(Block), G, <<>>, Len(msgs))
  BY <1>9 DEF V, N
<1>12. MakesBlocks(f, G, split, msgs)
  BY <1>10, <1>11 DEF MakesBlocks
<1> QED BY <1>12

\* One message more is one AddBlock more.
LEMMA BlocksAppend ==
  ASSUME NEW split, NEW msgs \in Seq(Message), NEW msg \in Message
  PROVE  /\ Blocks(split, <<>>) = <<>> /\ Blocks(split, msgs) \in Seq(Block)
         /\ Blocks(split, Append(msgs, msg)) = AddBlock(split, Blocks(split, msgs), msg)
<1>1. Blocks(split, <<>>) = <<>>
  <2>1. <<>> \in Seq(Message) /\ Len(<<>>) = 0
    OBVIOUS
  <2>2. PICK f, G : MakesBlocks(f, G, split, <<>>)
    BY <2>1, BlocksTrace
  <2> QED BY <2>1, <2>2 DEF IsTrace, MakesBlocks
<1> DEFINE N == Len(msgs)
           more == Append(msgs, msg)
<1>2. /\ N \in Nat /\ more \in Seq(Message) /\ Len(more) = N + 1
      /\ more[N + 1] = msg /\ \A n \in 1 .. N : more[n] = msgs[n]
  OBVIOUS
<1> PICK h, H : MakesBlocks(h, H, split, msgs)
  BY BlocksTrace
<1> PICK g, G : MakesBlocks(g, G, split, more)
  BY <1>2, BlocksTrace
<1> HIDE DEF more
<1>a. /\ IsTrace(h, Seq(Block), H, <<>>, N) /\ Blocks(split, msgs) = h[N]
      /\ \A v \in Seq(Block), n \in 1 .. N : H[<<v, n>>] = AddBlock(split, v, msgs[n])
  BY DEF MakesBlocks
<1>b. /\ IsTrace(g, Seq(Block), G, <<>>, N + 1) /\ Blocks(split, more) = g[N + 1]
      /\ \A v \in Seq(Block), n \in 1 .. N + 1 : G[<<v, n>>] = AddBlock(split, v, more[n])
  BY <1>2 DEF MakesBlocks
<1> HIDE DEF N
<1>3. \A v \in Seq(Block), n \in 1 .. N : G[<<v, n>>] = H[<<v, n>>]
  <2>1. \A n \in 1 .. N : n \in 1 .. N + 1
    BY <1>2
  <2> QED BY <1>2, <1>a, <1>b, <2>1
<1>4. g[N] = h[N] /\ h[N] \in Seq(Block)
  <2>1. N \in 0 .. N + 1 /\ N + 1 \in Nat /\ N \in 0 .. N
    BY <1>2
  <2>2. \A n \in 0 .. N : g[n] = h[n]
    <3> PICK V : V = Seq(Block)
      OBVIOUS
    <3> PICK K : K = N + 1
      OBVIOUS
    <3> PICK M : M = N
      OBVIOUS
    <3> PICK e : e = <<>>
      OBVIOUS
    <3>1. IsTrace(g, V, G, e, K) /\ IsTrace(h, V, H, e, M)
      BY <1>a, <1>b
    <3>2. \A v \in V, n \in 1 .. M : G[<<v, n>>] = H[<<v, n>>]
      BY <1>3
    <3>3. K \in Nat /\ M \in 0 .. K
      BY <2>1
    <3>4. \A n \in 0 .. M : g[n] = h[n]
      BY ONLY <3>1, <3>2, <3>3, TracesAgree
    <3> QED BY <3>4
  <2> QED BY <1>a, <2>1, <2>2 DEF IsTrace
<1>5. g[N + 1] = G[<<g[N], N + 1>>]
  <2>1. N + 1 \in 1 .. N + 1 /\ (N + 1) - 1 = N
    BY <1>2
  <2> QED BY <1>b, <2>1 DEF IsTrace
<1>6. g[N + 1] = AddBlock(split, h[N], msg)
  <2>1. N + 1 \in 1 .. N + 1
    BY <1>2
  <2> QED BY <1>2, <1>4, <1>5, <1>b, <2>1
<1> QED BY <1>1, <1>4, <1>6, <1>a, <1>b DEF more

LEMMA BeatsType ==
  ASSUME NEW split \in 0 .. 2, NEW words \in Seq(Words), NEW n \in Nat
  PROVE  /\ words \in Message /\ Hb(n) \in AnyWord /\ Hbf(n) \in AnyWord
         /\ Append(words, Hb(n)) \in Message /\ <<Hb(n), Hb(n)>> \in Message
         /\ <<Hbf(n)>> \o words \in Message
         /\ Beats(split, words, n) \in Seq(Message)
<1>1. Hb(n) \in AnyWord /\ Hbf(n) \in AnyWord
  BY DEF Hb, Hbf, AnyWord
<1>2. words \in Message
  <2>1. Words \subseteq AnyWord
    BY DEF Words, AnyWord
  <2> QED BY <2>1 DEF Message
<1>3. Append(words, Hb(n)) \in Message /\ <<Hb(n), Hb(n)>> \in Message
  BY <1>1, <1>2 DEF Message
<1>4. <<Hbf(n)>> \o words \in Message
  <2>1. <<Hbf(n)>> \in Message
    BY <1>1 DEF Message
  <2> QED BY <1>2, <2>1, ConcatProperties DEF Message
<1>5. Beats(split, words, n) \in Seq(Message)
  <2>1. /\ <<Append(words, Hb(n))>> \in Seq(Message) /\ <<<<Hbf(n)>> \o words>> \in Seq(Message)
        /\ <<<<Hb(n), Hb(n)>>>> \in Seq(Message) /\ <<words, <<Hb(n), Hb(n)>>>> \in Seq(Message)
    BY <1>2, <1>3, <1>4
  <2>2. CASE split = 0
    <3>1. Beats(split, words, n) = <<Append(words, Hb(n))>>
      BY <2>2 DEF Beats
    <3> QED BY <2>1, <3>1
  <2>3. CASE split = 1
    <3>1. Beats(split, words, n) = IF words = <<>> THEN <<<<Hb(n), Hb(n)>>>>
                                                   ELSE <<words, <<Hb(n), Hb(n)>>>>
      BY <2>3 DEF Beats
    <3> QED BY <2>1, <3>1
  <2>4. CASE split = 2
    <3>1. Beats(split, words, n) = <<<<Hbf(n)>> \o words>>
      BY <2>4 DEF Beats
    <3> QED BY <2>1, <3>1
  <2> QED BY <2>2, <2>3, <2>4
<1> QED BY <1>1, <1>2, <1>3, <1>4, <1>5

\* The messages of the first heartbeats, one heartbeat at a time.
MakesMessages(f, split, hbfs) ==
    /\ f[0] = <<>> /\ Messages(split, hbfs) = f[Len(hbfs)]
    /\ \A n \in 0 .. Len(hbfs) : f[n] \in Seq(Message)
    /\ \A n \in 1 .. Len(hbfs) : f[n] = f[n - 1] \o Beats(split, hbfs[n], n)

LEMMA MessagesTrace ==
  ASSUME NEW split \in 0 .. 2, NEW hbfs \in Seq(Seq(Words))
  PROVE  \E f : MakesMessages(f, split, hbfs)
<1> DEFINE V == Seq(Message)
           N == Len(hbfs)
           Longer(v, n) == v \o Beats(split, hbfs[n], n)
           G == [p \in V \X (1 .. N) |-> Longer(p[1], p[2])]
           Fits(g) == g = [n \in 0 .. Len(hbfs) |-> IF n = 0 THEN <<>>
                             ELSE g[n - 1] \o Beats(split, hbfs[n], n)]
<1>1. <<>> \in V /\ N \in Nat /\ \A n \in 1 .. N : n \in Nat /\ hbfs[n] \in Seq(Words)
  OBVIOUS
<1>2. G \in [V \X (1 .. N) -> V]
  <2>1. \A v \in V, n \in 1 .. N : Longer(v, n) \in V
    <3>1. \A n \in 1 .. N : Beats(split, hbfs[n], n) \in Seq(Message)
      BY <1>1, BeatsType
    <3> QED BY <3>1, ConcatProperties
  <2> HIDE DEF V, Longer
  <2> QED BY <2>1
<1> HIDE DEF Longer
<1>3. \A v \in V, n \in 1 .. N : G[<<v, n>>] = Longer(v, n)
  OBVIOUS
<1>4. \E f : Messages(split, hbfs) = f[Len(hbfs)] /\ f = CHOOSE g : Fits(g)
  BY DEF Messages
<1> PICK f : Messages(split, hbfs) = f[Len(hbfs)] /\ f = CHOOSE g : Fits(g)
  BY <1>4
<1> HIDE DEF V, N, G
<1>5. PICK h : IsTrace(h, V, G, <<>>, N)
  BY <1>1, <1>2, TraceExists
<1>6. Fits(h)
  <2>1. h \in [0 .. N -> V] /\ h[0] = <<>>
    BY <1>5 DEF IsTrace
  <2>2. ASSUME NEW n \in 0 .. N, n # 0 PROVE h[n] = Longer(h[n - 1], n)
    <3>1. n \in 1 .. N /\ n - 1 \in 0 .. N
      BY <1>1, <2>2
    <3>2. h[n] = G[<<h[n - 1], n>>] /\ h[n - 1] \in V
      BY <1>5, <3>1 DEF IsTrace
    <3> QED BY <1>3, <3>1, <3>2
  <2> QED BY <2>1, <2>2 DEF N, Longer
<1>7. Fits(f)
  <2> HIDE DEF Fits
  <2> QED BY <1>6
<1>8. /\ f = [n \in 0 .. N |-> f[n]] /\ f[0] = <<>>
      /\ \A n \in 1 .. N : f[n] = Longer(f[n - 1], n)
  <2>1. f = [n \in 0 .. N |-> IF n = 0 THEN <<>> ELSE Longer(f[n - 1], n)]
    BY <1>7 DEF N, Longer
  <2> HIDE DEF Fits
  <2>2. \A n \in 0 .. N : f[n] = IF n = 0 THEN <<>> ELSE Longer(f[n - 1], n)
    BY <2>1
  <2>3. f = [n \in 0 .. N |-> f[n]]
    BY <2>1
  <2>4. f[0] = <<>>
    <3>1. 0 \in 0 .. N
      BY <1>1
    <3> QED BY <2>2, <3>1
  <2>5. ASSUME NEW n \in 1 .. N PROVE f[n] = Longer(f[n - 1], n)
    BY <1>1, <2>2
  <2> QED BY ONLY <2>3, <2>4, <2>5
<1> HIDE DEF Fits
<1>9. IsTrace(f, V, G, <<>>, N)
  <2>1. \A n \in 1 .. N : f[n - 1] \in V => f[n] = G[<<f[n - 1], n>>]
    BY <1>3, <1>8
  <2> QED BY ONLY <1>1, <1>2, <1>8, <2>1, TraceOf
<1>10. \A n \in 0 .. N : f[n] \in V
  BY <1>9 DEF IsTrace
<1>11. MakesMessages(f, split, hbfs)
  BY <1>8, <1>10 DEF MakesMessages, Longer, V, N
<1> QED BY <1>11

\* The hits among words, and those of a block that BuildHBF takes.
Hits(words) == {w \in Range(words) : w.type = "TDC"}
Carried(b)  == IF b.is_HB THEN {} ELSE Hits(b.msg)

\* The index of the block of heartbeat m.
BlockAt(split, m) == IF split = 1 THEN 2 * m - 1 ELSE m

\* The blocks of n heartbeats.
Shape(B, split, hbfs, n) ==
    /\ B \in Seq(Block)
    /\ Len(B) = IF split = 1 THEN 2 * n ELSE n
    /\ \A m \in 1 .. n : Carried(B[BlockAt(split, m)]) = Hits(hbfs[m])
    /\ split = 1 => \A m \in 1 .. n : B[2 * m].is_HB

LEMMA OneBlock ==
  ASSUME NEW B, NEW split \in 0 .. 2, split # 1, NEW hbfs, NEW n \in Nat, Shape(B, split, hbfs, n),
         NEW b \in Block, Carried(b) = Hits(hbfs[n + 1])
  PROVE  Shape(Append(B, b), split, hbfs, n + 1)
<1>1. /\ Append(B, b) \in Seq(Block) /\ Len(Append(B, b)) = n + 1
      /\ Append(B, b)[n + 1] = b /\ \A m \in 1 .. n : Append(B, b)[m] = B[m]
  BY DEF Shape
<1>2. \A m \in 1 .. n + 1 : m = n + 1 \/ m \in 1 .. n
  OBVIOUS
<1>3. \A m \in 1 .. n : Carried(B[m]) = Hits(hbfs[m])
  BY DEF Shape, BlockAt
<1>4. \A m \in 1 .. n + 1 : Carried(Append(B, b)[m]) = Hits(hbfs[m])
  BY <1>1, <1>2, <1>3
<1> QED BY <1>1, <1>4 DEF Shape, BlockAt

LEMMA TwoBlocks ==
  ASSUME NEW B, NEW hbfs, NEW n \in Nat, Shape(B, 1, hbfs, n),
         NEW b \in Block, Carried(b) = Hits(hbfs[n + 1]), NEW c \in Block, c.is_HB,
         NEW C \in Seq(Block), Len(C) = 2 * n + 2, C[2 * n + 1] = b, C[2 * n + 2] = c,
         \A m \in 1 .. 2 * n : C[m] = B[m]
  PROVE  Shape(C, 1, hbfs, n + 1)
<1>1. Len(C) = 2 * (n + 1)
  OBVIOUS
<1>2. ASSUME NEW m \in 1 .. n + 1
      PROVE  Carried(C[2 * m - 1]) = Hits(hbfs[m]) /\ C[2 * m].is_HB
  <2>1. CASE m = n + 1
    <3>1. 2 * m - 1 = 2 * n + 1 /\ 2 * m = 2 * n + 2
      BY <2>1
    <3> QED BY <2>1, <3>1
  <2>2. CASE m \in 1 .. n
    <3>1. 2 * m - 1 \in 1 .. 2 * n /\ 2 * m \in 1 .. 2 * n
      BY <2>2
    <3>2. Carried(B[2 * m - 1]) = Hits(hbfs[m]) /\ B[2 * m].is_HB
      BY <2>2 DEF Shape, BlockAt
    <3> QED BY <3>1, <3>2
  <2> QED BY <2>1, <2>2
<1> QED BY <1>1, <1>2 DEF Shape, BlockAt

LEMMA RangeExtended ==
  ASSUME NEW S, NEW s \in Seq(S), NEW e \in S
  PROVE  Range(s \o <<e>>) = Range(s) \cup {e} /\ Range(<<e>> \o s) = Range(s) \cup {e}
<1> PICK one : one = <<e>>
  OBVIOUS
<1>1. one \in Seq(S)
  OBVIOUS
<1>2. Range(one) = {e}
  BY DEF Range
<1>3. Range(s \o one) = Range(s) \cup Range(one)
  BY ONLY <1>1, s \in Seq(S), RangeConcatenation
<1>4. Range(one \o s) = Range(one) \cup Range(s)
  BY ONLY <1>1, s \in Seq(S), RangeConcatenation
<1> QED BY <1>2, <1>3, <1>4

LEMMA HitsOfMessages ==
  ASSUME NEW words \in Seq(Words), NEW n \in Nat
  PROVE  /\ Hits(Append(words, Hb(n))) = Hits(words)
         /\ Hits(<<Hbf(n)>> \o words) = Hits(words)
         /\ words = <<>> => Hits(words) = {}
         /\ words # <<>> => ~IsHartBeat(words) /\ ~IsHartBeat(Append(words, Hb(n)))
         /\ ~IsHartBeat(<<Hbf(n)>> \o words)
         /\ IsHartBeat(<<Hb(n), Hb(n)>>)
<1>1. Hb(n).type = "HB" /\ Hbf(n).type = "HBF"
  BY DEF Hb, Hbf
<1>2. Hb(n) \in AnyWord /\ Hbf(n) \in AnyWord /\ words \in Seq(AnyWord)
  BY BeatsType, 0 \in 0 .. 2 DEF Message
<1> PICK hb : hb = Hb(n)
  OBVIOUS
<1> PICK hbf : hbf = Hbf(n)
  OBVIOUS
<1>3. hb.type = "HB" /\ hbf.type = "HBF" /\ hb \in AnyWord /\ hbf \in AnyWord
  BY <1>1, <1>2
<1>4. Len(words) \in Nat /\ DOMAIN words = 1 .. Len(words)
  OBVIOUS
<1>5. Hits(Append(words, hb)) = Hits(words)
  <2>1. Range(words \o <<hb>>) = Range(words) \cup {hb}
    BY <1>2, <1>3, RangeExtended
  <2>2. Append(words, hb) = words \o <<hb>>
    BY <1>2, <1>3
  <2> QED BY <1>3, <2>1, <2>2 DEF Hits
<1>6. Hits(<<hbf>> \o words) = Hits(words)
  <2>1. Range(<<hbf>> \o words) = Range(words) \cup {hbf}
    BY <1>2, <1>3, RangeExtended
  <2> QED BY <1>3, <2>1 DEF Hits
<1>7. words = <<>> => Hits(words) = {}
  BY <1>4 DEF Hits, Range
<1>8. ASSUME words # <<>> PROVE ~IsHartBeat(words) /\ ~IsHartBeat(Append(words, hb))
  <2>1. 1 \in 1 .. Len(words) /\ words[1] \in Words /\ Append(words, hb)[1] = words[1]
    BY <1>2, <1>3, <1>8
  <2> QED BY <2>1 DEF IsHartBeat, Words
<1>9. ~IsHartBeat(<<hbf>> \o words)
  <2>1. (<<hbf>> \o words)[1] = hbf
    BY <1>2, <1>3
  <2> QED BY <1>3, <2>1 DEF IsHartBeat
<1>10. IsHartBeat(<<hb, hb>>)
  BY <1>3 DEF IsHartBeat
<1> QED BY <1>5, <1>6, <1>7, <1>8, <1>9, <1>10

LEMMA BlockTypes ==
  ASSUME NEW m \in Message
  PROVE  /\ Data(m) \in Block /\ Carried(Data(m)) = Hits(m) /\ ~Data(m).is_HB
         /\ Beat(m) \in Block /\ Carried(Beat(m)) = {} /\ Beat(m).is_HB
         /\ Dummy \in Block /\ Carried(Dummy) = {}
<1>1. Dummy \in Block /\ Carried(Dummy) = {}
  BY EmptySeq DEF Dummy, Block, Message, Carried, Hits, Range
<1> QED BY <1>1 DEF Data, Beat, Block, Carried

\* One message is one heartbeat.
LEMMA StepOne ==
  ASSUME NEW split \in 0 .. 2, split # 1, NEW hbfs, NEW n \in Nat, NEW msgs \in Seq(Message),
         Shape(Blocks(split, msgs), split, hbfs, n), NEW msg \in Message,
         IF IsHartBeat(msg) THEN Hits(hbfs[n + 1]) = {} ELSE Hits(hbfs[n + 1]) = Hits(msg)
  PROVE  Shape(Blocks(split, Append(msgs, msg)), split, hbfs, n + 1)
<1> PICK B : B = Blocks(split, msgs)
  OBVIOUS
<1> PICK b : b = IF IsHartBeat(msg) THEN Beat(msg) ELSE Data(msg)
  OBVIOUS
<1>1. Blocks(split, Append(msgs, msg)) = AddBlock(split, B, msg)
  BY BlocksAppend
<1>2. AddBlock(split, B, msg) = Append(B, b)
  BY DEF AddBlock
<1>3. b \in Block /\ Carried(b) = Hits(hbfs[n + 1])
  BY BlockTypes
<1>4. Shape(Append(B, b), split, hbfs, n + 1)
  BY <1>3, OneBlock
<1> QED BY <1>1, <1>2, <1>4

\* A heartbeat without words, and one with words, with --split 1.
LEMMA StepEmpty ==
  ASSUME NEW hbfs, NEW n \in Nat, NEW msgs \in Seq(Message), Shape(Blocks(1, msgs), 1, hbfs, n),
         NEW hb \in Message, IsHartBeat(hb), Hits(hbfs[n + 1]) = {}
  PROVE  Shape(Blocks(1, Append(msgs, hb)), 1, hbfs, n + 1)
<1> PICK B : B = Blocks(1, msgs)
  OBVIOUS
<1> PICK b : b = Dummy
  OBVIOUS
<1> PICK c : c = Beat(hb)
  OBVIOUS
<1>1. Blocks(1, Append(msgs, hb)) = AddBlock(1, B, hb)
  BY BlocksAppend
<1>2. B \in Seq(Block) /\ Len(B) = 2 * n /\ \A m \in 1 .. n : B[2 * m].is_HB
  BY DEF Shape
<1>3. B = <<>> \/ Last(B).is_HB
  <2>1. CASE n = 0
    BY <1>2, <2>1
  <2>2. CASE n # 0
    <3>1. n \in 1 .. n
      BY <2>2
    <3> QED BY <1>2, <3>1 DEF Last
  <2> QED BY <2>1, <2>2
<1>4. AddBlock(1, B, hb) = B \o <<b, c>>
  BY <1>3 DEF AddBlock
<1>5. b \in Block /\ c \in Block /\ c.is_HB /\ Carried(b) = Hits(hbfs[n + 1])
  BY BlockTypes
<1> PICK C : C = B \o <<b, c>>
  OBVIOUS
<1>6. C = Append(Append(B, b), c)
  BY <1>2, <1>5
<1>7. /\ C \in Seq(Block) /\ Len(C) = 2 * n + 2 /\ C[2 * n + 1] = b /\ C[2 * n + 2] = c
      /\ \A m \in 1 .. 2 * n : C[m] = B[m]
  BY ONLY <1>2, <1>5, <1>6, n \in Nat
<1>8. Shape(C, 1, hbfs, n + 1)
  BY ONLY n \in Nat, Shape(Blocks(1, msgs), 1, hbfs, n), B = Blocks(1, msgs), <1>5, <1>7, TwoBlocks
<1> QED BY <1>1, <1>4, <1>8

LEMMA StepBoth ==
  ASSUME NEW hbfs, NEW n \in Nat, NEW msgs \in Seq(Message), Shape(Blocks(1, msgs), 1, hbfs, n),
         NEW words \in Message, ~IsHartBeat(words), Hits(hbfs[n + 1]) = Hits(words),
         NEW hb \in Message, IsHartBeat(hb)
  PROVE  Shape(Blocks(1, Append(Append(msgs, words), hb)), 1, hbfs, n + 1)
<1> PICK B : B = Blocks(1, msgs)
  OBVIOUS
<1> PICK b : b = Data(words)
  OBVIOUS
<1> PICK c : c = Beat(hb)
  OBVIOUS
<1>1. b \in Block /\ ~b.is_HB /\ c \in Block /\ c.is_HB /\ Carried(b) = Hits(hbfs[n + 1])
  BY BlockTypes
<1>2. B \in Seq(Block) /\ Len(B) = 2 * n
  BY DEF Shape
<1> PICK D : D = Append(B, b)
  OBVIOUS
<1>3. Blocks(1, Append(msgs, words)) = D
  <2>1. Blocks(1, Append(msgs, words)) = AddBlock(1, B, words)
    BY BlocksAppend
  <2>2. AddBlock(1, B, words) = D
    BY Zenon DEF AddBlock
  <2> QED BY <2>1, <2>2
<1>4. Append(msgs, words) \in Seq(Message)
  OBVIOUS
<1>5. Blocks(1, Append(Append(msgs, words), hb)) = AddBlock(1, D, hb)
  BY ONLY <1>3, <1>4, hb \in Message, BlocksAppend
<1>6. /\ D \in Seq(Block) /\ Len(D) = 2 * n + 1 /\ D[2 * n + 1] = b
      /\ \A m \in 1 .. 2 * n : D[m] = B[m]
  BY ONLY <1>1, <1>2, D = Append(B, b), n \in Nat
<1>7. ~(D = <<>> \/ Last(D).is_HB)
  BY <1>1, <1>6 DEF Last
<1> PICK C : C = Append(D, c)
  OBVIOUS
<1>8. AddBlock(1, D, hb) = C
  BY <1>7, Zenon DEF AddBlock
<1>9. /\ C \in Seq(Block) /\ Len(C) = 2 * n + 2 /\ C[2 * n + 1] = b /\ C[2 * n + 2] = c
      /\ \A m \in 1 .. 2 * n : C[m] = B[m]
  BY ONLY <1>1, <1>6, C = Append(D, c), n \in Nat
<1>10. Shape(C, 1, hbfs, n + 1)
  BY ONLY n \in Nat, Shape(Blocks(1, msgs), 1, hbfs, n), B = Blocks(1, msgs), <1>1, <1>9, TwoBlocks
<1> QED BY <1>5, <1>8, <1>10

LEMMA ShapeStep ==
  ASSUME NEW split \in 0 .. 2, NEW hbfs \in Seq(Seq(Words)), NEW n \in Nat, n + 1 <= Len(hbfs),
         NEW msgs \in Seq(Message), Shape(Blocks(split, msgs), split, hbfs, n)
  PROVE  Shape(Blocks(split, msgs \o Beats(split, hbfs[n + 1], n + 1)), split, hbfs, n + 1)
<1> PICK words : words = hbfs[n + 1]
  OBVIOUS
<1>1. words \in Seq(Words) /\ n + 1 \in Nat
  OBVIOUS
<1> PICK hb : hb = <<Hb(n + 1), Hb(n + 1)>>
  OBVIOUS
<1> PICK w0 : w0 = Append(words, Hb(n + 1))
  OBVIOUS
<1> PICK w2 : w2 = <<Hbf(n + 1)>> \o words
  OBVIOUS
<1>2. w0 \in Message /\ w2 \in Message /\ hb \in Message /\ words \in Message
  BY <1>1, BeatsType
<1>3. /\ Hits(w0) = Hits(words) /\ Hits(w2) = Hits(words) /\ (words = <<>> => Hits(words) = {})
      /\ words # <<>> => ~IsHartBeat(words) /\ ~IsHartBeat(w0)
      /\ ~IsHartBeat(w2) /\ IsHartBeat(hb)
  BY <1>1, HitsOfMessages
<1>4. \A m \in Message : msgs \o <<m>> = Append(msgs, m)
  OBVIOUS
<1>5. CASE split = 0
  <2>1. Beats(split, words, n + 1) = <<w0>>
    BY <1>5 DEF Beats
  <2>2. IF IsHartBeat(w0) THEN Hits(hbfs[n + 1]) = {} ELSE Hits(hbfs[n + 1]) = Hits(w0)
    BY <1>3
  <2>3. Shape(Blocks(split, Append(msgs, w0)), split, hbfs, n + 1)
    BY ONLY n \in Nat, split \in 0 .. 2, msgs \in Seq(Message),
            Shape(Blocks(split, msgs), split, hbfs, n), <1>2, <1>5, <2>2, StepOne
  <2> QED BY <1>2, <1>4, <2>1, <2>3
<1>6. CASE split = 2
  <2>1. Beats(split, words, n + 1) = <<w2>>
    BY <1>6 DEF Beats
  <2>2. IF IsHartBeat(w2) THEN Hits(hbfs[n + 1]) = {} ELSE Hits(hbfs[n + 1]) = Hits(w2)
    BY <1>3
  <2>3. Shape(Blocks(split, Append(msgs, w2)), split, hbfs, n + 1)
    BY ONLY n \in Nat, split \in 0 .. 2, msgs \in Seq(Message),
            Shape(Blocks(split, msgs), split, hbfs, n), <1>2, <1>6, <2>2, StepOne
  <2> QED BY <1>2, <1>4, <2>1, <2>3
<1>7. CASE split = 1 /\ words = <<>>
  <2>1. Beats(split, words, n + 1) = <<hb>>
    BY <1>7 DEF Beats
  <2>2. Shape(Blocks(1, Append(msgs, hb)), 1, hbfs, n + 1)
    BY <1>2, <1>3, <1>7, StepEmpty
  <2> QED BY <1>2, <1>4, <1>7, <2>1, <2>2
<1>8. CASE split = 1 /\ words # <<>>
  <2>1. Beats(split, words, n + 1) = <<words, hb>>
    BY <1>8 DEF Beats
  <2>2. Shape(Blocks(1, Append(Append(msgs, words), hb)), 1, hbfs, n + 1)
    BY <1>2, <1>3, <1>8, StepBoth
  <2>3. msgs \o <<words, hb>> = Append(Append(msgs, words), hb)
    <3>1. words \in Message /\ hb \in Message /\ msgs \in Seq(Message)
      BY <1>2
    <3> QED BY ONLY <3>1
  <2> QED BY <1>8, <2>1, <2>2, <2>3
<1> QED BY <1>5, <1>6, <1>7, <1>8

\* The blocks that the messages of an STF make are those of its heartbeats.
LEMMA BlocksShape ==
  ASSUME NEW split \in 0 .. 2, NEW hbfs \in Seq(Seq(Words))
  PROVE  Shape(Blocks(split, Messages(split, hbfs)), split, hbfs, Len(hbfs))
<1> PICK f : MakesMessages(f, split, hbfs)
  BY MessagesTrace
<1> DEFINE S == {n \in Nat : n <= Len(hbfs) => Shape(Blocks(split, f[n]), split, hbfs, n)}
<1>1. 0 \in S
  <2>1. Blocks(split, f[0]) = <<>>
    <3>1. <<>> \in Seq(Message) /\ <<>> \in Message
      BY DEF Message
    <3>2. Blocks(split, <<>>) = <<>>
      BY <3>1, BlocksAppend
    <3> QED BY <3>2 DEF MakesMessages
  <2>2. Shape(<<>>, split, hbfs, 0)
    BY DEF Shape
  <2> QED BY <2>1, <2>2
<1>2. ASSUME NEW n \in Nat, n \in S PROVE n + 1 \in S
  <2> SUFFICES ASSUME n + 1 <= Len(hbfs)
               PROVE  Shape(Blocks(split, f[n + 1]), split, hbfs, n + 1)
    OBVIOUS
  <2>1. Shape(Blocks(split, f[n]), split, hbfs, n)
    <3>1. Len(hbfs) \in Nat
      OBVIOUS
    <3> QED BY <1>2, <3>1
  <2>2. n + 1 \in 1 .. Len(hbfs) /\ (n + 1) - 1 = n /\ n \in 0 .. Len(hbfs)
    OBVIOUS
  <2>3. f[n] \in Seq(Message) /\ f[n + 1] = f[n] \o Beats(split, hbfs[n + 1], n + 1)
    BY <2>2 DEF MakesMessages
  <2> QED BY <2>1, <2>3, ShapeStep
<1>3. Nat \subseteq S
  <2> HIDE DEF S
  <2> QED BY <1>1, <1>2, Induction
<1>4. Len(hbfs) \in Nat
  OBVIOUS
<1> QED BY <1>3, <1>4 DEF MakesMessages

-----------------------------------------------------------------------------
(* The window of a hit, in arithmetic of 32 unsigned bits. *)

LEMMA Wraps ==
  ASSUME NEW W \in Nat \ {0}, NEW x \in -W .. W - 1
  PROVE  x % W = IF x < 0 THEN W + x ELSE x
<1>1. CASE x < 0
  <2>1. W + x \in 0 .. W - 1 /\ x = (-1) * W + (W + x)
    BY <1>1
  <2> QED BY <1>1, <2>1
<1>2. CASE x >= 0
  <2>1. x \in 0 .. W - 1 /\ x = 0 * W + x
    BY <1>2
  <2> QED BY <1>2, <2>1
<1> QED BY <1>1, <1>2

\* A hit marks the times around it; none if that would take it out of the region
\* at the end, or if its delay took it before the start.
LEMMA WindowIs ==
  ASSUME NEW h \in -(WordSize \div 2) .. WordSize \div 2 - 1, NEW t \in Times
  PROVE  t \in Window(h % WordSize) <=>
            /\ h >= 0 /\ h + fMarkLen \div 2 < fTimeRegionSize
            /\ t \in h - fMarkLen \div 2 .. h + fMarkLen \div 2
<1> PICK half : half = fMarkLen \div 2
  OBVIOUS
<1> PICK W : W = WordSize
  OBVIOUS
<1> PICK size : size = fTimeRegionSize
  OBVIOUS
<1>1. /\ half \in Nat /\ W \in Nat \ {0} /\ size \in Nat \ {0} /\ 2 * half <= fMarkLen
      /\ W > 2 * (size + half) /\ W \div 2 \in Nat /\ 2 * (W \div 2) <= W /\ W \div 2 >= size + half
      /\ t \in 0 .. size - 1 /\ h \in Int /\ -(W \div 2) <= h /\ h < W \div 2
  BY TriggerAssumption DEF Times
<1>2. h % W = IF h < 0 THEN W + h ELSE h
  <2>1. h \in -W .. W - 1
    BY <1>1
  <2> QED BY <1>1, <2>1, Wraps
<1>3. Window(h % W) = IF h % W < size - half
                        THEN {((h % W) + k) % W : k \in -half .. half} \cap Times ELSE {}
  BY DEF Window
<1>4. CASE h < 0
  <2>1. ~(h % W < size - half)
    BY <1>1, <1>2, <1>4
  <2> QED BY <1>3, <1>4, <2>1
<1>5. CASE h >= 0 /\ ~(h + half < size)
  <2>1. ~(h % W < size - half)
    BY <1>1, <1>2, <1>5
  <2> QED BY <1>3, <1>5, <2>1
<1>6. CASE h >= 0 /\ h + half < size
  <2>1. h % W = h /\ h % W < size - half
    BY <1>1, <1>2, <1>6
  <2>2. t \in Window(h % W) <=> \E k \in -half .. half : t = (h + k) % W
    BY <1>3, <2>1
  <2>3. ASSUME NEW k \in -half .. half
        PROVE  (h + k) % W = IF h + k < 0 THEN W + (h + k) ELSE h + k
    <3>1. h + k \in -W .. W - 1
      BY <1>1, <1>6
    <3> QED BY <1>1, <3>1, Wraps
  <2>4. ASSUME NEW k \in -half .. half, t = (h + k) % W PROVE t = h + k
    BY <1>1, <1>6, <2>3, <2>4
  <2>5. ASSUME t \in h - half .. h + half PROVE \E k \in -half .. half : t = (h + k) % W
    <3>1. t - h \in -half .. half /\ h + (t - h) = t
      BY <1>1, <2>5
    <3>2. (h + (t - h)) % W = t
      BY <1>1, <2>3, <3>1
    <3> QED BY <3>1, <3>2
  <2>6. ASSUME NEW k \in -half .. half, t = h + k PROVE t \in h - half .. h + half
    BY <1>1, <2>6
  <2> QED BY <1>6, <2>2, <2>4, <2>5, <2>6
<1> QED BY <1>1, <1>4, <1>5, <1>6

-----------------------------------------------------------------------------
(* What the marks of a block mean. *)

\* Hits of this front end mark time t for signal k.
Fires(fem, type, hits, k, t) ==
    /\ fem = Signals[k].fem /\ type \in MarkedTypes
    /\ \E w \in hits : w.ch = Signals[k].ch /\ t \in Window((w.time + Signals[k].delay) % WordSize)

LEMMA MarkBit ==
  ASSUME NEW seg, NEW t
  PROVE  /\ \A k \in DOMAIN Signals :
                k - 1 \in Mark(seg, t) <=> Fires(seg.fem, seg.type, Hits(seg.words), k, t)
         /\ \A b \in Mark(seg, t) : \E k \in DOMAIN Signals : b = k - 1
<1>1. DOMAIN Signals \subseteq Int
  BY TriggerAssumption
<1> DEFINE Entry(k) == [fem |-> Signals[k].fem, ch |-> Signals[k].ch, delay |-> Signals[k].delay, bit |-> k - 1]
<1>2. \A k, j \in DOMAIN Signals : k - 1 = j - 1 => k = j
  BY <1>1
<1>3. \A b : b \in Mark(seg, t) <=> \E k \in DOMAIN Signals :
                b = k - 1 /\ Fires(seg.fem, seg.type, Hits(seg.words), k, t)
  <2> TAKE b
  <2>1. b \in Mark(seg, t) <=> \E e \in Entries :
            /\ b = e.bit /\ e.fem = seg.fem /\ seg.type \in MarkedTypes
            /\ \E w \in Range(seg.words) : /\ w.type = "TDC" /\ w.ch = e.ch
                                           /\ t \in Window((w.time + e.delay) % WordSize)
    BY DEF Mark
  <2>2. ASSUME NEW e \in Entries, b = e.bit, e.fem = seg.fem, seg.type \in MarkedTypes,
               NEW w \in Range(seg.words), w.type = "TDC", w.ch = e.ch,
               t \in Window((w.time + e.delay) % WordSize)
        PROVE  \E k \in DOMAIN Signals : b = k - 1 /\ Fires(seg.fem, seg.type, Hits(seg.words), k, t)
    <3>1. PICK k \in DOMAIN Signals : e = Entry(k)
      BY DEF Entries
    <3>2. w \in Hits(seg.words)
      BY <2>2 DEF Hits
    <3> QED BY <2>2, <3>1, <3>2 DEF Fires
  <2>3. ASSUME NEW k \in DOMAIN Signals, b = k - 1, Fires(seg.fem, seg.type, Hits(seg.words), k, t)
        PROVE  \E e \in Entries :
            /\ b = e.bit /\ e.fem = seg.fem /\ seg.type \in MarkedTypes
            /\ \E w \in Range(seg.words) : /\ w.type = "TDC" /\ w.ch = e.ch
                                           /\ t \in Window((w.time + e.delay) % WordSize)
    <3>1. Entry(k) \in Entries
      BY DEF Entries
    <3>2. PICK w \in Range(seg.words) : /\ w.type = "TDC" /\ w.ch = Signals[k].ch
                                        /\ t \in Window((w.time + Signals[k].delay) % WordSize)
      BY <2>3 DEF Fires, Hits
    <3> QED BY <2>3, <3>1, <3>2 DEF Fires
  <2> QED BY <2>1, <2>2, <2>3
<1> QED BY <1>2, <1>3

\* A block of a row marks what its hits mark.
LEMMA RegionBit ==
  ASSUME NEW rows, NEW i, NEW t \in Times
  PROVE  /\ \A k \in DOMAIN Signals :
                k - 1 \in MarkAll(<<>>, BuildHBF(rows, i))[t] <=>
                    \E r \in rows : Fires(r.fem, r.type, Carried(r.blocks[i]), k, t)
         /\ \A b \in MarkAll(<<>>, BuildHBF(rows, i))[t] : \E k \in DOMAIN Signals : b = k - 1
<1> PICK segs : segs = BuildHBF(rows, i)
  OBVIOUS
<1>1. MarkAll(<<>>, segs)[t] = UNION {Mark(seg, t) : seg \in segs}
  BY DEF MarkAll
<1>2. ASSUME NEW k \in DOMAIN Signals
      PROVE  k - 1 \in MarkAll(<<>>, segs)[t] <=>
                    \E r \in rows : Fires(r.fem, r.type, Carried(r.blocks[i]), k, t)
  <2>1. k - 1 \in MarkAll(<<>>, segs)[t] <=> \E seg \in segs : Fires(seg.fem, seg.type, Hits(seg.words), k, t)
    BY <1>1, MarkBit
  <2>2. ASSUME NEW seg \in segs, Fires(seg.fem, seg.type, Hits(seg.words), k, t)
        PROVE  \E r \in rows : Fires(r.fem, r.type, Carried(r.blocks[i]), k, t)
    <3>1. PICK r \in rows : /\ ~r.blocks[i].is_HB
                            /\ seg = [fem |-> r.fem, type |-> r.type, words |-> r.blocks[i].msg]
      BY DEF BuildHBF
    <3>2. Carried(r.blocks[i]) = Hits(seg.words) /\ seg.fem = r.fem /\ seg.type = r.type
      BY <3>1 DEF Carried
    <3> QED BY <2>2, <3>2
  <2>3. ASSUME NEW r \in rows, Fires(r.fem, r.type, Carried(r.blocks[i]), k, t)
        PROVE  \E seg \in segs : Fires(seg.fem, seg.type, Hits(seg.words), k, t)
    <3>1. ~r.blocks[i].is_HB /\ r.blocks[i].msg # <<>>
      <4>1. PICK w : w \in Carried(r.blocks[i])
        BY <2>3 DEF Fires
      <4>2. ~r.blocks[i].is_HB /\ w \in Range(r.blocks[i].msg)
        BY <4>1 DEF Carried, Hits
      <4>3. Range(<<>>) = {}
        BY DEF Range
      <4> QED BY <4>2, <4>3
    <3> PICK seg : seg = [fem |-> r.fem, type |-> r.type, words |-> r.blocks[i].msg]
      OBVIOUS
    <3>2. seg \in segs
      BY <3>1 DEF BuildHBF
    <3>3. Carried(r.blocks[i]) = Hits(seg.words) /\ seg.fem = r.fem /\ seg.type = r.type
      BY <3>1 DEF Carried
    <3> QED BY <2>3, <3>2, <3>3
  <2> QED BY <2>1, <2>2, <2>3
<1>3. \A b \in MarkAll(<<>>, segs)[t] : \E k \in DOMAIN Signals : b = k - 1
  BY <1>1, MarkBit
<1> QED BY <1>2, <1>3

\* A frame that arrives, and an STF of it.
IsStf(stf, split) ==
    /\ stf.hbfs \in Seq(Seq(Words)) /\ stf.msgs = Messages(split, stf.hbfs)
    /\ \A m \in DOMAIN stf.hbfs, s \in DOMAIN Signals : \A w \in Range(stf.hbfs[m]) :
            w.time + Signals[s].delay \in -(WordSize \div 2) .. WordSize \div 2 - 1

IsFrame(frame, split) ==
    /\ Len(frame.stfs) \in Nat \ {0} /\ DOMAIN frame.stfs = 1 .. Len(frame.stfs)
    /\ \A stf \in Range(frame.stfs) : IsStf(stf, split)

LEMMA FrameIsFrame ==
  ASSUME NEW split, NEW id, NEW n \in 1 .. MaxFrames, NEW stfs \in FramesOf[n]
  PROVE  IsFrame(Frame(split, id, stfs), split)
<1>1. /\ Len(stfs) \in Nat \ {0} /\ DOMAIN stfs = 1 .. Len(stfs)
      /\ \A j \in DOMAIN stfs :
            /\ stfs[j].hbfs \in Seq(Seq(Words))
            /\ \A m \in DOMAIN stfs[j].hbfs, s \in DOMAIN Signals :
                \A w \in Range(stfs[j].hbfs[m]) :
                    w.time + Signals[s].delay \in -(WordSize \div 2) .. WordSize \div 2 - 1
  BY FrameAssumption
<1> PICK F : F = Frame(split, id, stfs).stfs
  OBVIOUS
<1>2. F = [j \in 1 .. Len(stfs) |-> [fem  |-> stfs[j].fem, type |-> stfs[j].type,
                                     msgs |-> Messages(split, stfs[j].hbfs), hbfs |-> stfs[j].hbfs]]
  BY <1>1 DEF Frame
<1>3. F \in Seq(Range(F)) /\ Len(F) = Len(stfs) /\ DOMAIN F = 1 .. Len(stfs)
  BY <1>1, <1>2 DEF Range
<1>4. ASSUME NEW j \in 1 .. Len(stfs) PROVE IsStf(F[j], split)
  <2>1. F[j].hbfs = stfs[j].hbfs /\ F[j].msgs = Messages(split, stfs[j].hbfs)
    BY <1>2
  <2> QED BY <1>1, <2>1 DEF IsStf
<1> QED BY <1>1, <1>3, <1>4 DEF IsFrame, Range

\* The signals on at a time are those that hits of the heartbeat fire.
LEMMA OnBit ==
  ASSUME NEW split, NEW frame, IsFrame(frame, split), NEW n, NEW t \in Times
  PROVE  /\ \A k \in DOMAIN Signals :
                k - 1 \in On(frame, n, t) <=>
                    \E stf \in Range(frame.stfs) :
                        /\ n \in DOMAIN stf.hbfs
                        /\ Fires(stf.fem, stf.type, Hits(stf.hbfs[n]), k, t)
         /\ \A b \in On(frame, n, t) : \E k \in DOMAIN Signals : b = k - 1
<1>1. \A k, j \in DOMAIN Signals : k - 1 = j - 1 => k = j
  BY TriggerAssumption
<1> DEFINE Hit(w, k) == w.time + Signals[k].delay
           OnBy(stf, k) ==
              /\ stf.fem = Signals[k].fem /\ n \in DOMAIN stf.hbfs /\ stf.type \in MarkedTypes
              /\ \E w \in Range(stf.hbfs[n]) :
                    /\ w.type = "TDC" /\ w.ch = Signals[k].ch
                    /\ Hit(w, k) >= 0 /\ Hit(w, k) + fMarkLen \div 2 < fTimeRegionSize
                    /\ t \in Hit(w, k) - fMarkLen \div 2 .. Hit(w, k) + fMarkLen \div 2
<1>2. On(frame, n, t) = {s - 1 : s \in {k \in DOMAIN Signals : \E stf \in Range(frame.stfs) : OnBy(stf, k)}}
  BY DEF On
<1>3. ASSUME NEW k \in DOMAIN Signals, NEW stf \in Range(frame.stfs)
      PROVE  OnBy(stf, k) <=> /\ n \in DOMAIN stf.hbfs
                              /\ Fires(stf.fem, stf.type, Hits(stf.hbfs[n]), k, t)
  <2> SUFFICES ASSUME n \in DOMAIN stf.hbfs
               PROVE  OnBy(stf, k) <=> Fires(stf.fem, stf.type, Hits(stf.hbfs[n]), k, t)
    OBVIOUS
  <2>1. ASSUME NEW w \in Range(stf.hbfs[n])
        PROVE  t \in Window(Hit(w, k) % WordSize) <=>
                    /\ Hit(w, k) >= 0 /\ Hit(w, k) + fMarkLen \div 2 < fTimeRegionSize
                    /\ t \in Hit(w, k) - fMarkLen \div 2 .. Hit(w, k) + fMarkLen \div 2
    <3>1. Hit(w, k) \in -(WordSize \div 2) .. WordSize \div 2 - 1
      BY DEF IsFrame, IsStf
    <3> HIDE DEF Hit
    <3> QED BY <3>1, WindowIs
  <2> HIDE DEF Hit
  <2>2. Fires(stf.fem, stf.type, Hits(stf.hbfs[n]), k, t) <=>
            /\ stf.fem = Signals[k].fem /\ stf.type \in MarkedTypes
            /\ \E w \in Range(stf.hbfs[n]) : /\ w.type = "TDC" /\ w.ch = Signals[k].ch
                                             /\ t \in Window(Hit(w, k) % WordSize)
    BY DEF Fires, Hits, Hit
  <2> QED BY <2>1, <2>2
<1> HIDE DEF OnBy
<1>4. \A b : b \in On(frame, n, t) <=> \E k \in DOMAIN Signals :
                b = k - 1 /\ \E stf \in Range(frame.stfs) : OnBy(stf, k)
  BY <1>2
<1>5. ASSUME NEW k \in DOMAIN Signals
      PROVE  k - 1 \in On(frame, n, t) <=> \E stf \in Range(frame.stfs) : OnBy(stf, k)
  BY <1>1, <1>4
<1> QED BY <1>3, <1>4, <1>5

\* The least of a set of numbers.
LEMMA MinOfNat ==
  ASSUME NEW S \in SUBSET Nat, S # {}
  PROVE  Min(S) \in S /\ \A x \in S : Min(S) <= x
<1>1. PICK x \in S : \A y \in S : x <= y
  BY LeastNatural
<1> QED BY <1>1, Zenon DEF Min

RowOf(split, stf) == [fem |-> stf.fem, type |-> stf.type, blocks |-> Blocks(split, stf.msgs)]

\* The blocks of an STF are of its heartbeats.
Match(B, split, stf) ==
    /\ Len(B) \in Nat
    /\ B = <<>> <=> stf.hbfs = <<>>
    /\ \A m \in DOMAIN stf.hbfs :
            BlockAt(split, m) \in 1 .. Len(B) /\ Carried(B[BlockAt(split, m)]) = Hits(stf.hbfs[m])
    /\ \A i \in 1 .. Len(B) : Carried(B[i]) # {} =>
            \E m \in DOMAIN stf.hbfs : BlockAt(split, m) = i

LEMMA StfBlocks ==
  ASSUME NEW split \in 0 .. 2, NEW stf, IsStf(stf, split), NEW B, B = Blocks(split, stf.msgs)
  PROVE  Match(B, split, stf)
<1> PICK n : n = Len(stf.hbfs)
  OBVIOUS
<1>1. n \in Nat /\ DOMAIN stf.hbfs = 1 .. n
  BY DEF IsStf
<1>2. Shape(B, split, stf.hbfs, n)
  BY BlocksShape DEF IsStf
<1>3. B \in Seq(Block) /\ Len(B) = IF split = 1 THEN 2 * n ELSE n
  BY <1>2 DEF Shape
<1>4. B = <<>> <=> stf.hbfs = <<>>
  <2>1. B = <<>> <=> Len(B) = 0
    BY <1>3
  <2>2. stf.hbfs = <<>> <=> n = 0
    BY DEF IsStf
  <2>3. Len(B) = 0 <=> n = 0
    BY ONLY <1>1, <1>3
  <2> QED BY <2>1, <2>2, <2>3
<1>5. ASSUME NEW m \in 1 .. n
      PROVE  BlockAt(split, m) \in 1 .. Len(B) /\ Carried(B[BlockAt(split, m)]) = Hits(stf.hbfs[m])
  <2>1. Carried(B[BlockAt(split, m)]) = Hits(stf.hbfs[m])
    BY <1>2 DEF Shape
  <2>2. BlockAt(split, m) \in 1 .. Len(B)
    BY <1>1, <1>3 DEF BlockAt
  <2> QED BY <2>1, <2>2
<1>6. ASSUME NEW i \in 1 .. Len(B), Carried(B[i]) # {}
      PROVE  \E m \in 1 .. n : BlockAt(split, m) = i
  <2>1. CASE split # 1
    BY <1>1, <1>3, <2>1 DEF BlockAt
  <2>2. CASE split = 1
    <3>1. \A m \in 1 .. n : B[2 * m].is_HB
      BY <1>2, <2>2 DEF Shape
    <3>2. \A m \in 1 .. n : i # 2 * m
      BY <1>6, <3>1 DEF Carried
    <3>3. PICK m \in 1 .. n : i = 2 * m \/ i = 2 * m - 1
      <4>1. i \in 1 .. 2 * n
        BY <1>1, <1>3, <2>2
      <4> PICK m : m = (i + 1) \div 2
        OBVIOUS
      <4>2. m \in 1 .. n /\ (i = 2 * m \/ i = 2 * m - 1)
        BY <1>1, <4>1
      <4> QED BY <4>2
    <3> QED BY <2>2, <3>2, <3>3 DEF BlockAt
  <2> QED BY <2>1, <2>2
<1>7. Len(B) \in Nat
  BY <1>3
<1>8. \A m \in DOMAIN stf.hbfs :
        BlockAt(split, m) \in 1 .. Len(B) /\ Carried(B[BlockAt(split, m)]) = Hits(stf.hbfs[m])
  BY <1>1, <1>5
<1>9. \A i \in 1 .. Len(B) : Carried(B[i]) # {} => \E m \in DOMAIN stf.hbfs : BlockAt(split, m) = i
  BY <1>1, <1>6
<1> QED BY ONLY <1>4, <1>7, <1>8, <1>9, Zenon DEF Match

\* The rows of the block map: every STF with heartbeats has one, and the last STF.
LEMMA RowsOf ==
  ASSUME NEW split \in 0 .. 2, NEW frame, IsFrame(frame, split), NEW rows, rows = MakeBlockMap(split, frame)
  PROVE  /\ BsizeMin(rows) \in Nat
         /\ \A r \in rows : \E stf \in Range(frame.stfs) : r = RowOf(split, stf)
         /\ \A r \in rows : BsizeMin(rows) <= Len(r.blocks)
         /\ \E r \in rows : BsizeMin(rows) = Len(r.blocks)
         /\ \A stf \in Range(frame.stfs) : stf.hbfs # <<>> => RowOf(split, stf) \in rows
<1>1. rows = {RowOf(split, frame.stfs[n]) : n \in {m \in DOMAIN frame.stfs :
                m = Len(frame.stfs) \/ RowOf(split, frame.stfs[m]).blocks # <<>>}}
  BY DEF MakeBlockMap, RowOf
<1>2. \A r \in rows : \E stf \in Range(frame.stfs) : r = RowOf(split, stf)
  BY <1>1 DEF Range
<1>3. ASSUME NEW stf \in Range(frame.stfs)
      PROVE  Len(RowOf(split, stf).blocks) \in Nat /\ (RowOf(split, stf).blocks = <<>> <=> stf.hbfs = <<>>)
  <2> PICK B : B = Blocks(split, stf.msgs)
    OBVIOUS
  <2>1. RowOf(split, stf).blocks = B
    BY DEF RowOf
  <2>2. IsStf(stf, split)
    BY DEF IsFrame
  <2>3. Match(B, split, stf)
    BY <2>2, StfBlocks
  <2> QED BY <2>1, <2>3 DEF Match
<1>4. \A stf \in Range(frame.stfs) : stf.hbfs # <<>> => RowOf(split, stf) \in rows
  BY <1>1, <1>3 DEF Range
<1>5. rows # {}
  <2>1. Len(frame.stfs) \in DOMAIN frame.stfs
    BY DEF IsFrame
  <2> QED BY <1>1, <2>1
<1> PICK S : S = {Len(r.blocks) : r \in rows}
  OBVIOUS
<1>6. S \in SUBSET Nat /\ S # {} /\ BsizeMin(rows) = Min(S)
  BY <1>2, <1>3, <1>5 DEF BsizeMin
<1>7. Min(S) \in S /\ \A x \in S : Min(S) <= x
  BY <1>6, MinOfNat
<1> QED BY <1>2, <1>4, <1>6, <1>7

\* The heartbeats of a block index.
BeatsAt(split, frame, i) ==
    {n \in UNION {DOMAIN stf.hbfs : stf \in Range(frame.stfs)} : BlockAt(split, n) = i}

\* What Mark leaves in the time region, for a block index that all rows have, is
\* what is on in its heartbeat.
LEMMA RegionIsOn ==
  ASSUME NEW split \in 0 .. 2, NEW frame, IsFrame(frame, split),
         NEW rows, rows = MakeBlockMap(split, frame), NEW i \in 1 .. BsizeMin(rows), NEW t \in Times
  PROVE  MarkAll(<<>>, BuildHBF(rows, i))[t] = UNION {On(frame, n, t) : n \in BeatsAt(split, frame, i)}
<1>1. i \in Nat /\ \A r \in rows : Len(r.blocks) \in Nat => i \in 1 .. Len(r.blocks)
  BY RowsOf
<1> DEFINE region == MarkAll(<<>>, BuildHBF(rows, i))[t]
           on == UNION {On(frame, n, t) : n \in BeatsAt(split, frame, i)}
<1>2. ASSUME NEW k \in DOMAIN Signals, k - 1 \in region PROVE k - 1 \in on
  <2>1. PICK r \in rows : Fires(r.fem, r.type, Carried(r.blocks[i]), k, t)
    BY <1>2, RegionBit
  <2>2. PICK stf \in Range(frame.stfs) : r = RowOf(split, stf)
    BY RowsOf
  <2> PICK B : B = Blocks(split, stf.msgs)
    OBVIOUS
  <2>3. r.fem = stf.fem /\ r.type = stf.type /\ r.blocks = B
    BY <2>2 DEF RowOf
  <2>4. IsStf(stf, split)
    BY DEF IsFrame
  <2>5. /\ Len(B) \in Nat
        /\ \A m \in DOMAIN stf.hbfs : Carried(B[BlockAt(split, m)]) = Hits(stf.hbfs[m])
        /\ \A j \in 1 .. Len(B) : Carried(B[j]) # {} => \E m \in DOMAIN stf.hbfs : BlockAt(split, m) = j
    <3>1. Match(B, split, stf)
      BY <2>4, StfBlocks
    <3> QED BY <3>1, Zenon DEF Match
  <2>6. Carried(B[i]) # {}
    BY <2>1, <2>3 DEF Fires
  <2>7. PICK n \in DOMAIN stf.hbfs : BlockAt(split, n) = i
    BY <1>1, <2>3, <2>5, <2>6
  <2>8. Fires(stf.fem, stf.type, Hits(stf.hbfs[n]), k, t)
    BY <2>1, <2>3, <2>5, <2>7
  <2>9. k - 1 \in On(frame, n, t)
    BY <2>8, OnBit
  <2>10. n \in BeatsAt(split, frame, i)
    BY <2>7 DEF BeatsAt
  <2> QED BY <2>9, <2>10
<1>3. ASSUME NEW k \in DOMAIN Signals, k - 1 \in on PROVE k - 1 \in region
  <2>1. PICK n \in BeatsAt(split, frame, i) : k - 1 \in On(frame, n, t)
    BY <1>3
  <2>2. PICK stf \in Range(frame.stfs) :
            n \in DOMAIN stf.hbfs /\ Fires(stf.fem, stf.type, Hits(stf.hbfs[n]), k, t)
    BY <2>1, OnBit
  <2> PICK B : B = Blocks(split, stf.msgs)
    OBVIOUS
  <2> PICK r : r = RowOf(split, stf)
    OBVIOUS
  <2>3. r.fem = stf.fem /\ r.type = stf.type /\ r.blocks = B
    BY DEF RowOf
  <2>4. IsStf(stf, split)
    BY DEF IsFrame
  <2>5. Carried(B[BlockAt(split, n)]) = Hits(stf.hbfs[n]) /\ BlockAt(split, n) = i
    <3>1. Match(B, split, stf)
      BY <2>4, StfBlocks
    <3> QED BY <2>1, <2>2, <3>1 DEF BeatsAt, Match
  <2>6. stf.hbfs # <<>>
    BY <2>2
  <2>7. r \in rows
    BY <2>6, RowsOf
  <2>8. Fires(r.fem, r.type, Carried(r.blocks[i]), k, t)
    BY <2>2, <2>3, <2>5
  <2> QED BY <2>7, <2>8, RegionBit
<1>4. \A b \in region : \E k \in DOMAIN Signals : b = k - 1
  BY RegionBit
<1>5. \A b \in on : \E k \in DOMAIN Signals : b = k - 1
  BY OnBit
<1> HIDE DEF region, on
<1>6. region = on
  BY <1>2, <1>3, <1>4, <1>5
<1> QED BY <1>6 DEF region, on

-----------------------------------------------------------------------------
(* The inductive invariant: the triggers at work. *)

\* What Scan finds for a table in a block index, and in all of them.
FoundIn(map, rows, i) == Scan(map, MarkAll(<<>>, BuildHBF(rows, i)))
AllFoundIn(map, rows) == [i \in 1 .. BsizeMin(rows) |-> FoundIn(map, rows, i)]

WorkInv ==
    /\ Len(trgdata) \in Nat /\ Len(trg_tdc) \in Nat
    /\ trgdata = [k \in 1 .. Len(trgdata) |-> FilterMessages(fTrig[k], AllFoundIn(fTrig[k].map, block_map))]
    /\ trg_tdc = [i \in 1 .. Len(trg_tdc) |-> FoundIn(fTrig[Len(trgdata) + 1].map, block_map, i)]
    /\ pc = "Receive" => trgdata = <<>> /\ trg_tdc = <<>>
    /\ pc # "Receive" => block_map = MakeBlockMap(fSplitMethod, inParts[1])
    /\ pc \in {"Mark", "Scan"} => Len(trgdata) < Len(fTrig) /\ Len(trg_tdc) <= BsizeMin(block_map)
    /\ pc \in {"Dqm", "Output"} => Len(trgdata) = Len(fTrig) /\ trg_tdc = <<>>
    /\ pc = "Scan" => /\ Len(trg_tdc) < BsizeMin(block_map)
                      /\ fTimeRegion = MarkAll(<<>>, BuildHBF(block_map, Len(trg_tdc) + 1))

\* A list that grows along g.
LEMMA ListAppend ==
  ASSUME NEW n \in Nat, NEW g, NEW s, Len(s) = n, s = [k \in 1 .. n |-> g[k]]
  PROVE  Append(s, g[n + 1]) = [k \in 1 .. n + 1 |-> g[k]] /\ Len(Append(s, g[n + 1])) = n + 1
<1> PICK S : S = Range(s) \cup {g[n + 1]}
  OBVIOUS
<1>1. s \in Seq(S) /\ g[n + 1] \in S
  BY DEF Range
<1> PICK e : e = g[n + 1]
  OBVIOUS
<1> PICK r : r = Append(s, e)
  OBVIOUS
<1>2. /\ r \in Seq(S) /\ Len(r) = n + 1 /\ r[n + 1] = e
      /\ \A k \in 1 .. n : r[k] = s[k]
  BY <1>1
<1>3. \A k \in 1 .. n + 1 : r[k] = g[k]
  <2>1. \A k \in 1 .. n + 1 : k = n + 1 \/ k \in 1 .. n
    OBVIOUS
  <2> QED BY <1>2, <2>1
<1>4. r = [k \in 1 .. n + 1 |-> r[k]]
  BY <1>2
<1>5. r = [k \in 1 .. n + 1 |-> g[k]]
  BY <1>3, <1>4
<1> QED BY <1>2, <1>5

\* The frame in hand and its blocks.
LEMMA InHand ==
  ASSUME FrameInv, WorkInv, pc # "Receive"
  PROVE  /\ fSplitMethod \in 0 .. 2 /\ IsFrame(inParts[1], fSplitMethod)
         /\ block_map = MakeBlockMap(fSplitMethod, inParts[1])
         /\ BsizeMin(block_map) \in Nat
         /\ state = "Running"
<1>1. fSplitMethod \in 0 .. 2
  BY FilterAssumption DEF FrameInv, TypeOK
<1>2. PICK stfs \in FramesOf[Taken] : inParts = <<Frame(fSplitMethod, Taken, stfs)>>
  BY DEF FrameInv, HandInv
<1>3. Taken \in 1 .. MaxFrames /\ state = "Running"
  BY DEF FrameInv, HandInv
<1>4. IsFrame(inParts[1], fSplitMethod)
  BY <1>2, <1>3, FrameIsFrame
<1>5. block_map = MakeBlockMap(fSplitMethod, inParts[1])
  BY DEF WorkInv
<1> QED BY <1>1, <1>3, <1>4, <1>5, RowsOf

\* No frame in hand: nothing is found.
LEMMA Idle ==
  ASSUME pc = "Receive", trgdata = <<>>, trg_tdc = <<>>
  PROVE  WorkInv
<1> PICK g : g = [k \in 1 .. 0 |-> FilterMessages(fTrig[k], AllFoundIn(fTrig[k].map, block_map))]
  OBVIOUS
<1> PICK h : h = [i \in 1 .. 0 |-> FoundIn(fTrig[0 + 1].map, block_map, i)]
  OBVIOUS
<1>1. g = <<>> /\ h = <<>> /\ Len(<<>>) = 0
  OBVIOUS
<1> QED BY <1>1 DEF WorkInv

LEMMA IdleNext ==
  ASSUME pc' = "Receive", trgdata' = <<>>, trg_tdc' = <<>>
  PROVE  WorkInv'
<1> PICK g : g = [k \in 1 .. 0 |-> FilterMessages(fTrig'[k], AllFoundIn(fTrig'[k].map, block_map'))]
  OBVIOUS
<1> PICK h : h = [i \in 1 .. 0 |-> FoundIn(fTrig'[0 + 1].map, block_map', i)]
  OBVIOUS
<1>1. g = <<>> /\ h = <<>> /\ Len(<<>>) = 0
  OBVIOUS
<1> QED BY <1>1 DEF WorkInv

LEMMA TriggersKnown ==
  ASSUME FrameInv, TriggersInv, state = "Running"
  PROVE  Len(fTrig) \in Nat /\ (fTrig = <<>> <=> Len(fTrig) = 0)
<1>1. Len(fTrig) \in Nat /\ DOMAIN fTrig = 1 .. Len(fTrig)
  BY TriggersOf
<1>2. fTrig = NewTriggers(expressions)
  BY DEF TriggersInv
<1>3. fTrig \in Seq(Range(fTrig))
  BY <1>1, <1>2 DEF NewTriggers, Range
<1> QED BY <1>1, <1>3

LEMMA ReceiveStep ==
  ASSUME FrameInv, TriggersInv, WorkInv, Receive PROVE WorkInv'
<1>1. /\ state = "Running" /\ pc = "Receive"
      /\ inParts' = <<Head(inQueue)>> /\ block_map' = MakeBlockMap(fSplitMethod, Head(inQueue))
      /\ pc' = IF fTrig = <<>> THEN "Dqm" ELSE "Mark"
      /\ UNCHANGED <<trgdata, trg_tdc, fTrig, fSplitMethod>> /\ inQueue # <<>>
  BY DEF Receive, control, options
<1>2. trgdata' = <<>> /\ trg_tdc' = <<>> /\ Len(<<>>) = 0
  BY <1>1 DEF WorkInv
<1>3. block_map' = MakeBlockMap(fSplitMethod', inParts'[1])
  BY <1>1
<1>4. BsizeMin(block_map') \in Nat
  <2>1. PICK stfs \in FramesOf[arrived] : inQueue = <<Frame(fSplitMethod, arrived, stfs)>>
    BY <1>1 DEF FrameInv, HandInv
  <2>2. arrived \in 1 .. MaxFrames /\ fSplitMethod \in 0 .. 2
    BY <1>1, FilterAssumption DEF FrameInv, HandInv, TypeOK
  <2>3. IsFrame(Head(inQueue), fSplitMethod)
    BY <2>1, <2>2, FrameIsFrame
  <2> QED BY <1>1, <2>2, <2>3, RowsOf
<1>5. Len(fTrig) \in Nat /\ (fTrig = <<>> <=> Len(fTrig) = 0)
  BY <1>1, TriggersKnown
<1>6. /\ pc' \in {"Mark", "Scan"} => Len(trgdata') < Len(fTrig') /\ Len(trg_tdc') <= BsizeMin(block_map')
      /\ pc' \in {"Dqm", "Output"} => Len(trgdata') = Len(fTrig') /\ trg_tdc' = <<>>
      /\ pc' # "Scan" /\ pc' # "Receive"
  BY <1>1, <1>2, <1>4, <1>5
<1> PICK g : g = [k \in 1 .. 0 |-> FilterMessages(fTrig'[k], AllFoundIn(fTrig'[k].map, block_map'))]
  OBVIOUS
<1> PICK h : h = [i \in 1 .. 0 |-> FoundIn(fTrig'[0 + 1].map, block_map', i)]
  OBVIOUS
<1>7. g = <<>> /\ h = <<>>
  OBVIOUS
<1>8. /\ Len(trgdata') \in Nat /\ Len(trg_tdc') \in Nat
      /\ trgdata' = [k \in 1 .. Len(trgdata') |->
                        FilterMessages(fTrig'[k], AllFoundIn(fTrig'[k].map, block_map'))]
      /\ trg_tdc' = [i \in 1 .. Len(trg_tdc') |-> FoundIn(fTrig'[Len(trgdata') + 1].map, block_map', i)]
  BY <1>2, <1>7
<1> QED BY <1>3, <1>6, <1>8 DEF WorkInv

LEMMA ExecMarkStep ==
  ASSUME FrameInv, TriggersInv, WorkInv, ExecMark PROVE WorkInv'
<1>1. /\ pc = "Mark" /\ pc' = "Scan" /\ Len(trg_tdc) < BsizeMin(block_map) /\ Len(trgdata) < Len(fTrig)
      /\ fTimeRegion' = MarkAll(fTimeRegion, BuildHBF(block_map, Len(trg_tdc) + 1))
      /\ UNCHANGED <<trgdata, trg_tdc, fTrig, fSplitMethod, inParts, block_map>>
  BY DEF ExecMark, control, options
<1>2. fTimeRegion' = MarkAll(<<>>, BuildHBF(block_map, Len(trg_tdc) + 1))
  BY <1>1 DEF MarkAll
<1>3. BsizeMin(block_map) \in Nat
  BY <1>1, InHand
<1> QED BY <1>1, <1>2, <1>3 DEF WorkInv

LEMMA ExecScanStep ==
  ASSUME FrameInv, TriggersInv, WorkInv, ExecScan PROVE WorkInv'
<1>1. /\ pc = "Scan" /\ pc' = "Mark"
      /\ trg_tdc' = Append(trg_tdc, Scan(fTrig[Len(trgdata) + 1].map, fTimeRegion))
      /\ UNCHANGED <<trgdata, fTrig, fSplitMethod, inParts, block_map, fTimeRegion>>
  BY DEF ExecScan, control, options
<1> PICK map : map = fTrig[Len(trgdata) + 1].map
  OBVIOUS
<1> PICK n : n = Len(trg_tdc)
  OBVIOUS
<1>2. /\ n \in Nat /\ n < BsizeMin(block_map) /\ BsizeMin(block_map) \in Nat
      /\ fTimeRegion = MarkAll(<<>>, BuildHBF(block_map, n + 1)) /\ Len(trgdata) < Len(fTrig)
      /\ trg_tdc = [i \in 1 .. n |-> FoundIn(map, block_map, i)]
  BY <1>1, InHand DEF WorkInv
<1> PICK g : g = [i \in 1 .. n + 1 |-> FoundIn(map, block_map, i)]
  OBVIOUS
<1>3. trg_tdc = [i \in 1 .. n |-> g[i]] /\ g = [i \in 1 .. n + 1 |-> g[i]]
  <2>1. \A i \in 1 .. n : i \in 1 .. n + 1
    BY <1>2
  <2> QED BY <1>2, <2>1
<1>4. trg_tdc' = Append(trg_tdc, g[n + 1])
  <2>1. n + 1 \in 1 .. n + 1
    BY <1>2
  <2>2. g[n + 1] = FoundIn(map, block_map, n + 1)
    BY <2>1
  <2> QED BY <1>1, <1>2, <2>2 DEF FoundIn
<1>5. trg_tdc' = [i \in 1 .. n + 1 |-> g[i]] /\ Len(trg_tdc') = n + 1
  BY <1>2, <1>3, <1>4, ListAppend
<1>6. trg_tdc' = [i \in 1 .. Len(trg_tdc') |-> FoundIn(fTrig'[Len(trgdata') + 1].map, block_map', i)]
  BY <1>1, <1>3, <1>5
<1>7. Len(trg_tdc') \in Nat /\ Len(trg_tdc') <= BsizeMin(block_map)
  BY <1>2, <1>5
<1> QED BY <1>1, <1>2, <1>6, <1>7 DEF WorkInv

LEMMA NextTriggerStep ==
  ASSUME FrameInv, TriggersInv, WorkInv, NextTrigger PROVE WorkInv'
<1>1. /\ state = "Running" /\ pc = "Mark" /\ Len(trgdata) < Len(fTrig) /\ Len(trg_tdc) = BsizeMin(block_map)
      /\ trgdata' = Append(trgdata, FilterMessages(fTrig[Len(trgdata) + 1], trg_tdc)) /\ trg_tdc' = <<>>
      /\ pc' = IF Len(trgdata) + 1 = Len(fTrig) THEN "Dqm" ELSE "Mark"
      /\ UNCHANGED <<fTrig, fSplitMethod, inParts, block_map>>
  BY DEF NextTrigger, control, options
<1> PICK n : n = Len(trgdata)
  OBVIOUS
<1>2. /\ n \in Nat /\ BsizeMin(block_map) \in Nat /\ Len(fTrig) \in Nat
      /\ trgdata = [k \in 1 .. n |-> FilterMessages(fTrig[k], AllFoundIn(fTrig[k].map, block_map))]
      /\ trg_tdc = [i \in 1 .. BsizeMin(block_map) |-> FoundIn(fTrig[n + 1].map, block_map, i)]
  BY <1>1, InHand, TriggersKnown DEF WorkInv
<1>3. trg_tdc = AllFoundIn(fTrig[n + 1].map, block_map)
  BY <1>2 DEF AllFoundIn
<1> PICK g : g = [k \in 1 .. n + 1 |-> FilterMessages(fTrig[k], AllFoundIn(fTrig[k].map, block_map))]
  OBVIOUS
<1>4. trgdata = [k \in 1 .. n |-> g[k]] /\ g = [k \in 1 .. n + 1 |-> g[k]]
  <2>1. \A k \in 1 .. n : k \in 1 .. n + 1
    BY <1>2
  <2> QED BY <1>2, <2>1
<1>5. trgdata' = Append(trgdata, g[n + 1])
  <2>1. n + 1 \in 1 .. n + 1
    BY <1>2
  <2>2. g[n + 1] = FilterMessages(fTrig[n + 1], AllFoundIn(fTrig[n + 1].map, block_map))
    BY <2>1
  <2> QED BY <1>1, <1>3, <2>2
<1>6. trgdata' = [k \in 1 .. n + 1 |-> g[k]] /\ Len(trgdata') = n + 1
  BY <1>2, <1>4, <1>5, ListAppend
<1>7. trgdata' = [k \in 1 .. Len(trgdata') |->
                    FilterMessages(fTrig'[k], AllFoundIn(fTrig'[k].map, block_map'))]
  BY <1>1, <1>4, <1>6
<1> PICK h : h = [i \in 1 .. 0 |-> FoundIn(fTrig[Len(trgdata') + 1].map, block_map, i)]
  OBVIOUS
<1>8. h = <<>> /\ Len(<<>>) = 0
  OBVIOUS
<1>9. trg_tdc' = [i \in 1 .. Len(trg_tdc') |-> FoundIn(fTrig'[Len(trgdata') + 1].map, block_map', i)]
  BY <1>1, <1>8
<1>10. /\ Len(trgdata') \in Nat /\ Len(trg_tdc') \in Nat
       /\ pc' # "Receive" /\ pc' # "Scan" /\ pc' # "Output"
       /\ pc' = "Mark" => Len(trgdata') < Len(fTrig') /\ Len(trg_tdc') <= BsizeMin(block_map')
       /\ pc' = "Dqm" => Len(trgdata') = Len(fTrig')
  BY <1>1, <1>2, <1>6, <1>8
<1>11. block_map' = MakeBlockMap(fSplitMethod', inParts'[1])
  BY <1>1 DEF WorkInv
<1> QED BY <1>1, <1>7, <1>9, <1>10, <1>11 DEF WorkInv

LEMMA WorkStep ==
  ASSUME FrameInv, TriggersInv, WorkInv, [Next]_vars PROVE WorkInv'
<1> USE DEF control, options, channels, work, history
<1>1. CASE InitTask
  <2>1. pc = "Receive" /\ UNCHANGED <<pc, trgdata, trg_tdc>>
    BY <1>1 DEF InitTask, FrameInv, HandInv
  <2> QED BY <2>1, IdleNext DEF WorkInv
<1>2. CASE Run
  <2>1. pc = "Receive" /\ UNCHANGED <<pc, trgdata, trg_tdc>>
    BY <1>2 DEF Run, FrameInv, HandInv
  <2> QED BY <2>1, IdleNext DEF WorkInv
<1>3. CASE Receive
  BY <1>3, ReceiveStep
<1>4. CASE ExecMark
  BY <1>4, ExecMarkStep
<1>5. CASE ExecScan
  BY <1>5, ExecScanStep
<1>6. CASE NextTrigger
  BY <1>6, NextTriggerStep
<1>7. CASE DqmSend \/ DqmInterrupted
  <2>1. pc = "Dqm" /\ pc' = "Output" /\ UNCHANGED <<fTrig, fSplitMethod, work>>
    BY <1>7 DEF DqmSend, DqmInterrupted
  <2> QED BY <2>1 DEF WorkInv
<1>8. CASE OutputSend \/ OutputAbandon
  <2>1. pc = "Output" /\ pc' = "Receive" /\ trgdata' = <<>> /\ trg_tdc' = trg_tdc
    BY <1>8 DEF OutputSend, OutputAbandon, Done
  <2>2. trg_tdc = <<>>
    BY <2>1 DEF WorkInv
  <2> QED BY <2>1, <2>2, IdleNext
<1>9. CASE UNCHANGED <<pc, fTrig, fSplitMethod, work>>
  BY <1>9 DEF WorkInv
<1>10. \/ InitTask \/ Run \/ Receive \/ ExecMark \/ ExecScan \/ NextTrigger \/ DqmSend \/ DqmInterrupted
       \/ OutputSend \/ OutputAbandon \/ UNCHANGED <<pc, fTrig, fSplitMethod, work>>
  BY DEF Next, Device, vars, ResetTask, StopRequest, EndRun, OutputBusy, FrameArrives, DqmTake, OutputTake
<1> QED BY <1>1, <1>2, <1>3, <1>4, <1>5, <1>6, <1>7, <1>8, <1>9, <1>10

LEMMA WorkAlways == Spec => [](FrameInv /\ TriggersInv /\ WorkInv)
<1>1. Init => WorkInv
  BY Idle DEF Init
<1>2. WorkInv /\ FrameInv /\ TriggersInv /\ [Next]_vars => WorkInv'
  BY WorkStep
<1> QED BY FrameAlways, TriggersAlways, <1>1, <1>2, PTL DEF Spec

-----------------------------------------------------------------------------
(* The triggers find the rising edges of their expressions. *)

\* A block index has one heartbeat at most.
LEMMA OneBeat ==
  ASSUME NEW split, NEW frame, IsFrame(frame, split), NEW i,
         NEW m \in BeatsAt(split, frame, i), NEW n \in BeatsAt(split, frame, i)
  PROVE  m = n
<1>1. ASSUME NEW k \in BeatsAt(split, frame, i) PROVE k \in Nat /\ BlockAt(split, k) = i
  <2>1. PICK stf \in Range(frame.stfs) : k \in DOMAIN stf.hbfs
    BY DEF BeatsAt
  <2>2. stf.hbfs \in Seq(Seq(Words))
    BY DEF IsFrame, IsStf
  <2>3. k \in Nat
    BY <2>1, <2>2
  <2> QED BY <2>3 DEF BeatsAt
<1> QED BY <1>1 DEF BlockAt

\* A table tells the sets of signals for which an expression is true.
Tells(map, holds) == \A on \in SUBSET (0 .. Len(Signals) - 1) : LookUp(map, on) <=> on \in holds

LEMMA TimesFound ==
  ASSUME NEW split \in 0 .. 2, NEW frame, IsFrame(frame, split),
         NEW rows, rows = MakeBlockMap(split, frame), NEW i \in 1 .. BsizeMin(rows), NEW map, NEW holds,
         Tells(map, holds)
  PROVE  /\ Range(FoundIn(map, rows, i)) =
                UNION {TriggerTimes(frame, holds, n) : n \in BeatsAt(split, frame, i)}
         /\ Increasing(FoundIn(map, rows, i))
<1> PICK region : region = MarkAll(<<>>, BuildHBF(rows, i))
  OBVIOUS
<1>1. /\ Range(FoundIn(map, rows, i)) =
            {t \in Times \ {0} : ~LookUp(map, region[t - 1]) /\ LookUp(map, region[t])}
      /\ Increasing(FoundIn(map, rows, i))
  BY ScanFinds DEF FoundIn
<1>2. ASSUME NEW t \in Times
      PROVE  /\ LookUp(map, region[t]) <=> region[t] \in holds
             /\ region[t] = UNION {On(frame, n, t) : n \in BeatsAt(split, frame, i)}
  <2>1. region[t] = UNION {On(frame, n, t) : n \in BeatsAt(split, frame, i)}
    BY RegionIsOn
  <2>2. \A b \in region[t] : \E k \in DOMAIN Signals : b = k - 1
    BY RegionBit
  <2>3. \A k \in DOMAIN Signals : k - 1 \in 0 .. Len(Signals) - 1
    BY TriggerAssumption
  <2>4. region[t] \in SUBSET (0 .. Len(Signals) - 1)
    BY <2>2, <2>3
  <2> QED BY <2>1, <2>4 DEF Tells
<1>3. \A t \in Times \ {0} : t - 1 \in Times
  BY TriggerAssumption DEF Times
<1>4. Range(FoundIn(map, rows, i)) = {t \in Times \ {0} : region[t - 1] \notin holds /\ region[t] \in holds}
  <2>1. \A t \in Times \ {0} : /\ LookUp(map, region[t]) <=> region[t] \in holds
                               /\ LookUp(map, region[t - 1]) <=> region[t - 1] \in holds
    BY <1>2, <1>3
  <2> QED BY <1>1, <2>1
<1>5. CASE BeatsAt(split, frame, i) = {}
  <2>1. \A t \in Times : region[t] = {}
    BY <1>2, <1>5
  <2>2. {t \in Times \ {0} : region[t - 1] \notin holds /\ region[t] \in holds} = {}
    BY <1>3, <2>1
  <2>3. UNION {TriggerTimes(frame, holds, n) : n \in BeatsAt(split, frame, i)} = {}
    BY <1>5
  <2> QED BY <1>1, <1>4, <2>2, <2>3
<1>6. ASSUME NEW n \in BeatsAt(split, frame, i)
      PROVE  Range(FoundIn(map, rows, i)) =
                UNION {TriggerTimes(frame, holds, m) : m \in BeatsAt(split, frame, i)}
  <2>1. BeatsAt(split, frame, i) = {n}
    BY OneBeat
  <2>2. \A t \in Times : region[t] = On(frame, n, t)
    BY <1>2, <2>1
  <2>3. Range(FoundIn(map, rows, i)) = TriggerTimes(frame, holds, n)
    <3>1. \A t \in Times \ {0} : region[t] = On(frame, n, t) /\ region[t - 1] = On(frame, n, t - 1)
      BY <1>3, <2>2
    <3> QED BY <1>4, <3>1 DEF TriggerTimes
  <2> QED BY <2>1, <2>3
<1> QED BY <1>1, <1>5, <1>6

\* HitsAreRisingEdges for one trigger of a frame.
EdgesOf(frame, k) ==
    LET f == frame.filters[k]
    IN  /\ f.type = expressions[k].type
        /\ \A n \in DOMAIN frame.stfs[1].hbfs :
                (\A stf \in Range(frame.stfs) : n \in DOMAIN stf.hbfs)
                    => BlockOf(n) \in DOMAIN f.times
        /\ \A i \in DOMAIN f.times :
                /\ Range(f.times[i]) = UNION {TriggerTimes(frame, expressions[k].holds, n) :
                                                n \in HeartbeatsAt(frame, i)}
                /\ Increasing(f.times[i])
        /\ f.numTrigs = Len(FlattenSeq(f.times))

LEMMA EdgesFollow ==
  ASSUME FrameInv, TriggersInv, WorkInv, TableIsFormula PROVE HitsAreRisingEdges
<1> SUFFICES ASSUME pc = "Dqm", NEW k \in DOMAIN expressions PROVE EdgesOf(outParts, k)
  BY DEF HitsAreRisingEdges, EdgesOf
<1> PICK frame : frame = outParts
  OBVIOUS
<1> PICK split : split = fSplitMethod
  OBVIOUS
<1> PICK rows : rows = block_map
  OBVIOUS
<1>1. frame.stfs = inParts[1].stfs /\ frame.filters = trgdata
  BY DEF outParts
<1>2. /\ split \in 0 .. 2 /\ IsFrame(frame, split) /\ rows = MakeBlockMap(split, frame)
      /\ state = "Running" /\ BsizeMin(rows) \in Nat
  BY <1>1, InHand DEF IsFrame, MakeBlockMap
<1>3. \A n : BlockOf(n) = BlockAt(split, n)
  BY DEF BlockOf, BlockAt
<1>4. \A i : HeartbeatsAt(frame, i) = BeatsAt(split, frame, i)
  BY <1>3 DEF HeartbeatsAt, BeatsAt
<1>5. ASSUME NEW n, \A stf \in Range(frame.stfs) : n \in DOMAIN stf.hbfs
      PROVE  BlockOf(n) \in 1 .. BsizeMin(rows)
  <2>1. PICK r \in rows : BsizeMin(rows) = Len(r.blocks)
    BY <1>2, RowsOf
  <2>2. PICK stf \in Range(frame.stfs) : r = RowOf(split, stf)
    BY <1>2, RowsOf
  <2> PICK B : B = Blocks(split, stf.msgs)
    OBVIOUS
  <2>3. r.blocks = B
    BY <2>2 DEF RowOf
  <2>4. IsStf(stf, split) /\ n \in DOMAIN stf.hbfs
    BY <1>2, <1>5 DEF IsFrame
  <2>5. BlockAt(split, n) \in 1 .. Len(B)
    <3>1. Match(B, split, stf)
      BY <1>2, <2>4, StfBlocks
    <3> QED BY <2>4, <3>1 DEF Match
  <2> QED BY <1>3, <2>1, <2>3, <2>5
<1> PICK f : f = frame.filters[k]
  OBVIOUS
<1> PICK map : map = fTrig[k].map
  OBVIOUS
<1> PICK times : times = AllFoundIn(map, rows)
  OBVIOUS
<1> PICK holds : holds = expressions[k].holds
  OBVIOUS
<1>6. k \in 1 .. Len(trgdata) /\ k \in DOMAIN fTrig /\ fTrig[k].type = expressions[k].type
  BY <1>2, TriggersOf DEF WorkInv
<1>7. f = FilterMessages(fTrig[k], times)
  BY <1>1, <1>6 DEF WorkInv
<1>8. f.type = expressions[k].type /\ f.times = times /\ f.numTrigs = Len(FlattenSeq(f.times))
  BY <1>6, <1>7 DEF FilterMessages
<1>9. DOMAIN times = 1 .. BsizeMin(rows) /\ \A i \in 1 .. BsizeMin(rows) : times[i] = FoundIn(map, rows, i)
  BY DEF AllFoundIn
<1>10. Tells(map, holds)
  BY <1>2, <1>6 DEF TableIsFormula, Tells
<1>11. ASSUME NEW i \in 1 .. BsizeMin(rows)
       PROVE  /\ Range(times[i]) = UNION {TriggerTimes(frame, holds, n) : n \in HeartbeatsAt(frame, i)}
              /\ Increasing(times[i])
  <2>1. /\ Range(FoundIn(map, rows, i)) =
                UNION {TriggerTimes(frame, holds, n) : n \in BeatsAt(split, frame, i)}
        /\ Increasing(FoundIn(map, rows, i))
    BY ONLY <1>2, <1>10, i \in 1 .. BsizeMin(rows), TimesFound
  <2> QED BY <1>4, <1>9, <2>1
<1>12. /\ \A n \in DOMAIN frame.stfs[1].hbfs :
                (\A stf \in Range(frame.stfs) : n \in DOMAIN stf.hbfs) => BlockOf(n) \in DOMAIN f.times
       /\ \A i \in DOMAIN f.times :
            /\ Range(f.times[i]) = UNION {TriggerTimes(frame, expressions[k].holds, n) :
                                            n \in HeartbeatsAt(frame, i)}
            /\ Increasing(f.times[i])
  BY ONLY <1>5, <1>8, <1>9, <1>11, holds = expressions[k].holds
<1>13. EdgesOf(frame, k)
  BY ONLY <1>8, <1>12, f = frame.filters[k], Zenon DEF EdgesOf
<1> QED BY <1>13

\* HitsAreRisingEdges: if the tables are those of the expressions as they are meant,
\* the trigger times that go out with a frame are the times at which its expressions
\* become true on what all the front ends had in the same heartbeat.
THEOREM TriggersFindEdges == Spec => [](TableIsFormula => HitsAreRisingEdges)
<1>1. FrameInv /\ TriggersInv /\ WorkInv => (TableIsFormula => HitsAreRisingEdges)
  BY EdgesFollow
<1> QED BY WorkAlways, <1>1, PTL

\* TableIsFormula: once the parser and the commands mean what the expressions mean,
\* the tables do, of every trigger and after any number of InitTasks.
THEOREM TablesMeanFormulas == FormulasAreMeant => (Spec => []TableIsFormula)
<1> SUFFICES ASSUME FormulasAreMeant PROVE Spec => []TableIsFormula
  OBVIOUS
<1>1. TriggersInv => TableIsFormula
  <2> SUFFICES ASSUME TriggersInv, state \in {"Ready", "Running"},
                      NEW n \in DOMAIN fTrig, NEW on \in SUBSET (0 .. Len(Signals) - 1)
               PROVE  LookUp(fTrig[n].map, on) <=> on \in expressions[n].holds
    BY TriggersOf DEF TableIsFormula
  <2>1. LookUp(fTrig[n].map, on) <=> Calc(Commands(expressions[n].formula), on)
    BY CalculatedFollows DEF TablesAreCalculated
  <2>2. n \in DOMAIN expressions
    BY TriggersOf
  <2> QED BY <2>1, <2>2 DEF FormulasAreMeant, TriggersInv
<1> QED BY TriggersAlways, <1>1, PTL

\* HitsAreRisingEdges, of the expressions as they are written: from the words of the
\* option to the trigger times of a frame.
THEOREM FramesCarryTheirEdges == FormulasAreMeant => (Spec => []HitsAreRisingEdges)
<1> SUFFICES ASSUME FormulasAreMeant PROVE Spec => []HitsAreRisingEdges
  OBVIOUS
<1>1. Spec => []TableIsFormula
  BY TablesMeanFormulas
<1> QED BY <1>1, TriggersFindEdges, PTL
=============================================================================
