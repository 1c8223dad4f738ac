--------------------------- MODULE SamplerProofs ---------------------------
(***************************************************************************)
(* Theorems about the samplers.                                            *)
(*                                                                         *)
(* recbe (ReadoutSampler): what the register access reports, and what the  *)
(* reader sends, for any list of registers and any events (TLC: run        *)
(* stream).  The answers are not numbered.  As long as every write was     *)
(* answered, though, a request is sent only after the answer to the one    *)
(* before it was taken: at most one request or answer is on its way, and   *)
(* it belongs to the write that waits.                                     *)
(*                                                                         *)
(* e16 (TaggedReadout): the samplers in a run, for any front ends with     *)
(* tags of any length, any number of builders, events and runs (TLC: run   *)
(* spill).                                                                 *)
(*                                                                         *)
(* The watchdog that restarts the samplers of recbe (ProcessWatchdog), for *)
(* any set of fields, any threshold and any number of writes and errors    *)
(* (TLC: run watchdog).                                                    *)
(***************************************************************************)
EXTENDS ReadoutSampler, TaggedReadout, ProcessWatchdog, TLAPS, SequenceTheorems, FiniteSetTheorems

-----------------------------------------------------------------------------
(* The samplers of recbe: the inductive invariant of the registers. *)
RegisterType ==
    /\ fSequence \in 0 .. Len(Settings)
    /\ asked \in BOOLEAN
    /\ datagrams \subseteq 1 .. fSequence
    /\ answers \in Nat
    /\ written \subseteq {Settings[n] : n \in DOMAIN Settings}
    /\ reported \in Seq(BOOLEAN)

\* A write is reported before the next one begins.
ReportedInTurn ==
    pc = "init" => fSequence = Len(reported) + IF asked THEN 1 ELSE 0

\* While no write has failed: what was reported is written, and what is on its
\* way is of the write that waits.
AnsweredInTurn ==
    pc = "init" /\ (\A n \in DOMAIN reported : reported[n]) =>
        /\ \A n \in 1 .. Len(reported) : Settings[n] \in written
        /\ datagrams # {} => asked /\ datagrams = {fSequence} /\ answers = 0
        /\ answers # 0 => asked /\ answers = 1 /\ Settings[fSequence] \in written

Closed == pc # "init" => reported = << >>

RegisterInv == RegisterType /\ ReportedInTurn /\ AnsweredInTurn /\ Closed

-----------------------------------------------------------------------------
LEMMA RegisterInit == ASSUME ReadoutInit PROVE RegisterInv
<1>1. Len(Settings) \in Nat /\ << >> \in Seq(BOOLEAN) /\ Len(<< >>) = 0
  BY SettingsAssumption, LenProperties, EmptySeq
<1>2. RegisterType
  <2>1. fSequence \in 0 .. Len(Settings) /\ datagrams \subseteq 1 .. fSequence
    BY <1>1 DEF ReadoutInit, RBCPInit
  <2>2. asked \in BOOLEAN
    BY DEF ReadoutInit, RBCPInit
  <2>3. answers \in Nat /\ reported \in Seq(BOOLEAN)
    BY <1>1 DEF ReadoutInit, RBCPInit
  <2>4. written \subseteq {Settings[n] : n \in DOMAIN Settings}
    BY DEF ReadoutInit, RBCPInit
  <2> QED BY <2>1, <2>2, <2>3, <2>4 DEF RegisterType
<1>3. ReportedInTurn /\ AnsweredInTurn /\ Closed
  BY <1>1 DEF ReadoutInit, RBCPInit, ReportedInTurn, AnsweredInTurn, Closed
<1> QED BY <1>2, <1>3 DEF RegisterInv

\* The steps of one write.
LEMMA RegisterTypeStep == ASSUME RegisterType, RBCPNext PROVE RegisterType'
<1> USE SettingsAssumption DEF RegisterType
<1>1. CASE Write
  <2>1. Len(Settings) \in Nat
    BY LenProperties
  <2>2. fSequence' \in 0 .. Len(Settings) /\ datagrams' \subseteq 1 .. fSequence'
    <3>1. fSequence < Len(Settings) /\ fSequence' = fSequence + 1 /\ datagrams' = datagrams \union {fSequence + 1}
      BY <1>1 DEF Write
    <3>2. fSequence \in 0 .. Len(Settings) /\ datagrams \subseteq 1 .. fSequence
      OBVIOUS
    <3> QED BY ONLY <2>1, <3>1, <3>2
  <2>3. asked' \in BOOLEAN
    BY <1>1 DEF Write
  <2>4. /\ answers' \in Nat /\ reported' \in Seq(BOOLEAN)
        /\ written' \subseteq {Settings[n] : n \in DOMAIN Settings}
    BY <1>1, Zenon DEF Write
  <2> QED BY <2>2, <2>3, <2>4, Zenon
<1>2. CASE ReceiveNothing
  BY <1>2, AppendProperties DEF ReceiveNothing
<1>3. CASE ReceiveAnswer
  <2>1. answers' \in Nat
    BY <1>3 DEF ReceiveAnswer
  <2>3. asked' \in BOOLEAN
    BY <1>3 DEF ReceiveAnswer
  <2>2. reported' \in Seq(BOOLEAN)
    BY <1>3, AppendProperties DEF ReceiveAnswer
  <2> QED BY <1>3, <2>1, <2>2, <2>3 DEF ReceiveAnswer
<1>4. ASSUME NEW n \in datagrams, Executed(n) PROVE RegisterType'
  <2>1. Settings[n] \in {Settings[k] : k \in DOMAIN Settings}
    <3>1. n \in 1 .. fSequence /\ fSequence \in 0 .. Len(Settings)
      OBVIOUS
    <3>2. Len(Settings) \in Nat /\ DOMAIN Settings = 1 .. Len(Settings)
      BY LenProperties
    <3>3. n \in DOMAIN Settings
      BY ONLY <3>1, <3>2
    <3> QED BY ONLY <3>3
  <2> QED BY <1>4, <2>1 DEF Executed
<1>5. ASSUME NEW n \in datagrams, RequestLost(n) PROVE RegisterType'
  BY <1>5 DEF RequestLost
<1>6. CASE AnswerLost
  BY <1>6 DEF AnswerLost
<1> QED BY <1>1, <1>2, <1>3, <1>4, <1>5, <1>6 DEF RBCPNext

\* Only a report changes what was reported, and that there is one to come.
LEMMA ReportedInTurnStep ==
    ASSUME RegisterType, ReportedInTurn, pc = "init", pc' = "init", RBCPNext
    PROVE  ReportedInTurn'
<1> USE DEF RegisterType, ReportedInTurn
<1>1. CASE Write
  BY <1>1 DEF Write
<1>2. CASE ReceiveNothing
  BY <1>2, AppendProperties DEF ReceiveNothing
<1>3. CASE ReceiveAnswer
  BY <1>3, AppendProperties DEF ReceiveAnswer
<1>4. CASE UNCHANGED <<fSequence, asked, reported>>
  BY <1>4
<1> QED
  BY <1>1, <1>2, <1>3, <1>4 DEF RBCPNext, Executed, RequestLost, AnswerLost

LEMMA AnswerStep ==
    ASSUME RegisterType, RegisterType', ReportedInTurn, AnsweredInTurn,
           pc = "init", pc' = "init", RBCPNext
    PROVE  AnsweredInTurn'
<1> SUFFICES ASSUME \A n \in DOMAIN reported' : reported'[n]
             PROVE  /\ \A n \in 1 .. Len(reported') : Settings[n] \in written'
                    /\ datagrams' # {} => asked' /\ datagrams' = {fSequence'} /\ answers' = 0
                    /\ answers' # 0 => asked' /\ answers' = 1 /\ Settings[fSequence'] \in written'
  BY DEF AnsweredInTurn
<1> DEFINE Before == \A n \in DOMAIN reported : reported[n]
<1>t. /\ fSequence \in Nat /\ answers \in Nat /\ reported \in Seq(BOOLEAN)
      /\ fSequence = Len(reported) + IF asked THEN 1 ELSE 0
  BY SettingsAssumption DEF RegisterType, ReportedInTurn
<1>a. ASSUME NEW b, reported' = Append(reported, b), b \in BOOLEAN
      PROVE  Before /\ b /\ Len(reported') = Len(reported) + 1
  <2>1. /\ Len(reported') = Len(reported) + 1
        /\ \A n \in DOMAIN reported : n \in DOMAIN reported' /\ reported'[n] = reported[n]
        /\ Len(reported) + 1 \in DOMAIN reported'
        /\ reported'[Len(reported) + 1] = b
    BY <1>a, <1>t, AppendProperties, LenProperties
  <2> QED BY <2>1
<1>b. Before => /\ \A n \in 1 .. Len(reported) : Settings[n] \in written
                /\ datagrams # {} => asked /\ datagrams = {fSequence} /\ answers = 0
                /\ answers # 0 => asked /\ answers = 1 /\ Settings[fSequence] \in written
  BY DEF AnsweredInTurn
<1> HIDE DEF Before
<1>c. reported' = reported => Before
  BY DEF Before
<1>1. CASE Write
  BY <1>1, <1>t, <1>b, <1>c DEF Write
<1>2. CASE ReceiveNothing
  BY <1>2, <1>a DEF ReceiveNothing
<1>3. CASE ReceiveAnswer
  <2>1. Before /\ Len(reported') = Len(reported) + 1
    BY <1>3, <1>a DEF ReceiveAnswer
  <2>2. answers = 1 /\ Settings[fSequence] \in written /\ datagrams = {} /\ asked
    BY <1>3, <1>b, <1>t, <2>1 DEF ReceiveAnswer
  <2>3. fSequence = Len(reported')
    BY <1>t, <2>1, <2>2
  <2> QED BY <1>3, <1>b, <1>t, <2>1, <2>2, <2>3 DEF ReceiveAnswer
<1>4. ASSUME NEW n \in datagrams, Executed(n)
      PROVE  /\ \A k \in 1 .. Len(reported') : Settings[k] \in written'
             /\ datagrams' # {} => asked' /\ datagrams' = {fSequence'} /\ answers' = 0
             /\ answers' # 0 => asked' /\ answers' = 1 /\ Settings[fSequence'] \in written'
  BY <1>4, <1>b, <1>c, <1>t DEF Executed
<1>5. ASSUME NEW n \in datagrams, RequestLost(n)
      PROVE  /\ \A k \in 1 .. Len(reported') : Settings[k] \in written'
             /\ datagrams' # {} => asked' /\ datagrams' = {fSequence'} /\ answers' = 0
             /\ answers' # 0 => asked' /\ answers' = 1 /\ Settings[fSequence'] \in written'
  BY <1>5, <1>b, <1>c, <1>t DEF RequestLost
<1>6. CASE AnswerLost
  BY <1>6, <1>b, <1>c, <1>t DEF AnswerLost
<1> QED BY <1>1, <1>2, <1>3, <1>4, <1>5, <1>6 DEF RBCPNext

\* Behind InitTask nothing touches the registers any more, and it never comes back.
LEMMA LaterSteps ==
    ASSUME [ReadoutNext]_readoutVars
    PROVE  \/ pc = "init" /\ pc' = "init" /\ RBCPNext
           \/ RBCPClose /\ pc' # "init"
           \/ UNCHANGED rbcpVars /\ (pc' = "init" <=> pc = "init")
<1>1. CASE InitTask
  BY <1>1 DEF InitTask
<1>2. CASE Recv
  BY <1>2, Zenon DEF Recv, Receiving, HeaderRead, BodyRead, Return
<1>3. CASE Timeout
  BY <1>3 DEF Timeout, Receiving, HeaderRead, BodyRead, Return, Again
<1>4. CASE Failure
  BY <1>4 DEF Failure, Receiving, HeaderRead, BodyRead, Return
<1>5. CASE OutputSend
  BY <1>5 DEF OutputSend, Return
<1>6. CASE DqmSend \/ PostRun \/ StopReadout \/ Arrive \/ Close
  BY <1>6 DEF DqmSend, PostRun, StopReadout, Arrive, Close, readVars
<1>7. CASE UNCHANGED readoutVars
  BY <1>7 DEF readoutVars, readVars
<1> QED BY <1>1, <1>2, <1>3, <1>4, <1>5, <1>6, <1>7 DEF ReadoutNext

LEMMA RegisterStep == ASSUME RegisterInv, [ReadoutNext]_readoutVars PROVE RegisterInv'
<1>1. CASE pc = "init" /\ pc' = "init" /\ RBCPNext
  BY <1>1, RegisterTypeStep, ReportedInTurnStep, AnswerStep DEF RegisterInv, Closed
<1>2. CASE RBCPClose /\ pc' # "init"
  BY <1>2 DEF RBCPClose, RegisterInv, RegisterType, ReportedInTurn, AnsweredInTurn, Closed
<1>3. CASE UNCHANGED rbcpVars /\ (pc' = "init" <=> pc = "init")
  BY <1>3 DEF rbcpVars, RegisterInv, RegisterType, ReportedInTurn, AnsweredInTurn, Closed
<1> QED BY <1>1, <1>2, <1>3, LaterSteps

LEMMA RegisterAlways == ReadoutSpec => []RegisterInv
  BY RegisterInit, RegisterStep, PTL DEF ReadoutSpec

LEMMA RegisterClaim == ASSUME RegisterInv PROVE AllReportedAllWritten
<1> SUFFICES ASSUME Configured, reported # << >>, \A n \in DOMAIN reported : reported[n]
             PROVE  \A n \in DOMAIN Settings : Settings[n] \in written
  BY DEF AllReportedAllWritten
<1>1. pc = "init"
  BY DEF RegisterInv, Closed
<1>2. Len(reported) = Len(Settings)
  BY <1>1, SettingsAssumption DEF RegisterInv, RegisterType, ReportedInTurn, Configured
<1> QED BY <1>1, <1>2, SettingsAssumption, LenProperties DEF RegisterInv, AnsweredInTurn

\* When InitTask of a readout sampler is over and Write returned success for every
\* register, then every register has been set, whatever the network lost,
\* although an answer is never compared with its request (RBCP.cxx).
THEOREM AllReportedAreWritten == ReadoutSpec => []AllReportedAllWritten
  BY RegisterAlways, RegisterClaim, PTL

-----------------------------------------------------------------------------
(* Folds.  The library has no induction that could be used here; that a    *)
(* set of naturals has a least element follows from the well-foundedness   *)
(* of the subsets of finite sets, and gives induction on a set of numbers. *)

\* A set of naturals has a least element.
LEMMA LeastNatural ==
  ASSUME NEW S \in SUBSET Nat, S # {}
  PROVE  \E x \in S : \A y \in S : x <= y
<1> DEFINE T == {0 .. n : n \in S}
<1>1. T \subseteq FiniteSubsetsOf(Nat)
  <2>1. ASSUME NEW n \in S PROVE 0 .. n \in SUBSET Nat /\ IsFiniteSet(0 .. n)
    BY FS_Interval
  <2> QED BY <2>1 DEF FiniteSubsetsOf
<1>2. T # {}
  OBVIOUS
<1>3. PICK t \in T : \A u \in T : <<u, t>> \notin StrictSubsetOrdering(Nat)
  <2> HIDE DEF T
  <2> QED BY <1>1, <1>2, FS_StrictSubsetOrderingWellFounded, WFMin
<1>4. PICK x \in S : t = 0 .. x
  BY <1>3
<1>5. ASSUME NEW y \in S, y < x PROVE FALSE
  <2>1. /\ 0 .. y \in T /\ 0 .. y \subseteq t /\ 0 .. y # t
    BY <1>4, <1>5
  <2>2. <<0 .. y, t>> \in StrictSubsetOrdering(Nat)
    BY <2>1, <1>4 DEF StrictSubsetOrdering
  <2> QED BY <2>1, <2>2, <1>3
<1> QED BY <1>5

\* Induction.
LEMMA Induction ==
  ASSUME NEW S, 0 \in S, \A n \in Nat : n \in S => n + 1 \in S
  PROVE  Nat \subseteq S
<1> SUFFICES ASSUME Nat \ S # {} PROVE FALSE
  OBVIOUS
<1>1. PICK x \in Nat \ S : \A y \in Nat \ S : x <= y
  BY LeastNatural
<1>2. x # 0 /\ x - 1 \in Nat
  BY <1>1
<1>3. x - 1 \in S
  BY <1>1, <1>2
<1> QED BY <1>1, <1>2, <1>3

\* The greatest element of a set that has n + 1, and none above.
LEMMA MaxOfUpTo ==
  ASSUME NEW n \in Nat, NEW t \in SUBSET (1 .. n + 1), n + 1 \in t
  PROVE  Max(t) = n + 1 /\ t \ {n + 1} \in SUBSET (1 .. n)
<1>1. n + 1 \in t /\ \A y \in t : n + 1 >= y
  OBVIOUS
<1>2. \A z \in t : (\A y \in t : z >= y) => z = n + 1
  OBVIOUS
<1>3. Max(t) = n + 1
  BY <1>1, <1>2 DEF Max
<1>4. t \ {n + 1} \in SUBSET (1 .. n)
  OBVIOUS
<1> QED BY <1>3, <1>4

\* A set of numbers of 1 .. n has a greatest element.
LEMMA MaxIsIn ==
  ASSUME NEW n \in Nat, NEW t \in SUBSET (1 .. n), t # {}
  PROVE  Max(t) \in t /\ \A y \in t : Max(t) >= y
<1> DEFINE S == {n - x : x \in t}
<1>1. S \in SUBSET Nat /\ S # {}
  <2>1. \A x \in t : n - x \in Nat
    OBVIOUS
  <2> QED BY <2>1
<1>2. PICK y \in S : \A z \in S : y <= z
  <2> HIDE DEF S
  <2> QED BY <1>1, LeastNatural
<1>3. PICK x \in t : y = n - x
  BY <1>2
<1>4. \A z \in t : x >= z
  <2> TAKE z \in t
  <2>1. n - z \in S
    OBVIOUS
  <2> QED BY <2>1, <1>2, <1>3
<1> HIDE DEF S
<1> QED BY <1>4 DEF Max

\* g is the fold of s with G from b, over the subsets of its domain that
\* MapThenFoldSet goes through.
IsFold(g, G, b, s, N) ==
    g = [t \in SUBSET (1 .. N) |-> IF t = {} THEN b ELSE G[<<g[t \ {Max(t)}], s[Max(t)]>>]]

\* f goes through the subsets in the same way, as far as its values are in V.
Unfolds(f, V, G, b, s, N) ==
    /\ f[{}] = b
    /\ \A t \in SUBSET (1 .. N) : t # {} /\ f[t \ {Max(t)}] \in V
            => f[t] = G[<<f[t \ {Max(t)}], s[Max(t)]>>]

\* What a fold passes through.
IsTrace(h, G, b, s, N, r) ==
    h[0] = b /\ h[N] = r /\ \A k \in 1 .. N : h[k] = G[<<h[k - 1], s[k]>>]

\* The fold over the subsets of 1 .. n that MapThenFoldSet goes through exists.
LEMMA FoldExists ==
  ASSUME NEW V, NEW b \in V, NEW X, NEW N \in Nat, NEW s \in [1 .. N -> X], NEW G \in [V \X X -> V]
  PROVE  \E g \in [SUBSET (1 .. N) -> V] : IsFold(g, G, b, s, N)
<1> DEFINE Fits(g, n) == \A t \in SUBSET (1 .. n) :
                g[t] = IF t = {} THEN b ELSE G[<<g[t \ {Max(t)}], s[Max(t)]>>]
           There(n) == n <= N => \E g \in [SUBSET (1 .. n) -> V] : Fits(g, n)
<1>1. There(0)
  <2> DEFINE g == [t \in SUBSET (1 .. 0) |-> b]
  <2>1. g \in [SUBSET (1 .. 0) -> V] /\ Fits(g, 0)
    BY 1 .. 0 = {}
  <2> QED BY <2>1
<1>2. ASSUME NEW n \in Nat, There(n) PROVE There(n + 1)
  <2> SUFFICES ASSUME n + 1 <= N
               PROVE  \E h \in [SUBSET (1 .. n + 1) -> V] : Fits(h, n + 1)
    OBVIOUS
  <2>1. PICK g \in [SUBSET (1 .. n) -> V] : Fits(g, n)
    BY <1>2, n <= N
  <2> DEFINE h == [t \in SUBSET (1 .. n + 1) |->
                     IF n + 1 \in t THEN G[<<g[t \ {n + 1}], s[n + 1]>>] ELSE g[t]]
  <2>2. \A t \in SUBSET (1 .. n + 1) : n + 1 \notin t => t \in SUBSET (1 .. n)
    OBVIOUS
  <2>3. \A t \in SUBSET (1 .. n + 1) : n + 1 \in t => Max(t) = n + 1 /\ t \ {n + 1} \in SUBSET (1 .. n)
    BY MaxOfUpTo
  <2>4. s[n + 1] \in X
    OBVIOUS
  <2>5. h \in [SUBSET (1 .. n + 1) -> V]
    BY <2>2, <2>3, <2>4
  <2> HIDE DEF h
  <2>6. ASSUME NEW t \in SUBSET (1 .. n + 1)
        PROVE  h[t] = IF t = {} THEN b ELSE G[<<h[t \ {Max(t)}], s[Max(t)]>>]
    <3>1. CASE n + 1 \in t
      <4>1. h[t] = G[<<g[t \ {n + 1}], s[n + 1]>>]
        BY <3>1 DEF h
      <4>2. h[t \ {n + 1}] = g[t \ {n + 1}]
        BY <2>3, <3>1 DEF h
      <4> QED BY <4>1, <4>2, <2>3, <3>1
    <3>2. CASE n + 1 \notin t
      <4>1. t \in SUBSET (1 .. n) /\ h[t] = g[t]
        BY <3>2, <2>2 DEF h
      <4>2. t \ {Max(t)} \in SUBSET (1 .. n)
        BY <4>1
      <4>3. t \ {Max(t)} \in SUBSET (1 .. n + 1) /\ n + 1 \notin t \ {Max(t)}
        BY <4>2, <3>2
      <4>4. h[t \ {Max(t)}] = g[t \ {Max(t)}]
        BY <4>3 DEF h
      <4> QED BY <4>1, <4>2, <4>4, <2>1
    <3> QED BY <3>1, <3>2
  <2>7. Fits(h, n + 1)
    BY <2>6
  <2> HIDE DEF h, Fits
  <2> QED BY <2>5, <2>7
<1>3. There(N)
  <2> HIDE DEF There
  <2> DEFINE S == {n \in Nat : There(n)}
  <2>1. 0 \in S /\ \A n \in Nat : n \in S => n + 1 \in S
    BY <1>1, <1>2
  <2>2. Nat \subseteq S
    <3> HIDE DEF S
    <3> QED BY <2>1, Induction
  <2> QED BY <2>2
<1>4. PICK g \in [SUBSET (1 .. N) -> V] : Fits(g, N)
  BY <1>3, N <= N
<1> QED BY <1>4 DEF IsFold

\* Its values at 1 .. k are those after the first k elements.
LEMMA FirstElements ==
  ASSUME NEW N \in Nat, NEW k \in 1 .. N
  PROVE  /\ k - 1 \in 0 .. N /\ 1 .. k \in SUBSET (1 .. N) /\ 1 .. k # {}
         /\ Max(1 .. k) = k /\ (1 .. k) \ {k} = 1 .. (k - 1)
<1>1. k - 1 \in Nat /\ (k - 1) + 1 = k /\ k \in 1 .. k
  OBVIOUS
<1>2. Max(1 .. (k - 1) + 1) = (k - 1) + 1
  BY ONLY <1>1, MaxOfUpTo, 1 .. (k - 1) + 1 \in SUBSET (1 .. (k - 1) + 1), (k - 1) + 1 \in 1 .. (k - 1) + 1
<1>3. Max(1 .. k) = k
  BY <1>1, <1>2
<1>4. (1 .. k) \ {k} = 1 .. (k - 1)
  BY <1>1
<1> QED BY <1>1, <1>3, <1>4

\* What the fold over 1 .. N, the value of f there, passes through.
LEMMA FoldTrace ==
  ASSUME NEW V, NEW b \in V, NEW X, NEW N \in Nat, NEW s \in [1 .. N -> X],
         NEW G \in [V \X X -> V], NEW f, Unfolds(f, V, G, b, s, N), NEW r, r = f[1 .. N]
  PROVE  \E h \in [0 .. N -> V] : IsTrace(h, G, b, s, N, r)
<1> DEFINE S == {k \in Nat : k <= N => f[1 .. k] \in V}
           h == [k \in 0 .. N |-> f[1 .. k]]
<1>1. 1 .. 0 = {}
  OBVIOUS
<1>2. ASSUME NEW k \in 1 .. N, f[1 .. (k - 1)] \in V
      PROVE  f[1 .. k] = G[<<f[1 .. (k - 1)], s[k]>>] /\ f[1 .. k] \in V
  <2>1. /\ 1 .. k \in SUBSET (1 .. N) /\ 1 .. k # {}
        /\ Max(1 .. k) = k /\ (1 .. k) \ {k} = 1 .. (k - 1)
    BY FirstElements
  <2> QED BY <1>2, <2>1 DEF Unfolds
<1>3. 0 \in S /\ \A k \in Nat : k \in S => k + 1 \in S
  <2>1. 0 \in S
    BY <1>1 DEF Unfolds
  <2>2. ASSUME NEW k \in Nat, k \in S PROVE k + 1 \in S
    <3> SUFFICES ASSUME k + 1 <= N PROVE f[1 .. k + 1] \in V
      OBVIOUS
    <3>1. k + 1 \in 1 .. N /\ (k + 1) - 1 = k /\ f[1 .. k] \in V
      BY <2>2
    <3> QED BY <3>1, <1>2
  <2> QED BY <2>1, <2>2
<1>4. Nat \subseteq S
  <2> HIDE DEF S
  <2> QED BY <1>3, Induction
<1>5. \A k \in 0 .. N : f[1 .. k] \in V
  BY <1>4
<1>6. \A k \in 0 .. N : h[k] = f[1 .. k]
  OBVIOUS
<1>7. h \in [0 .. N -> V]
  BY <1>5
<1> HIDE DEF h
<1>8. h[0] = b /\ h[N] = f[1 .. N]
  BY <1>6, <1>1 DEF Unfolds
<1>9. ASSUME NEW k \in 1 .. N PROVE h[k] = G[<<h[k - 1], s[k]>>]
  <2>1. k - 1 \in 0 .. N /\ k \in 0 .. N
    OBVIOUS
  <2> QED BY <2>1, <1>2, <1>5, <1>6
<1> QED BY <1>7, <1>8, <1>9 DEF IsTrace

-----------------------------------------------------------------------------
\* The sum of a sequence, from b.
SumOf(b, s) == FoldLeft(+, b, s)

\* It goes through the sums of the first elements.
LEMMA SumTrace ==
  ASSUME NEW b \in Nat, NEW s \in Seq(Nat)
  PROVE  \E h \in [0 .. Len(s) -> Nat] :
            /\ h[0] = b /\ h[Len(s)] = SumOf(b, s)
            /\ \A k \in 1 .. Len(s) : h[k] = h[k - 1] + s[k]
<1> PICK V : V = Nat
  OBVIOUS
<1> PICK N \in Nat : N = Len(s)
  BY LenProperties
<1> DEFINE G == [p \in V \X V |-> p[1] + p[2]]
           Fits(g) == g = [t \in SUBSET (1 .. N) |->
                              IF t = {} THEN b ELSE g[t \ {Max(t)}] + s[Max(t)]]
<1>1. s \in [1 .. N -> V] /\ DOMAIN s = 1 .. N /\ b \in V
  BY LenProperties
<1>2. G \in [V \X V -> V] /\ \A v, x \in V : G[<<v, x>>] = v + x
  OBVIOUS
<1> HIDE DEF G
<1>3. ASSUME NEW t \in SUBSET (1 .. N), t # {} 
      PROVE  s[Max(t)] \in V /\ t \ {Max(t)} \in SUBSET (1 .. N)
  <2>1. Max(t) \in t
    BY <1>3, MaxIsIn
  <2> QED BY <2>1, <1>1
<1>4. \E g : Fits(g)
  <2>1. PICK g \in [SUBSET (1 .. N) -> V] : IsFold(g, G, b, s, N)
    <3> HIDE DEF Fits
    <3> QED BY ONLY N \in Nat, <1>1, <1>2, FoldExists, Zenon
  <2>2. \A t \in SUBSET (1 .. N) : t # {} => 
            G[<<g[t \ {Max(t)}], s[Max(t)]>>] = g[t \ {Max(t)}] + s[Max(t)]
    BY <1>2, <1>3
  <2>3. Fits(g)
    BY <2>1, <2>2 DEF IsFold
  <2> HIDE DEF Fits
  <2> QED BY <2>3
<1>5. PICK f : SumOf(b, s) = f[1 .. N] /\ Fits(f)
  <2>1. PICK f : /\ SumOf(b, s) = f[DOMAIN s] 
                 /\ f = CHOOSE g1 : g1 = [t \in SUBSET (DOMAIN s) |-> IF t = {} THEN b ELSE g1[t \ {Max(t)}] + s[Max(t)]]
    BY Zenon DEF SumOf, FoldLeft, MapThenFoldSet
  <2>2. f = CHOOSE g1 : Fits(g1)
    BY <2>1, <1>1
  <2> HIDE DEF Fits
  <2> QED BY <2>1, <2>2, <1>4, <1>1
<1>6. f[{}] = b
  BY <1>5
<1>7. ASSUME NEW t \in SUBSET (1 .. N), t # {}, f[t \ {Max(t)}] \in V
      PROVE  f[t] = G[<<f[t \ {Max(t)}], s[Max(t)]>>]
  BY <1>7, <1>5, <1>3, <1>2
<1>71. Unfolds(f, V, G, b, s, N)
  BY <1>6, <1>7 DEF Unfolds
<1> PICK r : r = f[1 .. N]
  OBVIOUS
<1>8. PICK h \in [0 .. N -> V] : IsTrace(h, G, b, s, N, r)
  <2> HIDE DEF Fits
  <2> QED BY ONLY N \in Nat, <1>1, <1>2, <1>71, r = f[1 .. N], FoldTrace
<1> HIDE DEF Fits
<1>9. \A k \in 1 .. N : k - 1 \in 0 .. N
  OBVIOUS
<1>10. \A k \in 1 .. N : h[k] = h[k - 1] + s[k]
  BY <1>9, <1>8, <1>1, <1>2 DEF IsTrace
<1> QED BY <1>5, <1>8, <1>10 DEF IsTrace

\* Adding a to the base and x to the sequence adds a + x to the sum.
LEMMA SumShift ==
  ASSUME NEW b \in Nat, NEW a \in Nat, NEW s \in Seq(Nat), NEW x \in Nat
  PROVE  /\ SumOf(b + a, Append(s, x)) = SumOf(b, s) + a + x
         /\ SumOf(b, s) \in Nat
<1> PICK N \in Nat : N = Len(s)
  BY LenProperties
<1> DEFINE t == Append(s, x)
<1>1. /\ t \in Seq(Nat) /\ Len(t) = N + 1 /\ t[N + 1] = x
      /\ \A k \in 1 .. N : t[k] = s[k]
  BY AppendProperties
<1>2. PICK h \in [0 .. N -> Nat] :
            /\ h[0] = b /\ h[N] = SumOf(b, s)
            /\ \A k \in 1 .. N : h[k] = h[k - 1] + s[k]
  BY SumTrace
<1> HIDE DEF t
<1>3. PICK g \in [0 .. N + 1 -> Nat] :
            /\ g[0] = b + a /\ g[N + 1] = SumOf(b + a, t)
            /\ \A k \in 1 .. N + 1 : g[k] = g[k - 1] + t[k]
  <2> PICK c \in Nat : c = b + a
    OBVIOUS
  <2>1. \E g \in [0 .. Len(t) -> Nat] :
            /\ g[0] = c /\ g[Len(t)] = SumOf(c, t)
            /\ \A k \in 1 .. Len(t) : g[k] = g[k - 1] + t[k]
    BY ONLY t \in Seq(Nat), c \in Nat, SumTrace
  <2> QED BY <2>1, <1>1
<1> DEFINE S == {k \in Nat : k <= N => g[k] = h[k] + a}
<1>4. 0 \in S
  BY <1>2, <1>3
<1>5. ASSUME NEW k \in Nat, k \in S PROVE k + 1 \in S
  <2> SUFFICES ASSUME k + 1 <= N PROVE g[k + 1] = h[k + 1] + a
    OBVIOUS
  <2>1. g[k + 1] = g[k] + s[k + 1] /\ h[k + 1] = h[k] + s[k + 1]
    <3>1. k + 1 \in 1 .. N /\ k + 1 \in 1 .. N + 1 /\ (k + 1) - 1 = k
      OBVIOUS
    <3> QED BY <3>1, <1>1, <1>2, <1>3
  <2>2. g[k] = h[k] + a
    BY <1>5
  <2>3. g[k] \in Nat /\ h[k] \in Nat /\ s[k + 1] \in Nat
    <3>1. k \in 0 .. N /\ k \in 0 .. N + 1 /\ k + 1 \in 1 .. N
      OBVIOUS
    <3>2. s[k + 1] \in Nat
      BY <3>1, ElementOfSeq
    <3> QED BY <3>1, <3>2
  <2> PICK u \in Nat, v \in Nat, y \in Nat : u = g[k] /\ v = h[k] /\ y = s[k + 1]
    BY <2>3
  <2>4. g[k + 1] = u + y /\ h[k + 1] = v + y /\ u = v + a
    BY ONLY <2>1, <2>2, u = g[k], v = h[k], y = s[k + 1]
  <2> QED BY ONLY <2>4, a \in Nat, u \in Nat, v \in Nat, y \in Nat
<1>6. g[N] = h[N] + a
  <2> HIDE DEF S
  <2>1. N \in S
    BY <1>4, <1>5, Induction
  <2> QED BY <2>1 DEF S
<1>7. g[N + 1] = g[N] + x
  <2>1. N + 1 \in 1 .. N + 1 /\ (N + 1) - 1 = N
    OBVIOUS
  <2> QED BY <2>1, <1>1, <1>3
<1> QED BY <1>2, <1>3, <1>6, <1>7 DEF t

LEMMA BeginIsSum ==
  ASSUME NEW bs, NEW n
  PROVE  BeginIn(bs, n) = SumOf((n - 1) * hsize, SubSeq(bs, 1, n - 1))
  BY Zenon DEF BeginIn, SumOf

\* Where the first event begins, and where the next one after event n.
LEMMA BeginNext ==
  ASSUME NEW bs \in Seq(Nat)
  PROVE  /\ BeginIn(bs, 1) = 0
         /\ \A n \in 1 .. Len(bs) + 1 : BeginIn(bs, n) \in Nat
         /\ \A n \in 1 .. Len(bs) : BeginIn(bs, n + 1) = BeginIn(bs, n) + hsize + bs[n]
<1> USE ReadoutAssumption
<1>0. Len(bs) \in Nat
  BY LenProperties
<1>1. BeginIn(bs, 1) = 0
  <2>1. SubSeq(bs, 1, 0) = << >> /\ 0 * hsize = 0 /\ << >> \in Seq(Nat) /\ Len(<< >>) = 0
    BY SubSeqEmpty, EmptySeq
  <2>2. SumOf(0, << >>) = 0
    <3>1. PICK h \in [0 .. Len(<< >>) -> Nat] :
              /\ h[0] = 0 /\ h[Len(<< >>)] = SumOf(0, << >>)
              /\ \A k \in 1 .. Len(<< >>) : h[k] = h[k - 1] + << >>[k]
      BY ONLY << >> \in Seq(Nat), 0 \in Nat, SumTrace
    <3> QED BY <3>1, <2>1
  <2>3. (1 - 1) * hsize = 0 /\ SubSeq(bs, 1, 1 - 1) = << >>
    <3>1. 1 - 1 = 0
      OBVIOUS
    <3> QED BY <3>1, <2>1
  <2> QED BY <2>2, <2>3, BeginIsSum
<1>2. ASSUME NEW n \in 1 .. Len(bs) + 1
      PROVE  /\ (n - 1) * hsize \in Nat /\ SubSeq(bs, 1, n - 1) \in Seq(Nat)
             /\ BeginIn(bs, n) \in Nat
  <2>1. n - 1 \in Nat /\ hsize \in Nat
    BY <1>0
  <2>2. (n - 1) * hsize \in Nat
    BY <2>1
  <2>3. SubSeq(bs, 1, n - 1) \in Seq(Nat)
    BY <2>1, <1>0, SubSeqProperties
  <2> QED BY <2>2, <2>3, SumShift, BeginIsSum
<1>3. ASSUME NEW n \in 1 .. Len(bs)
      PROVE  BeginIn(bs, n + 1) = BeginIn(bs, n) + hsize + bs[n]
  <2>1. n \in 1 .. Len(bs) + 1 /\ bs[n] \in Nat /\ hsize \in Nat /\ n - 1 \in Nat
    BY <1>0, LenProperties
  <2>2. SubSeq(bs, 1, (n + 1) - 1) = Append(SubSeq(bs, 1, n - 1), bs[n])
    BY <2>1, <1>0, SubSeqRecursiveSecond
  <2>3. ((n + 1) - 1) * hsize = (n - 1) * hsize + hsize
    BY <2>1
  <2>4. SumOf((n - 1) * hsize + hsize, Append(SubSeq(bs, 1, n - 1), bs[n]))
          = BeginIn(bs, n) + hsize + bs[n]
    <3>1. PICK c \in Nat : c = (n - 1) * hsize
      BY <2>1, <1>2
    <3>2. PICK u \in Seq(Nat) : u = SubSeq(bs, 1, n - 1)
      BY <2>1, <1>2
    <3>3. PICK x \in Nat : x = bs[n]
      BY <2>1
    <3>4. SumOf(c + hsize, Append(u, x)) = SumOf(c, u) + hsize + x
      BY ONLY hsize \in Nat, c \in Nat, u \in Seq(Nat), x \in Nat, <2>1, SumShift
    <3> QED BY <3>1, <3>2, <3>3, <3>4, BeginIsSum
  <2> QED BY <2>2, <2>3, <2>4, BeginIsSum
<1> QED BY <1>1, <1>2, <1>3

\* No two events begin at one place, and none behind the end of the stream.
LEMMA BeginGrows ==
  ASSUME NEW bs \in Seq(Nat), NEW n \in 1 .. Len(bs) + 1, NEW m \in 1 .. Len(bs) + 1, n < m
  PROVE  BeginIn(bs, n) < BeginIn(bs, m)
<1> USE ReadoutAssumption
<1>1. Len(bs) \in Nat /\ \A k \in 1 .. Len(bs) : bs[k] \in Nat
  BY LenProperties
<1> DEFINE S == {k \in Nat : n + 1 + k <= Len(bs) + 1 => BeginIn(bs, n) < BeginIn(bs, n + 1 + k)}
<1>2. 0 \in S
  <2> SUFFICES ASSUME n + 1 <= Len(bs) + 1 PROVE BeginIn(bs, n) < BeginIn(bs, n + 1)
    OBVIOUS
  <2>1. n \in 1 .. Len(bs)
    BY <1>1
  <2>2. BeginIn(bs, n + 1) = BeginIn(bs, n) + hsize + bs[n] /\ BeginIn(bs, n) \in Nat
    BY <2>1, BeginNext
  <2>3. bs[n] \in Nat /\ hsize \in Nat \ {0}
    BY <2>1, <1>1
  <2> QED BY <2>2, <2>3
<1>3. ASSUME NEW k \in Nat, k \in S PROVE k + 1 \in S
  <2> SUFFICES ASSUME n + 1 + (k + 1) <= Len(bs) + 1
               PROVE  BeginIn(bs, n) < BeginIn(bs, n + 1 + (k + 1))
    OBVIOUS
  <2> DEFINE l == n + 1 + k
  <2>1. l \in 1 .. Len(bs) /\ l \in 1 .. Len(bs) + 1 /\ n + 1 + (k + 1) = l + 1
    BY <1>1
  <2>2. BeginIn(bs, n) < BeginIn(bs, l)
    BY <1>3, <1>1
  <2> HIDE DEF l
  <2>3. BeginIn(bs, l + 1) = BeginIn(bs, l) + hsize + bs[l] /\ bs[l] \in Nat
        /\ BeginIn(bs, l) \in Nat /\ BeginIn(bs, n) \in Nat
    BY <2>1, <1>1, BeginNext
  <2>4. hsize \in Nat \ {0}
    OBVIOUS
  <2>5. BeginIn(bs, n) < BeginIn(bs, l + 1)
    BY ONLY <2>2, <2>3, <2>4
  <2> QED BY <2>1, <2>5
<1>4. Nat \subseteq S
  <2> HIDE DEF S
  <2> QED BY <1>2, <1>3, Induction
<1>5. m - (n + 1) \in Nat /\ n + 1 + (m - (n + 1)) = m
  BY <1>1
<1>6. m - (n + 1) \in S /\ n + 1 + (m - (n + 1)) <= Len(bs) + 1
  <2> HIDE DEF S
  <2> QED BY <1>4, <1>5, <1>1
<1> QED BY <1>5, <1>6

-----------------------------------------------------------------------------
(* The reader.  Between two events, while nothing was given up, the reader *)
(* is at the beginning of the event that follows those it sent, and it     *)
(* knows how far into it it is: from start on it took the header, if it is *)
(* behind it, and nread bytes.  Once a header was given up with nothing    *)
(* taken, the rest of this ConditionalRun takes nothing either or is not   *)
(* clean any more.                                                         *)

\* The number, from one on, of the event to be sent next.
NextEvent == Len(sentEvents) + 1

\* The header shows its length and its number.
HeaderOfNext ==
    NextEvent <= Len(bodies) /\ header = [len |-> bodies[NextEvent], trig |-> NextEvent - 1]

StreamType ==
    /\ bodies \in Bodies
    /\ taken \in Nat /\ arrived \in Nat /\ nread \in Nat /\ start \in Nat
    /\ taken <= arrived /\ arrived <= Total
    /\ header \in [len : Nat, trig : Nat]
    /\ receive_error \in BOOLEAN /\ clean \in BOOLEAN
    /\ sentEvents \in Seq([trig : Nat, from : Nat, to : Nat])
    /\ pc \in {"init", "header", "header2", "body", "body2", "dqm", "out", "done"}

\* How far the stream was taken, while clean.
AtNext ==
    /\ NextEvent <= Len(bodies) + 1
    /\ pc # "done" => start = Begin(NextEvent)
    /\ pc \in {"init", "header", "header2"} =>
            taken = start + nread /\ nread < hsize /\ ~receive_error
    /\ pc \in {"body", "body2"} /\ receive_error => taken = start + nread
    /\ pc \in {"body", "body2"} /\ ~receive_error =>
            HeaderOfNext /\ nread <= header.len /\ taken = start + hsize + nread
    /\ pc \in {"dqm", "out"} => HeaderOfNext /\ taken = start + hsize + header.len

StreamInv == StreamType /\ WholeEvents /\ (clean => AtNext)

-----------------------------------------------------------------------------
\* The places where the events of the stream begin.
LEMMA Places ==
  ASSUME bodies \in Bodies
  PROVE  /\ Len(bodies) \in Nat /\ hsize \in Nat \ {0} /\ Total \in Nat
         /\ \A n \in 1 .. Len(bodies) : bodies[n] \in Nat
         /\ Begin(1) = 0 /\ Total = Begin(Len(bodies) + 1)
         /\ \A n \in 1 .. Len(bodies) + 1 : Begin(n) \in Nat
         /\ \A n \in 1 .. Len(bodies) : Begin(n + 1) = Begin(n) + hsize + bodies[n]
         /\ \A n, m \in 1 .. Len(bodies) + 1 : n < m => Begin(n) < Begin(m)
<1>1. bodies \in Seq(Nat) /\ Len(bodies) \in Nat /\ hsize \in Nat \ {0}
      /\ \A n \in 1 .. Len(bodies) : bodies[n] \in Nat
  <2>1. bodies \in Seq(Nat)
    BY ReadoutAssumption
  <2> QED BY <2>1, ReadoutAssumption, LenProperties
<1>2. \A n : Begin(n) = BeginIn(bodies, n)
  BY DEF Begin
<1>3. /\ BeginIn(bodies, 1) = 0
      /\ \A n \in 1 .. Len(bodies) + 1 : BeginIn(bodies, n) \in Nat
      /\ \A n \in 1 .. Len(bodies) : BeginIn(bodies, n + 1) = BeginIn(bodies, n) + hsize + bodies[n]
  BY <1>1, BeginNext
<1>4. \A n, m \in 1 .. Len(bodies) + 1 : n < m => BeginIn(bodies, n) < BeginIn(bodies, m)
  BY <1>1, BeginGrows
<1>5. Len(bodies) + 1 \in 1 .. Len(bodies) + 1
  BY <1>1
<1> QED BY <1>1, <1>2, <1>3, <1>4, <1>5 DEF Total

\* They depend on the bodies only.
LEMMA SameStream ==
  ASSUME bodies' = bodies
  PROVE  /\ Total' = Total
         /\ \A n : Begin(n)' = Begin(n) /\ Whole(n)' = Whole(n)
         /\ sentEvents' = sentEvents => NextEvent' = NextEvent /\ Begin(NextEvent)' = Begin(NextEvent)
         /\ sentEvents' = sentEvents /\ (clean' => clean) => (WholeEvents => WholeEvents')
<1>1. ASSUME NEW n PROVE Begin(n)' = Begin(n)
  BY Zenon DEF Begin
<1>2. ASSUME NEW n PROVE Whole(n)' = Whole(n)
  BY <1>1, Zenon DEF Whole
<1>3. Total' = Total
  <2>1. /\ Total = BeginIn(bodies, Len(bodies) + 1)
        /\ Total' = BeginIn(bodies', Len(bodies') + 1)
    BY DEF Total, Begin
  <2> QED BY <2>1
<1>4. ASSUME sentEvents' = sentEvents
      PROVE  NextEvent' = NextEvent /\ Begin(NextEvent)' = Begin(NextEvent)
  <2>1. NextEvent' = NextEvent
    BY <1>4 DEF NextEvent
  <2>2. /\ Begin(NextEvent) = BeginIn(bodies, NextEvent)
        /\ Begin(NextEvent)' = BeginIn(bodies', NextEvent')
    BY DEF Begin
  <2> QED BY <2>1, <2>2
<1>5. ASSUME sentEvents' = sentEvents, clean' => clean, WholeEvents
      PROVE  WholeEvents'
  BY <1>2, <1>5, Zenon DEF WholeEvents
<1> QED BY <1>1, <1>2, <1>3, <1>4, <1>5

\* The variables of the lemmas below are numbers.
LEMMA SentType ==
  ASSUME StreamType
  PROVE  Len(sentEvents) \in Nat /\ NextEvent \in Nat \ {0} /\ DOMAIN sentEvents = 1 .. Len(sentEvents)
  BY LenProperties DEF StreamType, NextEvent

LEMMA StreamStart == ASSUME ReadoutInit PROVE StreamInv
<1> USE DEF ReadoutInit
<1>1. bodies \in Bodies /\ Len(<< >>) = 0
  OBVIOUS
<1>2. StreamType
  <2>1. sentEvents \in Seq([trig : Nat, from : Nat, to : Nat])
    OBVIOUS
  <2>2. 0 <= Total
    BY <1>1, Places
  <2>3. header \in [len : Nat, trig : Nat] /\ taken \in Nat /\ arrived \in Nat /\ nread \in Nat /\ start \in Nat
    OBVIOUS
  <2>4. pc \in {"init", "header", "header2", "body", "body2", "dqm", "out", "done"}
        /\ receive_error \in BOOLEAN /\ clean \in BOOLEAN
    OBVIOUS
  <2>5. taken <= arrived /\ arrived <= Total
    <3>1. taken = 0 /\ arrived = 0
      OBVIOUS
    <3> QED BY ONLY <3>1, <2>2
  <2> QED BY ONLY <1>1, <2>1, <2>3, <2>4, <2>5 DEF StreamType
<1>3. WholeEvents
  BY DEF WholeEvents
<1>4. AtNext
  BY <1>1, Places DEF AtNext, NextEvent
<1> QED BY <1>2, <1>3, <1>4 DEF StreamInv

\* The header was received, or given up with nothing taken.
LEMMA AfterHeader ==
  ASSUME NEW e \in BOOLEAN, StreamType, pc \in {"header", "header2"}, HeaderRead(e)
  PROVE  /\ header' \in [len : Nat, trig : Nat] /\ nread' = 0 /\ pc' = "body" /\ start' = start
         /\ receive_error' = e
         /\ (\E n \in 1 .. Len(bodies) : Begin(n) = start) /\ ~e =>
               \E n \in 1 .. Len(bodies) :
                  Begin(n) = start /\ header' = [len |-> bodies[n], trig |-> n - 1]
<1>1. nread' = 0 /\ pc' = "body" /\ start' = start /\ receive_error' = e
  BY DEF HeaderRead
<1>2. /\ bodies \in Bodies /\ DOMAIN bodies = 1 .. Len(bodies)
      /\ \A n \in 1 .. Len(bodies) : bodies[n] \in Nat
  <2>1. bodies \in Seq(Nat) /\ bodies \in Bodies
    BY ReadoutAssumption DEF StreamType
  <2> QED BY <2>1, LenProperties
<1> DEFINE events == {n \in DOMAIN bodies : Begin(n) = start}
<1>3. header' \in IF ~e /\ events # {}
                  THEN {[len |-> bodies[n], trig |-> n - 1] : n \in events}
                  ELSE [len : Sizes, trig : Trigs]
  BY DEF HeaderRead
<1>4. \A n \in events : n \in 1 .. Len(bodies) /\ Begin(n) = start
  BY <1>2
<1>5. CASE ~e /\ events # {}
  <2>1. PICK n \in events : header' = [len |-> bodies[n], trig |-> n - 1]
    BY <1>3, <1>5
  <2>2. n \in 1 .. Len(bodies) /\ Begin(n) = start /\ n - 1 \in Nat
    BY <1>4, Places, <1>2
  <2> QED BY <1>1, <1>2, <2>1, <2>2
<1>6. CASE ~(~e /\ events # {})
  <2>1. header' \in [len : Sizes, trig : Trigs]
    BY <1>3, <1>6
  <2>2. Sizes \subseteq Nat /\ Trigs \subseteq Nat
    BY ReadoutAssumption
  <2>3. header' \in [len : Nat, trig : Nat]
    BY <2>1, <2>2
  <2>4. ~((\E n \in 1 .. Len(bodies) : Begin(n) = start) /\ ~e)
    BY <1>6, <1>2
  <2> QED BY <1>1, <2>3, <2>4
<1> QED BY <1>5, <1>6

\* Steps that neither receive nor end a ConditionalRun.
LEMMA QuietSteps ==
  ASSUME StreamInv, DqmSend \/ PostRun \/ StopReadout \/ Arrive \/ Close \/ InitTask
  PROVE  StreamInv'
<1> USE DEF StreamInv
<1>p. Total \in Nat /\ StreamType
  BY Places DEF StreamType
<1>t. bodies' = bodies => Total' = Total
  BY SameStream
<1>w. bodies' = bodies /\ sentEvents' = sentEvents /\ clean' = clean => WholeEvents'
  BY SameStream
<1>b. bodies' = bodies /\ sentEvents' = sentEvents => Begin(NextEvent)' = Begin(NextEvent) /\ NextEvent' = NextEvent
  BY SameStream
<1>1. CASE DqmSend \/ PostRun
  <2>1. /\ UNCHANGED <<bodies, arrived, taken, start, nread, header, receive_error, sentEvents, clean>>
        /\ (pc = "dqm" /\ pc' = "out") \/ pc' = "done"
    BY <1>1 DEF DqmSend, PostRun, streamVars
  <2>2. StreamType'
    BY <2>1, <1>p, <1>t DEF StreamType
  <2>3. clean => AtNext'
    BY <2>1, <1>b DEF AtNext, HeaderOfNext
  <2> QED BY <2>1, <2>2, <2>3, <1>w
<1>2. CASE StopReadout \/ Close
  <2>1. UNCHANGED <<bodies, arrived, taken, start, nread, header, receive_error, sentEvents, clean, pc>>
    BY <1>2 DEF StopReadout, Close, streamVars, readVars
  <2>2. StreamType'
    BY <2>1, <1>p, <1>t DEF StreamType
  <2>3. clean => AtNext'
    BY <2>1, <1>b DEF AtNext, HeaderOfNext
  <2> QED BY <2>1, <2>2, <2>3, <1>w
<1>3. CASE Arrive
  <2>1. /\ UNCHANGED <<bodies, taken, start, nread, header, receive_error, sentEvents, clean, pc>>
        /\ \E k \in 1 .. Total - arrived : arrived' = arrived + k
    BY <1>3 DEF Arrive, readVars
  <2>2. arrived' \in Nat /\ arrived <= arrived' /\ arrived' <= Total
    BY <2>1, <1>p DEF StreamType
  <2>3. StreamType'
    <3>1. taken \in Nat /\ arrived \in Nat /\ taken <= arrived
      BY <1>p DEF StreamType
    <3>2. taken' <= arrived' /\ arrived' <= Total'
      BY <3>1, <2>1, <2>2, <1>t
    <3> QED BY <2>1, <2>2, <3>2, <1>p DEF StreamType
  <2>4. clean => AtNext'
    BY <2>1, <1>b DEF AtNext, HeaderOfNext
  <2> QED BY <2>1, <2>3, <2>4, <1>w
<1>4. CASE InitTask
  <2>1. /\ UNCHANGED <<bodies, arrived, taken, start, nread, header, receive_error, sentEvents, clean>>
        /\ pc = "init" /\ pc' \in {"init", "header"}
    BY <1>4 DEF InitTask, streamVars
  <2>2. StreamType'
    BY <2>1, <1>p, <1>t DEF StreamType
  <2>3. clean => AtNext'
    BY <2>1, <1>b DEF AtNext, HeaderOfNext
  <2> QED BY <2>1, <2>2, <2>3, <1>w
<1> QED BY <1>1, <1>2, <1>3, <1>4

\* A part, or a piece of it, is received: what the place in the stream is then.
LEMMA RecvStep == ASSUME StreamInv, Recv PROVE StreamInv'
<1> USE DEF StreamInv
<1>p. /\ StreamType /\ Total \in Nat /\ Len(bodies) \in Nat /\ hsize \in Nat \ {0}
      /\ \A n \in 1 .. Len(bodies) : bodies[n] \in Nat
      /\ Total = Begin(Len(bodies) + 1)
      /\ \A n \in 1 .. Len(bodies) + 1 : Begin(n) \in Nat
      /\ \A n \in 1 .. Len(bodies) : Begin(n + 1) = Begin(n) + hsize + bodies[n]
      /\ \A n, m \in 1 .. Len(bodies) + 1 : n < m => Begin(n) < Begin(m)
  BY Places DEF StreamType
<1>u. /\ UNCHANGED <<bodies, sentEvents, arrived>>
      /\ Total' = Total /\ NextEvent' = NextEvent /\ Begin(NextEvent)' = Begin(NextEvent)
      /\ (clean' => clean) => WholeEvents'
  <2>1. UNCHANGED <<bodies, sentEvents, arrived>>
    BY DEF Recv, streamVars
  <2> QED BY <2>1, SameStream
<1>n. NextEvent \in Nat \ {0} /\ Len(sentEvents) \in Nat
  BY <1>p, SentType
<1>k. PICK k : /\ k = IF arrived - taken < Missing THEN arrived - taken ELSE Missing
               /\ k > 0 \/ Missing = 0
               /\ taken' = taken + k
               /\ IF k < Missing
                  THEN nread' = nread + k
                       /\ UNCHANGED <<pc, start, header, receive_error, clean>>
                  ELSE IF pc \in {"header", "header2"}
                       THEN HeaderRead(FALSE) /\ clean' = clean
                       ELSE BodyRead(FALSE) /\ header' = header
  BY Zenon DEF Recv
<1>r. pc \in {"header", "header2", "body", "body2"}
  BY DEF Recv, Receiving
<1>a. /\ taken \in Nat /\ arrived \in Nat /\ nread \in Nat /\ start \in Nat
      /\ taken <= arrived /\ arrived <= Total /\ header.len \in Nat /\ Missing \in Int
  <2>1. header.len \in Nat
    BY <1>p DEF StreamType
  <2>2. Wanted \in Nat
    BY <2>1, <1>p DEF Wanted
  <2> QED BY <2>1, <2>2, <1>p DEF StreamType, Missing
<1>c. /\ k \in Nat /\ k <= Missing /\ taken' \in Nat /\ taken' <= arrived /\ taken <= taken'
  BY <1>k, <1>a
<1>1. CASE k < Missing
  <2>1. nread' = nread + k /\ UNCHANGED <<pc, start, header, receive_error, clean>>
    BY <1>1, <1>k
  <2>2. nread' \in Nat
    BY <2>1, <1>a, <1>c
  <2>3. StreamType'
    BY <1>p, <1>u, <1>a, <1>c, <2>1, <2>2 DEF StreamType
  <2>4. ASSUME clean PROVE AtNext'
    <3>1. CASE pc \in {"header", "header2"}
      <4>1. Missing = hsize - nread
        BY <3>1 DEF Missing, Wanted
      <4>2. taken = start + nread /\ nread < hsize
        BY <2>4, <3>1 DEF AtNext
      <4>3. taken' = start + nread' /\ nread' < hsize
        BY <4>1, <4>2, <2>1, <1>1, <1>a, <1>c, <1>k, <1>p
      <4> QED BY <3>1, <4>3, <2>1, <2>4, <1>u DEF AtNext, HeaderOfNext
    <3>2. CASE pc \in {"body", "body2"}
      <4>1. Missing = header.len - nread
        BY <3>2 DEF Missing, Wanted
      <4>2. receive_error => taken' = start + nread'
        BY <3>2, <2>4, <2>1, <1>k, <1>a, <1>c DEF AtNext
      <4>3. ~receive_error => HeaderOfNext /\ nread' <= header.len /\ taken' = start + hsize + nread'
        <5>1. ~receive_error => HeaderOfNext /\ taken = start + hsize + nread
          BY <3>2, <2>4 DEF AtNext
        <5>2. nread' <= header.len /\ taken' = taken + k /\ nread' = nread + k
          BY <2>1, <1>k, <1>1, <1>a, <1>c, <4>1
        <5>3. ~receive_error => taken' = start + hsize + nread'
          BY <5>1, <5>2, <1>a, <1>c, <1>p
        <5> QED BY <5>1, <5>2, <5>3
      <4> QED BY <3>2, <4>2, <4>3, <2>1, <2>4, <1>u DEF AtNext, HeaderOfNext
    <3> QED BY <1>r, <3>1, <3>2
  <2> QED BY <2>1, <2>3, <2>4, <1>u
<1>2. CASE ~(k < Missing) /\ pc \in {"header", "header2"}
  <2>1. /\ HeaderRead(FALSE) /\ clean' = clean /\ k = Missing /\ Missing = hsize - nread
    BY <1>2, <1>k, <1>c, <1>a DEF Missing, Wanted
  <2>2. /\ header' \in [len : Nat, trig : Nat] /\ nread' = 0 /\ pc' = "body" /\ start' = start
        /\ receive_error' = FALSE
        /\ (\E n \in 1 .. Len(bodies) : Begin(n) = start) =>
               \E n \in 1 .. Len(bodies) :
                  Begin(n) = start /\ header' = [len |-> bodies[n], trig |-> n - 1]
    BY <1>p, <1>2, <2>1, AfterHeader
  <2>3. StreamType'
    BY <1>p, <1>u, <1>a, <1>c, <2>1, <2>2 DEF StreamType
  <2>4. ASSUME clean PROVE AtNext'
    <3>1. /\ NextEvent <= Len(bodies) + 1 /\ start = Begin(NextEvent)
          /\ taken = start + nread /\ nread < hsize
      BY <2>4, <1>2 DEF AtNext
    <3>2. taken' = start + hsize /\ start + hsize <= Total
      <4>1. taken' = taken + k /\ k = hsize - nread /\ taken' <= Total
        BY <2>1, <1>k, <1>a, <1>c, <1>p
      <4>2. hsize \in Nat /\ k \in Nat
        BY <1>p, <1>c
      <4> QED BY ONLY <4>1, <4>2, <3>1, <1>a
    <3>3. NextEvent \in 1 .. Len(bodies)
      <4>1. ASSUME NextEvent = Len(bodies) + 1 PROVE FALSE
        <5>1. start = Total
          BY <4>1, <3>1, <1>p
        <5> QED BY ONLY <5>1, <3>2, <1>p, <1>a
      <4> QED BY ONLY <4>1, <3>1, <1>n, <1>p
    <3>4. PICK n \in 1 .. Len(bodies) :
             Begin(n) = start /\ header' = [len |-> bodies[n], trig |-> n - 1]
      BY <3>1, <3>3, <2>2
    <3>5. n = NextEvent
      <4>1. n \in 1 .. Len(bodies) + 1 /\ NextEvent \in 1 .. Len(bodies) + 1
        BY <3>3, <1>p
      <4>2. ~(n < NextEvent) /\ ~(NextEvent < n)
        BY <4>1, <3>1, <3>4, <1>p
      <4>3. n \in Nat /\ NextEvent \in Nat
        BY <1>n
      <4> QED BY ONLY <4>2, <4>3
    <3>6. bodies[n] \in Nat /\ header'.len = bodies[n]
      BY <3>4, <1>p
    <3>7. HeaderOfNext' /\ nread' <= header'.len /\ taken' = start' + hsize + nread'
      BY <3>2, <3>3, <3>4, <3>5, <3>6, <2>2, <1>u, <1>p, <1>a DEF HeaderOfNext
    <3> QED BY <3>1, <3>7, <2>2, <1>u DEF AtNext
  <2> QED BY <2>1, <2>3, <2>4, <1>u
<1>3. CASE ~(k < Missing) /\ pc \in {"body", "body2"}
  <2>1. /\ BodyRead(FALSE) /\ header' = header /\ k = Missing /\ Missing = header.len - nread
    BY <1>3, <1>k, <1>c, <1>a DEF Missing, Wanted
  <2>2. CASE receive_error /\ ~sendsErrors
    <3>1. /\ clean' = (clean /\ taken' = start) /\ start' = taken' /\ nread' = 0
          /\ receive_error' = FALSE /\ pc' = "header"
      BY <2>1, <2>2 DEF BodyRead, Return
    <3>2. StreamType'
      BY <1>p, <1>u, <1>a, <1>c, <2>1, <3>1 DEF StreamType
    <3>3. ASSUME clean' PROVE AtNext'
      <4>1. NextEvent <= Len(bodies) + 1 /\ start = Begin(NextEvent) /\ taken' = start
        BY <3>3, <3>1, <1>3 DEF AtNext
      <4>2. start' = Begin(NextEvent)' /\ taken' = start' + nread' /\ nread' < hsize'
        BY <4>1, <3>1, <1>u, <1>p, <1>a
      <4> QED BY <4>1, <4>2, <3>1, <1>u DEF AtNext
    <3> QED BY <3>1, <3>2, <3>3, <1>u
  <2>3. CASE ~(receive_error /\ ~sendsErrors)
    <3>1. /\ pc' = "dqm" /\ clean' = (clean /\ ~receive_error)
          /\ receive_error' = receive_error /\ start' = start /\ nread' = nread
      BY <2>1, <2>3, <1>p DEF BodyRead, StreamType
    <3>2. StreamType'
      BY <1>p, <1>u, <1>a, <1>c, <2>1, <3>1 DEF StreamType
    <3>3. ASSUME clean' PROVE AtNext'
      <4>1. HeaderOfNext /\ taken = start + hsize + nread
        BY <3>3, <3>1, <1>3 DEF AtNext
      <4>2. taken' = start' + hsize + header'.len
        <5>1. start' = start /\ header' = header /\ taken' = taken + k /\ k = header.len - nread
          BY <3>1, <2>1, <1>k
        <5>2. hsize \in Nat /\ k \in Nat
          BY <1>p, <1>c
        <5>3. taken' = start + hsize + header.len
          BY ONLY <5>1, <5>2, <4>1, <1>a
        <5> QED BY ONLY <5>1, <5>3
      <4>3. NextEvent <= Len(bodies) + 1 /\ start = Begin(NextEvent)
        BY <3>3, <3>1, <1>3 DEF AtNext
      <4>4. NextEvent' = NextEvent /\ Begin(NextEvent)' = Begin(NextEvent) /\ Len(bodies)' = Len(bodies)
        BY <3>1, <1>u DEF NextEvent
      <4>5. pc' = "dqm" /\ HeaderOfNext' /\ start' = Begin(NextEvent)'
        BY <4>1, <4>3, <4>4, <3>1, <2>1, <1>u DEF HeaderOfNext
      <4> QED BY <4>2, <4>3, <4>4, <4>5 DEF AtNext
    <3> QED BY <3>1, <3>2, <3>3, <1>u
  <2> QED BY <2>2, <2>3
<1> QED BY <1>1, <1>2, <1>3, <1>r

\* A receive is given up: what was taken stays taken.
LEMMA GivenUp ==
  ASSUME StreamInv, Timeout \/ Failure
  PROVE  StreamInv'
<1> USE DEF StreamInv
<1>p. /\ StreamType /\ Total \in Nat /\ Len(bodies) \in Nat /\ hsize \in Nat \ {0}
  BY Places DEF StreamType
<1>u. /\ UNCHANGED <<bodies, sentEvents, arrived, taken>>
      /\ Total' = Total /\ NextEvent' = NextEvent /\ Begin(NextEvent)' = Begin(NextEvent)
      /\ (clean' => clean) => WholeEvents'
  <2>1. UNCHANGED <<bodies, sentEvents, arrived, taken>>
    BY DEF Timeout, Failure, streamVars
  <2> QED BY <2>1, SameStream
<1>m. Missing > 0
  BY DEF Timeout, Failure
<1>a. /\ taken \in Nat /\ nread \in Nat /\ start \in Nat /\ header.len \in Nat
  BY <1>p DEF StreamType
<1>1. CASE pc' = Again(pc) /\ pc \in {"header", "body"}
           /\ UNCHANGED <<start, nread, header, receive_error, clean>>
  <2>1. (pc = "header" /\ pc' = "header2") \/ (pc = "body" /\ pc' = "body2")
    BY <1>1 DEF Again
  <2>2. StreamType'
    BY <1>1, <2>1, <1>p, <1>u DEF StreamType
  <2>3. ASSUME clean PROVE AtNext'
    BY <2>3, <2>1, <1>1, <1>u DEF AtNext, HeaderOfNext
  <2> QED BY <1>1, <2>2, <2>3, <1>u
<1>2. CASE pc = "header2" /\ HeaderRead(TRUE) /\ clean' = (clean /\ nread = 0)
  <2>1. /\ header' \in [len : Nat, trig : Nat] /\ nread' = 0 /\ pc' = "body" /\ start' = start
        /\ receive_error' = TRUE
    BY <1>2, <1>p, AfterHeader
  <2>2. StreamType'
    BY <1>2, <2>1, <1>p, <1>u DEF StreamType
  <2>3. ASSUME clean' PROVE AtNext'
    BY <2>3, <1>2, <2>1, <1>u DEF AtNext
  <2> QED BY <1>2, <2>2, <2>3, <1>u
<1>3. CASE pc = "header" /\ Return(nread = 0) /\ header' = header
  <2>1. /\ clean' = (clean /\ nread = 0) /\ start' = taken' /\ nread' = 0
        /\ receive_error' = FALSE /\ pc' = "header"
    BY <1>3 DEF Return
  <2>2. StreamType'
    BY <1>3, <2>1, <1>p, <1>u DEF StreamType
  <2>3. ASSUME clean' PROVE AtNext'
    <3>1. NextEvent <= Len(bodies) + 1 /\ start = Begin(NextEvent) /\ taken = start + nread /\ nread = 0
      BY <2>3, <2>1, <1>3 DEF AtNext
    <3>2. start' = Begin(NextEvent)' /\ taken' = start' + nread' /\ nread' < hsize'
      BY <3>1, <2>1, <1>u, <1>p, <1>a
    <3> QED BY <3>1, <3>2, <2>1, <1>u DEF AtNext
  <2> QED BY <2>1, <2>2, <2>3, <1>u
<1>4. CASE pc \in {"body", "body2"} /\ BodyRead(TRUE) /\ header' = header
  <2>1. CASE ~sendsErrors
    <3>1. /\ clean' = (clean /\ taken' = start) /\ start' = taken' /\ nread' = 0
          /\ receive_error' = FALSE /\ pc' = "header"
      BY <1>4, <2>1 DEF BodyRead, Return
    <3>2. StreamType'
      BY <1>4, <3>1, <1>p, <1>u DEF StreamType
    <3>3. ASSUME clean' PROVE AtNext'
      <4>1. NextEvent <= Len(bodies) + 1 /\ start = Begin(NextEvent) /\ taken' = start
        BY <3>3, <3>1, <1>4 DEF AtNext
      <4>2. start' = Begin(NextEvent)' /\ start' \in Nat /\ nread' = 0
        BY <4>1, <3>1, <1>u, <1>a
      <4>3. taken' = start' + nread' /\ nread' < hsize'
        BY <4>2, <4>1, <3>1, <1>p
      <4> QED BY <4>1, <4>2, <4>3, <3>1, <1>u DEF AtNext
    <3> QED BY <3>1, <3>2, <3>3, <1>u
  <2>2. CASE sendsErrors
    <3>1. pc' = "dqm" /\ clean' = FALSE /\ receive_error' = TRUE /\ start' = start /\ nread' = nread
      BY <1>4, <2>2 DEF BodyRead
    <3>2. StreamType'
      BY <1>4, <3>1, <1>p, <1>u DEF StreamType
    <3> QED BY <3>1, <3>2, <1>u
  <2> QED BY <2>1, <2>2
<1>5. CASE /\ pc = "body" /\ clean' = FALSE /\ pc' \in {"header", "dqm"}
           /\ start' \in {taken, start} /\ nread' = 0 /\ receive_error' \in BOOLEAN
           /\ header' = header
  <2>1. StreamType'
    BY <1>5, <1>p, <1>u, <1>a DEF StreamType
  <2> QED BY <1>5, <2>1, <1>u
<1>6. CASE Timeout
  BY <1>6, <1>1, <1>2, <1>4 DEF Timeout, Receiving
<1>7. CASE Failure
  <2>1. pc = "body" => /\ clean' = FALSE /\ pc' \in {"header", "dqm"}
                       /\ start' \in {taken, start} /\ nread' = 0 /\ receive_error' \in BOOLEAN
                       /\ header' = header
    BY <1>7 DEF Failure
  <2>2. pc \in {"header", "header2", "body", "body2"}
    BY <1>7 DEF Failure, Receiving
  <2>3. CASE pc = "header"
    BY <2>3, <1>7, <1>3 DEF Failure
  <2>4. CASE pc = "header2"
    BY <2>4, <1>7, <1>2 DEF Failure
  <2>5. CASE pc = "body2"
    BY <2>5, <1>7, <1>4 DEF Failure
  <2> QED BY <2>1, <2>2, <2>3, <2>4, <2>5, <1>5
<1> QED BY <1>6, <1>7

\* The event goes out: while clean it is the next one, whole.
LEMMA OutputStep == ASSUME StreamInv, OutputSend PROVE StreamInv'
<1> USE DEF StreamInv
<1>p. /\ StreamType /\ Len(bodies) \in Nat /\ hsize \in Nat \ {0}
      /\ \A n \in 1 .. Len(bodies) : bodies[n] \in Nat
      /\ \A n \in 1 .. Len(bodies) + 1 : Begin(n) \in Nat
      /\ \A n \in 1 .. Len(bodies) : Begin(n + 1) = Begin(n) + hsize + bodies[n]
  BY Places DEF StreamType
<1>u. /\ UNCHANGED <<bodies, arrived, taken, header>>
      /\ Total' = Total /\ \A n : Begin(n)' = Begin(n) /\ Whole(n)' = Whole(n)
  <2>1. UNCHANGED <<bodies, arrived, taken, header>>
    BY DEF OutputSend, streamVars
  <2> QED BY <2>1, SameStream
<1>r. /\ pc = "out" /\ clean' = clean /\ start' = taken /\ nread' = 0
      /\ receive_error' = FALSE /\ pc' = "header"
  BY <1>p DEF OutputSend, Return, StreamType
<1>e. [trig |-> header.trig, from |-> start, to |-> taken] \in [trig : Nat, from : Nat, to : Nat]
  BY <1>p DEF StreamType
<1>s. sentEvents' = IF clean THEN Append(sentEvents, [trig |-> header.trig, from |-> start, to |-> taken]) ELSE sentEvents
  BY Zenon DEF OutputSend
<1>1. StreamType'
  <2>1. sentEvents' \in Seq([trig : Nat, from : Nat, to : Nat])
    BY <1>e, <1>s, <1>p, AppendProperties DEF StreamType
  <2> QED BY <2>1, <1>p, <1>u, <1>r DEF StreamType
<1>2. CASE ~clean
  BY <1>2, <1>1, <1>r DEF WholeEvents
<1>3. CASE clean
  <2> DEFINE N == Len(sentEvents)
             e == [trig |-> header.trig, from |-> start, to |-> taken]
  <2>1. /\ N \in Nat /\ Len(sentEvents') = N + 1 /\ DOMAIN sentEvents = 1 .. N /\ DOMAIN sentEvents' = 1 .. N + 1
        /\ sentEvents'[N + 1] = e /\ \A n \in 1 .. N : sentEvents'[n] = sentEvents[n]
    <3>1. sentEvents \in Seq([trig : Nat, from : Nat, to : Nat]) /\ sentEvents' = Append(sentEvents, e)
      BY <1>3, <1>s, <1>p DEF StreamType
    <3> QED BY <3>1, <1>e, AppendProperties, LenProperties
  <2>2. /\ HeaderOfNext /\ taken = start + hsize + header.len /\ start = Begin(N + 1)
    BY <1>3, <1>r DEF AtNext, NextEvent
  <2>3. /\ N + 1 \in 1 .. Len(bodies) /\ header.len = bodies[N + 1] /\ header.trig = (N + 1) - 1
    BY <2>2, <2>1, <1>p DEF HeaderOfNext, NextEvent
  <2>4. taken = Begin((N + 1) + 1)
    BY <2>2, <2>3, <1>p
  <2>5. e = Whole(N + 1)
    BY <2>2, <2>3, <2>4, Zenon DEF Whole
  <2>6. WholeEvents'
    <3>1. \A n \in 1 .. N : sentEvents[n] = Whole(n)
      BY <1>3, <2>1, Zenon DEF WholeEvents
    <3>2. ASSUME NEW n \in 1 .. N + 1 PROVE sentEvents'[n] = Whole(n)
      <4>1. CASE n = N + 1
        BY ONLY <4>1, <2>1, <2>5
      <4>2. CASE n # N + 1
        <5>1. n \in 1 .. N
          BY <4>2, <2>1
        <5> QED BY <5>1, <2>1, <3>1, Zenon
      <4> QED BY <4>1, <4>2
    <3>3. \A n \in DOMAIN sentEvents' : sentEvents'[n] = Whole(n)'
      BY <3>2, <2>1, <1>u, Zenon
    <3> QED BY <3>3, Zenon DEF WholeEvents
  <2>7. AtNext'
    <3>1. NextEvent' = (N + 1) + 1 /\ NextEvent' <= Len(bodies) + 1
      BY <2>1, <2>3, <1>p DEF NextEvent
    <3>2. start' = Begin(NextEvent)'
      <4>1. start' = Begin(NextEvent')
        BY <3>1, <1>r, <2>4
      <4> QED BY <4>1, <1>u, Zenon DEF Begin
    <3>3. taken \in Nat
      BY <1>p DEF StreamType
    <3> QED BY <3>1, <3>2, <3>3, <1>r, <1>u, <1>p DEF AtNext
  <2> QED BY <1>1, <2>6, <2>7
<1> QED BY <1>2, <1>3

LEMMA StreamStep == ASSUME StreamInv, [ReadoutNext]_readoutVars PROVE StreamInv'
<1>1. CASE UNCHANGED readoutVars
  <2>1. UNCHANGED <<bodies, arrived, taken, start, nread, header, receive_error, sentEvents, clean, pc>>
    BY <1>1 DEF readoutVars, streamVars, readVars
  <2>2. Total' = Total /\ (WholeEvents => WholeEvents') /\ Begin(NextEvent)' = Begin(NextEvent) /\ NextEvent' = NextEvent
    BY <2>1, SameStream
  <2> QED BY <2>1, <2>2 DEF StreamInv, StreamType, AtNext, HeaderOfNext
<1> QED BY <1>1, QuietSteps, RecvStep, GivenUp, OutputStep DEF ReadoutNext

LEMMA StreamAlways == ReadoutSpec => []StreamInv
  BY StreamStart, StreamStep, PTL DEF ReadoutSpec

\* What a sampler of recbe sends until an event was given up in part is the events
\* of the front end, all of them up to the last one sent, in order, each from its
\* first byte to its last and under its own number, whatever the bodies, the
\* pieces they arrive in and the receives that time out (RecbeSampler.cxx,
\* ConditionalRun).
THEOREM EventsAreWhole == ReadoutSpec => []WholeEvents
<1>1. StreamInv => WholeEvents
  BY DEF StreamInv
<1> QED BY <1>1, StreamAlways, PTL

-----------------------------------------------------------------------------
(* The samplers of e16. *)
-----------------------------------------------------------------------------
(* The inductive invariant. *)

TagType == [run : Nat, event : Nat, spill : Nat]

BroadcasterType ==
    broadcaster \in [state : {"Ready", "Running"}, pending : BOOLEAN, fEventId : Nat,
                     fSpillId : Nat, fEventsInSpill : Nat, fMaxEventsInSpill : Nat]

SubscriberType ==
    /\ subscriber \in [state : {"Ready", "Running", "PostRun"}, pending : BOOLEAN,
                       fNSequence : Nat, fRunNumber : Nat]
    /\ tagIn \in Seq(TagType)
    /\ fragments \in Seq([tag : TagType, num_sequence : Nat, run_id : Nat])

SamplerType ==
    /\ fRoundRobin \in {"event", "spill", "sequence"}
    /\ sampler \in [Samplers -> [pc : {"Ready", "Daq", "Join", "Wait", "Terminated"},
                                 thread : {"Off", "Poll", "Done"}, pending : BOOLEAN,
                                 fDaqThreadEnd : BOOLEAN, fNumIteration : Nat,
                                 fBeginRunData : Nat]]
    /\ fem \in [Samplers -> Seq(TagType)]
    /\ sent \subseteq [tag : TagType, to : Nat]

TypeOK ==
    /\ BroadcasterType /\ SubscriberType /\ SamplerType
    /\ setup \in {"fem", "test"} /\ run \in Nat
    /\ uneven \in BOOLEAN /\ late \in BOOLEAN

\* A front end that is not read out has nothing.
ReadyInv ==
    \A s \in Samplers :
        /\ sampler[s].pc = "Ready" => fem[s] = <<>>
        /\ setup = "test" => sampler[s].pc = "Ready"

\* A sampler has counted the events up to the first its front end has: an
\* iteration is an event, as long as all front ends have the same frames.
CountInv ==
    ~uneven => \A s \in Samplers : sampler[s].pc = "Daq" =>
        /\ sampler[s].fNumIteration + Len(fem[s]) = broadcaster.fEventId
        /\ \A i \in 1 .. Len(fem[s]) : fem[s][i].event = sampler[s].fNumIteration + i - 1

\* What a fragment's direction was made of.
MadeOf(f) ==
    CASE fRoundRobin = "event" ->
            \E s \in Samplers : f.to = (f.tag.event % EventTags[s]) % NDestination
      [] fRoundRobin = "spill" ->
            \E s \in Samplers : f.to = (f.tag.spill % SpillTags[s]) % NDestination
      [] fRoundRobin = "sequence" ->
            ~uneven => f.to = f.tag.event % NDestination

DirectionInv ==
    /\ setup = "test" => sent = {}
    /\ \A f \in sent : MadeOf(f)

\* The subscriber has its run, and without late tags nothing waits between runs.
TurnInv ==
    /\ setup = "fem" => subscriber.state = "Ready" /\ tagIn = <<>> /\ fragments = <<>>
    /\ subscriber.state # "Ready" => subscriber.fRunNumber = run
    /\ ~late /\ subscriber.state = "Ready" =>
            tagIn = <<>> /\ (setup = "test" => broadcaster.state = "Ready")
    /\ subscriber.fNSequence = Len(fragments)

\* The tags on the way are of this run, in order and not yet used up.
QueueInv ==
    ~late => \A i \in 1 .. Len(tagIn) :
        /\ tagIn[i].run = run
        /\ tagIn[i].event < broadcaster.fEventId
        /\ \A j \in 1 .. i - 1 : tagIn[j].event < tagIn[i].event

\* The fragments are numbered, of the run they say, in order and before the
\* tags on the way.
FragmentInv ==
    ~late => \A i \in 1 .. Len(fragments) :
        /\ fragments[i].num_sequence = i - 1
        /\ fragments[i].tag.run = fragments[i].run_id
        /\ fragments[i].tag.event < broadcaster.fEventId
        /\ \A j \in 1 .. i - 1 : fragments[j].tag.event < fragments[i].tag.event
        /\ \A k \in 1 .. Len(tagIn) : fragments[i].tag.event < tagIn[k].event

IInv ==
    /\ TypeOK /\ ReadyInv /\ CountInv /\ DirectionInv
    /\ TurnInv /\ QueueInv /\ FragmentInv

-----------------------------------------------------------------------------
(* A tag that tells apart a multiple of the destinations gives the same one. *)

LEMMA Division ==
  ASSUME NEW a \in Nat, NEW n \in Nat \ {0}
  PROVE  /\ a % n \in 0 .. n - 1 /\ a \div n \in Nat
         /\ a = n * (a \div n) + (a % n)
<1>1. a % n \in 0 .. n - 1
  OBVIOUS
<1>2. a \div n \in Nat
  OBVIOUS
<1>3. a = n * (a \div n) + (a % n)
  OBVIOUS
<1> QED BY <1>1, <1>2, <1>3

LEMMA DivisionUnique ==
  ASSUME NEW n \in Nat \ {0}, NEW p \in Int, NEW q \in Int,
         NEW r \in 0 .. n - 1, NEW s \in 0 .. n - 1, n * p + r = n * q + s
  PROVE  r = s
<1>1. CASE p = q
  BY <1>1
<1>2. CASE p > q
  <2>1. p - q >= 1 /\ n * (p - q) = s - r
    BY <1>2
  <2>2. n * (p - q) >= n
    BY <2>1
  <2> QED BY <2>1, <2>2
<1>3. CASE p < q
  <2>1. q - p >= 1 /\ n * (q - p) = r - s
    BY <1>3
  <2>2. n * (q - p) >= n
    BY <2>1
  <2> QED BY <2>1, <2>2
<1> QED BY <1>1, <1>2, <1>3

LEMMA ModOfMod ==
  ASSUME NEW a \in Nat, NEW e \in Nat \ {0}, NEW n \in Nat \ {0}, e % n = 0
  PROVE  (a % e) % n = a % n
<1> DEFINE k == e \div n
           c == a \div e
           b == a % e
           d == b \div n
<1>1. k \in Nat /\ e = n * k
  BY Division
<1>2. c \in Nat /\ b \in Nat /\ a = e * c + b
  BY Division
<1>3. d \in Nat /\ b = n * d + (b % n) /\ b % n \in 0 .. n - 1
  BY <1>2, Division
<1>4. a = n * (a \div n) + (a % n) /\ a % n \in 0 .. n - 1 /\ a \div n \in Nat
  BY Division
<1> HIDE DEF k, c, b, d
<1>5. a = n * (k * c + d) + (b % n)
  <2>1. e * c = n * (k * c)
    BY <1>1, <1>2
  <2>2. n * (k * c + d) = n * (k * c) + n * d
    BY <1>1, <1>2, <1>3
  <2> QED BY <1>2, <1>3, <2>1, <2>2
<1>6. k * c + d \in Int
  BY <1>1, <1>2, <1>3
<1>7. b % n = a % n
  <2> DEFINE p == k * c + d
             q == a \div n
             r == b % n
             s == a % n
  <2>1. p \in Int /\ q \in Int /\ r \in 0 .. n - 1 /\ s \in 0 .. n - 1 /\ n * p + r = n * q + s
    BY <1>3, <1>4, <1>5, <1>6
  <2> HIDE DEF p, q, r, s
  <2>2. r = s
    BY <2>1, DivisionUnique
  <2> QED BY <2>2 DEF r, s
<1> QED BY <1>7 DEF b

-----------------------------------------------------------------------------
(* What a step of a sampler does. *)

Kind == [pc : {"Ready", "Daq", "Join", "Wait", "Terminated"}, thread : {"Off", "Poll", "Done"},
         pending : BOOLEAN, fDaqThreadEnd : BOOLEAN, fNumIteration : Nat, fBeginRunData : Nat]

Made(s, tag) == [tag |-> tag, to |-> Direction(s, tag.event % EventTags[s], tag.spill % SpillTags[s])]

Counts(s, r) ==
    /\ sampler[s].pc = "Daq" /\ fem[s] # <<>>
    /\ r.pc = "Daq" /\ r.fNumIteration = sampler[s].fNumIteration + 1
    /\ fem' = [fem EXCEPT ![s] = Tail(fem[s])]
    /\ sent' = sent \/ sent' = sent \union {Made(s, Head(fem[s]))}

Turns(s, r) ==
    /\ r.pc = "Daq" => sampler[s].pc = "Daq" /\ r.fNumIteration = sampler[s].fNumIteration
    /\ r.pc = "Ready" => sampler[s].pc = "Ready" \/ fem' = [fem EXCEPT ![s] = <<>>]
    /\ sampler[s].pc = "Ready" => r.pc = "Ready"
    /\ fem' = fem \/ (fem' = [fem EXCEPT ![s] = <<>>] /\ r.pc # "Daq")
    /\ sent' = sent

Moves(s, r) ==
    /\ sampler' = [sampler EXCEPT ![s] = r]
    /\ fRoundRobin' = fRoundRobin
    /\ Counts(s, r) \/ Turns(s, r)

SamplerMove(s) == SamplerStep(s) \/ ThreadEnd(s) \/ ThreadAnswer(s) \/ DaqThrows(s) \/ Request(s)

LEMMA SamplerMoves ==
  ASSUME SamplerType, NEW s \in Samplers, SamplerMove(s)
  PROVE  \E r \in Kind : Moves(s, r)
<1>t. sampler \in [Samplers -> Kind] /\ sampler[s] \in Kind
  BY DEF SamplerType, Kind
<1>f. fem \in [Samplers -> Seq(TagType)]
  BY DEF SamplerType
<1> SUFFICES \E r \in Kind : /\ sampler' = [sampler EXCEPT ![s] = r]
                             /\ fRoundRobin' = fRoundRobin
                             /\ Counts(s, r) \/ Turns(s, r)
  BY DEF Moves
<1>1. CASE DaqEnds(s)
  <2> DEFINE r == [sampler[s] EXCEPT !.pc = "Join", !.fDaqThreadEnd = TRUE]
  <2>1. r \in Kind /\ r.pc = "Join"
    BY <1>t DEF Kind
  <2>2. sampler' = [sampler EXCEPT ![s] = r]
    BY <1>1, <1>t DEF DaqEnds
  <2>3. fRoundRobin' = fRoundRobin /\ fem' = fem /\ sent' = sent /\ sampler[s].pc = "Daq"
    BY <1>1 DEF DaqEnds, options
  <2> QED BY <2>1, <2>2, <2>3 DEF Turns
<1>2. CASE ThreadEnd(s)
  <2> DEFINE r == [sampler[s] EXCEPT !.thread = "Done"]
  <2>1. r \in Kind /\ r.pc = sampler[s].pc /\ r.fNumIteration = sampler[s].fNumIteration
    BY <1>t DEF Kind
  <2>2. sampler' = [sampler EXCEPT ![s] = r]
    BY <1>2, <1>t DEF ThreadEnd
  <2>3. fRoundRobin' = fRoundRobin /\ fem' = fem /\ sent' = sent
    BY <1>2 DEF ThreadEnd, options
  <2> QED BY <2>1, <2>2, <2>3 DEF Turns
<1>3. CASE ThreadAnswer(s) \/ Request(s)
  <2>1. sampler' = [sampler EXCEPT ![s] = sampler[s]]
    BY <1>3, <1>t DEF ThreadAnswer, Request
  <2>2. fRoundRobin' = fRoundRobin /\ fem' = fem /\ sent' = sent
    BY <1>3 DEF ThreadAnswer, Request, options
  <2> QED BY <1>t, <2>1, <2>2 DEF Turns
<1>4. CASE DaqThrows(s)
  <2> DEFINE r == [Off EXCEPT !.pc = "Terminated"]
  <2>1. r \in Kind /\ r.pc = "Terminated"
    BY DEF Kind, Off
  <2>2. sampler' = [sampler EXCEPT ![s] = r]
    BY <1>4 DEF DaqThrows
  <2>3. /\ fRoundRobin' = fRoundRobin /\ fem' = [fem EXCEPT ![s] = <<>>] /\ sent' = sent
        /\ sampler[s].pc = "Daq"
    BY <1>4 DEF DaqThrows, options
  <2> QED BY <2>1, <2>2, <2>3 DEF Turns
<1>5. CASE ProcessEvent(s) \/ ProcessOther(s)
  <2> DEFINE r == [sampler[s] EXCEPT !.fNumIteration = sampler[s].fNumIteration + 1]
  <2>1. r \in Kind /\ r.pc = sampler[s].pc /\ r.fNumIteration = sampler[s].fNumIteration + 1
    BY <1>t DEF Kind
  <2>2. sampler' = [sampler EXCEPT ![s] = r]
    BY <1>5, <1>t DEF ProcessEvent, ProcessOther
  <2>3. /\ fRoundRobin' = fRoundRobin /\ fem' = [fem EXCEPT ![s] = Tail(fem[s])]
        /\ sampler[s].pc = "Daq" /\ fem[s] # <<>>
    BY <1>5 DEF ProcessEvent, ProcessOther, options
  <2>4. sent' = sent \/ sent' = sent \union {Made(s, Head(fem[s]))}
    BY <1>5 DEF ProcessEvent, ProcessOther, Made
  <2> QED BY <2>1, <2>2, <2>3, <2>4 DEF Counts
<1>6. CASE Join(s)
  <2> DEFINE r == [sampler[s] EXCEPT !.pc = "Wait", !.thread = "Off"]
  <2>1. r \in Kind /\ r.pc = "Wait"
    BY <1>t DEF Kind
  <2>2. sampler' = [sampler EXCEPT ![s] = r]
    BY <1>6, <1>t DEF Join
  <2>3. fRoundRobin' = fRoundRobin /\ fem' = fem /\ sent' = sent /\ sampler[s].pc = "Join"
    BY <1>6 DEF Join, options
  <2> QED BY <2>1, <2>2, <2>3 DEF Turns
<1>7. CASE SamplerPostRun(s)
  <2> DEFINE r == [sampler[s] EXCEPT !.pc = "Ready"]
  <2>1. r \in Kind /\ r.pc = "Ready"
    BY <1>t DEF Kind
  <2>2. sampler' = [sampler EXCEPT ![s] = r]
    BY <1>7, <1>t DEF SamplerPostRun
  <2>3. /\ fRoundRobin' = fRoundRobin /\ fem' = [fem EXCEPT ![s] = <<>>] /\ sent' = sent
        /\ sampler[s].pc = "Wait"
    BY <1>7 DEF SamplerPostRun, options
  <2> QED BY <2>1, <2>2, <2>3 DEF Turns
<1> QED BY <1>1, <1>2, <1>3, <1>4, <1>5, <1>6, <1>7 DEF SamplerMove, SamplerStep

-----------------------------------------------------------------------------
(* The types. *)

Move ==
    /\ \E s \in Samplers : SamplerMove(s)
    /\ UNCHANGED <<broadcaster, subscriberVars, control, uneven, late>>

OwnFrame == \E s \in Samplers : OtherFrame(s)

LEMMA Cases ==
  ASSUME [Next]_vars
  PROVE  \/ StartRun \/ Broadcast \/ OwnFrame \/ Move
         \/ StopRequest \/ StopArrives \/ Subscriber \/ Broadcaster
         \/ UNCHANGED vars
BY Zenon DEF Next, Device, Thread, Outside, Move, SamplerMove, OwnFrame

LEMMA NumbersGoOn ==
  ASSUME BroadcasterType, NextNumbers
  PROVE  /\ BroadcasterType'
         /\ broadcaster'.fEventId = broadcaster.fEventId + 1
         /\ broadcaster'.state = broadcaster.state
<1>t. /\ broadcaster.fEventId + 1 \in Nat /\ broadcaster.fSpillId + 1 \in Nat
      /\ broadcaster.fEventsInSpill + 1 \in Nat
  BY DEF BroadcasterType
<1>1. CASE broadcaster.fEventsInSpill = broadcaster.fMaxEventsInSpill
  <2>1. PICK n \in SpillLengths :
            broadcaster' = [broadcaster EXCEPT !.fEventId = broadcaster.fEventId + 1,
                                !.fSpillId = broadcaster.fSpillId + 1,
                                !.fEventsInSpill = 0, !.fMaxEventsInSpill = n]
    BY <1>1 DEF NextNumbers
  <2>2. n \in Nat /\ 0 \in Nat
    BY SpillAssumption
  <2> QED BY <1>t, <2>1, <2>2 DEF BroadcasterType
<1>2. CASE broadcaster.fEventsInSpill # broadcaster.fMaxEventsInSpill
  <2>1. broadcaster' = [broadcaster EXCEPT !.fEventId = broadcaster.fEventId + 1,
                            !.fEventsInSpill = broadcaster.fEventsInSpill + 1]
    BY <1>2 DEF NextNumbers
  <2> QED BY <1>t, <2>1 DEF BroadcasterType
<1> QED BY <1>1, <1>2

LEMMA NumbersBegin ==
  ASSUME BroadcasterPreRun
  PROVE  BroadcasterType' /\ broadcaster'.fEventId = 0 /\ broadcaster.state = "Ready"
BY SpillAssumption DEF BroadcasterType, BroadcasterPreRun

LEMMA TagIsOne ==
  ASSUME BroadcasterType, run \in Nat
  PROVE  Tag(run) \in TagType /\ Tag(run).run = run /\ Tag(run).event = broadcaster.fEventId
BY DEF BroadcasterType, Tag, TagType

\* A tag that is published is the last in the queue, or dropped.
LEMMA PublishData ==
  ASSUME tagIn \in Seq(TagType), NEW tag \in TagType, Publish(tag)
  PROVE  /\ tagIn' \in Seq(TagType)
         /\ tagIn' = tagIn \/ tagIn' = Append(tagIn, tag)
<1>1. CASE Len(tagIn) < TagQueue
  <2>1. tagIn' = Append(tagIn, tag)
    BY <1>1 DEF Publish
  <2> HIDE DEF TagType
  <2> QED BY <2>1, AppendProperties
<1>2. CASE ~(Len(tagIn) < TagQueue)
  BY <1>2 DEF Publish
<1> QED BY <1>1, <1>2

LEMMA BroadcasterTypeStep == ASSUME TypeOK, [Next]_vars PROVE BroadcasterType'
<1>t. BroadcasterType
  BY DEF TypeOK
<1>1. CASE UNCHANGED broadcaster
  BY <1>1, <1>t DEF BroadcasterType
<1>2. CASE StartRun
  BY <1>2, NumbersBegin DEF StartRun
<1>3. CASE Broadcast
  BY <1>3, <1>t, NumbersGoOn DEF Broadcast
<1>4. CASE StopRequest
  BY <1>4, <1>t DEF StopRequest, BroadcasterType
<1>5. CASE StopArrives
  BY <1>5, <1>t DEF StopArrives, BroadcasterType
<1>6. CASE Broadcaster
  BY <1>6, <1>t DEF Broadcaster, BroadcasterStop, BroadcasterType
<1>7. OwnFrame \/ Move \/ Subscriber \/ UNCHANGED vars => UNCHANGED broadcaster
  BY DEF OwnFrame, OtherFrame, Move, Subscriber, vars
<1> QED BY <1>1, <1>2, <1>3, <1>4, <1>5, <1>6, <1>7, Cases

Fragment == [tag : TagType, num_sequence : Nat, run_id : Nat]
NewFragment(tag) == [tag |-> tag, num_sequence |-> subscriber.fNSequence,
                     run_id |-> subscriber.fRunNumber]

\* A tag that is taken and handled.
Handled ==
    /\ tagIn # <<>> /\ tagIn' = Tail(tagIn)
    /\ subscriber.state # "Ready"
    /\ subscriber' = [subscriber EXCEPT !.fNSequence = subscriber.fNSequence + 1]
    /\ fragments' = Append(fragments, NewFragment(Head(tagIn)))

\* Other steps of the subscriber.
SubscriberTurns ==
    /\ subscriber.state # "Ready"
    /\ subscriber'.fNSequence = subscriber.fNSequence
    /\ subscriber'.fRunNumber = subscriber.fRunNumber
    /\ subscriber'.state = "Ready" => /\ subscriber.state = "PostRun"
                                      /\ tagIn = <<>> /\ tagIn' = tagIn
    /\ tagIn' = tagIn \/ (tagIn # <<>> /\ tagIn' = Tail(tagIn))
    /\ fragments' = fragments

LEMMA SubscriberData ==
  ASSUME SubscriberType, Subscriber
  PROVE  /\ SubscriberType'
         /\ Handled \/ SubscriberTurns
<1>t. /\ tagIn \in Seq(TagType) /\ fragments \in Seq(Fragment)
      /\ subscriber \in [state : {"Ready", "Running", "PostRun"}, pending : BOOLEAN,
                         fNSequence : Nat, fRunNumber : Nat]
  BY DEF SubscriberType, Fragment
<1>q. ASSUME tagIn # <<>> PROVE Head(tagIn) \in TagType /\ Tail(tagIn) \in Seq(TagType)
  <2> HIDE DEF TagType
  <2> QED BY <1>t, <1>q, HeadTailProperties
<1>1. CASE Handled
  <2>1. NewFragment(Head(tagIn)) \in Fragment
    BY <1>1, <1>t, <1>q DEF Handled, NewFragment, Fragment
  <2>2. fragments' \in Seq(Fragment)
    <3> HIDE DEF Fragment
    <3> QED BY <1>1, <1>t, <2>1, AppendProperties DEF Handled
  <2>3. subscriber' \in [state : {"Ready", "Running", "PostRun"}, pending : BOOLEAN,
                         fNSequence : Nat, fRunNumber : Nat]
    <3>1. subscriber' = [subscriber EXCEPT !.fNSequence = subscriber.fNSequence + 1]
      BY <1>1 DEF Handled
    <3>2. subscriber.fNSequence + 1 \in Nat
      BY <1>t
    <3> QED BY <1>t, <3>1, <3>2
  <2>4. tagIn' \in Seq(TagType)
    BY <1>1, <1>q DEF Handled
  <2> QED BY <1>1, <2>2, <2>3, <2>4 DEF SubscriberType, Fragment
<1>2. CASE SubscriberTurns /\ subscriber' \in [state : {"Ready", "Running", "PostRun"},
                 pending : BOOLEAN, fNSequence : Nat, fRunNumber : Nat]
  BY <1>2, <1>t, <1>q DEF SubscriberTurns, SubscriberType, Fragment
<1>3. CASE ReceiveTag
  BY <1>1, <1>3, <1>t DEF ReceiveTag, HandleTag, Handled, NewFragment
<1>4. CASE DrainTag /\ ~fDiscard
  BY <1>1, <1>4, <1>t DEF DrainTag, HandleTag, Handled, NewFragment
<1>5. CASE DrainTag /\ fDiscard
  BY <1>2, <1>5, <1>t DEF DrainTag, SubscriberTurns
<1>6. CASE SubscriberStop
  <2>1. subscriber' = [subscriber EXCEPT !.state = "PostRun"] /\ subscriber.state = "Running"
        /\ tagIn' = tagIn /\ fragments' = fragments
    BY <1>6 DEF SubscriberStop
  <2> QED BY <1>2, <1>t, <2>1 DEF SubscriberTurns
<1>7. CASE DrainDone
  <2>1. subscriber' = [subscriber EXCEPT !.state = "Ready"] /\ subscriber.state = "PostRun"
        /\ tagIn = <<>> /\ tagIn' = tagIn /\ fragments' = fragments
    BY <1>7 DEF DrainDone
  <2> QED BY <1>2, <1>t, <2>1 DEF SubscriberTurns
<1> QED BY <1>3, <1>4, <1>5, <1>6, <1>7 DEF Subscriber

\* What the steps outside the samplers do to the front ends.
Triggered(missing) ==
    /\ setup = "fem"
    /\ fem' = [s \in Samplers |-> IF s \in missing \/ sampler[s].pc # "Daq" THEN fem[s]
                                  ELSE Append(fem[s], Tag(run))]
    /\ (~uneven' => ~uneven /\ missing = {})
    /\ UNCHANGED <<subscriberVars, fRoundRobin, sampler, sent>>

LEMMA BroadcastData ==
  ASSUME BroadcasterType, Broadcast
  PROVE  /\ BroadcasterType' /\ broadcaster.state = "Running"
         /\ broadcaster'.fEventId = broadcaster.fEventId + 1
         /\ broadcaster'.state = broadcaster.state
         /\ UNCHANGED <<control, late>>
         /\ \/ \E missing \in SUBSET Samplers : Triggered(missing)
            \/ /\ setup = "test" /\ Publish(Tag(run))
               /\ UNCHANGED <<subscriber, fragments, fRoundRobin, sampler, fem, sent, uneven>>
<1>1. /\ NextNumbers /\ broadcaster.state = "Running" /\ UNCHANGED <<control, late>>
      /\ \/ Trigger
         \/ /\ setup = "test" /\ Publish(Tag(run))
            /\ UNCHANGED <<fDiscard, subscriber, fragments, samplerVars, uneven>>
  BY DEF Broadcast, Running
<1>2. CASE Trigger
  <2>1. PICK missing \in (IF uneven THEN {{}} ELSE {{}} \union {{s} : s \in Samplers}) :
            /\ fem' = [s \in Samplers |-> IF s \in missing \/ sampler[s].pc # "Daq" THEN fem[s]
                                          ELSE Append(fem[s], Tag(run))]
            /\ uneven' = (uneven \/ missing # {})
    BY <1>2 DEF Trigger
  <2>2. missing \in SUBSET Samplers
    BY <2>1
  <2>3. Triggered(missing)
    BY <1>2, <2>1 DEF Trigger, Triggered, options
  <2> QED BY <1>1, <2>2, <2>3, NumbersGoOn
<1>3. CASE /\ setup = "test" /\ Publish(Tag(run))
           /\ UNCHANGED <<fDiscard, subscriber, fragments, samplerVars, uneven>>
  BY <1>1, <1>3, NumbersGoOn DEF samplerVars, options
<1> QED BY <1>1, <1>2, <1>3

\* The other steps touch neither what the front ends have nor what was sent.
Elsewhere ==
    /\ UNCHANGED <<fRoundRobin, fem, sent, setup, run, uneven>>
    /\ \A s \in Samplers : sampler'[s].pc = sampler[s].pc
                             /\ sampler'[s].fNumIteration = sampler[s].fNumIteration
    /\ sampler' \in [Samplers -> Kind]
    /\ broadcaster'.fEventId = broadcaster.fEventId
    /\ broadcaster'.state = "Ready" \/ broadcaster'.state = broadcaster.state

LEMMA ElsewhereData ==
  ASSUME TypeOK,
         StopRequest \/ StopArrives \/ Subscriber \/ Broadcaster \/ UNCHANGED vars
  PROVE  Elsewhere
<1>t. /\ sampler \in [Samplers -> Kind]
      /\ BroadcasterType
  BY DEF TypeOK, SamplerType, Kind
<1>1. CASE StopRequest
  BY <1>1, <1>t DEF StopRequest, samplerVars, options, Elsewhere, BroadcasterType
<1>2. CASE StopArrives
  <2>1. CASE UNCHANGED samplerVars
    BY <1>2, <2>1, <1>t DEF StopArrives, samplerVars, options, control, Elsewhere, BroadcasterType
  <2>2. ASSUME NEW s \in Samplers, sampler' = [sampler EXCEPT ![s].pending = TRUE]
        PROVE  /\ sampler' \in [Samplers -> Kind]
               /\ \A r \in Samplers : sampler'[r].pc = sampler[r].pc
                             /\ sampler'[r].fNumIteration = sampler[r].fNumIteration
    BY <1>t, <2>2 DEF Kind
  <2>3. CASE \E s \in Samplers :
              /\ sampler' = [sampler EXCEPT ![s].pending = TRUE]
              /\ UNCHANGED <<broadcaster, subscriberVars, options, fem, requests, sent>>
    <3>1. UNCHANGED <<fRoundRobin, fem, sent, setup, run, uneven, broadcaster>>
      BY <1>2, <2>3 DEF StopArrives, options, control
    <3> QED BY <2>2, <2>3, <3>1 DEF Elsewhere
  <2> QED BY <1>2, <2>1, <2>3 DEF StopArrives
<1>3. CASE Subscriber
  BY <1>3, <1>t DEF Subscriber, samplerVars, options, control, Elsewhere
<1>4. CASE Broadcaster
  BY <1>4, <1>t DEF Broadcaster, BroadcasterStop, samplerVars, options, control, Elsewhere, BroadcasterType
<1>5. CASE UNCHANGED vars
  BY <1>5, <1>t DEF vars, samplerVars, options, control, Elsewhere
<1> QED BY <1>1, <1>2, <1>3, <1>4, <1>5

LEMMA BeginData ==
  ASSUME SamplerType, run \in Nat, setup \in {"fem", "test"}, StartRun
  PROVE  /\ SamplerType' /\ fem' = fem /\ fRoundRobin' = fRoundRobin
         /\ setup' = setup /\ run' = run + 1 /\ uneven' = FALSE /\ late' = late
         /\ setup = "test" => UNCHANGED <<sampler, sent>>
         /\ setup = "fem" =>
                /\ UNCHANGED subscriberVars /\ sent' = {}
                /\ \A s \in Samplers : /\ sampler[s].pc = "Ready" /\ sampler'[s].pc = "Daq"
                                       /\ sampler'[s].fNumIteration = 0
<1>1. /\ setup' = setup /\ run' = run + 1 /\ uneven' = FALSE /\ late' = late
  BY DEF StartRun
<1>2. CASE setup = "test"
  BY <1>1, <1>2 DEF StartRun, samplerVars, options, SamplerType
<1>3. CASE setup = "fem"
  <2>1. /\ \A s \in Samplers : sampler[s].pc = "Ready"
        /\ sampler' = [s \in Samplers |-> PreRun(s, run + 1)]
        /\ sent' = {} /\ UNCHANGED <<fem, fRoundRobin, subscriberVars>>
    BY <1>3 DEF StartRun, SamplersPreRun, options
  <2>2. ASSUME NEW s \in Samplers
        PROVE  PreRun(s, run + 1) \in Kind /\ PreRun(s, run + 1).pc = "Daq"
               /\ PreRun(s, run + 1).fNumIteration = 0
    <3>1. Off \in Kind /\ Off.fNumIteration = 0
      BY DEF Off, Kind
    <3>2. InRun \in Kind /\ InRun.pc = "Daq" /\ InRun.fNumIteration = 0
      BY <3>1 DEF InRun, Kind
    <3>3. run + 1 \in Nat
      OBVIOUS
    <3> QED BY <3>2, <3>3 DEF PreRun, Kind
  <2>3. SamplerType'
    BY <2>1, <2>2 DEF SamplerType, Kind
  <2> QED BY <1>1, <1>3, <2>1, <2>2, <2>3
<1> QED BY <1>2, <1>3

LEMMA MadeIs ==
  ASSUME SamplerType, NEW s \in Samplers, NEW tag \in TagType
  PROVE  /\ Made(s, tag) \in [tag : TagType, to : Nat]
         /\ Made(s, tag).tag = tag
         /\ Made(s, tag).to = Direction(s, tag.event % EventTags[s], tag.spill % SpillTags[s])
         /\ Made(s, tag).to \in Nat
<1>1. /\ tag.event \in Nat /\ tag.spill \in Nat /\ sampler[s].fNumIteration \in Nat
      /\ EventTags[s] \in Nat \ {0} /\ SpillTags[s] \in Nat \ {0} /\ NDestination \in Nat \ {0}
  BY SamplerAssumption DEF SamplerType, TagType
<1>a. ASSUME NEW a \in Nat, NEW n \in Nat \ {0} PROVE a % n \in Nat
  BY Division
<1>2. tag.event % EventTags[s] \in Nat /\ tag.spill % SpillTags[s] \in Nat
  BY <1>1, <1>a
<1>3. ASSUME NEW e \in Nat, NEW p \in Nat PROVE Direction(s, e, p) \in Nat
  <2>1. /\ e % NDestination \in Nat /\ p % NDestination \in Nat
        /\ sampler[s].fNumIteration % NDestination \in Nat
    BY <1>1, <1>a
  <2>2. fRoundRobin \in {"event", "spill", "sequence"}
    BY DEF SamplerType
  <2> QED BY <2>1, <2>2 DEF Direction
<1>4. Direction(s, tag.event % EventTags[s], tag.spill % SpillTags[s]) \in Nat
  BY <1>2, <1>3
<1> QED BY <1>4 DEF Made

LEMMA SamplerTypeStep == ASSUME TypeOK, [Next]_vars PROVE SamplerType'
<1>t. /\ SamplerType /\ BroadcasterType /\ run \in Nat /\ setup \in {"fem", "test"}
      /\ sampler \in [Samplers -> Kind] /\ fem \in [Samplers -> Seq(TagType)]
      /\ sent \subseteq [tag : TagType, to : Nat]
      /\ fRoundRobin \in {"event", "spill", "sequence"}
  BY DEF TypeOK, SamplerType, Kind
<1> SUFFICES /\ sampler' \in [Samplers -> Kind] /\ fem' \in [Samplers -> Seq(TagType)]
             /\ sent' \subseteq [tag : TagType, to : Nat]
             /\ fRoundRobin' = fRoundRobin
  BY <1>t DEF SamplerType, Kind
<1>1. CASE StartRun
  BY <1>1, <1>t, BeginData DEF SamplerType, Kind
<1>2. CASE Broadcast
  <2>1. ASSUME NEW missing \in SUBSET Samplers, Triggered(missing)
        PROVE  fem' \in [Samplers -> Seq(TagType)]
    <3>1. Tag(run) \in TagType
      BY <1>t, TagIsOne
    <3>2. \A s \in Samplers : Append(fem[s], Tag(run)) \in Seq(TagType)
      <4> HIDE DEF TagType
      <4> QED BY <1>t, <3>1, AppendProperties
    <3> QED BY <1>t, <2>1, <3>2 DEF Triggered
  <2> QED BY <1>2, <1>t, <2>1, BroadcastData DEF Triggered
<1>3. CASE OwnFrame
  <2>1. PICK s \in Samplers : OtherFrame(s)
    BY <1>3 DEF OwnFrame
  <2>2. NoTag \in TagType
    BY DEF NoTag, TagType
  <2>3. Append(fem[s], NoTag) \in Seq(TagType)
    <3> HIDE DEF TagType
    <3> QED BY <1>t, <2>2, AppendProperties
  <2> QED BY <1>t, <2>1, <2>3 DEF OtherFrame, options
<1>4. CASE Move
  <2>1. PICK s \in Samplers : SamplerMove(s)
    BY <1>4 DEF Move
  <2>2. PICK r \in Kind : Moves(s, r)
    BY <1>t, <2>1, SamplerMoves
  <2>3. sampler' \in [Samplers -> Kind] /\ fRoundRobin' = fRoundRobin
    BY <1>t, <2>2 DEF Moves
  <2>4. CASE Counts(s, r)
    <3>1. Head(fem[s]) \in TagType /\ Tail(fem[s]) \in Seq(TagType)
      <4> HIDE DEF TagType
      <4> QED BY <1>t, <2>4, HeadTailProperties DEF Counts
    <3>2. Made(s, Head(fem[s])) \in [tag : TagType, to : Nat]
      BY <1>t, <3>1, MadeIs
    <3> QED BY <1>t, <2>3, <2>4, <3>1, <3>2 DEF Counts
  <2>5. CASE Turns(s, r)
    BY <1>t, <2>3, <2>5, EmptySeq DEF Turns
  <2> QED BY <2>2, <2>4, <2>5 DEF Moves
<1>5. CASE Elsewhere
  BY <1>5, <1>t DEF Elsewhere
<1> QED BY <1>1, <1>2, <1>3, <1>4, <1>5, Cases, ElsewhereData

-----------------------------------------------------------------------------
(* The samplers count the events. *)

LEMMA ReadyStep == ASSUME TypeOK, ReadyInv, [Next]_vars PROVE ReadyInv'
<1>t. /\ SamplerType /\ BroadcasterType /\ run \in Nat /\ setup \in {"fem", "test"}
      /\ DOMAIN fem = Samplers /\ DOMAIN sampler = Samplers
  BY DEF TypeOK, SamplerType
<1>1. CASE StartRun
  BY <1>1, <1>t, BeginData DEF ReadyInv
<1>2. CASE Broadcast
  <2>1. ASSUME NEW missing \in SUBSET Samplers, Triggered(missing) PROVE ReadyInv'
    BY <1>2, <1>t, <2>1, BroadcastData DEF Triggered, ReadyInv, control
  <2> QED BY <1>2, <1>t, <2>1, BroadcastData DEF ReadyInv, control
<1>3. CASE OwnFrame
  BY <1>3, <1>t DEF OwnFrame, OtherFrame, ReadyInv, control
<1>4. CASE Move
  <2>1. PICK s \in Samplers : SamplerMove(s)
    BY <1>4 DEF Move
  <2>2. PICK r \in Kind : Moves(s, r)
    BY <1>t, <2>1, SamplerMoves
  <2>3. setup' = setup /\ sampler'[s] = r /\ \A u \in Samplers \ {s} : sampler'[u] = sampler[u]
    BY <1>4, <1>t, <2>2 DEF Move, Moves, control
  <2>4. \A u \in Samplers \ {s} : fem'[u] = fem[u]
    BY <1>t, <2>2 DEF Moves, Counts, Turns
  <2>5. r.pc = "Ready" => fem'[s] = <<>>
    BY <1>t, <2>2 DEF Moves, Counts, Turns, ReadyInv
  <2>6. sampler[s].pc = "Ready" => r.pc = "Ready"
    BY <2>2 DEF Moves, Counts, Turns
  <2> QED BY <2>3, <2>4, <2>5, <2>6 DEF ReadyInv
<1>5. CASE Elsewhere
  BY <1>5 DEF Elsewhere, ReadyInv
<1> QED BY <1>1, <1>2, <1>3, <1>4, <1>5, Cases, ElsewhereData

LEMMA CountStep == ASSUME TypeOK, ReadyInv, CountInv, [Next]_vars PROVE CountInv'
<1> SUFFICES ASSUME ~uneven', NEW u \in Samplers, sampler'[u].pc = "Daq"
             PROVE  /\ sampler'[u].fNumIteration + Len(fem'[u]) = broadcaster'.fEventId
                    /\ \A i \in 1 .. Len(fem'[u]) :
                            fem'[u][i].event = sampler'[u].fNumIteration + i - 1
  BY DEF CountInv
<1>t. /\ SamplerType /\ BroadcasterType /\ run \in Nat /\ setup \in {"fem", "test"}
      /\ DOMAIN fem = Samplers /\ DOMAIN sampler = Samplers
      /\ fem[u] \in Seq(TagType) /\ sampler[u].fNumIteration \in Nat
      /\ broadcaster.fEventId \in Nat
  BY DEF TypeOK, SamplerType, BroadcasterType
<1>l. Len(fem[u]) \in Nat
  <2> HIDE DEF TagType
  <2> QED BY <1>t, LenProperties
<1>a. ~uneven /\ sampler[u].pc = "Daq" =>
        /\ sampler[u].fNumIteration + Len(fem[u]) = broadcaster.fEventId
        /\ \A i \in 1 .. Len(fem[u]) : fem[u][i].event = sampler[u].fNumIteration + i - 1
  BY DEF CountInv
<1>b. CASE /\ ~uneven /\ sampler[u].pc = "Daq" /\ fem'[u] = fem[u]
           /\ sampler'[u].fNumIteration = sampler[u].fNumIteration
           /\ broadcaster'.fEventId = broadcaster.fEventId
  BY <1>a, <1>b
<1>1. CASE StartRun
  <2>1. setup = "fem"
    BY <1>1, <1>t, BeginData DEF ReadyInv
  <2>2. fem'[u] = <<>> /\ sampler'[u].fNumIteration = 0
    BY <1>1, <1>t, <2>1, BeginData DEF ReadyInv
  <2>3. broadcaster'.fEventId = 0 /\ Len(<<>>) = 0
    BY <1>1, NumbersBegin DEF StartRun
  <2> QED BY <2>2, <2>3
<1>2. CASE Broadcast
  <2>1. broadcaster'.fEventId = broadcaster.fEventId + 1
    BY <1>2, <1>t, BroadcastData
  <2>2. PICK missing \in SUBSET Samplers : Triggered(missing)
    BY <1>2, <1>t, BroadcastData DEF ReadyInv
  <2>3. /\ ~uneven /\ sampler' = sampler
        /\ fem'[u] = Append(fem[u], Tag(run))
    BY <1>t, <2>2 DEF Triggered
  <2>4. Tag(run) \in TagType /\ Tag(run).event = broadcaster.fEventId
    BY <1>t, TagIsOne
  <2>5. /\ Len(fem'[u]) = Len(fem[u]) + 1
        /\ \A i \in 1 .. Len(fem[u]) : fem'[u][i] = fem[u][i]
        /\ fem'[u][Len(fem[u]) + 1] = Tag(run)
    <3> HIDE DEF TagType
    <3> QED BY <1>t, <2>3, <2>4, AppendProperties
  <2>6. ASSUME NEW i \in 1 .. Len(fem'[u]) PROVE fem'[u][i].event = sampler[u].fNumIteration + i - 1
    <3>1. CASE i \in 1 .. Len(fem[u])
      BY <1>a, <2>3, <2>5, <3>1
    <3>2. CASE i = Len(fem[u]) + 1
      BY <1>a, <1>t, <1>l, <2>3, <2>4, <2>5, <3>2
    <3> QED BY <1>l, <2>5, <3>1, <3>2
  <2> QED BY <1>a, <1>t, <1>l, <2>1, <2>3, <2>5, <2>6
<1>3. CASE OwnFrame
  BY <1>3 DEF OwnFrame, OtherFrame
<1>4. CASE Move
  <2>1. PICK s \in Samplers : SamplerMove(s)
    BY <1>4 DEF Move
  <2>2. PICK r \in Kind : Moves(s, r)
    BY <1>t, <2>1, SamplerMoves
  <2>3. /\ ~uneven /\ broadcaster' = broadcaster /\ sampler'[s] = r
        /\ u # s => sampler'[u] = sampler[u]
    BY <1>4, <1>t, <2>2 DEF Move, Moves
  <2>4. CASE u # s
    <3>1. fem'[u] = fem[u]
      BY <1>t, <2>2, <2>4 DEF Moves, Counts, Turns
    <3> QED BY <1>b, <2>3, <2>4, <3>1
  <2>5. CASE u = s /\ Turns(s, r)
    BY <1>b, <2>3, <2>5 DEF Turns
  <2>6. CASE u = s /\ Counts(s, r)
    <3>1. /\ fem'[u] = Tail(fem[u]) /\ fem[u] # <<>> /\ sampler[u].pc = "Daq"
          /\ sampler'[u].fNumIteration = sampler[u].fNumIteration + 1
      BY <1>t, <2>3, <2>6 DEF Counts
    <3>2. /\ Len(fem'[u]) = Len(fem[u]) - 1
          /\ \A i \in 1 .. Len(fem[u]) - 1 : fem'[u][i] = fem[u][i + 1]
      <4> HIDE DEF TagType
      <4> QED BY <1>t, <3>1, HeadTailProperties
    <3>3. ASSUME NEW i \in 1 .. Len(fem'[u])
          PROVE  fem'[u][i].event = sampler'[u].fNumIteration + i - 1
      <4>1. i + 1 \in 1 .. Len(fem[u]) /\ fem'[u][i] = fem[u][i + 1]
        BY <1>l, <3>2
      <4>2. fem[u][i + 1].event = sampler[u].fNumIteration + (i + 1) - 1
        BY <1>a, <2>3, <3>1, <4>1
      <4> QED BY <1>t, <3>1, <4>1, <4>2
    <3> QED BY <1>a, <1>t, <1>l, <2>3, <3>1, <3>2, <3>3
  <2> QED BY <2>2, <2>4, <2>5, <2>6 DEF Moves
<1>5. CASE Elsewhere
  BY <1>b, <1>5 DEF Elsewhere
<1> QED BY <1>1, <1>2, <1>3, <1>4, <1>5, Cases, ElsewhereData

-----------------------------------------------------------------------------
(* Where the fragments go. *)

LEMMA DirectionStep ==
  ASSUME TypeOK, ReadyInv, CountInv, DirectionInv, [Next]_vars
  PROVE  DirectionInv'
<1>t. /\ SamplerType /\ BroadcasterType /\ run \in Nat /\ setup \in {"fem", "test"}
      /\ fem \in [Samplers -> Seq(TagType)] /\ fRoundRobin \in {"event", "spill", "sequence"}
  BY DEF TypeOK, SamplerType
<1>a. ASSUME NEW f \in sent, fRoundRobin' = fRoundRobin, ~uneven' => ~uneven PROVE MadeOf(f)'
  <2>1. MadeOf(f)
    BY DEF DirectionInv
  <2> QED BY <1>a, <1>t, <2>1 DEF MadeOf
<1>b. CASE /\ sent' = sent /\ fRoundRobin' = fRoundRobin /\ (~uneven' => ~uneven)
           /\ setup' = setup
  BY <1>a, <1>b DEF DirectionInv
<1>1. CASE StartRun
  BY <1>1, <1>t, BeginData DEF DirectionInv
<1>2. CASE Broadcast
  <2>1. ASSUME NEW missing \in SUBSET Samplers, Triggered(missing), setup' = setup PROVE DirectionInv'
    BY <1>b, <2>1 DEF Triggered
  <2> QED BY <1>2, <1>b, <1>t, <2>1, BroadcastData DEF control
<1>3. CASE OwnFrame
  BY <1>b, <1>3 DEF OwnFrame, OtherFrame, options, control
<1>4. CASE Move
  <2>1. PICK s \in Samplers : SamplerMove(s)
    BY <1>4 DEF Move
  <2>2. PICK r \in Kind : Moves(s, r)
    BY <1>t, <2>1, SamplerMoves
  <2>3. UNCHANGED <<setup, uneven>> /\ fRoundRobin' = fRoundRobin
    BY <1>4, <2>2 DEF Move, Moves, control
  <2>4. CASE sent' = sent
    BY <1>b, <2>3, <2>4
  <2>5. CASE Counts(s, r) /\ sent' = sent \union {Made(s, Head(fem[s]))}
    <3>1. sampler[s].pc = "Daq" /\ fem[s] # <<>> /\ setup # "test"
      BY <2>5 DEF Counts, ReadyInv
    <3>2. Head(fem[s]) \in TagType /\ Head(fem[s]) = fem[s][1] /\ 1 \in 1 .. Len(fem[s])
      <4> HIDE DEF TagType
      <4> QED BY <1>t, <3>1, HeadTailProperties, LenProperties, EmptySeq
    <3>f. PICK f : f = Made(s, Head(fem[s]))
      OBVIOUS
    <3>3. /\ f.tag = Head(fem[s])
          /\ f.to = Direction(s, f.tag.event % EventTags[s], f.tag.spill % SpillTags[s])
      BY <1>t, <3>f, <3>2, MadeIs
    <3>4. ~uneven => sampler[s].fNumIteration = f.tag.event
      <4>1. sampler[s].fNumIteration \in Nat
        BY <1>t DEF SamplerType
      <4>2. ~uneven => fem[s][1].event = sampler[s].fNumIteration + 1 - 1
        BY <3>1, <3>2 DEF CountInv
      <4> QED BY <3>2, <3>3, <4>1, <4>2
    <3>5. MadeOf(f)
      BY <1>t, <3>3, <3>4 DEF MadeOf, Direction
    <3>6. MadeOf(f)'
      BY <1>t, <2>3, <3>5 DEF MadeOf
    <3>7. sent' = sent \union {f}
      BY <2>5, <3>f
    <3> QED BY <1>a, <2>3, <3>1, <3>6, <3>7 DEF DirectionInv
  <2> QED BY <2>2, <2>4, <2>5 DEF Moves, Counts, Turns
<1>5. CASE Elsewhere
  BY <1>b, <1>5 DEF Elsewhere
<1> QED BY <1>1, <1>2, <1>3, <1>4, <1>5, Cases, ElsewhereData

\* All front ends make the same of a tag, if the policy fits.
LEMMA MeetInvImplies == ASSUME TypeOK, DirectionInv PROVE FragmentsMeet
<1> SUFFICES ASSUME PolicyFits, NEW f \in sent, NEW g \in sent, f.tag = g.tag PROVE f.to = g.to
  BY DEF FragmentsMeet
<1>t. /\ fRoundRobin \in {"event", "spill", "sequence"}
      /\ f.tag \in TagType /\ f.tag.event \in Nat /\ f.tag.spill \in Nat
      /\ MadeOf(f) /\ MadeOf(g)
  BY DEF TypeOK, SamplerType, TagType, DirectionInv
<1>m. ASSUME NEW a \in Nat, NEW tags \in [Samplers -> Nat \ {0}], NEW s \in Samplers,
             tags[s] % NDestination = 0
      PROVE  (a % tags[s]) % NDestination = a % NDestination
  <2>1. PICK e : e = tags[s]
    OBVIOUS
  <2>2. e \in Nat \ {0} /\ e % NDestination = 0
    BY <1>m, <2>1
  <2>3. NDestination \in Nat \ {0}
    BY SamplerAssumption
  <2>4. (a % e) % NDestination = a % NDestination
    BY <2>2, <2>3, ModOfMod
  <2> QED BY <2>1, <2>4
<1>1. CASE fRoundRobin = "event"
  <2>1. \A s \in Samplers : EventTags[s] % NDestination = 0
    BY <1>1 DEF PolicyFits
  <2>2. \A s \in Samplers : (f.tag.event % EventTags[s]) % NDestination = f.tag.event % NDestination
    BY <1>t, <1>m, <2>1, SamplerAssumption
  <2>3. PICK s \in Samplers : f.to = (f.tag.event % EventTags[s]) % NDestination
    BY <1>t, <1>1 DEF MadeOf
  <2>4. PICK u \in Samplers : g.to = (g.tag.event % EventTags[u]) % NDestination
    BY <1>t, <1>1 DEF MadeOf
  <2> QED BY <2>2, <2>3, <2>4
<1>2. CASE fRoundRobin = "spill"
  <2>1. \A s \in Samplers : SpillTags[s] % NDestination = 0
    BY <1>2 DEF PolicyFits
  <2>2. \A s \in Samplers : (f.tag.spill % SpillTags[s]) % NDestination = f.tag.spill % NDestination
    BY <1>t, <1>m, <2>1, SamplerAssumption
  <2>3. PICK s \in Samplers : f.to = (f.tag.spill % SpillTags[s]) % NDestination
    BY <1>t, <1>2 DEF MadeOf
  <2>4. PICK u \in Samplers : g.to = (g.tag.spill % SpillTags[u]) % NDestination
    BY <1>t, <1>2 DEF MadeOf
  <2> QED BY <2>2, <2>3, <2>4
<1>3. CASE fRoundRobin = "sequence"
  BY <1>t, <1>3 DEF PolicyFits, MadeOf
<1> QED BY <1>t, <1>1, <1>2, <1>3

-----------------------------------------------------------------------------
(* The subscriber. *)

\* The steps of the others.
Still ==
    /\ UNCHANGED <<tagIn, fragments, setup, run, late>>
    /\ subscriber'.state = subscriber.state
    /\ subscriber'.fNSequence = subscriber.fNSequence
    /\ subscriber'.fRunNumber = subscriber.fRunNumber
    /\ broadcaster'.fEventId = broadcaster.fEventId
    /\ broadcaster'.state = "Ready" \/ broadcaster'.state = broadcaster.state
    /\ SubscriberType'

LEMMA StillData ==
  ASSUME TypeOK,
         OwnFrame \/ Move \/ StopRequest \/ StopArrives \/ Broadcaster \/ UNCHANGED vars
  PROVE  Still
<1>t. SubscriberType /\ BroadcasterType
  BY DEF TypeOK
<1>1. CASE UNCHANGED <<broadcaster, subscriberVars, setup, run, late>>
  BY <1>1, <1>t DEF Still, subscriberVars, SubscriberType
<1>2. CASE StopRequest
  BY <1>2, <1>t DEF StopRequest, subscriberVars, Still, SubscriberType, BroadcasterType
<1>3. CASE StopArrives
  <2>1. CASE UNCHANGED subscriberVars
    BY <1>3, <1>t, <2>1 DEF StopArrives, subscriberVars, control, Still, SubscriberType, BroadcasterType
  <2>2. CASE /\ subscriber' = [subscriber EXCEPT !.pending = TRUE]
             /\ UNCHANGED <<broadcaster, fDiscard, tagIn, fragments, samplerVars>>
    BY <1>3, <1>t, <2>2 DEF StopArrives, control, Still, SubscriberType
  <2> QED BY <1>3, <2>1, <2>2 DEF StopArrives
<1>4. CASE Broadcaster
  BY <1>4, <1>t
     DEF Broadcaster, BroadcasterStop, subscriberVars, control, Still, SubscriberType, BroadcasterType
<1>5. OwnFrame \/ Move \/ UNCHANGED vars => UNCHANGED <<broadcaster, subscriberVars, setup, run, late>>
  BY DEF OwnFrame, OtherFrame, Move, control, vars
<1> QED BY <1>1, <1>2, <1>3, <1>4, <1>5

\* A run of the subscriber begins.
LEMMA SubscriberBegins ==
  ASSUME TypeOK, StartRun, setup = "test"
  PROVE  /\ SubscriberType'
         /\ subscriber.state = "Ready" /\ subscriber'.state = "Running"
         /\ subscriber'.fNSequence = 0 /\ subscriber'.fRunNumber = run + 1
         /\ fragments' = <<>> /\ tagIn' = tagIn
<1>1. /\ subscriber.state = "Ready" /\ fragments' = <<>> /\ tagIn' = tagIn /\ run + 1 \in Nat
      /\ subscriber' = [state |-> "Running", pending |-> FALSE, fNSequence |-> 0,
                        fRunNumber |-> run + 1]
  BY DEF TypeOK, StartRun, SubscriberPreRun
<1>2. fragments' \in Seq([tag : TagType, num_sequence : Nat, run_id : Nat])
  BY <1>1, EmptySeq
<1> QED BY <1>1, <1>2 DEF SubscriberType, TypeOK

LEMMA SubscriberTypeStep == ASSUME TypeOK, [Next]_vars PROVE SubscriberType'
<1>t. /\ SubscriberType /\ BroadcasterType /\ SamplerType /\ run \in Nat
      /\ setup \in {"fem", "test"}
  BY DEF TypeOK
<1>1. CASE StartRun
  <2>1. CASE setup = "fem"
    BY <1>1, <1>t, <2>1 DEF StartRun, subscriberVars, SubscriberType
  <2> QED BY <1>1, <1>t, <2>1, SubscriberBegins
<1>2. CASE Broadcast
  <2>1. Tag(run) \in TagType
    BY <1>t, TagIsOne
  <2>2. Publish(Tag(run)) => tagIn' \in Seq(TagType)
    BY <1>t, <2>1, PublishData DEF SubscriberType
  <2>3. \/ UNCHANGED subscriberVars
        \/ Publish(Tag(run)) /\ UNCHANGED <<subscriber, fragments>>
    BY <1>2, <1>t, BroadcastData DEF Triggered
  <2> QED BY <1>t, <2>2, <2>3 DEF SubscriberType, subscriberVars
<1>3. CASE Subscriber
  BY <1>3, <1>t, SubscriberData
<1>4. CASE Still
  BY <1>4 DEF Still
<1> QED BY <1>1, <1>2, <1>3, <1>4, Cases, StillData

LEMMA TypeStep == ASSUME TypeOK, [Next]_vars PROVE TypeOK'
<1>1. BroadcasterType' /\ SubscriberType' /\ SamplerType'
  BY BroadcasterTypeStep, SubscriberTypeStep, SamplerTypeStep
<1>2. setup' \in {"fem", "test"}
  BY DEF TypeOK, Next, StartRun, Broadcast, StopRequest, StopArrives, Subscriber, Broadcaster,
     OtherFrame, Device, Thread, Outside, control, vars
<1>3. run' \in Nat
  BY DEF TypeOK, Next, StartRun, Broadcast, StopRequest, StopArrives, Subscriber, Broadcaster,
     OtherFrame, Device, Thread, Outside, control, vars
<1>4. uneven' \in BOOLEAN
  BY DEF TypeOK, Next, StartRun, Broadcast, Trigger, StopRequest, StopArrives, Subscriber,
     Broadcaster, OtherFrame, Device, Thread, Outside, control, vars
<1>5. late' \in BOOLEAN
  BY DEF TypeOK, Next, StartRun, Broadcast, StopRequest, StopArrives, Subscriber, Broadcaster,
     OtherFrame, Device, Thread, Outside, control, vars
<1> QED BY <1>1, <1>2, <1>3, <1>4, <1>5 DEF TypeOK

LEMMA TurnStep == ASSUME TypeOK, TurnInv, [Next]_vars PROVE TurnInv'
<1>t. /\ SubscriberType /\ BroadcasterType /\ SamplerType /\ run \in Nat
      /\ setup \in {"fem", "test"} /\ broadcaster.state \in {"Ready", "Running"}
      /\ tagIn \in Seq(TagType) /\ fragments \in Seq(Fragment)
  BY DEF TypeOK, BroadcasterType, SubscriberType, Fragment
<1>1. CASE StartRun
  <2>1. setup' = setup /\ run' = run + 1 /\ late' = late
    BY <1>1 DEF StartRun
  <2>2. CASE setup = "fem"
    BY <1>1, <2>1, <2>2 DEF StartRun, subscriberVars, TurnInv
  <2>3. CASE setup = "test"
    <3>1. Len(<<>>) = 0
      OBVIOUS
    <3> QED BY <1>1, <2>1, <2>3, <3>1, SubscriberBegins DEF TurnInv
  <2> QED BY <1>t, <2>2, <2>3
<1>2. CASE Broadcast
  <2>1. UNCHANGED <<setup, run, late>> /\ broadcaster.state = "Running"
        /\ broadcaster'.state = broadcaster.state
    BY <1>2, <1>t, BroadcastData DEF control
  <2>2. CASE UNCHANGED subscriberVars /\ setup = "fem"
    BY <2>1, <2>2 DEF TurnInv, subscriberVars
  <2>3. CASE UNCHANGED <<subscriber, fragments>> /\ setup = "test"
    BY <2>1, <2>3 DEF TurnInv
  <2> QED BY <1>2, <1>t, <2>2, <2>3, BroadcastData DEF Triggered
<1>3. CASE Subscriber
  <2>1. UNCHANGED <<broadcaster, setup, run>>
        /\ late' = (late \/ (subscriber.state = "PostRun" /\ subscriber'.state = "Ready"
                            /\ broadcaster.state = "Running"))
    BY <1>3 DEF Subscriber, control, Running
  <2>2. setup = "test" /\ subscriber.state # "Ready"
    BY <1>3, <1>t, SubscriberData DEF Handled, SubscriberTurns, TurnInv
  <2>3. CASE Handled
    <3>1. /\ subscriber' = [subscriber EXCEPT !.fNSequence = subscriber.fNSequence + 1]
          /\ fragments' = Append(fragments, NewFragment(Head(tagIn))) /\ tagIn # <<>>
      BY <2>3 DEF Handled
    <3>2. NewFragment(Head(tagIn)) \in Fragment
      <4>1. Head(tagIn) \in TagType
        <5> HIDE DEF TagType
        <5> QED BY <1>t, <3>1, HeadTailProperties
      <4> QED BY <1>t, <4>1 DEF NewFragment, Fragment, SubscriberType
    <3>3. Len(fragments') = Len(fragments) + 1
      <4> HIDE DEF Fragment
      <4> QED BY <1>t, <3>1, <3>2, AppendProperties
    <3>4. /\ subscriber'.state = subscriber.state /\ subscriber'.fRunNumber = subscriber.fRunNumber
          /\ subscriber'.fNSequence = subscriber.fNSequence + 1
      BY <1>t, <3>1 DEF SubscriberType
    <3> QED BY <2>1, <2>2, <3>3, <3>4 DEF TurnInv
  <2>4. CASE SubscriberTurns
    BY <1>t, <2>1, <2>2, <2>4 DEF SubscriberTurns, TurnInv
  <2> QED BY <1>3, <1>t, <2>3, <2>4, SubscriberData
<1>4. CASE Still
  BY <1>4 DEF Still, TurnInv
<1> QED BY <1>1, <1>2, <1>3, <1>4, Cases, StillData

\* What the subscriber leaves in the queue was there before.
Popped == tagIn # <<>> /\ tagIn' = Tail(tagIn)
Shift(n) ==
    /\ Len(tagIn') = Len(tagIn) - n
    /\ \A i \in 1 .. Len(tagIn') : tagIn'[i] = tagIn[i + n]

LEMMA QueueMoves ==
  ASSUME SubscriberType, tagIn' = tagIn \/ (tagIn # <<>> /\ tagIn' = Tail(tagIn))
  PROVE  /\ Len(tagIn) \in Nat
         /\ \E n \in 0 .. 1 : Shift(n) /\ (Popped => n = 1)
<1>t. tagIn \in Seq(TagType)
  BY DEF SubscriberType
<1>l. Len(tagIn) \in Nat
  <2> HIDE DEF TagType
  <2> QED BY <1>t, LenProperties
<1>1. CASE tagIn # <<>> /\ tagIn' = Tail(tagIn)
  <2>1. /\ Len(tagIn') = Len(tagIn) - 1 /\ Len(tagIn) \in Nat
        /\ \A i \in 1 .. Len(tagIn) - 1 : tagIn'[i] = tagIn[i + 1]
    <3> HIDE DEF TagType
    <3> QED BY <1>t, <1>1, HeadTailProperties, LenProperties
  <2> QED BY <1>l, <2>1 DEF Shift
<1>2. CASE ~Popped
  <2>1. Len(tagIn') = Len(tagIn) - 0 /\ \A i \in 1 .. Len(tagIn') : tagIn'[i] = tagIn[i + 0]
    BY <1>2, <1>l DEF Popped
  <2> QED BY <1>2, <1>l, <2>1 DEF Shift
<1> QED BY <1>1, <1>2 DEF Popped

\* A tag that is published is the last, and the newest.
LEMMA QueueGrows ==
  ASSUME TypeOK, Publish(Tag(run))
  PROVE  /\ Len(tagIn) \in Nat
         /\ \/ tagIn' = tagIn
            \/ /\ Len(tagIn') = Len(tagIn) + 1
               /\ \A i \in 1 .. Len(tagIn) : tagIn'[i] = tagIn[i]
               /\ tagIn'[Len(tagIn) + 1] = Tag(run)
<1>1. tagIn \in Seq(TagType) /\ Tag(run) \in TagType
  BY TagIsOne DEF TypeOK, SubscriberType
<1>2. tagIn' = tagIn \/ tagIn' = Append(tagIn, Tag(run))
  BY <1>1, PublishData
<1> HIDE DEF TagType
<1> QED BY <1>1, <1>2, AppendProperties, LenProperties

LEMMA QueueStep == ASSUME TypeOK, TurnInv, QueueInv, [Next]_vars PROVE QueueInv'
<1>t. /\ SubscriberType /\ BroadcasterType /\ SamplerType /\ run \in Nat
      /\ setup \in {"fem", "test"} /\ broadcaster.fEventId \in Nat
  BY DEF TypeOK, BroadcasterType
<1>e. ASSUME NEW i \in 1 .. Len(tagIn) PROVE tagIn[i].event \in Nat
  <2>1. tagIn[i] \in TagType
    <3> HIDE DEF TagType
    <3> QED BY <1>t, LenProperties DEF SubscriberType
  <2> QED BY <2>1 DEF TagType
<1>1. CASE StartRun
  <2>1. late' = late
    BY <1>1 DEF StartRun
  <2>2. ~late => tagIn' = <<>>
    <3>1. CASE setup = "fem"
      BY <1>1, <3>1 DEF StartRun, subscriberVars, TurnInv
    <3> QED BY <1>1, <1>t, <3>1, SubscriberBegins DEF TurnInv
  <2>3. Len(<<>>) = 0
    OBVIOUS
  <2> QED BY <2>1, <2>2, <2>3 DEF QueueInv
<1>2. CASE Broadcast
  <2>1. UNCHANGED <<run, late>> /\ broadcaster'.fEventId = broadcaster.fEventId + 1
    BY <1>2, <1>t, BroadcastData DEF control
  <2>2. CASE tagIn' = tagIn
    <3>1. ASSUME NEW i \in 1 .. Len(tagIn), ~late PROVE tagIn[i].event < broadcaster'.fEventId
      BY <1>t, <1>e, <2>1, <3>1 DEF QueueInv
    <3> QED BY <2>1, <2>2, <3>1 DEF QueueInv
  <2>3. CASE Publish(Tag(run)) /\ tagIn' # tagIn
    <3>1. /\ Len(tagIn') = Len(tagIn) + 1 /\ Len(tagIn) \in Nat
          /\ \A i \in 1 .. Len(tagIn) : tagIn'[i] = tagIn[i]
          /\ tagIn'[Len(tagIn) + 1] = Tag(run)
          /\ Tag(run).run = run /\ Tag(run).event = broadcaster.fEventId
      BY <1>t, <2>3, QueueGrows, TagIsOne
    <3>2. ASSUME NEW i \in 1 .. Len(tagIn'), ~late
          PROVE  /\ tagIn'[i].run = run
                 /\ tagIn'[i].event < broadcaster.fEventId + 1
                 /\ \A j \in 1 .. i - 1 : tagIn'[j].event < tagIn'[i].event
      <4>1. CASE i \in 1 .. Len(tagIn)
        <5>1. \A j \in 1 .. i - 1 : tagIn'[j] = tagIn[j]
          BY <3>1, <4>1
        <5> QED BY <1>t, <1>e, <3>1, <3>2, <4>1, <5>1 DEF QueueInv
      <4>2. CASE i = Len(tagIn) + 1
        <5>1. \A j \in 1 .. i - 1 : j \in 1 .. Len(tagIn) /\ tagIn'[j] = tagIn[j]
          BY <3>1, <4>2
        <5> QED BY <1>t, <3>1, <3>2, <4>2, <5>1 DEF QueueInv
      <4> QED BY <3>1, <4>1, <4>2
    <3> QED BY <2>1, <3>2 DEF QueueInv
  <2> QED BY <1>2, <1>t, <2>2, <2>3, BroadcastData DEF Triggered, subscriberVars
<1>3. CASE Subscriber
  <2>1. UNCHANGED <<broadcaster, run>> /\ (~late' => ~late)
    BY <1>3 DEF Subscriber, control
  <2>2. tagIn' = tagIn \/ (tagIn # <<>> /\ tagIn' = Tail(tagIn))
    BY <1>3, <1>t, SubscriberData DEF Handled, SubscriberTurns
  <2>3. PICK n \in 0 .. 1 : Shift(n)
    BY <1>t, <2>2, QueueMoves
  <2>4. Len(tagIn) \in Nat
    BY <1>t, <2>2, QueueMoves
  <2>5. ASSUME NEW i \in 1 .. Len(tagIn'), ~late
        PROVE  /\ tagIn'[i].run = run
               /\ tagIn'[i].event < broadcaster.fEventId
               /\ \A j \in 1 .. i - 1 : tagIn'[j].event < tagIn'[i].event
    <3>1. i + n \in 1 .. Len(tagIn) /\ tagIn'[i] = tagIn[i + n]
      BY <2>3, <2>4 DEF Shift
    <3>2. \A j \in 1 .. i - 1 : j + n \in 1 .. (i + n) - 1 /\ tagIn'[j] = tagIn[j + n]
      BY <2>3, <2>4 DEF Shift
    <3> QED BY <2>5, <3>1, <3>2 DEF QueueInv
  <2> QED BY <2>1, <2>5 DEF QueueInv
<1>4. CASE Still
  BY <1>4 DEF Still, QueueInv
<1> QED BY <1>1, <1>2, <1>3, <1>4, Cases, StillData

LEMMA FragmentStep ==
  ASSUME TypeOK, TurnInv, QueueInv, FragmentInv, [Next]_vars
  PROVE  FragmentInv'
<1>t. /\ SubscriberType /\ BroadcasterType /\ SamplerType /\ run \in Nat
      /\ setup \in {"fem", "test"} /\ broadcaster.fEventId \in Nat
      /\ tagIn \in Seq(TagType) /\ fragments \in Seq(Fragment)
  BY DEF TypeOK, BroadcasterType, SubscriberType, Fragment
<1>e. ASSUME NEW i \in 1 .. Len(fragments) PROVE fragments[i].tag.event \in Nat
  <2>1. fragments[i] \in Fragment
    <3> HIDE DEF Fragment
    <3> QED BY <1>t, LenProperties
  <2> QED BY <2>1 DEF Fragment, TagType
<1>1. CASE StartRun
  <2>1. fragments' = <<>>
    <3>1. CASE setup = "fem"
      BY <1>1, <3>1 DEF StartRun, subscriberVars, TurnInv
    <3> QED BY <1>1, <1>t, <3>1, SubscriberBegins
  <2>2. Len(<<>>) = 0
    OBVIOUS
  <2> QED BY <2>1, <2>2 DEF FragmentInv
<1>2. CASE Broadcast
  <2>1. UNCHANGED <<fragments, late>> /\ broadcaster'.fEventId = broadcaster.fEventId + 1
    BY <1>2, <1>t, BroadcastData DEF control, Triggered, subscriberVars
  <2>2. ASSUME NEW i \in 1 .. Len(fragments), ~late
        PROVE  fragments[i].tag.event < broadcaster'.fEventId
    BY <1>t, <1>e, <2>1, <2>2 DEF FragmentInv
  <2>3. ASSUME NEW i \in 1 .. Len(fragments), ~late, NEW k \in 1 .. Len(tagIn')
        PROVE  fragments[i].tag.event < tagIn'[k].event
    <3>1. CASE tagIn' = tagIn
      BY <2>3, <3>1 DEF FragmentInv
    <3>2. CASE Publish(Tag(run)) /\ tagIn' # tagIn
      <4>1. /\ Len(tagIn') = Len(tagIn) + 1 /\ Len(tagIn) \in Nat
            /\ \A j \in 1 .. Len(tagIn) : tagIn'[j] = tagIn[j]
            /\ tagIn'[Len(tagIn) + 1].event = broadcaster.fEventId
        BY <1>t, <3>2, QueueGrows, TagIsOne
      <4>2. k \in 1 .. Len(tagIn) \/ k = Len(tagIn) + 1
        BY <4>1
      <4> QED BY <2>3, <4>1, <4>2 DEF FragmentInv
    <3> QED BY <1>2, <1>t, <3>1, <3>2, BroadcastData DEF Triggered, subscriberVars
  <2> QED BY <2>1, <2>2, <2>3 DEF FragmentInv
<1>3. CASE Subscriber
  <2>1. UNCHANGED broadcaster /\ (~late' => ~late)
    BY <1>3 DEF Subscriber
  <2>2. tagIn' = tagIn \/ (tagIn # <<>> /\ tagIn' = Tail(tagIn))
    BY <1>3, <1>t, SubscriberData DEF Handled, SubscriberTurns
  <2>3. PICK n \in 0 .. 1 : Shift(n) /\ (Popped => n = 1)
    BY <1>t, <2>2, QueueMoves
  <2>4. Len(tagIn) \in Nat
    BY <1>t, <2>2, QueueMoves
  <2>5. \A k \in 1 .. Len(tagIn') : k + n \in 1 .. Len(tagIn) /\ tagIn'[k] = tagIn[k + n]
    <3>1. ASSUME NEW k \in 1 .. Len(tagIn')
          PROVE  k + n \in 1 .. Len(tagIn) /\ tagIn'[k] = tagIn[k + n]
      <4>1. Shift(n)
        BY <2>3
      <4> QED BY <2>4, <4>1 DEF Shift
    <3> QED BY <3>1
  <2>6. CASE SubscriberTurns
    <3>1. fragments' = fragments
      BY <2>6 DEF SubscriberTurns
    <3> QED BY <2>1, <2>5, <3>1 DEF FragmentInv
  <2>7. CASE Handled
    <3>1. n = 1 /\ tagIn # <<>> /\ subscriber.state # "Ready"
      BY <2>3, <2>7 DEF Handled, Popped
    <3>2. Head(tagIn) \in TagType /\ Head(tagIn) = tagIn[1] /\ 1 \in 1 .. Len(tagIn)
      <4> HIDE DEF TagType
      <4> QED BY <1>t, <3>1, HeadTailProperties, LenProperties, EmptySeq
    <3> DEFINE f == NewFragment(Head(tagIn))
    <3>3. f \in Fragment
      BY <1>t, <3>2 DEF NewFragment, Fragment, SubscriberType
    <3>4. /\ Len(fragments') = Len(fragments) + 1 /\ Len(fragments) \in Nat
          /\ \A i \in 1 .. Len(fragments) : fragments'[i] = fragments[i]
          /\ fragments'[Len(fragments) + 1] = f
      <4>1. fragments' = Append(fragments, f)
        BY <2>7 DEF Handled
      <4> HIDE DEF f, Fragment
      <4> QED BY <1>t, <3>3, <4>1, AppendProperties, LenProperties
    <3>5. f.num_sequence = subscriber.fNSequence /\ f.run_id = subscriber.fRunNumber
          /\ f.tag = tagIn[1]
      BY <3>2 DEF NewFragment
    <3> HIDE DEF f
    <3>6. ASSUME ~late
          PROVE  /\ f.num_sequence = Len(fragments) /\ f.tag.run = f.run_id
                 /\ f.tag.event < broadcaster.fEventId
                 /\ \A j \in 1 .. Len(fragments) : fragments[j].tag.event < f.tag.event
                 /\ \A k \in 1 .. Len(tagIn') : f.tag.event < tagIn'[k].event
      <4>1. f.num_sequence = Len(fragments) /\ f.tag.run = f.run_id
            /\ f.tag.event < broadcaster.fEventId
        BY <3>1, <3>2, <3>5, <3>6 DEF TurnInv, QueueInv
      <4>2. \A j \in 1 .. Len(fragments) : fragments[j].tag.event < f.tag.event
        BY <3>2, <3>5, <3>6 DEF FragmentInv
      <4>3. ASSUME NEW k \in 1 .. Len(tagIn') PROVE f.tag.event < tagIn'[k].event
        <5>1. k + 1 \in 1 .. Len(tagIn) /\ tagIn'[k] = tagIn[k + 1] /\ 1 \in 1 .. (k + 1) - 1
          BY <2>5, <3>1
        <5> QED BY <3>5, <3>6, <5>1 DEF QueueInv
      <4> QED BY <4>1, <4>2, <4>3
    <3>7. ASSUME NEW i \in 1 .. Len(fragments'), ~late
          PROVE  /\ fragments'[i].num_sequence = i - 1
                 /\ fragments'[i].tag.run = fragments'[i].run_id
                 /\ fragments'[i].tag.event < broadcaster.fEventId
                 /\ \A j \in 1 .. i - 1 : fragments'[j].tag.event < fragments'[i].tag.event
                 /\ \A k \in 1 .. Len(tagIn') : fragments'[i].tag.event < tagIn'[k].event
      <4>1. CASE i \in 1 .. Len(fragments)
        <5>1. \A j \in 1 .. i - 1 : fragments'[j] = fragments[j]
          BY <3>4, <4>1
        <5>2. \A k \in 1 .. Len(tagIn') : fragments[i].tag.event < tagIn'[k].event
          BY <2>5, <3>7, <4>1 DEF FragmentInv
        <5> QED BY <3>4, <3>7, <4>1, <5>1, <5>2 DEF FragmentInv
      <4>2. CASE i = Len(fragments) + 1
        <5>1. \A j \in 1 .. i - 1 : j \in 1 .. Len(fragments) /\ fragments'[j] = fragments[j]
          BY <3>4, <4>2
        <5> QED BY <3>4, <3>6, <3>7, <4>2, <5>1
      <4> QED BY <3>4, <4>1, <4>2
    <3> QED BY <2>1, <3>7 DEF FragmentInv
  <2> QED BY <1>3, <1>t, <2>6, <2>7, SubscriberData
<1>4. CASE Still
  BY <1>4 DEF Still, FragmentInv
<1> QED BY <1>1, <1>2, <1>3, <1>4, Cases, StillData

-----------------------------------------------------------------------------
(* The theorems. *)

LEMMA InitIInv == ASSUME Init PROVE IInv
<1>1. BroadcasterType
  BY DEF Init, BroadcasterInit, BroadcasterType
<1>2. subscriber = [state |-> "Ready", pending |-> FALSE, fNSequence |-> 0, fRunNumber |-> 0]
      /\ tagIn = <<>> /\ fragments = <<>> /\ Len(<<>>) = 0
  BY DEF Init, SubscriberInit
<1>3. SubscriberType
  <2>1. <<>> \in Seq(TagType) /\ <<>> \in Seq([tag : TagType, num_sequence : Nat, run_id : Nat])
    BY EmptySeq
  <2> QED BY <1>2, <2>1 DEF SubscriberType
<1>4. /\ fRoundRobin \in {"event", "spill", "sequence"}
      /\ sampler = [s \in Samplers |-> Off] /\ fem = [s \in Samplers |-> <<>>] /\ sent = {}
  BY SamplerAssumption DEF Init, SamplerInit
<1>5. Off \in Kind /\ Off.pc = "Ready"
  BY DEF Off, Kind
<1>6. SamplerType
  BY <1>4, <1>5, EmptySeq DEF SamplerType, Kind
<1>7. TypeOK
  BY <1>1, <1>3, <1>6 DEF Init, TypeOK
<1>8. ReadyInv /\ CountInv /\ DirectionInv
  BY <1>4, <1>5 DEF ReadyInv, CountInv, DirectionInv
<1>9. TurnInv
  BY <1>2 DEF TurnInv, Init, BroadcasterInit
<1>10. QueueInv /\ FragmentInv
  BY <1>2 DEF QueueInv, FragmentInv
<1> QED BY <1>7, <1>8, <1>9, <1>10 DEF IInv

LEMMA AlwaysIInv == Spec => []IInv
<1>1. Init => IInv
  BY InitIInv
<1>2. ASSUME IInv, [Next]_vars PROVE IInv'
  BY <1>2, TypeStep, ReadyStep, CountStep, DirectionStep, TurnStep, QueueStep, FragmentStep DEF IInv
<1> QED BY <1>1, <1>2, PTL DEF Spec

\* The counters, the queues and the devices always are of their types.
THEOREM TypeCorrect == Spec => []TypeOK
<1>1. IInv => TypeOK
  BY DEF IInv
<1> QED BY <1>1, AlwaysIInv, PTL

\* Each sampler of e16 chooses the builder by itself, from the bits of the tag its
\* hardware has or from its own count; all choose the same one, if the number of
\* builders divides what the tags tell apart, or if every front end has seen the
\* same frames, in every order of the devices, the stops and the failures.
THEOREM FragmentsAlwaysMeet == Spec => []FragmentsMeet
<1>1. IInv => FragmentsMeet
  BY MeetInvImplies DEF IInv
<1> QED BY <1>1, AlwaysIInv, PTL

\* The test sampler numbers its fragments without a gap and makes them of the tags
\* of its run only, in their order, however many tags its queue has dropped, if
\* the broadcaster stops before the subscriber's PostRun is over.
THEOREM TagsAreOfThisRun == Spec => []TagsOfThisRun
<1>1. ASSUME IInv, ~late, NEW i \in DOMAIN fragments
      PROVE  /\ fragments[i].tag.run = fragments[i].run_id
             /\ fragments[i].num_sequence = i - 1
             /\ \A j \in DOMAIN fragments : i < j =>
                    fragments[i].tag.event < fragments[j].tag.event
  <2>1. DOMAIN fragments = 1 .. Len(fragments) /\ Len(fragments) \in Nat
    BY <1>1, LenProperties DEF IInv, TypeOK, SubscriberType
  <2>2. \A j \in DOMAIN fragments : i < j => i \in 1 .. j - 1
    BY <2>1
  <2> QED BY <1>1, <2>1, <2>2 DEF IInv, FragmentInv
<1>2. IInv => TagsOfThisRun
  BY <1>1 DEF TagsOfThisRun
<1> QED BY <1>2, AlwaysIInv, PTL

-----------------------------------------------------------------------------
(* The watchdog: the changes of a look are handled from the first to the last. *)

\* The change in hand is one of those that are left.
LEMMA FirstIsOne ==
  ASSUME NEW S \in SUBSET Nat, S # {}
  PROVE  First(S) \in S
  BY LeastNatural DEF First

-----------------------------------------------------------------------------
(* The inductive invariant of the watchdog. *)

InHand == {"Find", "Stop", "Script", "Run", "Wait"}

\* The hash was looked at when there are changes to handle, and the field that
\* may be stopped is the first of them.
HandInv ==
    /\ last_hash = NoHash => last_changed_field = NoField
    /\ doing = "Down" => last_hash = NoHash
    /\ doing \in InHand \union {"Count"} => changed_fields # {} /\ last_hash # NoHash
    /\ doing \in InHand => last_changed_field = First(changed_fields)
    /\ doing \in {"Down", "Listen", "Read", "Count"} => consecutive_field_count < Threshold

\* The watchdog knows the hash, or a notification will make it look; a field it
\* does not know has changed since it looked.
HashInv ==
    /\ (Subscribed /\ last_hash # NoHash /\ last_hash # hash) => doing = "Read" \/ notices # <<>>
    /\ last_hash # NoHash => \A f \in Fields : last_hash[f] # hash[f] => unread[f] > 0

\* A change that is left to do really happened, but for the first look; a field
\* that this look finds unchanged is not the one that is counted.
CountedInv ==
    /\ CountIsEarned
    /\ doing = "Count" => \A f \in changed_fields : looked[f] > 0 \/ f # last_changed_field

WatchdogInv == WatchdogTypeOK /\ HandInv /\ HashInv /\ CountedInv /\ StoppedIsInHand

-----------------------------------------------------------------------------
(* Types. *)

\* What a step that takes the next change leaves.
LEMMA NextChangeType ==
  ASSUME WatchdogTypeOK, changed_fields # {}, NextChange
  PROVE  /\ First(changed_fields) \in changed_fields
         /\ First(changed_fields) \in Fields
         /\ changed_fields' \subseteq changed_fields \ {First(changed_fields)}
         /\ doing' = IF changed_fields' = {} THEN "Listen" ELSE "Count"
  BY FirstIsOne, WatchdogAssumption DEF WatchdogTypeOK, NextChange

LEMMA WatchdogTypeStep == ASSUME WatchdogTypeOK, HandInv, [WatchdogNext]_watchdogVars PROVE WatchdogTypeOK'
<1> USE WatchdogAssumption
<1>1. ASSUME NEW f \in Fields, NEW v \in Values, WriteHash(f, v) PROVE WatchdogTypeOK'
  <2>1. hash' \in Hash
    BY <1>1 DEF WriteHash, WatchdogTypeOK, Hash
  <2>2. notices' \in Seq({"hset", "hdel"})
    BY <1>1, AppendProperties DEF WriteHash, WatchdogTypeOK
  <2>3. unread' \in [Fields -> Nat]
    <3>1. unread \in [Fields -> Nat]
      BY DEF WatchdogTypeOK
    <3> QED BY <1>1, <3>1 DEF WriteHash
  <2>4. /\ writes' = writes + 1
        /\ UNCHANGED <<commands, errors, doing, last_hash, changed_fields, counting, looked, seen>>
    BY <1>1 DEF WriteHash
  <2> QED BY <2>1, <2>2, <2>3, <2>4 DEF WatchdogTypeOK, counting
<1>2. CASE Tick
  BY <1>2 DEF Tick, WatchdogTypeOK, external, history
<1>3. CASE ConnectionError
  <2>1. commands' \in [Fields -> {"RUN", "STOP"}]
    BY <1>3 DEF ConnectionError, Told, WatchdogTypeOK
  <2>2. notices' \in Seq({"hset", "hdel"})
    BY <1>3 DEF ConnectionError
  <2>3. unread' \in [Fields -> Nat] /\ looked' \in [Fields -> Nat]
    BY <1>3 DEF ConnectionError, None
  <2>4. last_hash' \in Hash \union {NoHash}
    BY <1>3 DEF ConnectionError
  <2>5. /\ UNCHANGED <<hash, writes>> /\ errors' = errors + 1 /\ doing' = "Down"
        /\ changed_fields' = {} /\ last_changed_field' = NoField
        /\ consecutive_field_count' = 0 /\ recent' = FALSE /\ seen' = 0
    BY <1>3 DEF ConnectionError
  <2>6. 0 \in 0 .. Threshold /\ {} \subseteq Fields /\ NoField \in Fields \union {NoField}
    OBVIOUS
  <2>7. writes' \in Nat /\ errors' \in Nat /\ seen' \in Nat /\ hash' \in Hash
    BY <2>5 DEF WatchdogTypeOK
  <2>8. /\ consecutive_field_count' \in 0 .. Threshold /\ recent' \in BOOLEAN
        /\ last_changed_field' \in Fields \union {NoField} /\ changed_fields' \subseteq Fields
    BY <2>5, <2>6
  <2> QED BY <2>1, <2>2, <2>3, <2>4, <2>5, <2>7, <2>8 DEF WatchdogTypeOK
<1>4. CASE Subscribe
  BY <1>4 DEF Subscribe, WatchdogTypeOK, external, counting, history
<1>5. CASE Listen
  <2>1. notices' \in Seq({"hset", "hdel"})
    BY <1>5, HeadTailProperties DEF Listen, WatchdogTypeOK
  <2> QED BY <1>5, <2>1 DEF Listen, WatchdogTypeOK, external, counting, history
<1>6. CASE Read
  <2>1. changed_fields' \subseteq Fields
    BY <1>6 DEF Read, get_changed_fields
  <2>2. None \in [Fields -> Nat]
    BY DEF None
  <2> QED BY <1>6, <2>1, <2>2 DEF Read, WatchdogTypeOK, external, counting
<1>7. CASE Count
  <2> DEFINE f == First(changed_fields)
             count == IF IsConsecutive(f) THEN consecutive_field_count + 1 ELSE 1
  <2>1. f \in Fields
    BY <1>7, FirstIsOne DEF Count, HandInv, WatchdogTypeOK
  <2>2. count \in 1 .. Threshold
    BY <1>7 DEF Count, HandInv, WatchdogTypeOK
  <2>3. consecutive_field_count' \in 0 .. Threshold /\ seen' \in Nat
    BY <1>7, <2>1, <2>2 DEF Count, WatchdogTypeOK
  <2>4. changed_fields' \subseteq Fields /\ doing' \in {"Find", "Listen", "Count"}
    BY <1>7 DEF Count, WatchdogTypeOK, NextChange
  <2> HIDE DEF f, count
  <2>5. last_changed_field' = f /\ recent' = TRUE
    BY <1>7 DEF Count, f
  <2> QED BY <1>7, <2>1, <2>3, <2>4, <2>5 DEF Count, WatchdogTypeOK, external
<1>8. CASE Done
  <2>1. changed_fields' \subseteq Fields /\ doing' \in {"Listen", "Count"}
    BY <1>8 DEF Done, NextChange, WatchdogTypeOK
  <2>2. /\ consecutive_field_count' = 0 /\ seen' = 0
        /\ UNCHANGED <<external, notices, last_hash, last_changed_field, recent, unread, looked>>
    BY <1>8 DEF Done
  <2> QED BY <2>1, <2>2 DEF WatchdogTypeOK, external
<1>9. CASE Find \/ run_script \/ ScriptMissing
  <2>1. /\ doing' \in {"Stop", "Run", "Dead"}
        /\ UNCHANGED <<external, notices, last_hash, changed_fields, counting, history>>
    BY <1>9 DEF Find, run_script, ScriptMissing
  <2> QED BY <2>1 DEF WatchdogTypeOK, external, counting, history
<1>10. CASE PublishStop \/ PublishRun
  <2>1. commands' \in [Fields -> {"RUN", "STOP"}]
    BY <1>10 DEF PublishStop, PublishRun, Told, WatchdogTypeOK
  <2>2. /\ doing' \in {"Script", "Wait"}
        /\ UNCHANGED <<hash, writes, errors, notices, last_hash, changed_fields, counting, history>>
    BY <1>10 DEF PublishStop, PublishRun
  <2> QED BY <2>1, <2>2 DEF WatchdogTypeOK, counting, history
<1>11. CASE UNCHANGED watchdogVars
  BY <1>11 DEF watchdogVars, WatchdogTypeOK, external, counting, history
<1> QED
  BY <1>1, <1>2, <1>3, <1>4, <1>5, <1>6, <1>7, <1>8, <1>9, <1>10, <1>11
  DEF WatchdogNext, WatchdogStep, FindNone, state_wait

-----------------------------------------------------------------------------
(* The change in hand. *)

LEMMA HandStep == ASSUME WatchdogTypeOK, HandInv, [WatchdogNext]_watchdogVars PROVE HandInv'
<1> USE WatchdogAssumption DEF HandInv, InHand
<1>1. CASE UNCHANGED <<doing, last_hash, changed_fields, last_changed_field, consecutive_field_count>>
  BY <1>1
<1>2. CASE ConnectionError
  BY <1>2 DEF ConnectionError
<1>3. CASE Subscribe \/ Listen
  BY <1>3 DEF Subscribe, Listen, counting
<1>4. CASE Read
  <2>1. hash = NoHash => Fields = {}
    BY DEF NoHash, WatchdogTypeOK, Hash
  <2>2. changed_fields' # {} => hash # NoHash
    BY <1>4, <2>1 DEF Read, get_changed_fields
  <2>3. hash = NoHash => last_changed_field = NoField
    BY <2>1 DEF WatchdogTypeOK
  <2> QED BY <1>4, <2>2, <2>3 DEF Read, counting
<1>5. CASE Count
  <2> DEFINE f == First(changed_fields)
             count == IF IsConsecutive(f) THEN consecutive_field_count + 1 ELSE 1
  <2>1. last_hash' # NoHash /\ last_changed_field' = f /\ count \in Nat
    BY <1>5 DEF Count, WatchdogTypeOK
  <2>2. CASE count >= Threshold /\ ~Skipped(f)
    <3>1. doing' = "Find" /\ changed_fields' = changed_fields /\ changed_fields # {}
      BY <1>5, <2>2 DEF Count
    <3>2. last_changed_field' = First(changed_fields')
      BY <2>1, <3>1
    <3> HIDE DEF f, count
    <3> QED BY <2>1, <3>1, <3>2
  <2>3. CASE ~(count >= Threshold /\ ~Skipped(f))
    <3>1. /\ NextChange
          /\ consecutive_field_count' = IF count >= Threshold /\ Skipped(f) THEN 0 ELSE count
      BY <1>5, <2>3 DEF Count
    <3>2. consecutive_field_count' < Threshold
      BY <2>1, <2>3, <3>1
    <3>3. doing' = IF changed_fields' = {} THEN "Listen" ELSE "Count"
      BY <3>1 DEF NextChange
    <3> QED BY <2>1, <3>2, <3>3
  <2> QED BY <2>2, <2>3
<1>6. CASE (FindNone \/ state_wait)
  BY <1>6 DEF FindNone, state_wait, Done, NextChange
<1>7. CASE Find \/ PublishStop \/ run_script \/ PublishRun \/ ScriptMissing
  BY <1>7 DEF Find, PublishStop, run_script, PublishRun, ScriptMissing, counting
<1>8. \/ UNCHANGED <<doing, last_hash, changed_fields, last_changed_field, consecutive_field_count>>
      \/ ConnectionError \/ ScriptMissing \/ WatchdogStep
  BY Zenon DEF WatchdogNext, watchdogVars, WriteHash, Tick, counting
<1> QED
  BY <1>1, <1>2, <1>3, <1>4, <1>5, <1>6, <1>7, <1>8 DEF WatchdogStep

-----------------------------------------------------------------------------
(* What is known of the hash. *)

LEMMA HashStep == ASSUME WatchdogTypeOK, HandInv, HashInv, [WatchdogNext]_watchdogVars PROVE HashInv'
<1> USE DEF HashInv, Subscribed
<1>1. ASSUME NEW f \in Fields, NEW v \in Values, WriteHash(f, v) PROVE HashInv'
  <2>1. UNCHANGED <<doing, last_hash>>
    BY <1>1 DEF WriteHash
  <2>2. Subscribed => notices' # <<>>
    BY <1>1, AppendProperties, EmptySeq DEF WriteHash, WatchdogTypeOK
  <2>3. ASSUME NEW g \in Fields, last_hash # NoHash, last_hash[g] # hash'[g]
        PROVE  unread'[g] > 0
    <3>1. CASE g = f /\ hash[f] # v
      BY <1>1, <3>1 DEF WriteHash, WatchdogTypeOK
    <3>2. CASE ~(g = f /\ hash[f] # v)
      <4>1. hash'[g] = hash[g] /\ unread'[g] = unread[g]
        BY <1>1, <3>2 DEF WriteHash, WatchdogTypeOK, Hash
      <4> QED BY <4>1, <2>3
    <3> QED BY <3>1, <3>2
  <2> QED BY <2>1, <2>2, <2>3
<1>2. CASE ConnectionError
  BY <1>2 DEF ConnectionError
<1>3. CASE Subscribe
  BY <1>3 DEF Subscribe, external, history, HandInv
<1>4. CASE Listen
  <2>1. Head(notices) \in Events
    BY <1>4, HeadTailProperties DEF Listen, WatchdogTypeOK, Events
  <2> QED BY <1>4, <2>1 DEF Listen, external, history
<1>5. CASE Read
  BY <1>5 DEF Read, external
<1>6. CASE Count \/ FindNone \/ state_wait
  <2>1. doing \notin {"Read", "Down", "Dead"} /\ UNCHANGED <<external, notices, last_hash, unread>>
    BY <1>6 DEF Count, FindNone, state_wait, Done
  <2> QED BY <2>1 DEF external
<1>7. CASE Find \/ PublishStop \/ run_script \/ PublishRun \/ ScriptMissing
  <2>1. /\ doing \notin {"Read", "Down", "Dead"}
        /\ UNCHANGED <<hash, notices, last_hash, unread>>
    BY <1>7 DEF Find, PublishStop, run_script, PublishRun, ScriptMissing, external, history
  <2> QED BY <2>1
<1>8. CASE Tick \/ UNCHANGED watchdogVars
  <2>1. UNCHANGED <<hash, doing, notices, last_hash, unread>>
    BY <1>8 DEF Tick, watchdogVars, external, history
  <2> QED BY <2>1
<1> QED
  BY <1>1, <1>2, <1>3, <1>4, <1>5, <1>6, <1>7, <1>8 DEF WatchdogNext, WatchdogStep

-----------------------------------------------------------------------------
(* What is counted. *)

LEMMA CountedStep ==
  ASSUME WatchdogTypeOK, HandInv, HashInv, CountedInv, [WatchdogNext]_watchdogVars PROVE CountedInv'
<1> USE DEF CountedInv, CountIsEarned
<1>1. CASE UNCHANGED <<doing, changed_fields, last_changed_field, consecutive_field_count, looked, seen>>
  BY <1>1
<1>2. CASE ConnectionError
  BY <1>2 DEF ConnectionError
<1>3. CASE Subscribe \/ Listen
  BY <1>3 DEF Subscribe, Listen, counting, history
<1>4. CASE Read
  <2>1. UNCHANGED <<seen, consecutive_field_count, last_changed_field>> /\ looked' = unread
    BY <1>4 DEF Read, counting
  <2>2. ASSUME NEW f \in changed_fields' PROVE unread[f] > 0 \/ f # last_changed_field
    <3>1. f \in get_changed_fields(last_hash, hash)
      BY <1>4, <2>2 DEF Read
    <3>2. CASE last_hash = NoHash
      BY <3>1, <3>2, WatchdogAssumption DEF HandInv, get_changed_fields, NoField
    <3>3. CASE last_hash # NoHash
      BY <3>1, <3>3 DEF HashInv, get_changed_fields
    <3> QED BY <3>2, <3>3
  <2> QED BY <2>1, <2>2
<1>5. CASE Count
  <2> DEFINE f == First(changed_fields)
             count == IF IsConsecutive(f) THEN consecutive_field_count + 1 ELSE 1
             skip == count >= Threshold /\ Skipped(f)
  <2>1. f \in changed_fields /\ f \in Fields /\ looked[f] \in Nat
    BY <1>5, FirstIsOne, WatchdogAssumption DEF Count, HandInv, WatchdogTypeOK
  <2>2. /\ last_changed_field' = f /\ looked' = looked
        /\ consecutive_field_count' = IF skip THEN 0 ELSE count
        /\ seen' = IF skip THEN 0 ELSE looked[f] + (IF f = last_changed_field THEN seen ELSE 0)
    BY <1>5 DEF Count
  <2>3. f = last_changed_field => looked[f] > 0
    BY <1>5, <2>1 DEF Count
  <2>4. count <= looked[f] + (IF f = last_changed_field THEN seen ELSE 0) + 1
    BY <2>1, <2>3 DEF IsConsecutive, WatchdogTypeOK
  <2>5. CountIsEarned'
    <3> HIDE DEF count, f
    <3> QED BY <2>2, <2>4
  <2>6. ASSUME doing' = "Count" PROVE f \notin changed_fields' /\ changed_fields' \subseteq changed_fields
    BY <1>5, <2>6 DEF Count, NextChange
  <2> QED BY <2>2, <2>5, <2>6
<1>6. CASE FindNone \/ state_wait
  <2>1. /\ consecutive_field_count' = 0 /\ seen' = 0
        /\ last_changed_field' = last_changed_field /\ looked' = looked
        /\ changed_fields' = changed_fields \ {last_changed_field}
    BY <1>6 DEF FindNone, state_wait, Done, NextChange, HandInv, InHand
  <2> QED BY <2>1
<1>7. CASE Find \/ PublishStop \/ run_script \/ PublishRun \/ ScriptMissing
  <2>1. doing' # "Count" /\ UNCHANGED <<consecutive_field_count, seen>>
    BY <1>7 DEF Find, PublishStop, run_script, PublishRun, ScriptMissing, counting, history
  <2> QED BY <2>1
<1>8. \/ UNCHANGED <<doing, changed_fields, last_changed_field, consecutive_field_count, looked, seen>>
      \/ ConnectionError \/ ScriptMissing \/ WatchdogStep
  BY Zenon DEF WatchdogNext, watchdogVars, WriteHash, Tick, counting, history
<1> QED
  BY <1>1, <1>2, <1>3, <1>4, <1>5, <1>6, <1>7, <1>8 DEF WatchdogStep

-----------------------------------------------------------------------------
(* Who is stopped. *)

Stopped == {f \in Fields : commands[f] = "STOP"}
Hand    == IF doing \in {"Script", "Run", "Dead"} THEN {last_changed_field} ELSE {}

\* A step that leaves no other sampler stopped.
LEMMA NoneStopped ==
  ASSUME StoppedIsInHand, errors \in Nat, errors' = errors,
         (Stopped \ Hand)' \subseteq Stopped \ Hand
  PROVE  StoppedIsInHand'
<1>1. IsFiniteSet(Stopped \ Hand)
  BY WatchdogAssumption, FS_Subset DEF Stopped
<1>2. /\ Cardinality((Stopped \ Hand)') <= Cardinality(Stopped \ Hand)
      /\ Cardinality(Stopped \ Hand) \in Nat /\ Cardinality((Stopped \ Hand)') \in Nat
  BY <1>1, FS_Subset, FS_CardinalityType
<1> QED BY <1>2 DEF StoppedIsInHand, Stopped, Hand

LEMMA StoppedStep ==
  ASSUME WatchdogTypeOK, HandInv, StoppedIsInHand, [WatchdogNext]_watchdogVars PROVE StoppedIsInHand'
<1> USE DEF Stopped, Hand
<1>1. CASE ConnectionError
  <2>1. (Stopped \ Hand)' \subseteq (Stopped \ Hand) \union {last_changed_field}
    BY <1>1 DEF ConnectionError, Told, WatchdogTypeOK
  <2>2. IsFiniteSet(Stopped \ Hand)
    BY WatchdogAssumption, FS_Subset
  <2> DEFINE U == (Stopped \ Hand) \union {last_changed_field}
  <2>3. IsFiniteSet(U) /\ Cardinality(U) <= Cardinality(Stopped \ Hand) + 1
    BY <2>2, FS_AddElement, FS_CardinalityType
  <2>4. Cardinality((Stopped \ Hand)') <= Cardinality(U)
    BY <2>1, <2>3, FS_Subset
  <2>5. /\ Cardinality(Stopped \ Hand) \in Nat /\ Cardinality(U) \in Nat
        /\ Cardinality((Stopped \ Hand)') \in Nat
    BY <2>1, <2>2, <2>3, FS_Subset, FS_CardinalityType
  <2>6. errors' = errors + 1 /\ errors \in Nat
    BY <1>1 DEF ConnectionError, WatchdogTypeOK
  <2> HIDE DEF U, Stopped, Hand
  <2>7. Cardinality(Stopped \ Hand) <= errors
    BY DEF StoppedIsInHand, Stopped, Hand
  <2>8. Cardinality((Stopped \ Hand)') <= errors'
    BY <2>3, <2>4, <2>5, <2>6, <2>7
  <2> QED BY <2>8 DEF StoppedIsInHand, Stopped, Hand
<1>2. CASE PublishStop \/ PublishRun
  <2>1. (Stopped \ Hand)' \subseteq Stopped \ Hand
    BY <1>2 DEF PublishStop, PublishRun, Told, WatchdogTypeOK, counting
  <2>2. errors' = errors
    BY <1>2 DEF PublishStop, PublishRun
  <2> QED BY <2>1, <2>2, NoneStopped DEF WatchdogTypeOK
<1>3. CASE ~ConnectionError /\ ~PublishStop /\ ~PublishRun
  <2>1. UNCHANGED <<commands, errors>>
    BY <1>3, Zenon
       DEF WatchdogNext, WatchdogStep, FindNone, state_wait, Done, watchdogVars, external, WriteHash, Tick,
       Subscribe, Listen, Read, Count, Find, run_script, ScriptMissing
  <2>2. \/ UNCHANGED <<doing, last_changed_field>>
        \/ doing \notin {"Script", "Run", "Dead"}
        \/ doing' \in {"Run", "Dead"} /\ UNCHANGED last_changed_field
    BY <1>3, Zenon
       DEF WatchdogNext, WatchdogStep, FindNone, state_wait, Done, watchdogVars, WriteHash, Tick, counting,
       Subscribe, Listen, Read, Count, Find, run_script, ScriptMissing
  <2>3. (Stopped \ Hand)' \subseteq Stopped \ Hand
    BY <2>1, <2>2
  <2> QED BY <2>1, <2>3, NoneStopped DEF WatchdogTypeOK
<1> QED BY <1>1, <1>2, <1>3

-----------------------------------------------------------------------------
(* The theorems. *)

LEMMA WatchdogInitInv == WatchdogInit => WatchdogInv
<1> SUFFICES ASSUME WatchdogInit PROVE WatchdogInv
  OBVIOUS
<1> USE WatchdogAssumption DEF WatchdogInit, NoHash, NoField, None
<1>1. WatchdogTypeOK
  <2>1. notices \in Seq({"hset", "hdel"}) /\ changed_fields \subseteq Fields /\ hash \in Hash
    OBVIOUS
  <2>2. /\ commands \in [Fields -> {"RUN", "STOP"}]
        /\ unread \in [Fields -> Nat] /\ looked \in [Fields -> Nat]
    OBVIOUS
  <2>3. consecutive_field_count \in 0 .. Threshold
    OBVIOUS
  <2>4. recent \in BOOLEAN
    BY Zenon
  <2>5. last_hash \in Hash \union {NoHash} /\ last_changed_field \in Fields \union {NoField}
    OBVIOUS
  <2>6. writes \in Nat /\ errors \in Nat /\ seen \in Nat /\ doing = "Down"
    OBVIOUS
  <2> QED BY <2>1, <2>2, <2>3, <2>4, <2>5, <2>6 DEF WatchdogTypeOK
<1>2. HandInv /\ HashInv /\ CountedInv
  BY DEF HandInv, InHand, HashInv, Subscribed, CountedInv, CountIsEarned
<1> DEFINE S == {f \in Fields : commands[f] = "STOP"}
                  \ (IF doing \in {"Script", "Run", "Dead"} THEN {last_changed_field} ELSE {})
<1>3. S = {} /\ errors = 0
  OBVIOUS
<1>4. StoppedIsInHand
  <2>1. Cardinality(S) <= errors
    <3> HIDE DEF S, WatchdogInit
    <3> QED BY <1>3, FS_EmptySet
  <2> QED BY <2>1 DEF StoppedIsInHand
<1> QED BY <1>1, <1>2, <1>4 DEF WatchdogInv

LEMMA WatchdogInvStep == WatchdogInv /\ [WatchdogNext]_watchdogVars => WatchdogInv'
  BY WatchdogTypeStep, HandStep, HashStep, CountedStep, StoppedStep DEF WatchdogInv

LEMMA WatchdogInvAlways == WatchdogSpec => []WatchdogInv
  BY WatchdogInitInv, WatchdogInvStep, PTL DEF WatchdogSpec

\* Every variable keeps its type, and the count never exceeds its threshold.
THEOREM WatchdogTypeCorrect == WatchdogSpec => []WatchdogTypeOK
  BY WatchdogInvAlways, PTL DEF WatchdogInv

\* When all notifications are handled the watchdog knows the hash as it is.
THEOREM NothingIsMissed == WatchdogSpec => []NothingMissed
<1>1. WatchdogInv => NothingMissed
  BY DEF WatchdogInv, HashInv, Subscribed, NothingMissed
<1> QED BY <1>1, WatchdogInvAlways, PTL

\* What is counted really happened, but for one change after a connection.
THEOREM CountsAreEarned == WatchdogSpec => []CountIsEarned
  BY WatchdogInvAlways, PTL DEF WatchdogInv, CountedInv

\* No more samplers are left stopped than there were errors.
THEOREM StoppedAreInHand == WatchdogSpec => []StoppedIsInHand
  BY WatchdogInvAlways, PTL DEF WatchdogInv
=============================================================================
