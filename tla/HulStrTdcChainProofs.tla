------------------------ MODULE HulStrTdcChainProofs ------------------------
(***************************************************************************)
(* What the sub time frame builders of elph2018 make of the words of their *)
(* samplers, and the time frame builders of their frames, in any run, for  *)
(* any streams and any constants (TLC: run stf).                           *)
(*                                                                         *)
(* A message is a fold of NextWord over its words.  What a message does is *)
(* shown of one word, and by induction along the fold of all of them.      *)
(***************************************************************************)
EXTENDS HulStrTdcChain, TLAPS, SequenceTheorems, FiniteSetTheorems

\* A set of naturals has a least element.
LEMMA LeastNatural ==
  ASSUME NEW S \in SUBSET Nat, S # {}
  PROVE  \E x \in S : \A y \in S : x <= y
<1> DEFINE T == {0 .. n : n \in S}
<1>1. T \subseteq FiniteSubsetsOf(Nat)
  <2>1. ASSUME NEW n \in S PROVE 0 .. n \in SUBSET Nat /\ IsFiniteSet(0 .. n)
    BY FS_Interval
  <2> QED BY <2>1 DEF FiniteSubsetsOf
<1>2. T # {}
  OBVIOUS
<1>3. PICK t \in T : \A u \in T : <<u, t>> \notin StrictSubsetOrdering(Nat)
  <2> HIDE DEF T
  <2> QED BY <1>1, <1>2, FS_StrictSubsetOrderingWellFounded, WFMin
<1>4. PICK x \in S : t = 0 .. x
  BY <1>3
<1>5. ASSUME NEW y \in S, y < x PROVE FALSE
  <2>1. /\ 0 .. y \in T /\ 0 .. y \subseteq t /\ 0 .. y # t
    BY <1>4, <1>5
  <2>2. <<0 .. y, t>> \in StrictSubsetOrdering(Nat)
    BY <2>1, <1>4 DEF StrictSubsetOrdering
  <2> QED BY <2>1, <2>2, <1>3
<1> QED BY <1>5

\* Induction.
LEMMA Induction ==
  ASSUME NEW S, 0 \in S, \A n \in Nat : n \in S => n + 1 \in S
  PROVE  Nat \subseteq S
<1> SUFFICES ASSUME Nat \ S # {} PROVE FALSE
  OBVIOUS
<1>1. PICK x \in Nat \ S : \A y \in Nat \ S : x <= y
  BY LeastNatural
<1>2. x # 0 /\ x - 1 \in Nat
  BY <1>1
<1>3. x - 1 \in S
  BY <1>1, <1>2
<1> QED BY <1>1, <1>2, <1>3

\* FlattenSeq goes through the first elements, one after the other.
LEMMA FlattenSteps ==
  ASSUME NEW W, NEW s \in Seq(Seq(W))
  PROVE  \E h \in [0 .. Len(s) -> Seq(W)] :
            /\ h[0] = << >> /\ h[Len(s)] = FlattenSeq(s)
            /\ \A i \in 1 .. Len(s) : h[i] = h[i - 1] \o s[i]
<1> PICK V : V = Seq(W)
  OBVIOUS
<1>0. << >> \in V /\ \A u, v \in V : u \o v \in V
  <2>1. \A u, v \in Seq(W) : u \o v \in Seq(W)
    BY ConcatProperties
  <2> QED BY <2>1
<1> PICK N \in Nat : N = Len(s)
  BY LenProperties
<1>1. s \in [1 .. N -> V] /\ \A i \in 1 .. N : << >> \o s[i] = s[i]
  <2>1. s \in [1 .. N -> Seq(W)]
    BY LenProperties
  <2> QED BY <2>1, ConcatEmptySeq
<1> DEFINE Steps(g, n) == \A i \in 1 .. n : g[i] = IF i = 1 THEN s[i] ELSE g[i - 1] \o s[i]
           There(n) == n <= N => \E g \in [1 .. n -> V] : Steps(g, n)
<1>2. There(0)
  <2> DEFINE g == [i \in 1 .. 0 |-> << >>]
  <2>1. g \in [1 .. 0 -> V] /\ Steps(g, 0)
    BY 1 .. 0 = {}
  <2> QED BY <2>1
<1>3. ASSUME NEW n \in Nat, There(n) PROVE There(n + 1)
  <2> SUFFICES ASSUME n + 1 <= N PROVE \E g \in [1 .. n + 1 -> V] : Steps(g, n + 1)
    OBVIOUS
  <2>1. PICK g \in [1 .. n -> V] : Steps(g, n)
    BY <1>3, n <= N
  <2> PICK x : x = IF n = 0 THEN s[1] ELSE g[n] \o s[n + 1]
    OBVIOUS
  <2>2. x \in V
    <3>1. s[n + 1] \in V /\ (n # 0 => g[n] \in V)
      BY <1>1
    <3> QED BY <3>1, <1>0
  <2> DEFINE h == [i \in 1 .. n + 1 |-> IF i = n + 1 THEN x ELSE g[i]]
  <2>3. h \in [1 .. n + 1 -> V]
    BY <2>2
  <2>4. ASSUME NEW i \in 1 .. n PROVE h[i] = g[i]
    <3>1. i \in 1 .. n + 1 /\ i # n + 1
      OBVIOUS
    <3> QED BY <3>1
  <2>5. h[n + 1] = x
    OBVIOUS
  <2> HIDE DEF h
  <2>6. ASSUME NEW i \in 1 .. n + 1 
        PROVE  h[i] = IF i = 1 THEN s[i] ELSE h[i - 1] \o s[i]
    <3>1. CASE i = n + 1
      <4>1. n # 0 => h[n] = g[n]
        BY <2>4
      <4> QED BY <3>1, <4>1, <2>5
    <3>2. CASE i # n + 1
      <4>1. i \in 1 .. n /\ (i # 1 => i - 1 \in 1 .. n)
        BY <3>2
      <4>2. h[i] = g[i] /\ (i # 1 => h[i - 1] = g[i - 1])
        BY <4>1, <2>4
      <4> QED BY <4>1, <4>2, <2>1
    <3> QED BY <3>1, <3>2
  <2> QED BY <2>3, <2>6
<1>4. PICK g \in [1 .. N -> V] : Steps(g, N)
  <2> HIDE DEF There
  <2> DEFINE S == {n \in Nat : There(n)}
  <2>1. 0 \in S /\ \A n \in Nat : n \in S => n + 1 \in S
    BY <1>2, <1>3
  <2>2. N \in S
    <3> HIDE DEF S
    <3> QED BY <2>1, Induction
  <2> QED BY <2>2, N <= N DEF There
<1> HIDE DEF There
<1>5. g = [i \in 1 .. N |-> IF i = 1 THEN s[i] ELSE g[i - 1] \o s[i]]
  BY <1>4
<1>6. CASE N = 0
  <2> DEFINE h == [i \in 0 .. 0 |-> << >>]
  <2>1. FlattenSeq(s) = s /\ s = << >>
    BY <1>6, EmptySeq DEF FlattenSeq
  <2>2. h \in [0 .. N -> Seq(W)] /\ h[0] = << >> /\ h[N] = FlattenSeq(s) /\ 1 .. N = {}
    BY <2>1, <1>6
  <2> QED BY <2>2
<1>7. CASE N # 0
  <2> DEFINE Fits(f) == f = [i \in 1 .. N |-> IF i = 1 THEN s[i] ELSE f[i - 1] \o s[i]]
  <2>1. PICK f : FlattenSeq(s) = f[N] /\ Fits(f)
    <3>1. PICK f : /\ FlattenSeq(s) = f[Len(s)]
                   /\ f = CHOOSE f1 : f1 = [i \in 1 .. Len(s) |->
                                        IF i = 1 THEN s[i] ELSE f1[i - 1] \o s[i]]
      BY <1>7, Zenon DEF FlattenSeq
    <3>2. f = CHOOSE f1 : Fits(f1)
      BY <3>1
    <3>3. Fits(g)
      BY <1>5
    <3> HIDE DEF Fits
    <3> QED BY <3>1, <3>2, <3>3
  <2>2. \A i \in 1 .. N : f[i] = IF i = 1 THEN s[i] ELSE f[i - 1] \o s[i]
    BY <2>1
  <2>3. \A i \in 1 .. N : f[i] \in V
    <3> DEFINE T == {n \in Nat : n + 1 <= N => f[n + 1] \in V}
    <3>1. 0 \in T
      BY <1>1, <2>2
    <3>2. ASSUME NEW n \in Nat, n \in T PROVE n + 1 \in T
      <4> SUFFICES ASSUME n + 2 <= N PROVE f[n + 2] \in V
        OBVIOUS
      <4>1. n + 2 \in 1 .. N /\ n + 2 # 1 /\ (n + 2) - 1 = n + 1 /\ f[n + 1] \in V
        BY <3>2
      <4>2. s[n + 2] \in V
        BY <4>1, <1>1
      <4>3. f[n + 2] = f[n + 1] \o s[n + 2]
        BY <4>1, <2>2
      <4> QED BY <4>1, <4>2, <4>3, <1>0
    <3>3. Nat \subseteq T
      <4> HIDE DEF T
      <4> QED BY <3>1, <3>2, Induction
    <3> TAKE i \in 1 .. N
    <3>4. i - 1 \in Nat /\ (i - 1) + 1 = i
      OBVIOUS
    <3>5. i - 1 \in T
      <4> HIDE DEF T
      <4> QED BY <3>3, <3>4
    <3> QED BY <3>4, <3>5
  <2> DEFINE h == [i \in 0 .. N |-> IF i = 0 THEN << >> ELSE f[i]]
  <2>4. h \in [0 .. N -> V]
    BY <2>3, <1>0
  <2>5. h[0] = << >> /\ h[N] = FlattenSeq(s)
    BY <1>7, <2>1
  <2>6. ASSUME NEW i \in 1 .. N PROVE h[i] = h[i - 1] \o s[i]
    <3>1. i - 1 \in 0 .. N /\ (i # 1 => i - 1 \in 1 .. N)
      OBVIOUS
    <3>2. h[i] = f[i] /\ h[i - 1] = IF i = 1 THEN << >> ELSE f[i - 1]
      BY <3>1
    <3> HIDE DEF h
    <3> QED BY <3>2, <2>2, <1>1
  <2> HIDE DEF h, Fits
  <2> QED BY <2>4, <2>5, <2>6
<1> QED BY <1>6, <1>7

LEMMA FlattenAppend ==
  ASSUME NEW W, NEW s \in Seq(Seq(W)), NEW x \in Seq(W)
  PROVE  /\ FlattenSeq(s) \in Seq(W)
         /\ FlattenSeq(Append(s, x)) = FlattenSeq(s) \o x
<1> PICK V : V = Seq(W)
  OBVIOUS
<1> PICK N \in Nat : N = Len(s)
  BY LenProperties
<1> DEFINE t == Append(s, x)
<1>1. /\ t \in Seq(V) /\ Len(t) = N + 1 /\ t[N + 1] = x
      /\ \A k \in 1 .. N : t[k] = s[k]
  BY AppendProperties
<1> HIDE DEF t
<1>2. PICK g \in [0 .. N -> V] : /\ g[0] = << >> /\ g[N] = FlattenSeq(s)
                                 /\ \A i \in 1 .. N : g[i] = g[i - 1] \o s[i]
  BY FlattenSteps
<1>3. PICK h \in [0 .. N + 1 -> V] : /\ h[0] = << >> /\ h[N + 1] = FlattenSeq(t)
                                     /\ \A i \in 1 .. N + 1 : h[i] = h[i - 1] \o t[i]
  <2>1. \E h \in [0 .. Len(t) -> Seq(W)] : /\ h[0] = << >> /\ h[Len(t)] = FlattenSeq(t)
                                      /\ \A i \in 1 .. Len(t) : h[i] = h[i - 1] \o t[i]
    BY <1>1, FlattenSteps
  <2> QED BY <2>1, <1>1
<1> DEFINE S == {k \in Nat : k <= N => h[k] = g[k]}
<1>4. 0 \in S
  BY <1>2, <1>3
<1>5. ASSUME NEW k \in Nat, k \in S PROVE k + 1 \in S
  <2> SUFFICES ASSUME k + 1 <= N PROVE h[k + 1] = g[k + 1]
    OBVIOUS
  <2>1. k + 1 \in 1 .. N /\ k + 1 \in 1 .. N + 1 /\ (k + 1) - 1 = k /\ h[k] = g[k]
    BY <1>5
  <2> QED BY <2>1, <1>1, <1>2, <1>3
<1>6. h[N] = g[N]
  <2> HIDE DEF S
  <2>1. N \in S
    BY <1>4, <1>5, Induction
  <2> QED BY <2>1 DEF S
<1>7. h[N + 1] = h[N] \o x
  <2>1. N + 1 \in 1 .. N + 1 /\ (N + 1) - 1 = N
    OBVIOUS
  <2> QED BY <2>1, <1>1, <1>3
<1>8. g[N] \in V
  OBVIOUS
<1> QED BY <1>2, <1>3, <1>6, <1>7, <1>8 DEF t

-----------------------------------------------------------------------------

Words == [head : Heads, n : Nat]
Frames == [id : Nat, payloads : Seq(Seq(Words))]
Builders == [fInputPayloads : Seq(Words), fWorkingPayloads : Seq(Seq(Words)),
             fOutputPayloads : Seq(Frames), fSTFId : Nat, fHBFCounter : Nat]

\* The words of frames.
FramesWords(frames) == FlattenSeq([i \in DOMAIN frames |-> FrameWords(frames[i])])

LEMMA FlattenEmpty == FlattenSeq(<< >>) = << >>
<1>1. Len(<< >>) = 0
  OBVIOUS
<1> QED BY <1>1 DEF FlattenSeq

LEMMA FramesAppend ==
  ASSUME NEW frames \in Seq(Frames), NEW frame \in Frames
  PROVE  /\ FramesWords(frames) \in Seq(Words)
         /\ FrameWords(frame) \in Seq(Words)
         /\ FramesWords(Append(frames, frame)) = FramesWords(frames) \o FrameWords(frame)
<1> DEFINE s == [i \in DOMAIN frames |-> FrameWords(frames[i])]
           t == Append(frames, frame)
           u == [i \in DOMAIN t |-> FrameWords(t[i])]
<1> PICK N \in Nat : N = Len(frames)
  BY LenProperties
<1>1. \A f \in Frames : FrameWords(f) \in Seq(Words)
  BY FlattenAppend DEF FrameWords, Frames
<1>2. /\ DOMAIN frames = 1 .. N /\ \A i \in 1 .. N : frames[i] \in Frames
  BY LenProperties
<1>3. s \in [1 .. N -> Seq(Words)]
  BY <1>1, <1>2
<1>4. s \in Seq(Seq(Words)) /\ Len(s) = N
  BY <1>3
<1>5. /\ t \in Seq(Frames) /\ DOMAIN t = 1 .. N + 1 /\ t[N + 1] = frame
      /\ \A i \in 1 .. N : t[i] = frames[i]
  BY AppendProperties, LenProperties
<1> DEFINE x == FrameWords(frame)
<1>6. x \in Seq(Words)
  BY <1>1
<1>7. u = Append(s, x)
  <2>1. u \in [1 .. N + 1 -> Seq(Words)]
    BY <1>1, <1>5, LenProperties
  <2>2. u \in Seq(Seq(Words)) /\ Len(u) = N + 1
    BY <2>1
  <2>3. /\ Append(s, x) \in Seq(Seq(Words)) /\ Len(Append(s, x)) = N + 1
        /\ Append(s, x)[N + 1] = x /\ \A i \in 1 .. N : Append(s, x)[i] = s[i]
    <3> HIDE DEF s, x
    <3> QED BY <1>4, <1>6, AppendProperties
  <2>4. \A i \in 1 .. N + 1 : u[i] = Append(s, x)[i]
    <3> TAKE i \in 1 .. N + 1
    <3>1. CASE i = N + 1
      <4>1. u[i] = x
        BY <3>1, <1>5
      <4> QED BY <4>1, <3>1, <2>3
    <3>2. CASE i # N + 1
      <4>1. i \in 1 .. N
        BY <3>2
      <4>2. u[i] = FrameWords(frames[i]) /\ s[i] = FrameWords(frames[i])
        BY <4>1, <1>2, <1>5
      <4> QED BY <4>1, <4>2, <2>3
    <3> QED BY <3>1, <3>2
  <2> HIDE DEF u, s, x
  <2> QED BY <2>2, <2>3, <2>4, SeqEqual
<1>8. FlattenSeq(Append(s, x)) = FlattenSeq(s) \o x /\ FlattenSeq(s) \in Seq(Words)
  <2> HIDE DEF s, x
  <2> QED BY <1>4, <1>6, FlattenAppend
<1>9. FramesWords(frames) = FlattenSeq(s) /\ FramesWords(t) = FlattenSeq(u)
  BY DEF FramesWords
<1> HIDE DEF s, u
<1> QED BY <1>6, <1>7, <1>8, <1>9 DEF x

LEMMA WordsConcat ==
  ASSUME NEW u \in Seq(Words), NEW v \in Seq(Words), NEW w \in Seq(Words)
  PROVE  (u \o v) \o w = u \o (v \o w)
  BY ConcatAssociative

\* What a builder holds.
Out(b) == FramesWords(b.fOutputPayloads)
Work(b) == FlattenSeq(b.fWorkingPayloads)

LEMMA HeldWords ==
  ASSUME NEW b \in Builders
  PROVE  /\ Out(b) \in Seq(Words) /\ Work(b) \in Seq(Words) /\ b.fInputPayloads \in Seq(Words)
         /\ WordsOf(b) = Out(b) \o Work(b) \o b.fInputPayloads
         /\ WordsOf(b) \in Seq(Words)
<1>1. /\ b.fOutputPayloads \in Seq(Frames) /\ b.fWorkingPayloads \in Seq(Seq(Words))
      /\ b.fInputPayloads \in Seq(Words)
  BY DEF Builders
<1>2. Out(b) \in Seq(Words)
  <2>1. [id |-> 0, payloads |-> << >>] \in Frames
    BY DEF Frames
  <2> QED BY <1>1, <2>1, FramesAppend DEF Out
<1>3. Work(b) \in Seq(Words)
  <2>1. << >> \in Seq(Words)
    OBVIOUS
  <2> QED BY <1>1, <2>1, FlattenAppend DEF Work
<1>4. WordsOf(b) = Out(b) \o Work(b) \o b.fInputPayloads
  BY Zenon DEF WordsOf, Out, Work, FramesWords
<1>5. Out(b) \o Work(b) \in Seq(Words)
  BY <1>2, <1>3, ConcatProperties
<1> QED BY <1>1, <1>2, <1>3, <1>4, <1>5, ConcatProperties

LEMMA FlushedKeeps ==
  ASSUME NEW b \in Builders
  PROVE  /\ Flushed(b) \in Builders /\ Flushed(b).fInputPayloads = << >>
         /\ Work(Flushed(b)) = Work(b) \o b.fInputPayloads
         /\ Flushed(b).fOutputPayloads = b.fOutputPayloads
         /\ Flushed(b).fSTFId = b.fSTFId /\ Flushed(b).fHBFCounter = b.fHBFCounter
         /\ WordsOf(Flushed(b)) = WordsOf(b)
<1> DEFINE c == Flushed(b)
<1>1. /\ b.fWorkingPayloads \in Seq(Seq(Words)) /\ b.fInputPayloads \in Seq(Words)
  BY DEF Builders
<1>2. /\ c \in Builders /\ c.fInputPayloads = << >>
      /\ c.fOutputPayloads = b.fOutputPayloads
      /\ c.fSTFId = b.fSTFId /\ c.fHBFCounter = b.fHBFCounter
      /\ c.fWorkingPayloads = IF b.fInputPayloads = << >> THEN b.fWorkingPayloads
                              ELSE Append(b.fWorkingPayloads, b.fInputPayloads)
  <2>1. CASE b.fInputPayloads = << >>
    BY <2>1 DEF Flushed
  <2>2. CASE b.fInputPayloads # << >>
    <3>1. c = [b EXCEPT !.fWorkingPayloads = Append(@, b.fInputPayloads), !.fInputPayloads = << >>]
      BY <2>2 DEF Flushed
    <3>2. Append(b.fWorkingPayloads, b.fInputPayloads) \in Seq(Seq(Words)) /\ << >> \in Seq(Words)
      BY <1>1, AppendProperties
    <3> HIDE DEF c
    <3> QED BY <2>2, <3>1, <3>2 DEF Builders
  <2> QED BY <2>1, <2>2
<1> HIDE DEF c
<1>3. Work(c) = Work(b) \o b.fInputPayloads
  <2>1. CASE b.fInputPayloads = << >>
    BY <2>1, <1>2, HeldWords, ConcatEmptySeq DEF Work
  <2>2. CASE b.fInputPayloads # << >>
    BY <2>2, <1>1, <1>2, FlattenAppend DEF Work
  <2> QED BY <2>1, <2>2
<1>4. WordsOf(c) = WordsOf(b)
  <2>1. Out(c) = Out(b)
    BY <1>2 DEF Out
  <2> PICK o \in Seq(Words) : o = Out(b)
    BY HeldWords
  <2> PICK w \in Seq(Words) : w = Work(b)
    BY HeldWords
  <2> PICK i \in Seq(Words) : i = b.fInputPayloads
    BY HeldWords
  <2>2. WordsOf(c) = o \o (w \o i) \o << >> /\ WordsOf(b) = o \o w \o i
    BY <1>2, <1>3, <2>1, HeldWords
  <2>3. w \o i \in Seq(Words) /\ o \o (w \o i) \in Seq(Words)
    BY ConcatProperties
  <2>4. o \o (w \o i) \o << >> = o \o (w \o i)
    BY <2>3, ConcatEmptySeq
  <2>5. o \o w \o i = o \o (w \o i)
    BY WordsConcat
  <2> QED BY <2>2, <2>4, <2>5
<1> QED BY <1>2, <1>3, <1>4 DEF c

LEMMA FinalizeKeeps ==
  ASSUME NEW b \in Builders, b.fInputPayloads = << >>
  PROVE  LET c == FinalizeSTF(b)
             frame == [id |-> b.fSTFId, payloads |-> b.fWorkingPayloads]
         IN  /\ c \in Builders /\ c.fInputPayloads = << >> /\ c.fWorkingPayloads = << >>
             /\ c.fOutputPayloads = Append(b.fOutputPayloads, frame)
             /\ frame \in Frames /\ FrameWords(frame) = Work(b)
             /\ c.fSTFId = b.fSTFId + 1 /\ c.fHBFCounter = 0
             /\ Work(c) = << >>
             /\ WordsOf(c) = WordsOf(b)
<1> DEFINE c == FinalizeSTF(b)
           frame == [id |-> b.fSTFId, payloads |-> b.fWorkingPayloads]
<1>1. /\ b.fWorkingPayloads \in Seq(Seq(Words)) /\ b.fOutputPayloads \in Seq(Frames)
      /\ b.fSTFId \in Nat
  BY DEF Builders
<1>2. frame \in Frames /\ FrameWords(frame) = Work(b)
  BY <1>1 DEF Frames, FrameWords, Work
<1>3. Append(b.fOutputPayloads, frame) \in Seq(Frames)
  BY <1>1, <1>2, AppendProperties
<1>4. /\ c \in Builders /\ c.fInputPayloads = << >> /\ c.fWorkingPayloads = << >>
      /\ c.fOutputPayloads = Append(b.fOutputPayloads, frame)
      /\ c.fSTFId = b.fSTFId + 1 /\ c.fHBFCounter = 0
  <2>1. << >> \in Seq(Seq(Words)) /\ b.fSTFId + 1 \in Nat
    BY <1>1
  <2> QED BY <1>3, <2>1 DEF FinalizeSTF, Builders
<1> HIDE DEF c
<1>5. Work(c) = << >>
  BY <1>4, FlattenEmpty DEF Work
<1>6. WordsOf(c) = WordsOf(b)
  <2>1. Out(c) = Out(b) \o Work(b)
    <3> HIDE DEF frame
    <3> QED BY <1>1, <1>2, <1>4, FramesAppend DEF Out
  <2> PICK o \in Seq(Words) : o = Out(b)
    BY HeldWords
  <2> PICK w \in Seq(Words) : w = Work(b)
    BY HeldWords
  <2>2. WordsOf(c) = (o \o w) \o << >> \o << >> /\ WordsOf(b) = (o \o w) \o << >>
    BY <1>4, <1>5, <2>1, HeldWords
  <2>3. o \o w \in Seq(Words)
    BY ConcatProperties
  <2> QED BY <2>2, <2>3, ConcatEmptySeq
<1> QED BY <1>2, <1>4, <1>5, <1>6 DEF c

LEMMA FillDataKeeps ==
  ASSUME NEW b \in Builders
  PROVE  /\ FillData(b) \in Builders /\ FillData(b).fInputPayloads = << >>
         /\ WordsOf(FillData(b)) = WordsOf(b)
<1> PICK c \in Builders : c = Flushed(b)
  BY FlushedKeeps
<1>1. c.fInputPayloads = << >> /\ WordsOf(c) = WordsOf(b)
  BY FlushedKeeps
<1>2. FillData(b) = FinalizeSTF(c) \/ FillData(b) = c
  BY DEF FillData
<1> QED BY <1>1, <1>2, FinalizeKeeps

LEMMA DelimiterAdds ==
  ASSUME NEW b \in Builders, b.fInputPayloads = << >>, NEW w \in Words
  PROVE  LET c == Delimiter(b, w)
         IN  /\ c \in Builders /\ c.fInputPayloads = << >>
             /\ Work(c) = Work(b) \o <<w>>
             /\ c.fOutputPayloads = b.fOutputPayloads
             /\ c.fSTFId = b.fSTFId /\ c.fHBFCounter = b.fHBFCounter
             /\ WordsOf(c) = WordsOf(b) \o <<w>>
<1> DEFINE c == Delimiter(b, w)
<1>1. /\ b.fWorkingPayloads \in Seq(Seq(Words)) /\ <<w>> \in Seq(Words)
  BY DEF Builders
<1>2. Append(b.fWorkingPayloads, <<w>>) \in Seq(Seq(Words))
  BY <1>1, AppendProperties
<1>3. /\ c \in Builders /\ c.fInputPayloads = << >>
      /\ c.fWorkingPayloads = Append(b.fWorkingPayloads, <<w>>)
      /\ c.fOutputPayloads = b.fOutputPayloads
      /\ c.fSTFId = b.fSTFId /\ c.fHBFCounter = b.fHBFCounter
  BY <1>2 DEF Delimiter, Builders
<1> HIDE DEF c
<1>4. Work(c) = Work(b) \o <<w>>
  BY <1>1, <1>3, FlattenAppend DEF Work
<1>5. WordsOf(c) = WordsOf(b) \o <<w>>
  <2>1. Out(c) = Out(b)
    BY <1>3 DEF Out
  <2> PICK o \in Seq(Words) : o = Out(b)
    BY HeldWords
  <2> PICK v \in Seq(Words) : v = Work(b)
    BY HeldWords
  <2> PICK x \in Seq(Words) : x = <<w>>
    BY <1>1
  <2>2. WordsOf(c) = o \o (v \o x) \o << >> /\ WordsOf(b) = (o \o v) \o << >>
    BY <1>3, <1>4, <2>1, HeldWords
  <2>3. v \o x \in Seq(Words) /\ o \o (v \o x) \in Seq(Words) /\ o \o v \in Seq(Words)
    BY ConcatProperties
  <2>4. WordsOf(c) = o \o (v \o x) /\ WordsOf(b) = o \o v
    BY <2>2, <2>3, ConcatEmptySeq
  <2>5. (o \o v) \o x = o \o (v \o x)
    BY WordsConcat
  <2> QED BY <2>4, <2>5
<1> QED BY <1>3, <1>4, <1>5 DEF c

\* Counting a heartbeat leaves everything else as it is.
LEMMA OneMoreHeartbeat ==
  ASSUME NEW b \in Builders
  PROVE  LET c == [b EXCEPT !.fHBFCounter = @ + 1]
         IN  /\ c \in Builders
             /\ c.fInputPayloads = b.fInputPayloads /\ c.fWorkingPayloads = b.fWorkingPayloads
             /\ c.fOutputPayloads = b.fOutputPayloads /\ c.fSTFId = b.fSTFId
             /\ c.fHBFCounter = b.fHBFCounter + 1
<1> PICK n \in Nat : n = b.fHBFCounter + 1
  BY DEF Builders
<1> PICK c : c = [b EXCEPT !.fHBFCounter = n]
  OBVIOUS
<1>1. c \in Builders
  BY DEF Builders
<1>2. /\ c.fInputPayloads = b.fInputPayloads /\ c.fWorkingPayloads = b.fWorkingPayloads
      /\ c.fOutputPayloads = b.fOutputPayloads /\ c.fSTFId = b.fSTFId
  BY DEF Builders
<1>3. c.fHBFCounter = n
  BY DEF Builders
<1>4. c = [b EXCEPT !.fHBFCounter = @ + 1]
  OBVIOUS
<1> QED BY <1>1, <1>2, <1>3, <1>4

\* One turn of the loop adds the word, if its head is known.
LEMMA NextWordAdds ==
  ASSUME NEW b \in Builders, NEW w \in Words
  PROVE  /\ NextWord(b, w) \in Builders
         /\ WordsOf(NextWord(b, w)) = WordsOf(b) \o KnownWord(w)
<1>0. w.head \in Heads
  BY DEF Words
<1>1. CASE w.head = "Other"
  <2>1. NextWord(b, w) = b /\ KnownWord(w) = << >>
    BY <1>1 DEF NextWord, KnownWord
  <2> QED BY <2>1, HeldWords, ConcatEmptySeq
<1>2. CASE w.head = "Data"
  <2> PICK c : c = [b EXCEPT !.fInputPayloads = Append(@, w)]
    OBVIOUS
  <2>1. NextWord(b, w) = c /\ KnownWord(w) = <<w>>
    BY <1>2 DEF NextWord, KnownWord
  <2>2. Append(b.fInputPayloads, w) \in Seq(Words)
    BY HeldWords, AppendProperties
  <2>3. /\ c \in Builders /\ c.fInputPayloads = Append(b.fInputPayloads, w)
        /\ c.fOutputPayloads = b.fOutputPayloads /\ c.fWorkingPayloads = b.fWorkingPayloads
    BY <2>2 DEF Builders
  <2>4. Out(c) = Out(b) /\ Work(c) = Work(b)
    BY <2>3 DEF Out, Work
  <2> PICK i \in Seq(Words) : i = b.fInputPayloads
    BY HeldWords
  <2> PICK o \in Seq(Words) : o = Out(b) \o Work(b)
    BY HeldWords, ConcatProperties
  <2>5. WordsOf(c) = o \o (i \o <<w>>) /\ WordsOf(b) = o \o i
    <3>1. Append(i, w) = i \o <<w>>
      BY AppendIsConcat
    <3> QED BY <3>1, <2>3, <2>4, HeldWords
  <2>6. (o \o i) \o <<w>> = o \o (i \o <<w>>)
    <3>1. <<w>> \in Seq(Words)
      OBVIOUS
    <3> QED BY <3>1, WordsConcat
  <2> QED BY <2>1, <2>3, <2>5, <2>6
<1>3. CASE w.head \in {"Heartbeat", "ErrorRecovery"}
  <2>1. NextWord(b, w) = Heartbeat(b, w) /\ KnownWord(w) = <<w>>
    BY <1>3 DEF NextWord, KnownWord
  <2> PICK c \in Builders : c = FillData(b)
    BY FillDataKeeps
  <2>2. c.fInputPayloads = << >> /\ WordsOf(c) = WordsOf(b)
    BY FillDataKeeps
  <2> PICK e \in Builders : e = Delimiter(c, w)
    BY <2>2, DelimiterAdds
  <2>3. e.fInputPayloads = << >> /\ WordsOf(e) = WordsOf(b) \o <<w>>
    <3>1. WordsOf(Delimiter(c, w)) = WordsOf(c) \o <<w>> /\ Delimiter(c, w).fInputPayloads = << >>
      BY <2>2, DelimiterAdds
    <3> QED BY <3>1, <2>2
  <2> PICK g \in Builders : g = [e EXCEPT !.fHBFCounter = @ + 1]
    BY OneMoreHeartbeat
  <2>4. /\ g \in Builders /\ g.fInputPayloads = << >>
        /\ g.fOutputPayloads = e.fOutputPayloads /\ g.fWorkingPayloads = e.fWorkingPayloads
    BY <2>3, OneMoreHeartbeat
  <2>5. WordsOf(g) = WordsOf(b) \o <<w>>
    <3>1. Out(g) = Out(e) /\ Work(g) = Work(e) /\ g.fInputPayloads = e.fInputPayloads
      BY <2>3, <2>4 DEF Out, Work
    <3>2. WordsOf(g) = WordsOf(e)
      <4>1. WordsOf(e) = Out(e) \o Work(e) \o e.fInputPayloads
        BY HeldWords
      <4>2. WordsOf(g) = Out(g) \o Work(g) \o g.fInputPayloads
        BY <2>4, HeldWords
      <4> QED BY <3>1, <4>1, <4>2
    <3> QED BY <2>3, <3>2
  <2>6. Heartbeat(b, w) = FinalizeSTF(g) \/ Heartbeat(b, w) = g
    BY DEF Heartbeat
  <2>7. FinalizeSTF(g) \in Builders /\ WordsOf(FinalizeSTF(g)) = WordsOf(g)
    BY <2>4, FinalizeKeeps
  <2> QED BY <2>1, <2>4, <2>5, <2>6, <2>7
<1>4. CASE w.head = "SpillEnd"
  <2>1. NextWord(b, w) = SpillEnd(b, w) /\ KnownWord(w) = <<w>>
    BY <1>4 DEF NextWord, KnownWord
  <2> PICK c \in Builders : c = FillData(b)
    BY FillDataKeeps
  <2>2. c.fInputPayloads = << >> /\ WordsOf(c) = WordsOf(b)
    BY FillDataKeeps
  <2> PICK e : e = [c EXCEPT !.fInputPayloads = <<w>>]
    OBVIOUS
  <2>3. /\ e \in Builders /\ e.fInputPayloads = <<w>>
        /\ e.fOutputPayloads = c.fOutputPayloads /\ e.fWorkingPayloads = c.fWorkingPayloads
    <3>1. <<w>> \in Seq(Words)
      OBVIOUS
    <3> QED BY <3>1 DEF Builders
  <2>4. WordsOf(e) = WordsOf(b) \o <<w>>
    <3>1. Out(e) = Out(c) /\ Work(e) = Work(c)
      BY <2>3 DEF Out, Work
    <3> PICK o \in Seq(Words) : o = Out(c) \o Work(c)
      BY HeldWords, ConcatProperties
    <3>2. WordsOf(e) = o \o <<w>> /\ WordsOf(c) = o \o << >>
      BY <3>1, <2>2, <2>3, HeldWords
    <3> QED BY <3>2, <2>2, ConcatEmptySeq
  <2> PICK g \in Builders : g = FillData(e)
    BY <2>3, FillDataKeeps
  <2>5. g.fInputPayloads = << >> /\ WordsOf(g) = WordsOf(e)
    BY <2>3, FillDataKeeps
  <2>6. SpillEnd(b, w) = FinalizeSTF(g)
    BY DEF SpillEnd
  <2>7. FinalizeSTF(g) \in Builders /\ WordsOf(FinalizeSTF(g)) = WordsOf(g)
    BY <2>5, FinalizeKeeps
  <2> QED BY <2>1, <2>4, <2>5, <2>6, <2>7
<1> QED BY <1>0, <1>1, <1>2, <1>3, <1>4 DEF Heads

-----------------------------------------------------------------------------

LEMMA MaxOfUpTo ==
  ASSUME NEW n \in Nat, NEW t \in SUBSET (1 .. n + 1), n + 1 \in t
  PROVE  Max(t) = n + 1 /\ t \ {n + 1} \in SUBSET (1 .. n)
<1>1. n + 1 \in t /\ \A y \in t : n + 1 >= y
  OBVIOUS
<1>2. \A z \in t : (\A y \in t : z >= y) => z = n + 1
  OBVIOUS
<1>3. Max(t) = n + 1
  BY <1>1, <1>2 DEF Max
<1>4. t \ {n + 1} \in SUBSET (1 .. n)
  OBVIOUS
<1> QED BY <1>3, <1>4

LEMMA MaxIsIn ==
  ASSUME NEW n \in Nat, NEW t \in SUBSET (1 .. n), t # {}
  PROVE  Max(t) \in t /\ \A y \in t : Max(t) >= y
<1> DEFINE S == {n - x : x \in t}
<1>1. S \in SUBSET Nat /\ S # {}
  <2>1. \A x \in t : n - x \in Nat
    OBVIOUS
  <2> QED BY <2>1
<1>2. PICK y \in S : \A z \in S : y <= z
  <2> HIDE DEF S
  <2> QED BY <1>1, LeastNatural
<1>3. PICK x \in t : y = n - x
  BY <1>2
<1>4. \A z \in t : x >= z
  <2> TAKE z \in t
  <2>1. n - z \in S
    OBVIOUS
  <2> QED BY <2>1, <1>2, <1>3
<1> HIDE DEF S
<1> QED BY <1>4 DEF Max

\* g is the fold of s with G from b, over the subsets of its domain that
\* MapThenFoldSet goes through.
IsFold(g, G, b, s, N) ==
    g = [t \in SUBSET (1 .. N) |-> IF t = {} THEN b ELSE G[<<g[t \ {Max(t)}], s[Max(t)]>>]]

\* f goes through the subsets in the same way, as far as its values are in V.
Unfolds(f, V, G, b, s, N) ==
    /\ f[{}] = b
    /\ \A t \in SUBSET (1 .. N) : t # {} /\ f[t \ {Max(t)}] \in V
            => f[t] = G[<<f[t \ {Max(t)}], s[Max(t)]>>]

\* What a fold passes through.
IsTrace(h, G, b, s, N, r) ==
    h[0] = b /\ h[N] = r /\ \A k \in 1 .. N : h[k] = G[<<h[k - 1], s[k]>>]

\* The fold over the subsets of 1 .. n that MapThenFoldSet goes through exists.
LEMMA FoldExists ==
  ASSUME NEW V, NEW b \in V, NEW X, NEW N \in Nat, NEW s \in [1 .. N -> X], NEW G \in [V \X X -> V]
  PROVE  \E g \in [SUBSET (1 .. N) -> V] : IsFold(g, G, b, s, N)
<1> DEFINE Fits(g, n) == \A t \in SUBSET (1 .. n) :
                g[t] = IF t = {} THEN b ELSE G[<<g[t \ {Max(t)}], s[Max(t)]>>]
           There(n) == n <= N => \E g \in [SUBSET (1 .. n) -> V] : Fits(g, n)
<1>1. There(0)
  <2> DEFINE g == [t \in SUBSET (1 .. 0) |-> b]
  <2>1. g \in [SUBSET (1 .. 0) -> V] /\ Fits(g, 0)
    BY 1 .. 0 = {}
  <2> QED BY <2>1
<1>2. ASSUME NEW n \in Nat, There(n) PROVE There(n + 1)
  <2> SUFFICES ASSUME n + 1 <= N
               PROVE  \E h \in [SUBSET (1 .. n + 1) -> V] : Fits(h, n + 1)
    OBVIOUS
  <2>1. PICK g \in [SUBSET (1 .. n) -> V] : Fits(g, n)
    BY <1>2, n <= N
  <2> DEFINE h == [t \in SUBSET (1 .. n + 1) |->
                     IF n + 1 \in t THEN G[<<g[t \ {n + 1}], s[n + 1]>>] ELSE g[t]]
  <2>2. \A t \in SUBSET (1 .. n + 1) : n + 1 \notin t => t \in SUBSET (1 .. n)
    OBVIOUS
  <2>3. \A t \in SUBSET (1 .. n + 1) : n + 1 \in t => Max(t) = n + 1 /\ t \ {n + 1} \in SUBSET (1 .. n)
    BY MaxOfUpTo
  <2>4. s[n + 1] \in X
    OBVIOUS
  <2>5. h \in [SUBSET (1 .. n + 1) -> V]
    BY <2>2, <2>3, <2>4
  <2> HIDE DEF h
  <2>6. ASSUME NEW t \in SUBSET (1 .. n + 1)
        PROVE  h[t] = IF t = {} THEN b ELSE G[<<h[t \ {Max(t)}], s[Max(t)]>>]
    <3>1. CASE n + 1 \in t
      <4>1. h[t] = G[<<g[t \ {n + 1}], s[n + 1]>>]
        BY <3>1 DEF h
      <4>2. h[t \ {n + 1}] = g[t \ {n + 1}]
        BY <2>3, <3>1 DEF h
      <4> QED BY <4>1, <4>2, <2>3, <3>1
    <3>2. CASE n + 1 \notin t
      <4>1. t \in SUBSET (1 .. n) /\ h[t] = g[t]
        BY <3>2, <2>2 DEF h
      <4>2. t \ {Max(t)} \in SUBSET (1 .. n)
        BY <4>1
      <4>3. t \ {Max(t)} \in SUBSET (1 .. n + 1) /\ n + 1 \notin t \ {Max(t)}
        BY <4>2, <3>2
      <4>4. h[t \ {Max(t)}] = g[t \ {Max(t)}]
        BY <4>3 DEF h
      <4> QED BY <4>1, <4>2, <4>4, <2>1
    <3> QED BY <3>1, <3>2
  <2>7. Fits(h, n + 1)
    BY <2>6
  <2> HIDE DEF h, Fits
  <2> QED BY <2>5, <2>7
<1>3. There(N)
  <2> HIDE DEF There
  <2> DEFINE S == {n \in Nat : There(n)}
  <2>1. 0 \in S /\ \A n \in Nat : n \in S => n + 1 \in S
    BY <1>1, <1>2
  <2>2. Nat \subseteq S
    <3> HIDE DEF S
    <3> QED BY <2>1, Induction
  <2> QED BY <2>2
<1>4. PICK g \in [SUBSET (1 .. N) -> V] : Fits(g, N)
  BY <1>3, N <= N
<1> QED BY <1>4 DEF IsFold

\* Its values at 1 .. k are those after the first k elements.
LEMMA FirstElements ==
  ASSUME NEW N \in Nat, NEW k \in 1 .. N
  PROVE  /\ k - 1 \in 0 .. N /\ 1 .. k \in SUBSET (1 .. N) /\ 1 .. k # {}
         /\ Max(1 .. k) = k /\ (1 .. k) \ {k} = 1 .. (k - 1)
<1>1. k - 1 \in Nat /\ (k - 1) + 1 = k /\ k \in 1 .. k
  OBVIOUS
<1>2. Max(1 .. (k - 1) + 1) = (k - 1) + 1
  BY ONLY <1>1, MaxOfUpTo, 1 .. (k - 1) + 1 \in SUBSET (1 .. (k - 1) + 1), (k - 1) + 1 \in 1 .. (k - 1) + 1
<1>3. Max(1 .. k) = k
  BY <1>1, <1>2
<1>4. (1 .. k) \ {k} = 1 .. (k - 1)
  BY <1>1
<1> QED BY <1>1, <1>3, <1>4

\* What the fold over 1 .. N, the value of f there, passes through.
LEMMA FoldTrace ==
  ASSUME NEW V, NEW b \in V, NEW X, NEW N \in Nat, NEW s \in [1 .. N -> X],
         NEW G \in [V \X X -> V], NEW f, Unfolds(f, V, G, b, s, N), NEW r, r = f[1 .. N]
  PROVE  \E h \in [0 .. N -> V] : IsTrace(h, G, b, s, N, r)
<1> DEFINE S == {k \in Nat : k <= N => f[1 .. k] \in V}
           h == [k \in 0 .. N |-> f[1 .. k]]
<1>1. 1 .. 0 = {}
  OBVIOUS
<1>2. ASSUME NEW k \in 1 .. N, f[1 .. (k - 1)] \in V
      PROVE  f[1 .. k] = G[<<f[1 .. (k - 1)], s[k]>>] /\ f[1 .. k] \in V
  <2>1. /\ 1 .. k \in SUBSET (1 .. N) /\ 1 .. k # {}
        /\ Max(1 .. k) = k /\ (1 .. k) \ {k} = 1 .. (k - 1)
    BY FirstElements
  <2> QED BY <1>2, <2>1 DEF Unfolds
<1>3. 0 \in S /\ \A k \in Nat : k \in S => k + 1 \in S
  <2>1. 0 \in S
    BY <1>1 DEF Unfolds
  <2>2. ASSUME NEW k \in Nat, k \in S PROVE k + 1 \in S
    <3> SUFFICES ASSUME k + 1 <= N PROVE f[1 .. k + 1] \in V
      OBVIOUS
    <3>1. k + 1 \in 1 .. N /\ (k + 1) - 1 = k /\ f[1 .. k] \in V
      BY <2>2
    <3> QED BY <3>1, <1>2
  <2> QED BY <2>1, <2>2
<1>4. Nat \subseteq S
  <2> HIDE DEF S
  <2> QED BY <1>3, Induction
<1>5. \A k \in 0 .. N : f[1 .. k] \in V
  BY <1>4
<1>6. \A k \in 0 .. N : h[k] = f[1 .. k]
  OBVIOUS
<1>7. h \in [0 .. N -> V]
  BY <1>5
<1> HIDE DEF h
<1>8. h[0] = b /\ h[N] = f[1 .. N]
  BY <1>6, <1>1 DEF Unfolds
<1>9. ASSUME NEW k \in 1 .. N PROVE h[k] = G[<<h[k - 1], s[k]>>]
  <2>1. k - 1 \in 0 .. N /\ k \in 0 .. N
    OBVIOUS
  <2> QED BY <2>1, <1>2, <1>5, <1>6
<1> QED BY <1>7, <1>8, <1>9 DEF IsTrace

LEMMA BuildTrace ==
  ASSUME NEW b \in Builders, NEW m \in Seq(Words)
  PROVE  \E h \in [0 .. Len(m) -> Builders] :
            /\ h[0] = b /\ h[Len(m)] = BuildFrame(b, m)
            /\ \A k \in 1 .. Len(m) : h[k] = NextWord(h[k - 1], m[k])
<1> PICK N \in Nat : N = Len(m)
  BY LenProperties
<1> DEFINE G == [p \in Builders \X Words |-> NextWord(p[1], p[2])]
           Fits(g) == g = [t \in SUBSET (1 .. N) |->
                              IF t = {} THEN b ELSE NextWord(g[t \ {Max(t)}], m[Max(t)])]
<1>1. m \in [1 .. N -> Words] /\ DOMAIN m = 1 .. N
  BY LenProperties
<1>2. G \in [Builders \X Words -> Builders] 
      /\ \A v \in Builders, x \in Words : G[<<v, x>>] = NextWord(v, x)
  BY NextWordAdds
<1> HIDE DEF G
<1>3. ASSUME NEW t \in SUBSET (1 .. N), t # {} 
      PROVE  m[Max(t)] \in Words /\ t \ {Max(t)} \in SUBSET (1 .. N)
  <2>1. Max(t) \in t
    BY <1>3, MaxIsIn
  <2> QED BY <2>1, <1>1
<1>4. \E g : Fits(g)
  <2>1. PICK g \in [SUBSET (1 .. N) -> Builders] : IsFold(g, G, b, m, N)
    <3> HIDE DEF Fits
    <3> QED BY ONLY b \in Builders, N \in Nat, <1>1, <1>2, FoldExists, Zenon
  <2>2. \A t \in SUBSET (1 .. N) : t # {} => 
            G[<<g[t \ {Max(t)}], m[Max(t)]>>] = NextWord(g[t \ {Max(t)}], m[Max(t)])
    BY <1>2, <1>3
  <2>3. Fits(g)
    BY <2>1, <2>2 DEF IsFold
  <2> HIDE DEF Fits
  <2> QED BY <2>3
<1>5. PICK f : BuildFrame(b, m) = f[1 .. N] /\ Fits(f)
  <2>1. PICK f : /\ BuildFrame(b, m) = f[DOMAIN m] 
                 /\ f = CHOOSE g : g = [t \in SUBSET (DOMAIN m) |->
                            IF t = {} THEN b ELSE NextWord(g[t \ {Max(t)}], m[Max(t)])]
    BY Zenon DEF BuildFrame, FoldLeft, MapThenFoldSet
  <2>2. f = CHOOSE g : Fits(g)
    BY <2>1, <1>1
  <2> HIDE DEF Fits
  <2> QED BY <2>1, <2>2, <1>4, <1>1
<1>6. f[{}] = b
  BY <1>5
<1>7. ASSUME NEW t \in SUBSET (1 .. N), t # {}, f[t \ {Max(t)}] \in Builders
      PROVE  f[t] = G[<<f[t \ {Max(t)}], m[Max(t)]>>]
  BY <1>7, <1>5, <1>3, <1>2
<1>8. Unfolds(f, Builders, G, b, m, N)
  BY <1>6, <1>7 DEF Unfolds
<1> PICK r : r = f[1 .. N]
  OBVIOUS
<1>9. PICK h \in [0 .. N -> Builders] : IsTrace(h, G, b, m, N, r)
  <2> HIDE DEF Fits
  <2> QED BY ONLY b \in Builders, N \in Nat, <1>1, <1>2, <1>8, r = f[1 .. N], FoldTrace
<1> HIDE DEF Fits
<1>10. \A k \in 1 .. N : h[k] = NextWord(h[k - 1], m[k])
  <2>1. \A k \in 1 .. N : k - 1 \in 0 .. N
    OBVIOUS
  <2> QED BY <2>1, <1>9, <1>1, <1>2 DEF IsTrace
<1> QED BY <1>5, <1>9, <1>10 DEF IsTrace

LEMMA KnownAppend ==
  ASSUME NEW m \in Seq(Words), NEW w \in Words
  PROVE  /\ Known(m) \in Seq(Words) /\ KnownWord(w) \in Seq(Words)
         /\ Known(Append(m, w)) = Known(m) \o KnownWord(w)
<1> DEFINE s == [i \in DOMAIN m |-> KnownWord(m[i])]
           t == Append(m, w)
           u == [i \in DOMAIN t |-> KnownWord(t[i])]
<1> PICK N \in Nat : N = Len(m)
  BY LenProperties
<1>1. \A x \in Words : KnownWord(x) \in Seq(Words)
  BY DEF KnownWord
<1>2. /\ DOMAIN m = 1 .. N /\ \A i \in 1 .. N : m[i] \in Words
  BY LenProperties
<1>3. s \in [1 .. N -> Seq(Words)]
  BY <1>1, <1>2
<1>4. s \in Seq(Seq(Words)) /\ Len(s) = N
  BY <1>3
<1>5. /\ t \in Seq(Words) /\ DOMAIN t = 1 .. N + 1 /\ t[N + 1] = w
      /\ \A i \in 1 .. N : t[i] = m[i]
  BY AppendProperties, LenProperties
<1> DEFINE x == KnownWord(w)
<1>6. x \in Seq(Words)
  BY <1>1
<1>7. u = Append(s, x)
  <2>1. u \in [1 .. N + 1 -> Seq(Words)]
    BY <1>1, <1>5, LenProperties
  <2>2. u \in Seq(Seq(Words)) /\ Len(u) = N + 1
    BY <2>1
  <2>3. /\ Append(s, x) \in Seq(Seq(Words)) /\ Len(Append(s, x)) = N + 1
        /\ Append(s, x)[N + 1] = x /\ \A i \in 1 .. N : Append(s, x)[i] = s[i]
    <3> HIDE DEF s, x
    <3> QED BY <1>4, <1>6, AppendProperties
  <2>4. \A i \in 1 .. N + 1 : u[i] = Append(s, x)[i]
    <3> TAKE i \in 1 .. N + 1
    <3>1. CASE i = N + 1
      <4>1. u[i] = x
        BY <3>1, <1>5
      <4> QED BY <4>1, <3>1, <2>3
    <3>2. CASE i # N + 1
      <4>1. i \in 1 .. N
        BY <3>2
      <4>2. u[i] = KnownWord(m[i]) /\ s[i] = KnownWord(m[i])
        BY <4>1, <1>2, <1>5
      <4> QED BY <4>1, <4>2, <2>3
    <3> QED BY <3>1, <3>2
  <2> HIDE DEF u, s, x
  <2> QED BY <2>2, <2>3, <2>4, SeqEqual
<1>8. FlattenSeq(Append(s, x)) = FlattenSeq(s) \o x /\ FlattenSeq(s) \in Seq(Words)
  <2> HIDE DEF s, x
  <2> QED BY <1>4, <1>6, FlattenAppend
<1>9. Known(m) = FlattenSeq(s) /\ Known(t) = FlattenSeq(u)
  BY DEF Known
<1> HIDE DEF s, u
<1> QED BY <1>6, <1>7, <1>8, <1>9 DEF x

\* A message adds its known words, in order.
LEMMA BuildFrameAdds ==
  ASSUME NEW b \in Builders, NEW m \in Seq(Words)
  PROVE  BuildFrame(b, m) \in Builders /\ WordsOf(BuildFrame(b, m)) = WordsOf(b) \o Known(m)
<1> PICK N \in Nat : N = Len(m)
  BY LenProperties
<1>1. PICK h \in [0 .. N -> Builders] :
            /\ h[0] = b /\ h[N] = BuildFrame(b, m)
            /\ \A k \in 1 .. N : h[k] = NextWord(h[k - 1], m[k])
  BY BuildTrace
<1> DEFINE S == {k \in Nat : k <= N => WordsOf(h[k]) = WordsOf(b) \o Known(SubSeq(m, 1, k))}
<1>2. 0 \in S
  <2>1. SubSeq(m, 1, 0) = << >>
    BY SubSeqEmpty
  <2>2. Known(<< >>) = << >>
    <3>1. [i \in DOMAIN << >> |-> KnownWord(<< >>[i])] = << >>
      OBVIOUS
    <3> QED BY <3>1, FlattenEmpty DEF Known
  <2>3. WordsOf(b) \o << >> = WordsOf(b)
    BY HeldWords, ConcatEmptySeq
  <2> QED BY <1>1, <2>1, <2>2, <2>3
<1>3. ASSUME NEW k \in Nat, k \in S PROVE k + 1 \in S
  <2> SUFFICES ASSUME k + 1 <= N
               PROVE  WordsOf(h[k + 1]) = WordsOf(b) \o Known(SubSeq(m, 1, k + 1))
    OBVIOUS
  <2>1. k \in 0 .. N /\ k + 1 \in 1 .. N /\ (k + 1) - 1 = k
    OBVIOUS
  <2> PICK w \in Words : w = m[k + 1]
    BY <2>1, LenProperties
  <2> PICK c \in Builders : c = h[k]
    BY <2>1
  <2> PICK p \in Seq(Words) : p = SubSeq(m, 1, k)
    <3>1. \A i \in 1 .. k : m[i] \in Words
      BY LenProperties
    <3>2. SubSeq(m, 1, k) = [i \in 1 .. k |-> m[i]]
      OBVIOUS
    <3>3. [i \in 1 .. k |-> m[i]] \in Seq(Words)
      BY <3>1
    <3> QED BY <3>2, <3>3
  <2>2. SubSeq(m, 1, k + 1) = Append(p, w)
    <3>1. SubSeq(m, 1, k + 1) = p \o <<w>>
      BY <2>1, SubSeqRecursiveSecond
    <3> QED BY <3>1, AppendIsConcat
  <2>3. h[k + 1] = NextWord(c, w)
    BY <1>1, <2>1
  <2>4. WordsOf(c) = WordsOf(b) \o Known(p)
    BY <1>3
  <2>5. WordsOf(NextWord(c, w)) = WordsOf(c) \o KnownWord(w)
    BY NextWordAdds
  <2>6. (WordsOf(b) \o Known(p)) \o KnownWord(w) = WordsOf(b) \o (Known(p) \o KnownWord(w))
    <3>1. WordsOf(b) \in Seq(Words) /\ Known(p) \in Seq(Words) /\ KnownWord(w) \in Seq(Words)
      BY HeldWords, KnownAppend
    <3> QED BY ONLY <3>1, WordsConcat
  <2>7. Known(Append(p, w)) = Known(p) \o KnownWord(w)
    BY KnownAppend
  <2> HIDE DEF S
  <2> QED BY <2>2, <2>3, <2>4, <2>5, <2>6, <2>7
<1>4. N \in S
  <2> HIDE DEF S
  <2> QED BY <1>2, <1>3, Induction
<1>5. SubSeq(m, 1, N) = m
  BY SubSeqFull
<1>6. WordsOf(h[N]) = WordsOf(b) \o Known(SubSeq(m, 1, N))
  BY <1>4, N <= N
<1>7. h[N] \in Builders
  OBVIOUS
<1> HIDE DEF S
<1> QED BY <1>1, <1>5, <1>6, <1>7

-----------------------------------------------------------------------------
Messages == {<< >>} \cup {<<m>> : m \in Seq(Words)}
Wires == {<< >>} \cup {<<frame>> : frame \in Frames}
Parts == Fems \X Frames
Buffers == UNION {[I -> Seq(Parts)] : I \in SUBSET Nat}
Sendings == {NoFrame} \cup [id : Nat, parts : Seq(Parts), isock : Nat]

SamplerType ==
    /\ stream \in Streams
    /\ taken \in [Fems -> Nat]
    /\ \A f \in Fems : taken[f] <= fnByte * Len(stream[f])
    /\ socket \in [Fems -> {"open", "closed", "bad"}]
    /\ raw \in [Fems -> Messages]
    /\ faults \in Nat
    /\ lost \subseteq Fems

STFBuilderType ==
    /\ fSplitMethod \in SplitMethods
    /\ built \in [Fems -> Builders]
    /\ handling \in [Fems -> {"no", "dqm", "out"}]
    /\ \A f \in Fems : handling[f] # "no" => built[f].fOutputPayloads # << >>
    /\ link \in [Fems -> [Destinations -> Wires]]

TFBuilderType ==
    /\ fTFBuffer \in [Destinations -> Buffers]
    /\ fDiscarded \in [Destinations -> SUBSET Nat]
    /\ sweep \in [Destinations -> SUBSET Nat]
    /\ \A d \in Destinations : sweep[d] \subseteq Ids(fTFBuffer[d])
    /\ sending \in [Destinations -> Sendings]

ChainType ==
    /\ run \in Nat
    /\ stopRequested \in BOOLEAN
    /\ ready \subseteq Devices
    /\ inStep \in {"fresh", "same", "no"}

TypeOK == SamplerType /\ STFBuilderType /\ TFBuilderType /\ ChainType

-----------------------------------------------------------------------------
LEMMA Division ==
  ASSUME NEW n \in Nat, NEW d \in Nat \ {0}
  PROVE  n \div d \in Nat /\ n % d \in 0 .. d - 1 /\ n = d * (n \div d) + (n % d)
  OBVIOUS

LEMMA FewerTimes ==
  ASSUME NEW a \in Nat, NEW b \in Nat, NEW d \in Nat \ {0}, d * a <= d * b
  PROVE  a <= b
<1> SUFFICES ASSUME b + 1 <= a PROVE FALSE
  OBVIOUS
<1> PICK e \in Nat : a = b + 1 + e
  <2>1. a - (b + 1) \in Nat /\ a = b + 1 + (a - (b + 1))
    OBVIOUS
  <2> QED BY <2>1
<1>1. d * a = d * b + d + d * e /\ d * e \in Nat /\ d * b \in Nat /\ d * a \in Nat
  OBVIOUS
<1> QED BY <1>1

\* A word that begins before the last of q ends before the end.
LEMMA PlaceOfWord ==
  ASSUME NEW B \in Nat \ {0}, NEW N \in Nat, NEW q \in Nat, NEW t \in Nat, NEW i \in 1 .. q,
         t + B * q <= B * N
  PROVE  t + B * (i - 1) + B <= B * N
<1> PICK j \in Nat : j = i - 1
  OBVIOUS
<1> PICK e \in Nat : q = j + 1 + e
  <2>1. q - i \in Nat /\ q = (i - 1) + 1 + (q - i)
    OBVIOUS
  <2> QED BY <2>1
<1>1. B * q = B * j + B + B * e /\ B * e \in Nat /\ B * j \in Nat /\ B * N \in Nat
  OBVIOUS
<1>2. B * (i - 1) = B * j
  OBVIOUS
<1> QED BY <1>1, <1>2

\* A buffer of words that were received.
LEMMA ReceivedWords ==
  ASSUME SamplerType, NEW f \in Fems, NEW k \in Nat, k <= Available(f), NEW g \in Garbled
  PROVE  Received(f, k, g) \in Seq(Words)
<1>1. /\ fnByte \in Nat \ {0} /\ g \in Heads /\ stream \in [Fems -> Seq(Heads)]
      /\ taken[f] \in Nat
  BY SamplerAssumption DEF SamplerType
<1>2. stream[f] \in Seq(Heads) /\ Len(stream[f]) \in Nat
  BY <1>1, LenProperties
<1> PICK N \in Nat : N = Len(stream[f])
  BY <1>2
<1> PICK q \in Nat : q = k \div fnByte
  BY <1>1, Division
<1>3. fnByte * q <= k
  <2>1. k % fnByte \in Nat /\ k = fnByte * (k \div fnByte) + (k % fnByte) 
        /\ fnByte * (k \div fnByte) \in Nat
    BY <1>1, Division
  <2> QED BY <2>1
<1>4. taken[f] + k <= fnByte * N
  <2>1. k <= fnByte * N - taken[f]
    BY DEF Available
  <2>2. fnByte * N \in Nat
    BY <1>1
  <2> QED BY ONLY <2>1, <2>2, <1>1, k \in Nat
<1>7. taken[f] + fnByte * q <= fnByte * N
  <2>1. fnByte * q \in Nat /\ fnByte * N \in Nat
    BY <1>1
  <2> QED BY ONLY <2>1, <1>1, <1>3, <1>4, k \in Nat
<1>5. ASSUME NEW i \in 1 .. q PROVE WordAt(f, taken[f] + fnByte * (i - 1), g) \in Words
  <2> PICK from \in Nat : from = taken[f] + fnByte * (i - 1)
    <3>1. i - 1 \in Nat
      OBVIOUS
    <3>2. fnByte * (i - 1) \in Nat
      BY <1>1, <3>1
    <3> QED BY <1>1, <3>2
  <2>1. CASE from % fnByte = 0
    <3> PICK p \in Nat : p = from \div fnByte
      BY <1>1, Division
    <3>1. from = fnByte * p
      <4>1. from = fnByte * (from \div fnByte) + (from % fnByte)
        BY ONLY <1>1, from \in Nat, Division
      <4>2. fnByte * p \in Nat
        BY <1>1
      <4> QED BY ONLY <4>1, <4>2, <2>1, p = from \div fnByte
    <3>2. from + fnByte <= fnByte * N
      BY ONLY <1>1, <1>7, N \in Nat, q \in Nat, i \in 1 .. q, PlaceOfWord,
              from = taken[f] + fnByte * (i - 1)
    <3>3. p + 1 <= N
      <4>1. fnByte * (p + 1) = fnByte * p + fnByte /\ p + 1 \in Nat
        BY ONLY <1>1, p \in Nat
      <4> QED BY <1>1, <3>1, <3>2, <4>1, FewerTimes
    <3>4. stream[f][p + 1] \in Heads
      BY <3>3, <1>2, LenProperties
    <3>5. WordAt(f, from, g) = [head |-> stream[f][p + 1], n |-> p + 1]
      BY <2>1 DEF WordAt, Word
    <3> QED BY <3>4, <3>5 DEF Words
  <2>2. CASE from % fnByte # 0
    BY <2>2, <1>1 DEF WordAt, Word, Words
  <2> QED BY <2>1, <2>2
<1>6. Received(f, k, g) = [i \in 1 .. q |-> WordAt(f, taken[f] + fnByte * (i - 1), g)]
  BY DEF Received
<1> QED BY <1>5, <1>6

LEMMA KeptType ==
  ASSUME NEW words \in Seq(Words)
  PROVE  KeptWords(words) \in Seq(Words)
<1> DEFINE ends == {i \in DOMAIN words : words[i].head = "SpillEnd"}
           e == CHOOSE i \in ends : \A j \in ends : i <= j
<1>1. DOMAIN words = 1 .. Len(words) /\ Len(words) \in Nat /\ \A i \in 1 .. Len(words) : words[i] \in Words
  BY LenProperties
<1>2. CASE ends = {}
  BY <1>2 DEF KeptWords
<1>3. CASE ends # {}
  <2>1. ends \in SUBSET Nat
    BY <1>1
  <2>2. \E i \in ends : \A j \in ends : i <= j
    <3> HIDE DEF ends
    <3> QED BY <1>3, <2>1, LeastNatural
  <2>3. e \in ends
    <3> HIDE DEF ends
    <3> QED BY <2>2
  <2>4. e \in 1 .. Len(words)
    BY <2>3, <1>1
  <2>5. KeptWords(words) = SubSeq(words, 1, e)
    BY <1>3 DEF KeptWords
  <2> HIDE DEF e
  <2>6. SubSeq(words, 1, e) = [i \in 1 .. e |-> words[i]]
    BY <2>4
  <2>7. [i \in 1 .. e |-> words[i]] \in Seq(Words)
    BY <2>4, <1>1
  <2> QED BY <2>5, <2>6, <2>7
<1> QED BY <1>2, <1>3

LEMMA SendType ==
  ASSUME SamplerType, NEW f \in Fems, NEW words \in Seq(Words), Send(f, words)
  PROVE  raw' \in [Fems -> Messages]
<1>1. <<words>> \in Messages
  BY DEF Messages
<1> QED BY <1>1 DEF Send, SamplerType

LEMMA SamplerStepType ==
  ASSUME SamplerType, NEW f \in Fems, SamplerStep(f)
  PROVE  SamplerType'
<1>0. /\ fnByte \in Nat \ {0} /\ fnWordPerCycle \in Nat \ {0} /\ MaxFaults \in Nat /\ Size \in Nat
      /\ taken[f] \in Nat /\ Len(stream[f]) \in Nat /\ fnByte * Len(stream[f]) \in Nat
      /\ Available(f) \in Nat
  <2>1. /\ fnByte \in Nat \ {0} /\ fnWordPerCycle \in Nat \ {0} /\ MaxFaults \in Nat
    BY SamplerAssumption
  <2>2. stream[f] \in Seq(Heads) /\ taken[f] \in Nat /\ taken[f] <= fnByte * Len(stream[f])
    BY SamplerAssumption DEF SamplerType
  <2>3. Size \in Nat
    BY <2>1 DEF Size
  <2>4. Len(stream[f]) \in Nat
    BY <2>2, LenProperties
  <2>5. fnByte * Len(stream[f]) \in Nat
    BY <2>1, <2>4
  <2> QED BY <2>1, <2>2, <2>3, <2>4, <2>5 DEF Available
<1> USE DEF SamplerType
<1>1. ASSUME NEW k \in Nat, k <= Available(f), taken' = [taken EXCEPT ![f] = @ + k], stream' = stream
      PROVE  taken' \in [Fems -> Nat] /\ \A h \in Fems : taken'[h] <= fnByte * Len(stream'[h])
  <2>1. taken[f] + k \in Nat /\ taken[f] + k <= fnByte * Len(stream[f])
    BY <1>0, <1>1 DEF Available
  <2> QED BY <2>1, <1>1
<1>2. CASE CycleFull(f)
  <2>1. PICK g \in Garbled : Send(f, Received(f, Size, g))
    BY <1>2 DEF CycleFull
  <2>2. Size <= Available(f) /\ taken' = [taken EXCEPT ![f] = @ + Size]
        /\ UNCHANGED <<stream, socket, faults, lost>>
    BY <1>0, <1>2 DEF CycleFull
  <2>3. raw' \in [Fems -> Messages]
    BY <1>0, <2>1, <2>2, ReceivedWords, SendType
  <2> QED BY <1>0, <1>1, <2>2, <2>3
<1>3. CASE CycleTimeout(f)
  <2>1. PICK k \in 0 .. Size - 1, g \in Garbled :
           /\ k <= Available(f)
           /\ LET kept == KeptWords(Received(f, k, g))
              IN  /\ IF kept = << >> THEN raw' = raw ELSE Send(f, kept)
                  /\ lost' = IF k = fnByte * Len(kept) THEN lost
                                                    ELSE lost \cup {f}
           /\ taken' = [taken EXCEPT ![f] = @ + k]
    BY <1>3 DEF CycleTimeout
  <2>2. k \in Nat
    BY <1>0
  <2>3. KeptWords(Received(f, k, g)) \in Seq(Words)
    BY <2>1, <2>2, ReceivedWords, KeptType
  <2>4. raw' \in [Fems -> Messages] /\ lost' \subseteq Fems
    BY <2>1, <2>3, SendType
  <2>5. UNCHANGED <<stream, socket>> /\ faults' \in Nat
    BY <1>3, <1>0 DEF CycleTimeout, Fault
  <2> QED BY <1>1, <2>1, <2>2, <2>4, <2>5
<1>4. CASE CycleClosed(f)
  <2>1. PICK k \in 0 .. Size - 1, g \in Garbled :
           /\ k <= IF socket[f] = "open" THEN Available(f) ELSE 0
           /\ LET words == Received(f, k, g)
              IN  Send(f, [i \in 1 .. fnWordPerCycle |->
                            IF i \in DOMAIN words THEN words[i] ELSE NoWord])
           /\ taken' = [taken EXCEPT ![f] = @ + k]
    BY <1>4 DEF CycleClosed
  <2>2. k \in Nat /\ k <= Available(f)
    BY <1>0, <2>1
  <2> PICK words \in Seq(Words) : words = Received(f, k, g)
    BY <2>2, ReceivedWords
  <2>3. NoWord \in Words
    BY DEF NoWord, Word, Words, Heads
  <2>4. [i \in 1 .. fnWordPerCycle |-> IF i \in DOMAIN words THEN words[i] ELSE NoWord] \in Seq(Words)
    <3>1. \A i \in DOMAIN words : words[i] \in Words
      BY LenProperties
    <3> QED BY <3>1, <2>3, <1>0
  <2>5. raw' \in [Fems -> Messages]
    <3> PICK filled \in Seq(Words) :
           filled = [i \in 1 .. fnWordPerCycle |-> IF i \in DOMAIN words THEN words[i] ELSE NoWord]
      BY <2>4
    <3>1. Send(f, filled)
      BY <2>1
    <3> QED BY <3>1, SendType
  <2>6. UNCHANGED stream /\ faults' \in Nat /\ lost' \subseteq Fems
        /\ socket' = [socket EXCEPT ![f] = "closed"]
    BY <1>4, <1>0 DEF CycleClosed, Fault
  <2> QED BY <1>1, <2>1, <2>2, <2>5, <2>6
<1>5. CASE CycleBroken(f)
  BY <1>5, <1>0 DEF CycleBroken, Fault
<1> QED BY <1>2, <1>3, <1>4, <1>5 DEF SamplerStep

LEMMA MessageParts ==
  ASSUME NEW m \in Messages, m # << >>
  PROVE  m = <<Head(m)>> /\ Head(m) \in Seq(Words) /\ Tail(m) = << >>
<1> PICK w \in Seq(Words) : m = <<w>>
  BY DEF Messages
<1>1. Head(<<w>>) = w /\ Tail(<<w>>) = << >>
  OBVIOUS
<1> QED BY <1>1

LEMMA WireParts ==
  ASSUME NEW m \in Wires, m # << >>
  PROVE  m = <<Head(m)>> /\ Head(m) \in Frames
<1> PICK w \in Frames : m = <<w>>
  BY DEF Wires
<1>1. Head(<<w>>) = w
  OBVIOUS
<1> QED BY <1>1

LEMMA DestinationType ==
  ASSUME NEW frame \in Frames
  PROVE  Destination(frame) \in Destinations
<1>1. frame.id \in Nat /\ fNumDestination \in Nat \ {0}
  BY STFBuilderAssumption DEF Frames
<1> QED BY <1>1 DEF Destination, Destinations

LEMMA NextFrameType ==
  ASSUME NEW f, NEW b
  PROVE  /\ NextFrame(f, b) \in {"no", "dqm", "out"}
         /\ NextFrame(f, b) # "no" => b.fOutputPayloads # << >>
  BY DEF NextFrame

\* What a builder does, whether the Send to its monitor is read or ends in a stop.
BuilderStep(f) ==
    /\ STFBuilder(f) \notin ready
    /\ \/ HandleData(f) /\ UNCHANGED <<stream, taken, socket, faults, lost>>
       \/ (DqmSent(f) \/ OutputSent(f)) /\ UNCHANGED samplerVars
    /\ UNCHANGED <<tfVars, chainVars>>

LEMMA StepOfBuilder ==
  ASSUME NEW f \in Fems, STFStep(f) \/ MonitorStep(f)
  PROVE  BuilderStep(f)
  BY DEF STFStep, MonitorStep, BuilderStep, DqmSent, DqmInterrupted

LEMMA STFStepType ==
  ASSUME SamplerType, STFBuilderType, NEW f \in Fems, BuilderStep(f)
  PROVE  SamplerType' /\ STFBuilderType'
<1> USE DEF STFBuilderType
<1>1. CASE HandleData(f) /\ UNCHANGED <<stream, taken, socket, faults, lost>>
  <2>1. raw[f] \in Messages /\ raw[f] # << >>
    BY <1>1 DEF HandleData, SamplerType
  <2>2. /\ Head(raw[f]) \in Seq(Words) /\ Tail(raw[f]) \in Messages
    BY <2>1, MessageParts DEF Messages
  <2>3. SamplerType'
    BY <1>1, <2>2 DEF HandleData, SamplerType
  <2> PICK b \in Builders : b = BuildFrame(built[f], Head(raw[f]))
    BY <2>2, BuildFrameAdds
  <2>4. /\ built' = [built EXCEPT ![f] = b] /\ UNCHANGED <<fSplitMethod, link>>
        /\ handling' = [handling EXCEPT ![f] = NextFrame(f, built'[f])]
    BY <1>1 DEF HandleData
  <2>5. built' \in [Fems -> Builders]
    BY <2>4
  <2>6. handling' \in [Fems -> {"no", "dqm", "out"}]
    BY <2>4, NextFrameType
  <2>7. \A h \in Fems : handling'[h] # "no" => built'[h].fOutputPayloads # << >>
    <3> TAKE h \in Fems
    <3>1. CASE h = f
      BY <3>1, <2>4, NextFrameType
    <3>2. CASE h # f
      BY <3>2, <2>4
    <3> QED BY <3>1, <3>2
  <2> QED BY <2>3, <2>4, <2>5, <2>6, <2>7
<1>2. CASE DqmSent(f) /\ UNCHANGED samplerVars
  <2>1. SamplerType'
    BY <1>2 DEF samplerVars, SamplerType
  <2>2. /\ handling[f] = "dqm" /\ handling' = [handling EXCEPT ![f] = "out"]
        /\ UNCHANGED <<fSplitMethod, built, link>>
    BY <1>2 DEF DqmSent
  <2> QED BY <2>1, <2>2
<1>3. CASE OutputSent(f) /\ UNCHANGED samplerVars
  <2>1. SamplerType'
    BY <1>3 DEF samplerVars, SamplerType
  <2>2. built[f] \in Builders /\ built[f].fOutputPayloads \in Seq(Frames) \ {<< >>}
    BY <1>3 DEF OutputSent, Builders
  <2>3. Head(built[f].fOutputPayloads) \in Frames /\ Tail(built[f].fOutputPayloads) \in Seq(Frames)
    BY <2>2, HeadTailProperties
  <2> PICK frame \in Frames : frame = Head(built[f].fOutputPayloads)
    BY <2>3
  <2>4. /\ link' = [link EXCEPT ![f][Destination(frame)] = <<frame>>]
        /\ built' = [built EXCEPT ![f].fOutputPayloads = Tail(@)]
        /\ handling' = [handling EXCEPT ![f] = NextFrame(f, built'[f])]
        /\ UNCHANGED fSplitMethod
    BY <1>3 DEF OutputSent
  <2>5. link' \in [Fems -> [Destinations -> Wires]]
    <3>1. Destination(frame) \in Destinations /\ <<frame>> \in Wires
      BY DestinationType DEF Wires
    <3> QED BY <3>1, <2>4
  <2>6. built' \in [Fems -> Builders]
    <3>1. [built[f] EXCEPT !.fOutputPayloads = Tail(@)] \in Builders
      BY <2>2, <2>3 DEF Builders
    <3> QED BY <3>1, <2>4
  <2>7. handling' \in [Fems -> {"no", "dqm", "out"}]
    BY <2>4, NextFrameType
  <2>8. \A h \in Fems : handling'[h] # "no" => built'[h].fOutputPayloads # << >>
    <3> TAKE h \in Fems
    <3>1. CASE h = f
      BY <3>1, <2>4, NextFrameType
    <3>2. CASE h # f
      BY <3>2, <2>4
    <3> QED BY <3>1, <3>2
  <2> QED BY <2>1, <2>4, <2>5, <2>6, <2>7, <2>8
<1> QED BY <1>1, <1>2, <1>3 DEF BuilderStep

LEMMA STFStopType ==
  ASSUME STFBuilderType, NEW f \in Fems, PostRunSTF(f)
  PROVE  STFBuilderType'
<1> USE DEF STFBuilderType
<1> PICK b : b = [built[f] EXCEPT !.fInputPayloads = << >>, !.fWorkingPayloads = << >>,
                                  !.fOutputPayloads = << >>]
  OBVIOUS
<1>1. b \in Builders
  <2>1. built[f] \in Builders /\ << >> \in Seq(Words) /\ << >> \in Seq(Seq(Words)) /\ << >> \in Seq(Frames)
    OBVIOUS
  <2> QED BY <2>1 DEF Builders
<1>2. built' = [built EXCEPT ![f] = b] /\ handling' = [handling EXCEPT ![f] = "no"]
      /\ UNCHANGED <<fSplitMethod, link>>
  BY DEF PostRunSTF
<1>3. built' \in [Fems -> Builders] /\ handling' \in [Fems -> {"no", "dqm", "out"}]
  BY <1>1, <1>2
<1>4. \A h \in Fems : handling'[h] # "no" => built'[h].fOutputPayloads # << >>
  BY <1>2
<1> QED BY <1>2, <1>3, <1>4

LEMMA StartRunType ==
  ASSUME SamplerType, STFBuilderType, TFBuilderType, ChainType, NEW reset, StartRun(reset)
  PROVE  SamplerType' /\ STFBuilderType' /\ TFBuilderType' /\ ChainType'
<1>1. SamplerType'
  <2>1. stream' \in Streams /\ taken' = [f \in Fems |-> 0] /\ raw' = raw
    BY DEF StartRun, SamplerPreRun
  <2>2. PICK unreached \in SUBSET Fems :
           /\ Fault(Cardinality(unreached))
           /\ socket' = [f \in Fems |-> IF f \in unreached THEN "bad" ELSE "open"]
           /\ lost' = unreached \cup {f \in Fems : raw[f] # << >>}
    BY DEF StartRun, SamplerPreRun
  <2>3. Cardinality(unreached) \in Nat
    BY SamplerAssumption, FS_Subset, FS_CardinalityType
  <2>4. faults' \in Nat
    BY <2>2, <2>3 DEF SamplerType, Fault
  <2>5. \A f \in Fems : taken'[f] <= fnByte * Len(stream'[f])
    <3> TAKE f \in Fems
    <3>1. stream'[f] \in Seq(Heads) /\ fnByte \in Nat
      BY <2>1, SamplerAssumption
    <3>2. Len(stream'[f]) \in Nat
      BY <3>1, LenProperties
    <3>3. fnByte * Len(stream'[f]) \in Nat
      BY <3>1, <3>2
    <3> QED BY <3>3, <2>1
  <2> QED BY <2>1, <2>2, <2>4, <2>5 DEF SamplerType
<1>2. STFBuilderType'
  <2>1. CASE UNCHANGED stfVars
    BY <2>1 DEF stfVars, STFBuilderType
  <2>2. CASE InitTaskSTF
    <3>1. built' = [f \in Fems |-> [built[f] EXCEPT !.fSTFId = 0, !.fHBFCounter = 0]]
          /\ UNCHANGED <<fSplitMethod, handling, link>>
      BY <2>2 DEF InitTaskSTF
    <3>2. ASSUME NEW f \in Fems
          PROVE  /\ built'[f] \in Builders
                 /\ built'[f].fOutputPayloads = built[f].fOutputPayloads
      BY <3>1 DEF STFBuilderType, Builders
    <3>3. built' \in [Fems -> Builders]
      BY <3>1, <3>2
    <3> QED BY <3>1, <3>2, <3>3 DEF STFBuilderType
  <2> QED BY <2>1, <2>2 DEF StartRun
<1>3. TFBuilderType'
  <2>1. UNCHANGED tfVars
    BY DEF StartRun
  <2> QED BY <2>1 DEF tfVars, TFBuilderType
<1>4. ChainType'
  <2>1. inStep' \in {"fresh", "same", "no"}
    <3>1. inStep' = "no" \/ inStep' = "fresh" \/ inStep' = "same"
      BY Zenon DEF StartRun
    <3> QED BY <3>1
  <2>2. run' = run + 1 /\ ready' = {} /\ stopRequested' = FALSE
    BY DEF StartRun
  <2>3. run' \in Nat
    BY <2>2 DEF ChainType
  <2>4. ready' \subseteq Devices
    BY <2>2
  <2>5. stopRequested' \in BOOLEAN
    BY <2>2
  <2> QED BY <2>1, <2>3, <2>4, <2>5 DEF ChainType, Devices
<1> QED BY <1>1, <1>2, <1>3, <1>4

\* The numbers of a buffer, and its parts.
LEMMA BufferParts ==
  ASSUME NEW buffer
  PROVE  buffer \in Buffers <=>
            Ids(buffer) \in SUBSET Nat /\ buffer \in [Ids(buffer) -> Seq(Parts)]
<1>1. ASSUME buffer \in Buffers
      PROVE  Ids(buffer) \in SUBSET Nat /\ buffer \in [Ids(buffer) -> Seq(Parts)]
  <2> PICK I \in SUBSET Nat : buffer \in [I -> Seq(Parts)]
    BY <1>1 DEF Buffers
  <2>1. Ids(buffer) = I
    BY DEF Ids
  <2> QED BY <2>1
<1>2. ASSUME Ids(buffer) \in SUBSET Nat, buffer \in [Ids(buffer) -> Seq(Parts)]
      PROVE  buffer \in Buffers
  BY <1>2 DEF Buffers
<1> QED BY <1>1, <1>2

LEMMA TFStepType ==
  ASSUME STFBuilderType, TFBuilderType, NEW d \in Destinations, TFStep(d)
  PROVE  STFBuilderType' /\ TFBuilderType'
<1> USE DEF TFBuilderType
<1>b. /\ fTFBuffer[d] \in Buffers /\ Ids(fTFBuffer[d]) \in SUBSET Nat
      /\ \A id \in Ids(fTFBuffer[d]) : fTFBuffer[d][id] \in Seq(Parts)
      /\ sweep[d] \subseteq Ids(fTFBuffer[d])
  <2>1. fTFBuffer[d] \in Buffers /\ sweep[d] \subseteq Ids(fTFBuffer[d])
    OBVIOUS
  <2> QED BY <2>1, BufferParts
<1>w. ASSUME NEW id PROVE Without(fTFBuffer[d], id) \in Buffers
                          /\ Ids(Without(fTFBuffer[d], id)) = Ids(fTFBuffer[d]) \ {id}
  <2>1. Ids(fTFBuffer[d]) \ {id} \in SUBSET Nat
    BY <1>b
  <2> PICK b : b = Without(fTFBuffer[d], id)
    OBVIOUS
  <2>2. b = [i \in Ids(fTFBuffer[d]) \ {id} |-> fTFBuffer[d][i]]
    BY DEF Without
  <2>3. Ids(b) = Ids(fTFBuffer[d]) \ {id}
    BY <2>2 DEF Ids
  <2>4. b \in [Ids(b) -> Seq(Parts)]
    BY <2>2, <2>3, <1>b
  <2> QED BY <2>1, <2>3, <2>4, BufferParts
<1>1. ASSUME NEW f \in Fems, ReceiveSTF(d, f) PROVE STFBuilderType' /\ TFBuilderType'
  <2>1. link[f][d] \in Wires /\ link[f][d] # << >>
    BY <1>1 DEF STFBuilderType, ReceiveSTF
  <2> PICK frame \in Frames : frame = Head(link[f][d])
    BY <2>1, WireParts
  <2>2. STFBuilderType'
    <3>1. << >> \in Wires
      BY DEF Wires
    <3>2. link' \in [Fems -> [Destinations -> Wires]]
      BY <3>1, <1>1 DEF STFBuilderType, ReceiveSTF
    <3>3. UNCHANGED <<fSplitMethod, built, handling>>
      BY DEF TFStep
    <3> QED BY <3>2, <3>3 DEF STFBuilderType
  <2> PICK buffer : buffer = With(fTFBuffer[d], frame.id, <<f, frame>>)
    OBVIOUS
  <2>3. buffer \in Buffers
    <3>1. frame.id \in Nat /\ <<f, frame>> \in Parts
      BY DEF Frames, Parts
    <3> PICK id \in Nat : id = frame.id
      BY <3>1
    <3> PICK part \in Parts : part = <<f, frame>>
      BY <3>1
    <3> PICK p \in Seq(Parts) : p = Append(IF id \in Ids(fTFBuffer[d]) THEN fTFBuffer[d][id] ELSE << >>, part)
      <4>1. CASE id \in Ids(fTFBuffer[d])
        BY <4>1, <1>b, AppendProperties
      <4>2. CASE id \notin Ids(fTFBuffer[d])
        <5>1. << >> \in Seq(Parts)
          OBVIOUS
        <5>2. Append(<< >>, part) \in Seq(Parts)
          BY <5>1, AppendProperties
        <5> QED BY <4>2, <5>2
      <4> QED BY <4>1, <4>2
    <3>2. buffer = [i \in Ids(fTFBuffer[d]) \cup {id} |-> IF i = id THEN p ELSE fTFBuffer[d][i]]
      BY DEF With
    <3>3. buffer \in [Ids(fTFBuffer[d]) \cup {id} -> Seq(Parts)]
      BY <3>2, <1>b
    <3>4. Ids(fTFBuffer[d]) \cup {id} \in SUBSET Nat
      BY <1>b
    <3> QED BY <3>3, <3>4 DEF Buffers
  <2>4. fTFBuffer' \in [Destinations -> Buffers]
    <3>1. fTFBuffer' = [fTFBuffer EXCEPT ![d] = buffer] \/ fTFBuffer' = fTFBuffer
      BY <1>1 DEF ReceiveSTF
    <3> QED BY <3>1, <2>3
  <2>5. Ids(fTFBuffer'[d]) \in SUBSET Nat
    BY <2>4, BufferParts
  <2>6. /\ sweep' = [sweep EXCEPT ![d] = Ids(fTFBuffer'[d])] /\ UNCHANGED <<fDiscarded, sending>>
        /\ \A e \in Destinations : e # d => fTFBuffer'[e] = fTFBuffer[e]
    BY <1>1 DEF ReceiveSTF
  <2>7. \A e \in Destinations : sweep'[e] \subseteq Ids(fTFBuffer'[e])
    BY <2>6
  <2> QED BY <2>2, <2>4, <2>5, <2>6, <2>7
<1>2. CASE ReceiveNoSTF(d)
  <2>1. STFBuilderType'
    BY <1>2 DEF TFStep, ReceiveNoSTF, STFBuilderType
  <2>2. TFBuilderType'
    BY <1>2, <1>b DEF ReceiveNoSTF
  <2> QED BY <2>1, <2>2
<1>3. ASSUME NEW id \in sweep[d], SweepComplete(d, id) \/ SweepExpire(d, id) \/ SweepKeep(d, id)
      PROVE  STFBuilderType' /\ TFBuilderType'
  <2>0. id \in Nat /\ id \in Ids(fTFBuffer[d]) /\ fTFBuffer[d][id] \in Seq(Parts)
    BY <1>b
  <2>1. STFBuilderType'
    BY <1>3 DEF TFStep, SweepComplete, SweepExpire, SweepKeep, Visit, STFBuilderType
  <2>2. sweep' = [sweep EXCEPT ![d] = @ \ {id}]
    BY <1>3 DEF SweepComplete, SweepExpire, SweepKeep, Visit
  <2>3. fTFBuffer' = [fTFBuffer EXCEPT ![d] = Without(@, id)] \/ fTFBuffer' = fTFBuffer
    BY <1>3 DEF SweepComplete, SweepExpire, SweepKeep
  <2>4. fTFBuffer' \in [Destinations -> Buffers] /\ sweep' \in [Destinations -> SUBSET Nat]
    BY <2>2, <2>3, <1>w
  <2>5. \A e \in Destinations : sweep'[e] \subseteq Ids(fTFBuffer'[e])
    <3> TAKE e \in Destinations
    <3>1. CASE e = d
      BY <3>1, <2>2, <2>3, <1>b, <1>w
    <3>2. CASE e # d
      BY <3>2, <2>2, <2>3
    <3> QED BY <3>1, <3>2
  <2>6. fDiscarded' \in [Destinations -> SUBSET Nat]
    BY <1>3, <2>0 DEF SweepComplete, SweepExpire, SweepKeep
  <2>7. sending' \in [Destinations -> Sendings]
    <3>1. [id |-> id, parts |-> fTFBuffer[d][id], isock |-> Outputs - 1] \in Sendings
      BY <2>0, TFBuilderAssumption DEF Sendings
    <3> QED BY <1>3, <3>1 DEF SweepComplete, SweepExpire, SweepKeep
  <2> QED BY <2>1, <2>4, <2>5, <2>6, <2>7
<1>4. CASE CopySent(d) \/ CopyInterrupted(d) \/ FrameSent(d)
  <2>1. STFBuilderType'
    BY <1>4 DEF TFStep, CopySent, CopyInterrupted, FrameSent, STFBuilderType
  <2>2. sending' \in [Destinations -> Sendings]
    <3>1. sending[d] \in Sendings /\ NoFrame \in Sendings /\ NoFrame.isock = 0
      BY DEF Sendings, NoFrame
    <3>2. CASE FrameSent(d)
      BY <3>1, <3>2 DEF FrameSent
    <3>3. CASE CopySent(d) \/ CopyInterrupted(d)
      <4>1. sending[d].isock > 0 /\ sending' = [sending EXCEPT ![d].isock = @ - 1]
        BY <3>3 DEF CopySent, CopyInterrupted
      <4>2. sending[d] \in [id : Nat, parts : Seq(Parts), isock : Nat]
        BY <3>1, <4>1 DEF Sendings
      <4>3. [sending[d] EXCEPT !.isock = @ - 1] \in [id : Nat, parts : Seq(Parts), isock : Nat]
        BY <4>1, <4>2
      <4> QED BY <4>1, <4>3 DEF Sendings
    <3> QED BY <1>4, <3>2, <3>3
  <2> QED BY <1>4, <2>1, <2>2 DEF CopySent, CopyInterrupted, FrameSent
<1> QED BY <1>1, <1>2, <1>3, <1>4 DEF TFStep

LEMMA TFStopType ==
  ASSUME TFBuilderType, NEW d \in Destinations, PostRunTF(d)
  PROVE  TFBuilderType'
<1>1. << >> \in Buffers /\ NoFrame \in Sendings /\ Ids(<< >>) = {}
  <2>1. << >> \in [{} -> Seq(Parts)] /\ {} \in SUBSET Nat /\ DOMAIN << >> = {}
    OBVIOUS
  <2> QED BY <2>1 DEF Buffers, Sendings, Ids
<1> QED BY <1>1 DEF PostRunTF, TFBuilderType

LEMMA TypeInit == ASSUME Init PROVE TypeOK
<1>1. SamplerType
  <2>1. stream \in Streams /\ taken = [f \in Fems |-> 0]
    BY DEF Init, SamplerInit
  <2>2. \A f \in Fems : taken[f] <= fnByte * Len(stream[f])
    <3> TAKE f \in Fems
    <3>1. stream[f] \in Seq(Heads) /\ fnByte \in Nat
      BY <2>1, SamplerAssumption
    <3>2. Len(stream[f]) \in Nat
      BY <3>1, LenProperties
    <3>3. fnByte * Len(stream[f]) \in Nat
      BY <3>1, <3>2
    <3> QED BY <3>3, <2>1
  <2> QED BY <2>1, <2>2 DEF Init, SamplerInit, SamplerType, Messages
<1>2. STFBuilderType
  <2>1. NewBuilder \in Builders
    BY DEF NewBuilder, Builders
  <2> QED BY <2>1 DEF Init, STFBuilderInit, STFBuilderType, Wires
<1>3. TFBuilderType
  <2>1. << >> \in Buffers /\ NoFrame \in Sendings
    <3>1. << >> \in [{} -> Seq(Parts)] /\ {} \in SUBSET Nat
      OBVIOUS
    <3> QED BY <3>1 DEF Buffers, Sendings
  <2> QED BY <2>1 DEF Init, TFBuilderInit, TFBuilderType
<1>4. ChainType
  BY DEF Init, ChainType
<1> QED BY <1>1, <1>2, <1>3, <1>4 DEF TypeOK

LEMMA LeaveType ==
  ASSUME ChainType, NEW device \in Devices, Leave(device)
  PROVE  ChainType'
  BY DEF Leave, ChainType

LEMMA TypeStep == ASSUME TypeOK, [Next]_vars PROVE TypeOK'
<1> USE DEF TypeOK
<1>s. UNCHANGED samplerVars => SamplerType'
  BY DEF samplerVars, SamplerType
<1>b. UNCHANGED stfVars => STFBuilderType'
  BY DEF stfVars, STFBuilderType
<1>t. UNCHANGED tfVars => TFBuilderType'
  BY DEF tfVars, TFBuilderType
<1>c. UNCHANGED chainVars => ChainType'
  BY DEF chainVars, ChainType
<1>1. ASSUME NEW f \in Fems, SamplerStep(f) PROVE TypeOK'
  BY <1>1, <1>b, <1>t, <1>c, SamplerStepType DEF SamplerStep
<1>2. ASSUME NEW f \in Fems, SamplerStop(f) PROVE TypeOK'
  BY <1>2, <1>s, <1>b, <1>t, LeaveType DEF SamplerStop, Devices
<1>3. ASSUME NEW f \in Fems, BuilderStep(f) PROVE TypeOK'
  BY <1>3, <1>t, <1>c, STFStepType DEF BuilderStep
<1>4. ASSUME NEW f \in Fems, STFStop(f) PROVE TypeOK'
  BY <1>4, <1>s, <1>t, LeaveType, STFStopType DEF STFStop, Devices
<1>5. ASSUME NEW d \in Destinations, TFStep(d) PROVE TypeOK'
  BY <1>5, <1>s, <1>c, TFStepType DEF TFStep
<1>6. ASSUME NEW d \in Destinations, TFStop(d) PROVE TypeOK'
  <2>1. STFBuilderType'
    BY <1>6 DEF TFStop, PostRunTF, STFBuilderType
  <2> QED BY <1>6, <2>1, <1>s, LeaveType, TFStopType DEF TFStop, Devices
<1>7. CASE StopRequest
  BY <1>7, <1>s, <1>b, <1>t DEF StopRequest, ChainType
<1>8. ASSUME NEW reset \in BOOLEAN, StartRun(reset) PROVE TypeOK'
  BY <1>8, StartRunType
<1>9. CASE UNCHANGED vars
  BY <1>9, <1>s, <1>b, <1>t, <1>c DEF vars
<1> QED BY <1>1, <1>2, <1>3, <1>4, <1>5, <1>6, <1>7, <1>8, <1>9, StepOfBuilder DEF Next

LEMMA TypeAlways == Spec => []TypeOK
  BY TypeInit, TypeStep, PTL DEF Spec

\* A message leaves the channel of a builder by HandleData only.
LEMMA OnlyHandled ==
  ASSUME TypeOK, [Next]_vars, NEW f \in Fems, raw[f] # << >>, raw'[f] = << >>
  PROVE  HandleData(f)
<1> USE DEF TypeOK
<1>1. ASSUME NEW h \in Fems, SamplerStep(h) PROVE FALSE
  <2>1. ASSUME NEW words, Send(h, words) PROVE FALSE
    <3>1. raw[h] = << >> /\ raw' = [raw EXCEPT ![h] = <<words>>]
      BY <2>1 DEF Send
    <3>2. raw'[f] = raw[f]
      BY <3>1 DEF SamplerType
    <3> QED BY <3>2
  <2>2. (\E words : Send(h, words)) \/ raw' = raw
    BY <1>1, Zenon DEF SamplerStep, CycleFull, CycleTimeout, CycleClosed, CycleBroken
  <2> QED BY <2>1, <2>2
<1>2. ASSUME NEW h \in Fems, BuilderStep(h), ~HandleData(f) PROVE FALSE
  <2>1. CASE HandleData(h)
    <3>1. h # f /\ raw' = [raw EXCEPT ![h] = Tail(@)]
      BY <1>2, <2>1 DEF HandleData
    <3>2. raw'[f] = raw[f]
      BY <3>1 DEF SamplerType
    <3> QED BY <3>2
  <2>2. CASE UNCHANGED samplerVars
    BY <2>2 DEF samplerVars
  <2> QED BY <1>2, <2>1, <2>2 DEF BuilderStep
<1>3. CASE UNCHANGED samplerVars
  BY <1>3 DEF samplerVars
<1>4. ASSUME NEW reset \in BOOLEAN, StartRun(reset) PROVE FALSE
  BY <1>4 DEF StartRun, SamplerPreRun
<1> QED BY <1>1, <1>2, <1>3, <1>4, StepOfBuilder DEF Next, SamplerStop, STFStop, TFStep, TFStop, StopRequest, vars

LEMMA HandledAreKept ==
  ASSUME TypeOK, NEW f \in Fems, HandleData(f)
  PROVE  WordsOf(built'[f]) = WordsOf(built[f]) \o Known(Head(raw[f]))
<1>1. raw[f] \in Messages /\ raw[f] # << >> /\ built[f] \in Builders /\ built \in [Fems -> Builders]
  BY DEF HandleData, TypeOK, SamplerType, STFBuilderType
<1>2. Head(raw[f]) \in Seq(Words)
  BY <1>1, MessageParts
<1>3. built'[f] = BuildFrame(built[f], Head(raw[f]))
  BY <1>1 DEF HandleData
<1> QED BY <1>1, <1>2, <1>3, BuildFrameAdds

\* HandleData puts every word with a known head into the frames of the builder,
\* once and in order, whatever it held before (HulStrTdcSTFBuilder.cxx, the loop
\* of BuildFrame).
THEOREM WordsAreKept == Spec => WordsKept
<1>1. ASSUME TypeOK, [Next]_vars
      PROVE  [\A f \in Fems : raw[f] # << >> /\ raw'[f] = << >> =>
                 WordsOf(built'[f]) = WordsOf(built[f]) \o Known(Head(raw[f]))]_vars
  BY <1>1, OnlyHandled, HandledAreKept
<1> QED BY <1>1, TypeAlways, PTL DEF Spec, WordsKept

-----------------------------------------------------------------------------

\* ------ words of heartbeats
Beats(words) == Cardinality(HeartbeatsIn(words))
Ends(words) == {j \in DOMAIN words : words[j].head = "SpillEnd"}

LEMMA BeatsEmpty == Beats(<< >>) = 0 /\ Ends(<< >>) = {}
<1>1. HeartbeatsIn(<< >>) = {} /\ Ends(<< >>) = {}
  BY DEF HeartbeatsIn, Ends
<1> QED BY <1>1, FS_EmptySet DEF Beats

LEMMA BeatsFinite ==
  ASSUME NEW words \in Seq(Words)
  PROVE  IsFiniteSet(HeartbeatsIn(words)) /\ Beats(words) \in Nat
<1>1. HeartbeatsIn(words) \subseteq 1 .. Len(words) /\ Len(words) \in Nat
  BY LenProperties DEF HeartbeatsIn
<1>2. IsFiniteSet(1 .. Len(words))
  BY <1>1, FS_Interval
<1> QED BY <1>1, <1>2, FS_Subset, FS_CardinalityType DEF Beats

\* Words without a heartbeat add none, and the end of a spill stays where it is.
LEMMA BeatsConcat ==
  ASSUME NEW u \in Seq(Words), NEW v \in Seq(Words), HeartbeatsIn(v) = {}
  PROVE  /\ Beats(u \o v) = Beats(u)
         /\ Ends(u \o v) = Ends(u) \cup {Len(u) + j : j \in Ends(v)}
<1> PICK M \in Nat : M = Len(u)
  BY LenProperties
<1> PICK N \in Nat : N = Len(v)
  BY LenProperties
<1> PICK w \in Seq(Words) : w = u \o v
  BY ConcatProperties
<1>1. /\ DOMAIN w = 1 .. M + N /\ DOMAIN u = 1 .. M /\ DOMAIN v = 1 .. N
      /\ \A i \in 1 .. M : w[i] = u[i]
      /\ \A i \in M + 1 .. M + N : w[i] = v[i - M]
  BY ConcatProperties, LenProperties
<1>2. \A i \in 1 .. M + N : i \in 1 .. M \/ (i \in M + 1 .. M + N /\ i - M \in 1 .. N)
  OBVIOUS
<1>3. HeartbeatsIn(w) = HeartbeatsIn(u)
  <2>1. \A i \in 1 .. N : v[i].head \notin {"Heartbeat", "ErrorRecovery"}
    BY <1>1 DEF HeartbeatsIn
  <2> QED BY <1>1, <1>2, <2>1 DEF HeartbeatsIn
<1>4. Ends(w) = Ends(u) \cup {M + j : j \in Ends(v)}
  <2>1. \A i \in 1 .. M : i \in Ends(w) <=> i \in Ends(u)
    BY <1>1 DEF Ends
  <2>2. \A j \in 1 .. N : M + j \in Ends(w) <=> j \in Ends(v)
    <3> TAKE j \in 1 .. N
    <3>1. M + j \in M + 1 .. M + N /\ (M + j) - M = j /\ M + j \in 1 .. M + N
      OBVIOUS
    <3> QED BY <3>1, <1>1 DEF Ends
  <2>3. Ends(w) \subseteq 1 .. M + N /\ Ends(u) \subseteq 1 .. M /\ Ends(v) \subseteq 1 .. N
    BY <1>1 DEF Ends
  <2>4. \A i \in 1 .. M + N : i \notin 1 .. M => \E j \in 1 .. N : i = M + j
    <3> SUFFICES ASSUME NEW i \in 1 .. M + N, i \notin 1 .. M PROVE \E j \in 1 .. N : i = M + j
      OBVIOUS
    <3>1. i - M \in 1 .. N /\ i = M + (i - M)
      OBVIOUS
    <3> QED BY <3>1
  <2>5. \A i \in 1 .. M + N : i \in Ends(w) <=> i \in Ends(u) \cup {M + j : j \in Ends(v)}
    <3> TAKE i \in 1 .. M + N
    <3>1. CASE i \in 1 .. M
      <4>1. \A j \in Ends(v) : M + j # i
        BY <3>1, <2>3
      <4> QED BY <3>1, <4>1, <2>1
    <3>2. CASE i \notin 1 .. M
      <4> PICK j \in 1 .. N : i = M + j
        BY <3>2, <2>4
      <4>1. i \notin Ends(u)
        BY <3>2, <2>3
      <4>2. \A k \in Ends(v) : M + k = i => k = j
        BY <2>3
      <4> QED BY <4>1, <4>2, <2>2
    <3> QED BY <3>1, <3>2
  <2>6. Ends(u) \cup {M + j : j \in Ends(v)} \subseteq 1 .. M + N
    BY <2>3
  <2> QED BY <2>3, <2>5, <2>6
<1> QED BY <1>3, <1>4 DEF Beats

LEMMA BeatsOne ==
  ASSUME NEW u \in Seq(Words), NEW w \in Words, w.head \in {"Heartbeat", "ErrorRecovery"}
  PROVE  Beats(u \o <<w>>) = Beats(u) + 1 /\ Ends(u \o <<w>>) = Ends(u)
<1> PICK M \in Nat : M = Len(u)
  BY LenProperties
<1> PICK x : x = u \o <<w>>
  OBVIOUS
<1>1. /\ DOMAIN x = 1 .. M + 1 /\ DOMAIN u = 1 .. M
      /\ \A i \in 1 .. M : x[i] = u[i]
      /\ x[M + 1] = w
  <2>1. x = Append(u, w)
    BY AppendIsConcat
  <2> QED BY <2>1, AppendProperties, LenProperties
<1>2. HeartbeatsIn(x) = HeartbeatsIn(u) \cup {M + 1} /\ M + 1 \notin HeartbeatsIn(u)
  BY <1>1 DEF HeartbeatsIn
<1>3. Ends(x) = Ends(u)
  BY <1>1 DEF Ends
<1>4. Cardinality(HeartbeatsIn(x)) = Cardinality(HeartbeatsIn(u)) + 1
  BY <1>2, BeatsFinite, FS_AddElement
<1> QED BY <1>3, <1>4 DEF Beats

\* ------ the invariant
CutFrame(words) == Beats(words) <= fMaxHBF /\ Ends(words) \subseteq {Len(words)}
WholeFrame(words) == words # << >> /\ (Ends(words) = {} => Beats(words) = fMaxHBF)

\* What holds of a builder in every run.
Cut(b, splitMethod) ==
    /\ HeartbeatsIn(b.fInputPayloads) = {} /\ Ends(b.fInputPayloads) = {}
    /\ Ends(Work(b)) = {}
    /\ Beats(Work(b)) <= b.fHBFCounter
    /\ b.fHBFCounter <= fMaxHBF
    /\ splitMethod = 0 => b.fHBFCounter < fMaxHBF
    /\ \A i \in DOMAIN b.fOutputPayloads : CutFrame(FrameWords(b.fOutputPayloads[i]))

\* What holds besides as long as the counter began with the frame.
Exact(b) ==
    /\ Beats(Work(b)) = b.fHBFCounter
    /\ \A i \in DOMAIN b.fOutputPayloads : WholeFrame(FrameWords(b.fOutputPayloads[i]))

LEMMA FullAtMax ==
  ASSUME NEW b \in Builders, b.fHBFCounter <= fMaxHBF
  PROVE  Full(b) <=> b.fHBFCounter = fMaxHBF
<1> PICK n \in Nat : n = b.fHBFCounter
  BY DEF Builders
<1> PICK m \in Nat \ {0} : m = fMaxHBF
  BY STFBuilderAssumption
<1> PICK q \in Nat : q = n \div m
  BY Division
<1> PICK r \in 0 .. m - 1 : r = n % m
  BY Division
<1>1. n = m * q + r
  BY Division
<1>2. CASE q = 0
  <2>1. n = r
    BY <1>1, <1>2
  <2> QED BY <2>1 DEF Full
<1>3. CASE q = 1
  <2>1. n = m /\ r = 0
    <3>1. n = m + r
      BY <1>1, <1>3
    <3> QED BY <3>1
  <2> QED BY <2>1 DEF Full
<1>4. CASE q # 0 /\ q # 1
  <2> PICK e \in Nat : q = 2 + e
    <3>1. q - 2 \in Nat /\ q = 2 + (q - 2)
      BY <1>4
    <3> QED BY <3>1
  <2>1. m * q = m + m + m * e /\ m * e \in Nat
    OBVIOUS
  <2>2. n <= m /\ n = m + m + m * e + r
    BY <1>1, <2>1
  <2>3. FALSE
    BY ONLY <2>1, <2>2, m \in Nat \ {0}, r \in 0 .. m - 1
  <2> QED BY <2>3
<1> QED BY <1>2, <1>3, <1>4

LEMMA FrameAppended ==
  ASSUME NEW s \in Seq(Frames), NEW frame \in Frames
  PROVE  \A i \in DOMAIN Append(s, frame) :
            \/ i \in DOMAIN s /\ Append(s, frame)[i] = s[i]
            \/ i \notin DOMAIN s /\ (\A j \in DOMAIN s : j < i) /\ Append(s, frame)[i] = frame
<1>1. Len(s) \in Nat /\ DOMAIN s = 1 .. Len(s) /\ DOMAIN Append(s, frame) = 1 .. Len(s) + 1
      /\ Append(s, frame)[Len(s) + 1] = frame /\ \A i \in 1 .. Len(s) : Append(s, frame)[i] = s[i]
  BY AppendProperties, LenProperties
<1> QED BY <1>1

\* A frame that is put out.
LEMMA FinalizeCuts ==
  ASSUME NEW b \in Builders, b.fInputPayloads = << >>, NEW c \in Builders, c = FinalizeSTF(b),
         \A i \in DOMAIN b.fOutputPayloads : CutFrame(FrameWords(b.fOutputPayloads[i])),
         CutFrame(Work(b)), NEW splitMethod
  PROVE  /\ Cut(c, splitMethod)
         /\ (\A i \in DOMAIN b.fOutputPayloads : WholeFrame(FrameWords(b.fOutputPayloads[i])))
               /\ WholeFrame(Work(b)) => Exact(c)
<1> PICK frame : frame = [id |-> b.fSTFId, payloads |-> b.fWorkingPayloads]
  OBVIOUS
<1>1. /\ c.fInputPayloads = << >> /\ c.fHBFCounter = 0 /\ Work(c) = << >>
      /\ c.fOutputPayloads = Append(b.fOutputPayloads, frame)
      /\ frame \in Frames /\ FrameWords(frame) = Work(b)
  BY FinalizeKeeps
<1>2. Beats(<< >>) = 0 /\ Ends(<< >>) = {} /\ HeartbeatsIn(<< >>) = {}
  BY BeatsEmpty DEF HeartbeatsIn
<1>3. fMaxHBF \in Nat \ {0}
  BY STFBuilderAssumption
<1>4. \A i \in DOMAIN c.fOutputPayloads :
         \/ i \in DOMAIN b.fOutputPayloads /\ c.fOutputPayloads[i] = b.fOutputPayloads[i]
         \/ c.fOutputPayloads[i] = frame
  <2> PICK s \in Seq(Frames) : s = b.fOutputPayloads
    BY DEF Builders
  <2> QED BY <1>1, FrameAppended
<1>5. Cut(c, splitMethod)
  <2>1. \A i \in DOMAIN c.fOutputPayloads : CutFrame(FrameWords(c.fOutputPayloads[i]))
    BY <1>1, <1>4
  <2> QED BY <2>1, <1>1, <1>2, <1>3 DEF Cut
<1>6. ASSUME \A i \in DOMAIN b.fOutputPayloads : WholeFrame(FrameWords(b.fOutputPayloads[i])),
             WholeFrame(Work(b))
      PROVE  Exact(c)
  <2>1. \A i \in DOMAIN c.fOutputPayloads : WholeFrame(FrameWords(c.fOutputPayloads[i]))
    BY <1>1, <1>4, <1>6
  <2> QED BY <2>1, <1>1, <1>2 DEF Exact
<1> QED BY <1>5, <1>6

\* The data that wait do not change what is cut.
LEMMA FlushedCuts ==
  ASSUME NEW b \in Builders, Cut(b, fSplitMethod), NEW c \in Builders, c = Flushed(b)
  PROVE  Cut(c, fSplitMethod) /\ (Exact(b) => Exact(c))
<1>1. /\ c.fInputPayloads = << >> /\ Work(c) = Work(b) \o b.fInputPayloads
      /\ c.fOutputPayloads = b.fOutputPayloads /\ c.fHBFCounter = b.fHBFCounter
  BY FlushedKeeps
<1>2. /\ Beats(Work(c)) = Beats(Work(b))
      /\ Ends(Work(c)) = {}
  <2>1. HeartbeatsIn(b.fInputPayloads) = {} /\ Ends(b.fInputPayloads) = {} /\ Ends(Work(b)) = {}
    BY DEF Cut
  <2> PICK u \in Seq(Words) : u = Work(b)
    BY HeldWords
  <2> PICK v \in Seq(Words) : v = b.fInputPayloads
    BY HeldWords
  <2>2. Beats(u \o v) = Beats(u) /\ Ends(u \o v) = Ends(u) \cup {Len(u) + j : j \in Ends(v)}
    BY <2>1, BeatsConcat
  <2> QED BY <2>1, <2>2, <1>1
<1>3. Ends(<< >>) = {} /\ HeartbeatsIn(<< >>) = {}
  BY BeatsEmpty DEF HeartbeatsIn
<1>4. Cut(c, fSplitMethod)
  BY <1>1, <1>2, <1>3 DEF Cut
<1>5. Exact(b) => Exact(c)
  BY <1>1, <1>2 DEF Exact
<1> QED BY <1>4, <1>5

\* After FillData the frame takes one more heartbeat.
LEMMA FillDataCuts ==
  ASSUME NEW b \in Builders, Cut(b, fSplitMethod), NEW c \in Builders, c = FillData(b)
  PROVE  /\ Cut(c, fSplitMethod) /\ (Exact(b) => Exact(c))
         /\ c.fInputPayloads = << >> /\ c.fHBFCounter < fMaxHBF
<1> PICK e \in Builders : e = Flushed(b)
  BY FlushedKeeps
<1>1. Cut(e, fSplitMethod) /\ (Exact(b) => Exact(e))
  BY FlushedCuts
<1>2. /\ e.fInputPayloads = << >> /\ e.fHBFCounter = b.fHBFCounter
      /\ e.fOutputPayloads = b.fOutputPayloads
  BY FlushedKeeps
<1>3. b.fHBFCounter <= fMaxHBF /\ fMaxHBF \in Nat \ {0} /\ b.fHBFCounter \in Nat
      /\ (fSplitMethod = 0 => b.fHBFCounter < fMaxHBF)
  BY STFBuilderAssumption DEF Cut, Builders
<1>4. Full(b) <=> b.fHBFCounter = fMaxHBF
  BY <1>3, FullAtMax
<1>5. CASE fSplitMethod # 0 /\ Full(b)
  <2>1. c = FinalizeSTF(e)
    BY <1>5 DEF FillData
  <2>2. \A i \in DOMAIN e.fOutputPayloads : CutFrame(FrameWords(e.fOutputPayloads[i]))
    BY <1>1 DEF Cut
  <2>3. Ends(Work(e)) = {} /\ Beats(Work(e)) <= e.fHBFCounter
    BY <1>1 DEF Cut
  <2>4. CutFrame(Work(e))
    <3>1. Beats(Work(e)) \in Nat
      BY HeldWords, BeatsFinite
    <3> QED BY <3>1, <2>3, <1>2, <1>3 DEF CutFrame
  <2>5. Cut(c, fSplitMethod) /\
        ((\A i \in DOMAIN e.fOutputPayloads : WholeFrame(FrameWords(e.fOutputPayloads[i])))
               /\ WholeFrame(Work(e)) => Exact(c))
    BY <2>1, <2>2, <2>4, <1>2, FinalizeCuts
  <2>6. ASSUME Exact(b) PROVE Exact(c)
    <3>1. Beats(Work(e)) = fMaxHBF
      BY <2>6, <1>1, <1>2, <1>4, <1>5 DEF Exact
    <3>2. WholeFrame(Work(e))
      BY <3>1, <1>3, BeatsEmpty DEF WholeFrame
    <3>3. \A i \in DOMAIN e.fOutputPayloads : WholeFrame(FrameWords(e.fOutputPayloads[i]))
      BY <2>6, <1>1 DEF Exact
    <3> QED BY <3>2, <3>3, <2>5
  <2>7. c.fInputPayloads = << >> /\ c.fHBFCounter = 0
    BY <2>1, <1>2, FinalizeKeeps
  <2> QED BY <2>5, <2>6, <2>7, <1>3
<1>6. CASE ~(fSplitMethod # 0 /\ Full(b))
  <2>1. c = e
    BY <1>6 DEF FillData
  <2>2. b.fHBFCounter < fMaxHBF
    BY <1>3, <1>4, <1>6
  <2> QED BY <2>1, <2>2, <1>1, <1>2
<1> QED BY <1>5, <1>6

LEMMA HeartbeatCuts ==
  ASSUME NEW b \in Builders, Cut(b, fSplitMethod), NEW w \in Words,
         w.head \in {"Heartbeat", "ErrorRecovery"}
  PROVE  Cut(Heartbeat(b, w), fSplitMethod) /\ (Exact(b) => Exact(Heartbeat(b, w)))
<1> PICK c \in Builders : c = FillData(b)
  BY FillDataKeeps
<1>1. /\ Cut(c, fSplitMethod) /\ (Exact(b) => Exact(c))
      /\ c.fInputPayloads = << >> /\ c.fHBFCounter < fMaxHBF
  BY FillDataCuts
<1> PICK e \in Builders : e = Delimiter(c, w)
  BY <1>1, DelimiterAdds
<1>2. /\ e.fInputPayloads = << >> /\ Work(e) = Work(c) \o <<w>>
      /\ e.fOutputPayloads = c.fOutputPayloads /\ e.fHBFCounter = c.fHBFCounter
  BY <1>1, DelimiterAdds
<1> PICK g \in Builders : g = [e EXCEPT !.fHBFCounter = @ + 1]
  BY OneMoreHeartbeat
<1>3. /\ g \in Builders /\ g.fInputPayloads = << >>
      /\ g.fOutputPayloads = e.fOutputPayloads /\ g.fWorkingPayloads = e.fWorkingPayloads
      /\ g.fHBFCounter = c.fHBFCounter + 1 /\ c.fHBFCounter \in Nat
  <2>1. c.fHBFCounter \in Nat
    BY DEF Builders
  <2> QED BY <1>2, <2>1, OneMoreHeartbeat
<1>4. Work(g) = Work(c) \o <<w>>
  BY <1>2, <1>3 DEF Work
<1>5. Beats(Work(g)) = Beats(Work(c)) + 1 /\ Ends(Work(g)) = Ends(Work(c)) /\ Beats(Work(c)) \in Nat
  <2> PICK u \in Seq(Words) : u = Work(c)
    BY HeldWords
  <2> QED BY <1>4, BeatsOne, BeatsFinite
<1>6. fMaxHBF \in Nat \ {0} /\ g.fHBFCounter <= fMaxHBF
  BY <1>1, <1>3, STFBuilderAssumption
<1>7. Full(g) <=> g.fHBFCounter = fMaxHBF
  BY <1>3, <1>6, FullAtMax
<1>8. /\ Ends(Work(g)) = {} /\ Beats(Work(g)) <= g.fHBFCounter
      /\ \A i \in DOMAIN g.fOutputPayloads : CutFrame(FrameWords(g.fOutputPayloads[i]))
  <2>1. g.fOutputPayloads = c.fOutputPayloads
    BY <1>2, <1>3
  <2>2. /\ Ends(Work(c)) = {} /\ Beats(Work(c)) <= c.fHBFCounter
        /\ \A i \in DOMAIN c.fOutputPayloads : CutFrame(FrameWords(c.fOutputPayloads[i]))
    BY <1>1 DEF Cut
  <2>3. Beats(Work(g)) <= g.fHBFCounter
    BY <2>2, <1>3, <1>5
  <2> QED BY <2>1, <2>2, <2>3, <1>5
<1>9. Exact(b) => Beats(Work(g)) = g.fHBFCounter /\
         \A i \in DOMAIN g.fOutputPayloads : WholeFrame(FrameWords(g.fOutputPayloads[i]))
  BY <1>1, <1>2, <1>3, <1>5 DEF Exact
<1>10. Heartbeat(b, w) = IF fSplitMethod = 0 /\ Full(g) THEN FinalizeSTF(g) ELSE g
  BY DEF Heartbeat
<1>11. CASE fSplitMethod = 0 /\ Full(g)
  <2> PICK k \in Builders : k = FinalizeSTF(g)
    BY <1>3, FinalizeKeeps
  <2>1. CutFrame(Work(g))
    BY <1>5, <1>6, <1>8, <1>3 DEF CutFrame
  <2>2. Cut(k, fSplitMethod) /\
        ((\A i \in DOMAIN g.fOutputPayloads : WholeFrame(FrameWords(g.fOutputPayloads[i])))
               /\ WholeFrame(Work(g)) => Exact(k))
    BY <2>1, <1>3, <1>8, FinalizeCuts
  <2>3. ASSUME Exact(b) PROVE WholeFrame(Work(g))
    <3>1. Beats(Work(g)) = fMaxHBF
      BY <2>3, <1>7, <1>9, <1>11
    <3> QED BY <3>1, <1>6, BeatsEmpty DEF WholeFrame
  <2> QED BY <2>2, <2>3, <1>9, <1>10, <1>11
<1>12. CASE ~(fSplitMethod = 0 /\ Full(g))
  <2>1. Ends(<< >>) = {} /\ HeartbeatsIn(<< >>) = {}
    BY BeatsEmpty DEF HeartbeatsIn
  <2>2. fSplitMethod = 0 => g.fHBFCounter < fMaxHBF
    BY <1>3, <1>6, <1>7, <1>12
  <2>3. Cut(g, fSplitMethod)
    BY <2>1, <2>2, <1>3, <1>6, <1>8 DEF Cut
  <2>4. Exact(b) => Exact(g)
    BY <1>9 DEF Exact
  <2> QED BY <2>3, <2>4, <1>10, <1>12
<1> QED BY <1>11, <1>12

LEMMA SpillEndCuts ==
  ASSUME NEW b \in Builders, Cut(b, fSplitMethod), NEW w \in Words, w.head = "SpillEnd"
  PROVE  Cut(SpillEnd(b, w), fSplitMethod) /\ (Exact(b) => Exact(SpillEnd(b, w)))
<1> PICK c \in Builders : c = FillData(b)
  BY FillDataKeeps
<1>1. /\ Cut(c, fSplitMethod) /\ (Exact(b) => Exact(c))
      /\ c.fInputPayloads = << >> /\ c.fHBFCounter < fMaxHBF
  BY FillDataCuts
<1> PICK e : e = [c EXCEPT !.fInputPayloads = <<w>>]
  OBVIOUS
<1>2. /\ e \in Builders /\ e.fInputPayloads = <<w>> /\ e.fHBFCounter = c.fHBFCounter
      /\ e.fOutputPayloads = c.fOutputPayloads /\ e.fWorkingPayloads = c.fWorkingPayloads
  <2>1. <<w>> \in Seq(Words)
    OBVIOUS
  <2> QED BY <2>1 DEF Builders
<1>3. e.fHBFCounter < fMaxHBF /\ fMaxHBF \in Nat \ {0} /\ e.fHBFCounter \in Nat
  BY <1>1, <1>2, STFBuilderAssumption DEF Builders
<1>4. ~Full(e)
  <2>1. e.fHBFCounter <= fMaxHBF /\ e.fHBFCounter # fMaxHBF
    BY <1>3
  <2> QED BY <2>1, <1>2, FullAtMax
<1> PICK g \in Builders : g = Flushed(e)
  BY <1>2, FlushedKeeps
<1>5. /\ g.fInputPayloads = << >> /\ Work(g) = Work(e) \o <<w>> /\ Work(e) = Work(c)
      /\ g.fOutputPayloads = c.fOutputPayloads
  BY <1>2, FlushedKeeps DEF Work
<1>6. SpillEnd(b, w) = FinalizeSTF(g)
  BY <1>4 DEF SpillEnd, FillData
<1>7. Beats(Work(g)) = Beats(Work(c)) /\ Ends(Work(g)) = {Len(Work(g))}
  <2> PICK u \in Seq(Words) : u = Work(c)
    BY HeldWords
  <2>0. <<w>> \in Seq(Words) /\ DOMAIN <<w>> = {1} /\ <<w>>[1] = w /\ Len(<<w>>) = 1
    OBVIOUS
  <2> PICK v \in Seq(Words) : v = <<w>>
    BY <2>0
  <2>1. HeartbeatsIn(v) = {} /\ Ends(v) = {1}
    BY <2>0 DEF HeartbeatsIn, Ends
  <2>2. Beats(u \o v) = Beats(u) /\ Ends(u \o v) = Ends(u) \cup {Len(u) + j : j \in Ends(v)}
    BY <2>1, BeatsConcat
  <2>3. Ends(u) = {}
    BY <1>1 DEF Cut
  <2>4. Len(u \o v) = Len(u) + 1
    BY <2>0, ConcatProperties
  <2>5. {Len(u) + j : j \in Ends(v)} = {Len(u) + 1}
    BY <2>1
  <2>6. Work(g) = u \o v
    BY <1>5
  <2> QED BY <2>2, <2>3, <2>4, <2>5, <2>6
<1>8. CutFrame(Work(g)) /\ WholeFrame(Work(g))
  <2>1. Beats(Work(c)) <= c.fHBFCounter /\ Beats(Work(c)) \in Nat
    BY <1>1, HeldWords, BeatsFinite DEF Cut
  <2>2. CutFrame(Work(g))
    BY <2>1, <1>2, <1>3, <1>7 DEF CutFrame
  <2> QED BY <2>2, <1>7, BeatsEmpty DEF WholeFrame
<1> PICK k \in Builders : k = FinalizeSTF(g)
  BY <1>5, FinalizeKeeps
<1>9. \A i \in DOMAIN g.fOutputPayloads : CutFrame(FrameWords(g.fOutputPayloads[i]))
  BY <1>1, <1>5 DEF Cut
<1>10. Exact(b) => \A i \in DOMAIN g.fOutputPayloads : WholeFrame(FrameWords(g.fOutputPayloads[i]))
  BY <1>1, <1>5 DEF Exact
<1>11. Cut(k, fSplitMethod) /\
        ((\A i \in DOMAIN g.fOutputPayloads : WholeFrame(FrameWords(g.fOutputPayloads[i])))
               /\ WholeFrame(Work(g)) => Exact(k))
  BY <1>5, <1>8, <1>9, FinalizeCuts
<1> QED BY <1>6, <1>8, <1>10, <1>11

LEMMA NextWordCuts ==
  ASSUME NEW b \in Builders, Cut(b, fSplitMethod), NEW w \in Words
  PROVE  Cut(NextWord(b, w), fSplitMethod) /\ (Exact(b) => Exact(NextWord(b, w)))
<1>0. w.head \in Heads
  BY DEF Words
<1>1. CASE w.head = "Other"
  BY <1>1 DEF NextWord
<1>2. CASE w.head = "Data"
  <2> PICK c : c = [b EXCEPT !.fInputPayloads = Append(@, w)]
    OBVIOUS
  <2>1. NextWord(b, w) = c
    BY <1>2 DEF NextWord
  <2>2. /\ c.fInputPayloads = Append(b.fInputPayloads, w) /\ c.fHBFCounter = b.fHBFCounter
        /\ c.fOutputPayloads = b.fOutputPayloads /\ c.fWorkingPayloads = b.fWorkingPayloads
    BY DEF Builders
  <2>3. HeartbeatsIn(c.fInputPayloads) = {} /\ Ends(c.fInputPayloads) = {}
    <3> PICK s \in Seq(Words) : s = b.fInputPayloads
      BY HeldWords
    <3>1. /\ DOMAIN Append(s, w) = 1 .. Len(s) + 1 /\ DOMAIN s = 1 .. Len(s) /\ Len(s) \in Nat
          /\ Append(s, w)[Len(s) + 1] = w /\ \A i \in 1 .. Len(s) : Append(s, w)[i] = s[i]
      BY AppendProperties, LenProperties
    <3>2. HeartbeatsIn(s) = {} /\ Ends(s) = {}
      BY DEF Cut
    <3>3. HeartbeatsIn(Append(s, w)) = {} /\ Ends(Append(s, w)) = {}
      BY <3>1, <3>2, <1>2 DEF HeartbeatsIn, Ends
    <3> QED BY <3>3, <2>2
  <2>4. Work(c) = Work(b)
    BY <2>2 DEF Work
  <2>5. Cut(c, fSplitMethod)
    BY <2>2, <2>3, <2>4 DEF Cut
  <2>6. Exact(b) => Exact(c)
    BY <2>2, <2>4 DEF Exact
  <2> QED BY <2>1, <2>5, <2>6
<1>3. CASE w.head \in {"Heartbeat", "ErrorRecovery"}
  <2>1. NextWord(b, w) = Heartbeat(b, w)
    BY <1>3 DEF NextWord
  <2> QED BY <2>1, <1>3, HeartbeatCuts
<1>4. CASE w.head = "SpillEnd"
  <2>1. NextWord(b, w) = SpillEnd(b, w)
    BY <1>4 DEF NextWord
  <2> QED BY <2>1, <1>4, SpillEndCuts
<1> QED BY <1>0, <1>1, <1>2, <1>3, <1>4 DEF Heads

LEMMA BuildFrameCuts ==
  ASSUME NEW b \in Builders, NEW m \in Seq(Words), Cut(b, fSplitMethod)
  PROVE  Cut(BuildFrame(b, m), fSplitMethod) /\ (Exact(b) => Exact(BuildFrame(b, m)))
<1> PICK N \in Nat : N = Len(m)
  BY LenProperties
<1>1. PICK h \in [0 .. N -> Builders] :
            /\ h[0] = b /\ h[N] = BuildFrame(b, m)
            /\ \A k \in 1 .. N : h[k] = NextWord(h[k - 1], m[k])
  BY BuildTrace
<1> DEFINE S == {k \in Nat : k <= N => Cut(h[k], fSplitMethod) /\ (Exact(b) => Exact(h[k]))}
<1>2. 0 \in S
  BY <1>1
<1>3. ASSUME NEW k \in Nat, k \in S PROVE k + 1 \in S
  <2> SUFFICES ASSUME k + 1 <= N
               PROVE  Cut(h[k + 1], fSplitMethod) /\ (Exact(b) => Exact(h[k + 1]))
    OBVIOUS
  <2>1. k \in 0 .. N /\ k + 1 \in 1 .. N /\ (k + 1) - 1 = k
    OBVIOUS
  <2> PICK w \in Words : w = m[k + 1]
    BY <2>1, LenProperties
  <2> PICK c \in Builders : c = h[k]
    BY <2>1
  <2>2. Cut(c, fSplitMethod) /\ (Exact(b) => Exact(c))
    BY <1>3
  <2>3. h[k + 1] = NextWord(c, w)
    BY <1>1, <2>1
  <2> QED BY <2>2, <2>3, NextWordCuts
<1>4. N \in S
  <2> HIDE DEF S
  <2> QED BY <1>2, <1>3, Induction
<1> QED BY <1>1, <1>4, N <= N

CutInv == \A f \in Fems :
    /\ Cut(built[f], fSplitMethod)
    /\ inStep = "fresh" /\ STFBuilder(f) \notin ready => Exact(built[f])

\* A builder that has left its run holds nothing.
LeftInv == \A f \in Fems : STFBuilder(f) \in ready =>
    /\ built[f].fInputPayloads = << >> /\ Work(built[f]) = << >>
    /\ built[f].fOutputPayloads = << >>

IInv == TypeOK /\ CutInv /\ LeftInv

LEMMA NothingHeldIsCut ==
  ASSUME NEW b \in Builders, NEW splitMethod, 
         b.fInputPayloads = << >>, Work(b) = << >>, b.fOutputPayloads = << >>,
         b.fHBFCounter <= fMaxHBF, splitMethod = 0 => b.fHBFCounter < fMaxHBF
  PROVE  Cut(b, splitMethod) /\ (b.fHBFCounter = 0 => Exact(b))
<1>1. Beats(<< >>) = 0 /\ Ends(<< >>) = {} /\ HeartbeatsIn(<< >>) = {}
  BY BeatsEmpty DEF HeartbeatsIn
<1>2. b.fHBFCounter \in Nat /\ DOMAIN << >> = {}
  BY DEF Builders
<1>3. Cut(b, splitMethod)
  BY <1>1, <1>2 DEF Cut
<1>4. b.fHBFCounter = 0 => Exact(b)
  BY <1>1, <1>2 DEF Exact
<1> QED BY <1>3, <1>4

LEMMA IInit == ASSUME Init PROVE IInv
<1>1. TypeOK
  BY TypeInit
<1>2. ASSUME NEW f \in Fems PROVE Cut(built[f], fSplitMethod) /\ Exact(built[f])
  <2>1. built[f] = NewBuilder
    BY DEF Init, STFBuilderInit
  <2>2. NewBuilder \in Builders
    BY DEF NewBuilder, Builders
  <2>3. /\ NewBuilder.fInputPayloads = << >> /\ NewBuilder.fWorkingPayloads = << >>
        /\ NewBuilder.fOutputPayloads = << >> /\ NewBuilder.fHBFCounter = 0
    BY DEF NewBuilder
  <2>4. Work(NewBuilder) = << >>
    BY <2>3, FlattenEmpty DEF Work
  <2>5. fMaxHBF \in Nat \ {0}
    BY STFBuilderAssumption
  <2>6. 0 <= fMaxHBF /\ 0 < fMaxHBF
    BY <2>5
  <2> QED BY <2>1, <2>2, <2>3, <2>4, <2>6, NothingHeldIsCut
<1>3. ready = {}
  BY DEF Init
<1> QED BY <1>1, <1>2, <1>3 DEF IInv, CutInv, LeftInv

\* What a step does not touch it does not spoil.
LEMMA CutKept ==
  ASSUME IInv, UNCHANGED <<fSplitMethod, built, inStep>>, NEW device, ready' = ready \cup {device},
         \A f \in Fems : device # STFBuilder(f)
  PROVE  CutInv' /\ LeftInv'
<1>1. \A f \in Fems : STFBuilder(f) \in ready' <=> STFBuilder(f) \in ready
  OBVIOUS
<1> QED BY <1>1 DEF IInv, CutInv, LeftInv, STFBuilder

LEMMA CutUnchanged ==
  ASSUME IInv, UNCHANGED <<fSplitMethod, built, inStep, ready>>
  PROVE  CutInv' /\ LeftInv'
  BY DEF IInv, CutInv, LeftInv, STFBuilder

LEMMA CutSTFStep ==
  ASSUME IInv, NEW f \in Fems, BuilderStep(f)
  PROVE  CutInv' /\ LeftInv'
<1>0. STFBuilder(f) \notin ready /\ UNCHANGED chainVars
  BY DEF BuilderStep
<1>c. UNCHANGED <<inStep, ready>>
  BY <1>0 DEF chainVars
<1>b. built \in [Fems -> Builders] /\ built[f] \in Builders
  BY DEF IInv, TypeOK, STFBuilderType
<1>s. UNCHANGED fSplitMethod
  BY DEF BuilderStep, HandleData, DqmSent, OutputSent
<1>1. ASSUME NEW b, built' = [built EXCEPT ![f] = b], Cut(b, fSplitMethod), Exact(built[f]) => Exact(b)
      PROVE  CutInv' /\ LeftInv'
  <2>1. built'[f] = b /\ \A g \in Fems \ {f} : built'[g] = built[g]
    BY <1>1, <1>b
  <2>2. ASSUME NEW g \in Fems
        PROVE  /\ Cut(built'[g], fSplitMethod')
               /\ inStep' = "fresh" /\ STFBuilder(g) \notin ready' => Exact(built'[g])
    <3>1. CASE g = f
      BY <3>1, <2>1, <1>0, <1>1, <1>c, <1>s DEF IInv, CutInv
    <3>2. CASE g # f
      BY <3>2, <2>1, <1>c, <1>s DEF IInv, CutInv
    <3> QED BY <3>1, <3>2
  <2>3. CutInv'
    BY <2>2 DEF CutInv, STFBuilder
  <2>4. ASSUME NEW g \in Fems, STFBuilder(g) \in ready' PROVE built'[g] = built[g] /\ STFBuilder(g) \in ready
    <3>1. g # f
      BY <2>4, <1>0, <1>c
    <3> QED BY <3>1, <2>1, <2>4, <1>c
  <2>5. LeftInv'
    BY <2>4 DEF IInv, LeftInv, STFBuilder
  <2> QED BY <2>3, <2>5
<1>i. Cut(built[f], fSplitMethod)
  BY DEF IInv, CutInv
<1>2. CASE HandleData(f)
  <2>1. raw[f] \in Messages /\ raw[f] # << >>
    BY <1>2 DEF HandleData, IInv, TypeOK, SamplerType
  <2>2. Head(raw[f]) \in Seq(Words)
    BY <2>1, MessageParts
  <2> PICK b : b = BuildFrame(built[f], Head(raw[f]))
    OBVIOUS
  <2>3. built' = [built EXCEPT ![f] = b]
    BY <1>2 DEF HandleData
  <2>4. Cut(b, fSplitMethod) /\ (Exact(built[f]) => Exact(b))
    BY <2>2, <1>b, <1>i, BuildFrameCuts
  <2> QED BY <2>3, <2>4, <1>1
<1>3. CASE DqmSent(f)
  BY <1>3, <1>c, <1>s, CutUnchanged DEF DqmSent
<1>4. CASE OutputSent(f)
  <2>1. built[f].fOutputPayloads \in Seq(Frames) \ {<< >>}
    BY <1>4, <1>b DEF OutputSent, Builders, IInv, TypeOK, STFBuilderType
  <2> PICK s \in Seq(Frames) : s = built[f].fOutputPayloads /\ s # << >>
    BY <2>1
  <2> PICK b : b = [built[f] EXCEPT !.fOutputPayloads = Tail(s)]
    OBVIOUS
  <2>2. built' = [built EXCEPT ![f] = b]
    BY <1>4 DEF OutputSent
  <2>3. /\ b.fOutputPayloads = Tail(s) /\ b.fInputPayloads = built[f].fInputPayloads
        /\ b.fWorkingPayloads = built[f].fWorkingPayloads /\ b.fHBFCounter = built[f].fHBFCounter
    BY <1>b DEF Builders
  <2>4. Work(b) = Work(built[f])
    BY <2>3 DEF Work
  <2>5. ASSUME NEW i \in DOMAIN Tail(s) PROVE i + 1 \in DOMAIN s /\ Tail(s)[i] = s[i + 1]
    <3>1. Len(Tail(s)) = Len(s) - 1 /\ DOMAIN Tail(s) = 1 .. Len(s) - 1 /\ Len(s) \in Nat 
          /\ DOMAIN s = 1 .. Len(s) /\ \A j \in 1 .. Len(s) - 1 : Tail(s)[j] = s[j + 1]
      BY HeadTailProperties, LenProperties
    <3> QED BY <3>1, <2>5
  <2>6. Cut(b, fSplitMethod)
    <3>1. \A i \in DOMAIN s : CutFrame(FrameWords(s[i]))
      BY <1>i DEF Cut
    <3>2. \A i \in DOMAIN Tail(s) : CutFrame(FrameWords(Tail(s)[i]))
      BY <3>1, <2>5
    <3> QED BY <3>2, <2>3, <2>4, <1>i DEF Cut
  <2>7. Exact(built[f]) => Exact(b)
    <3> SUFFICES ASSUME Exact(built[f]) PROVE Exact(b)
      OBVIOUS
    <3>1. \A i \in DOMAIN s : WholeFrame(FrameWords(s[i]))
      BY DEF Exact
    <3>2. \A i \in DOMAIN Tail(s) : WholeFrame(FrameWords(Tail(s)[i]))
      BY <3>1, <2>5
    <3> QED BY <3>2, <2>3, <2>4 DEF Exact
  <2> QED BY <2>2, <2>6, <2>7, <1>1
<1> QED BY <1>2, <1>3, <1>4 DEF BuilderStep

LEMMA CutSTFStop ==
  ASSUME IInv, NEW f \in Fems, STFStop(f)
  PROVE  CutInv' /\ LeftInv'
<1>b. built \in [Fems -> Builders] /\ built[f] \in Builders
  BY DEF IInv, TypeOK, STFBuilderType
<1>1. PostRunSTF(f) /\ ready' = ready \cup {STFBuilder(f)} /\ UNCHANGED <<inStep>>
  BY DEF STFStop, Leave
<1> PICK b : b = [built[f] EXCEPT !.fInputPayloads = << >>, !.fWorkingPayloads = << >>,
                                  !.fOutputPayloads = << >>]
  OBVIOUS
<1>2. built' = [built EXCEPT ![f] = b] /\ UNCHANGED fSplitMethod
  BY <1>1 DEF PostRunSTF
<1>3. /\ b \in Builders /\ b.fInputPayloads = << >> /\ b.fWorkingPayloads = << >>
      /\ b.fOutputPayloads = << >> /\ b.fHBFCounter = built[f].fHBFCounter
  <2>1. << >> \in Seq(Words) /\ << >> \in Seq(Seq(Words)) /\ << >> \in Seq(Frames)
    OBVIOUS
  <2> QED BY <1>b, <2>1 DEF Builders
<1>4. Work(b) = << >>
  BY <1>3, FlattenEmpty DEF Work
<1>5. b.fHBFCounter <= fMaxHBF /\ (fSplitMethod = 0 => b.fHBFCounter < fMaxHBF)
  <2>1. Cut(built[f], fSplitMethod)
    BY DEF IInv, CutInv
  <2> QED BY <2>1, <1>3 DEF Cut
<1>6. Cut(b, fSplitMethod)
  BY <1>3, <1>4, <1>5, NothingHeldIsCut
<1>7. built'[f] = b /\ \A g \in Fems \ {f} : built'[g] = built[g]
  BY <1>2, <1>b
<1>8. STFBuilder(f) \in ready' /\ \A g \in Fems \ {f} : STFBuilder(g) \in ready' <=> STFBuilder(g) \in ready
  BY <1>1 DEF STFBuilder
<1>9. ASSUME NEW g \in Fems
      PROVE  /\ Cut(built'[g], fSplitMethod')
             /\ inStep' = "fresh" /\ STFBuilder(g) \notin ready' => Exact(built'[g])
             /\ STFBuilder(g) \in ready' =>
                  /\ built'[g].fInputPayloads = << >> /\ Work(built'[g]) = << >>
                  /\ built'[g].fOutputPayloads = << >>
  <2>1. CASE g = f
    BY <2>1, <1>2, <1>3, <1>4, <1>6, <1>7, <1>8
  <2>2. CASE g # f
    BY <2>2, <1>1, <1>2, <1>7, <1>8 DEF IInv, CutInv, LeftInv
  <2> QED BY <2>1, <2>2
<1> QED BY <1>9 DEF CutInv, LeftInv, STFBuilder

LEMMA CutStartRun ==
  ASSUME IInv, NEW reset \in BOOLEAN, StartRun(reset)
  PROVE  CutInv' /\ LeftInv'
<1>1. ready = Devices /\ ready' = {}
  BY DEF StartRun
<1>2. ASSUME NEW f \in Fems
      PROVE  /\ built[f] \in Builders /\ built[f].fInputPayloads = << >> /\ Work(built[f]) = << >>
             /\ built[f].fOutputPayloads = << >> /\ Cut(built[f], fSplitMethod)
  <2>1. STFBuilder(f) \in ready
    BY <1>1 DEF Devices
  <2> QED BY <2>1 DEF IInv, LeftInv, CutInv, TypeOK, STFBuilderType
<1>3. CASE InitTaskSTF /\ reset
  <2>1. built' = [f \in Fems |-> [built[f] EXCEPT !.fSTFId = 0, !.fHBFCounter = 0]]
        /\ UNCHANGED fSplitMethod
    BY <1>3 DEF InitTaskSTF
  <2>2. ASSUME NEW f \in Fems
        PROVE  Cut(built'[f], fSplitMethod') /\ Exact(built'[f])
    <3> PICK b : b = [built[f] EXCEPT !.fSTFId = 0, !.fHBFCounter = 0]
      OBVIOUS
    <3>1. /\ b \in Builders /\ b.fInputPayloads = << >> /\ b.fOutputPayloads = << >>
          /\ b.fWorkingPayloads = built[f].fWorkingPayloads /\ b.fHBFCounter = 0
      BY <1>2 DEF Builders
    <3>2. Work(b) = << >>
      BY <3>1, <1>2 DEF Work
    <3>3. fMaxHBF \in Nat \ {0}
      BY STFBuilderAssumption
    <3>4. b.fHBFCounter <= fMaxHBF /\ b.fHBFCounter < fMaxHBF
      BY <3>1, <3>3
    <3>5. Cut(b, fSplitMethod) /\ Exact(b)
      BY <3>1, <3>2, <3>4, NothingHeldIsCut
    <3> QED BY <3>5, <2>1
  <2> QED BY <2>2, <1>1 DEF CutInv, LeftInv, STFBuilder
<1>4. CASE UNCHANGED stfVars /\ ~reset
  <2>1. UNCHANGED <<built, fSplitMethod>>
    BY <1>4 DEF stfVars
  <2>2. inStep' # "fresh"
    BY <1>4 DEF StartRun
  <2> QED BY <2>1, <2>2, <1>1, <1>2 DEF CutInv, LeftInv, STFBuilder
<1>5. (InitTaskSTF /\ reset) \/ (UNCHANGED stfVars /\ ~reset)
  BY Zenon DEF StartRun
<1> QED BY <1>3, <1>4, <1>5

LEMMA IStep == ASSUME IInv, [Next]_vars PROVE IInv'
<1>t. TypeOK'
  BY TypeStep DEF IInv
<1>1. ASSUME NEW f \in Fems, SamplerStep(f) PROVE CutInv' /\ LeftInv'
  BY <1>1, CutUnchanged DEF SamplerStep, stfVars, chainVars
<1>2. ASSUME NEW f \in Fems, SamplerStop(f) PROVE CutInv' /\ LeftInv'
  <2>1. ready' = ready \cup {Sampler(f)} /\ UNCHANGED <<fSplitMethod, built, inStep>>
    BY <1>2 DEF SamplerStop, Leave, stfVars
  <2>2. \A g \in Fems : Sampler(f) # STFBuilder(g)
    BY DEF Sampler, STFBuilder
  <2> QED BY <2>1, <2>2, CutKept
<1>3. ASSUME NEW f \in Fems, BuilderStep(f) PROVE CutInv' /\ LeftInv'
  BY <1>3, CutSTFStep
<1>4. ASSUME NEW f \in Fems, STFStop(f) PROVE CutInv' /\ LeftInv'
  BY <1>4, CutSTFStop
<1>5. ASSUME NEW d \in Destinations, TFStep(d) PROVE CutInv' /\ LeftInv'
  BY <1>5, CutUnchanged DEF TFStep, chainVars
<1>6. ASSUME NEW d \in Destinations, TFStop(d) PROVE CutInv' /\ LeftInv'
  <2>1. ready' = ready \cup {TFBuilder(d)} /\ UNCHANGED <<fSplitMethod, built, inStep>>
    BY <1>6 DEF TFStop, Leave
  <2>2. \A g \in Fems : TFBuilder(d) # STFBuilder(g)
    BY DEF TFBuilder, STFBuilder
  <2> QED BY <2>1, <2>2, CutKept
<1>7. CASE StopRequest
  <2>1. UNCHANGED <<fSplitMethod, built, inStep, ready>>
    BY <1>7 DEF StopRequest, stfVars
  <2> QED BY <2>1, <1>t, CutUnchanged DEF IInv
<1>8. ASSUME NEW reset \in BOOLEAN, StartRun(reset) PROVE CutInv' /\ LeftInv'
  BY <1>8, CutStartRun
<1>9. CASE UNCHANGED vars
  <2>1. UNCHANGED <<fSplitMethod, built, inStep, ready>>
    BY <1>9 DEF vars, stfVars, chainVars
  <2> QED BY <2>1, <1>t, CutUnchanged DEF IInv
<1> QED BY <1>t, <1>1, <1>2, <1>3, <1>4, <1>5, <1>6, <1>7, <1>8, <1>9, StepOfBuilder DEF Next, IInv

LEMMA CutImplied == ASSUME IInv PROVE FramesAreCut
<1> SUFFICES ASSUME NEW f \in Fems, NEW i \in DOMAIN built[f].fOutputPayloads,
                    NEW words, words = FrameWords(built[f].fOutputPayloads[i])
             PROVE  /\ Beats(words) <= fMaxHBF
                    /\ Ends(words) \subseteq {Len(words)}
                    /\ inStep = "fresh" => words # << >> /\ (Ends(words) = {} => Beats(words) = fMaxHBF)
  BY Zenon DEF FramesAreCut, Beats, Ends
<1>1. CutFrame(words)
  BY DEF IInv, CutInv, Cut
<1>2. STFBuilder(f) \notin ready
  <2>1. ASSUME built[f].fOutputPayloads = << >> PROVE FALSE
    BY <2>1
  <2> QED BY <2>1 DEF IInv, LeftInv
<1>3. inStep = "fresh" => WholeFrame(words)
  BY <1>2 DEF IInv, CutInv, Exact
<1> QED BY <1>1, <1>3 DEF CutFrame, WholeFrame

\* A sub time frame never has more than fMaxHBF heartbeats, an end of a spill is
\* its last word, and after a reset it has all of its heartbeats, with both split
\* methods (FillData, FinalizeSTF and PostRun of HulStrTdcSTFBuilder.cxx).
THEOREM EveryFrameIsCut == Spec => []FramesAreCut
<1>1. Init => IInv
  BY IInit
<1>2. IInv /\ [Next]_vars => IInv'
  BY IStep
<1>3. IInv => FramesAreCut
  BY CutImplied
<1> QED BY <1>1, <1>2, <1>3, PTL DEF Spec

-----------------------------------------------------------------------------
(* The heartbeats of the front ends are the same.  The numbers of the      *)
(* frames follow from them alone: the n-th heartbeat of every front end is *)
(* put into the frame with the same number.                                *)

\* The ordinals of the delimiters of words of a front end.
Ords(heads, words) ==
    {Ordinal(heads, w.n) : w \in {v \in Range(words) : v.head \in DelimiterHeads}}

\* The number and the counter of a builder, and what a delimiter makes of them.
Counts == [id : Nat, beats : Nat]
CountOf(b) == [id |-> b.fSTFId, beats |-> b.fHBFCounter]
CountFull(c) == c.beats % fMaxHBF = 0 /\ c.beats > 0
Ended(c) == [id |-> c.id + 1, beats |-> 0]
Filled(c, splitMethod) == IF splitMethod # 0 /\ CountFull(c) THEN Ended(c) ELSE c
OneMore(c) == [id |-> c.id, beats |-> c.beats + 1]
Counted(c, n, ends, splitMethod) ==
    LET d == OneMore(Filled(c, splitMethod))
    IN  IF n \in ends \/ (splitMethod = 0 /\ CountFull(d)) THEN Ended(d) ELSE d

\* The ordinals of the ends of spills, which are those of all front ends.
SpillEnds(heads) ==
    {n \in Nat : \E f \in Fems : \E i \in DOMAIN heads[f] :
                      heads[f][i] = "SpillEnd" /\ n = Ordinal(heads[f], i)}

\* The counts after each delimiter, and the number of the frame of each.
Counting(ends, count, number, splitMethod) ==
    /\ count \in [Nat -> Counts]
    /\ number \in [Nat -> Nat]
    /\ \A k \in Nat : /\ number[k + 1] = Filled(count[k], splitMethod).id
                      /\ count[k + 1] = Counted(count[k], k + 1, ends, splitMethod)

LEMMA OrdinalNext ==
  ASSUME NEW heads, NEW n \in Nat
  PROVE  /\ Ordinal(heads, n) \in Nat /\ Ordinal(heads, 0) = 0
         /\ Ordinal(heads, n + 1) = Ordinal(heads, n)
                + IF heads[n + 1] \in DelimiterHeads THEN 1 ELSE 0
<1> DEFINE s(k) == {i \in 1 .. k : heads[i] \in DelimiterHeads}
<1>1. IsFiniteSet(s(n)) /\ Cardinality(s(n)) \in Nat
  <2>1. IsFiniteSet(1 .. n) /\ s(n) \subseteq 1 .. n
    BY FS_Interval
  <2> QED BY <2>1, FS_Subset, FS_CardinalityType
<1>2. s(0) = {} /\ Cardinality({}) = 0
  BY FS_EmptySet
<1>3. CASE heads[n + 1] \in DelimiterHeads
  <2>1. s(n + 1) = s(n) \cup {n + 1} /\ n + 1 \notin s(n)
    BY <1>3
  <2>2. Cardinality(s(n + 1)) = Cardinality(s(n)) + 1
    <3> HIDE DEF s
    <3> QED BY <2>1, <1>1, FS_AddElement
  <2> QED BY <2>2, <1>1, <1>2, <1>3 DEF Ordinal
<1>4. CASE heads[n + 1] \notin DelimiterHeads
  <2>1. s(n + 1) = s(n)
    BY <1>4
  <2>2. Cardinality(s(n + 1)) = Cardinality(s(n)) + 0
    <3> HIDE DEF s
    <3> QED BY <2>1, <1>1
  <2> QED BY <2>2, <1>1, <1>2, <1>4 DEF Ordinal
<1> QED BY <1>3, <1>4

LEMMA RangeConcat ==
  ASSUME NEW u \in Seq(Words), NEW v \in Seq(Words)
  PROVE  Range(u \o v) = Range(u) \cup Range(v)
<1> PICK M \in Nat : M = Len(u)
  BY LenProperties
<1> PICK N \in Nat : N = Len(v)
  BY LenProperties
<1> PICK w \in Seq(Words) : w = u \o v
  BY ConcatProperties
<1>1. /\ DOMAIN w = 1 .. M + N /\ DOMAIN u = 1 .. M /\ DOMAIN v = 1 .. N
      /\ \A i \in 1 .. M : w[i] = u[i]
      /\ \A i \in M + 1 .. M + N : w[i] = v[i - M]
  BY ConcatProperties, LenProperties
<1>2. Range(w) \subseteq Range(u) \cup Range(v)
  <2> SUFFICES ASSUME NEW i \in 1 .. M + N PROVE w[i] \in Range(u) \cup Range(v)
    BY <1>1 DEF Range
  <2>1. i \in 1 .. M \/ (i \in M + 1 .. M + N /\ i - M \in 1 .. N)
    OBVIOUS
  <2> QED BY <2>1, <1>1 DEF Range
<1>3. Range(u) \subseteq Range(w)
  <2>1. \A i \in 1 .. M : i \in 1 .. M + N
    OBVIOUS
  <2> QED BY <2>1, <1>1 DEF Range
<1>4. Range(v) \subseteq Range(w)
  <2> SUFFICES ASSUME NEW i \in 1 .. N PROVE v[i] \in Range(w)
    BY <1>1 DEF Range
  <2>1. M + i \in M + 1 .. M + N /\ (M + i) - M = i /\ M + i \in 1 .. M + N
    OBVIOUS
  <2>2. w[M + i] = v[i] /\ M + i \in DOMAIN w
    BY <2>1, <1>1
  <2> QED BY <2>2 DEF Range
<1> QED BY <1>2, <1>3, <1>4

LEMMA OrdsConcat ==
  ASSUME NEW heads, NEW u \in Seq(Words), NEW v \in Seq(Words)
  PROVE  Ords(heads, u \o v) = Ords(heads, u) \cup Ords(heads, v)
  BY RangeConcat DEF Ords

LEMMA OrdsOne ==
  ASSUME NEW heads, NEW w
  PROVE  /\ Ords(heads, << >>) = {}
         /\ Ords(heads, <<w>>) = IF w.head \in DelimiterHeads THEN {Ordinal(heads, w.n)} ELSE {}
<1>1. Range(<< >>) = {} /\ Range(<<w>>) = {w}
  BY DEF Range
<1> QED BY <1>1 DEF Ords

LEMMA OrdsAppend ==
  ASSUME NEW heads, NEW u \in Seq(Words), NEW w \in Words, w.head \in DelimiterHeads
  PROVE  Ords(heads, u \o <<w>>) = Ords(heads, u) \cup {Ordinal(heads, w.n)}
<1>1. <<w>> \in Seq(Words)
  OBVIOUS
<1>2. Ords(heads, <<w>>) = {Ordinal(heads, w.n)}
  BY OrdsOne
<1>3. Ords(heads, u \o <<w>>) = Ords(heads, u) \cup Ords(heads, <<w>>)
  BY <1>1, OrdsConcat
<1> QED BY <1>2, <1>3

\* The numbers grow.
LEMMA NumbersGrow ==
  ASSUME NEW ends, NEW count, NEW number, NEW splitMethod,
         Counting(ends, count, number, splitMethod), NEW k \in Nat
  PROVE  /\ \A l \in Nat : l >= 1 /\ l <= k => number[l] <= count[k].id
         /\ \A l \in Nat : l > k => number[l] >= Filled(count[k], splitMethod).id
         /\ Filled(count[k], splitMethod).id >= count[k].id
         /\ Filled(count[k], splitMethod) \in Counts
<1>1. ASSUME NEW m \in Nat
      PROVE  /\ Filled(count[m], splitMethod).id >= count[m].id
             /\ count[m + 1].id >= Filled(count[m], splitMethod).id
             /\ count[m].id \in Nat /\ Filled(count[m], splitMethod).id \in Nat
             /\ Filled(count[m], splitMethod) \in Counts
  <2> PICK c \in Counts : c = count[m]
    BY DEF Counting
  <2> PICK d : d = Filled(c, splitMethod)
    OBVIOUS
  <2>1. d \in Counts /\ d.id >= c.id
    BY DEF Filled, Ended, Counts
  <2>2. count[m + 1].id = d.id \/ count[m + 1].id = d.id + 1
    <3>1. OneMore(d).id = d.id /\ Ended(OneMore(d)).id = d.id + 1
      BY DEF OneMore, Ended
    <3>2. count[m + 1] = OneMore(d) \/ count[m + 1] = Ended(OneMore(d))
      BY DEF Counting, Counted
    <3> QED BY <3>1, <3>2
  <2>3. c.id \in Nat /\ d.id \in Nat
    BY <2>1 DEF Counts
  <2> QED BY <2>1, <2>2, <2>3
<1>2. \A m \in Nat : number[m + 1] = Filled(count[m], splitMethod).id /\ number[m] \in Nat
  BY DEF Counting
<1> DEFINE S == {m \in Nat : \A l \in Nat : l >= 1 /\ l <= m => number[l] <= count[m].id}
<1>3. 0 \in S
  OBVIOUS
<1>4. ASSUME NEW m \in Nat, m \in S PROVE m + 1 \in S
  <2> SUFFICES ASSUME NEW l \in Nat, l >= 1, l <= m + 1 PROVE number[l] <= count[m + 1].id
    OBVIOUS
  <2>1. count[m].id <= count[m + 1].id /\ number[m + 1] <= count[m + 1].id
        /\ count[m].id \in Nat /\ count[m + 1].id \in Nat /\ number[l] \in Nat
    <3>1. number[l] \in Nat /\ number[m + 1] = Filled(count[m], splitMethod).id
      BY <1>2
    <3>2. count[m + 1].id \in Nat /\ m + 1 \in Nat
      BY <1>1
    <3> QED BY <3>1, <3>2, <1>1
  <2>2. CASE l = m + 1
    BY <2>1, <2>2
  <2>3. CASE l # m + 1
    <3>1. number[l] <= count[m].id
      BY <1>4, <2>3
    <3> QED BY <3>1, <2>1
  <2> QED BY <2>2, <2>3
<1>5. k \in S
  <2> HIDE DEF S
  <2> QED BY <1>3, <1>4, Induction
<1> DEFINE T == {m \in Nat : number[k + 1 + m] >= Filled(count[k], splitMethod).id
                             /\ count[k + 1 + m].id >= Filled(count[k], splitMethod).id}
<1>6. 0 \in T
  <2>1. k + 1 + 0 = k + 1
    OBVIOUS
  <2> QED BY <2>1, <1>1, <1>2
<1>7. ASSUME NEW m \in Nat, m \in T PROVE m + 1 \in T
  <2> PICK j \in Nat : j = k + 1 + m
    OBVIOUS
  <2>1. k + 1 + (m + 1) = j + 1
    OBVIOUS
  <2>2. /\ number[j + 1] >= count[j].id /\ count[j + 1].id >= count[j].id
        /\ count[j].id \in Nat /\ count[j + 1].id \in Nat /\ number[j + 1] \in Nat
        /\ Filled(count[k], splitMethod).id \in Nat
    BY <1>1, <1>2
  <2>3. count[j].id >= Filled(count[k], splitMethod).id
    BY <1>7
  <2>4. number[j + 1] >= Filled(count[k], splitMethod).id
        /\ count[j + 1].id >= Filled(count[k], splitMethod).id
    BY <2>2, <2>3
  <2> QED BY <2>1, <2>4
<1>8. Nat \subseteq T
  <2> HIDE DEF T
  <2> QED BY <1>6, <1>7, Induction
<1>9. ASSUME NEW l \in Nat, l > k PROVE number[l] >= Filled(count[k], splitMethod).id
  <2> PICK m \in Nat : m = l - (k + 1)
    BY <1>9
  <2>1. m \in T /\ k + 1 + m = l
    BY <1>8
  <2> QED BY <2>1
<1> HIDE DEF T
<1> QED BY <1>5, <1>9, <1>1

LEMMA CountedType ==
  ASSUME NEW c \in Counts, NEW n, NEW ends, NEW splitMethod
  PROVE  Filled(c, splitMethod) \in Counts /\ Counted(c, n, ends, splitMethod) \in Counts
<1>1. \A d \in Counts : Ended(d) \in Counts /\ OneMore(d) \in Counts
  BY DEF Ended, OneMore, Counts
<1> QED BY <1>1 DEF Filled, Counted

\* The counts from any beginning.
LEMMA CountingExists ==
  ASSUME NEW c \in Counts, NEW ends, NEW splitMethod
  PROVE  \E count, number : Counting(ends, count, number, splitMethod) /\ count[0] = c
<1> DEFINE Steps(g, n) ==
             /\ g \in [0 .. n -> Counts]
             /\ g[0] = c
             /\ \A k \in 0 .. n - 1 : g[k + 1] = Counted(g[k], k + 1, ends, splitMethod)
           S == {n \in Nat : \E g : Steps(g, n)}
<1>1. 0 \in S
  <2>1. Steps([k \in 0 .. 0 |-> c], 0)
    OBVIOUS
  <2> HIDE DEF Steps
  <2> QED BY <2>1
<1>2. ASSUME NEW n \in Nat, n \in S PROVE n + 1 \in S
  <2>1. PICK g : Steps(g, n)
    BY <1>2
  <2> PICK x : x = Counted(g[n], n + 1, ends, splitMethod)
    OBVIOUS
  <2>2. x \in Counts
    BY <2>1, CountedType
  <2> DEFINE h == [k \in 0 .. n + 1 |-> IF k = n + 1 THEN x ELSE g[k]]
  <2>3. h \in [0 .. n + 1 -> Counts]
    BY <2>1, <2>2
  <2>4. h[n + 1] = x /\ \A k \in 0 .. n : h[k] = g[k]
    <3>1. \A k \in 0 .. n : k \in 0 .. n + 1 /\ k # n + 1
      OBVIOUS
    <3> QED BY <3>1
  <2> HIDE DEF h
  <2>5. h[0] = c
    BY <2>1, <2>4
  <2>6. ASSUME NEW k \in 0 .. (n + 1) - 1
        PROVE  h[k + 1] = Counted(h[k], k + 1, ends, splitMethod)
    <3>1. k \in 0 .. n
      OBVIOUS
    <3>2. CASE k = n
      BY <3>1, <3>2, <2>4
    <3>3. CASE k # n
      <4>1. k \in 0 .. n - 1 /\ k + 1 \in 0 .. n
        BY <3>1, <3>3
      <4> QED BY <4>1, <3>1, <2>1, <2>4
    <3> QED BY <3>2, <3>3
  <2>7. Steps(h, n + 1)
    BY <2>3, <2>5, <2>6
  <2> HIDE DEF Steps
  <2> QED BY <2>7
<1>3. Nat \subseteq S
  <2> HIDE DEF S
  <2> QED BY <1>1, <1>2, Induction
<1>4. ASSUME NEW n \in Nat, NEW g, NEW h, Steps(g, n), Steps(h, n + 1) PROVE h[n] = g[n]
  <2> DEFINE T == {k \in Nat : k <= n => h[k] = g[k]}
  <2>1. 0 \in T
    BY <1>4
  <2>2. ASSUME NEW k \in Nat, k \in T PROVE k + 1 \in T
    <3> SUFFICES ASSUME k + 1 <= n PROVE h[k + 1] = g[k + 1]
      OBVIOUS
    <3>1. h[k] = g[k] /\ k \in 0 .. n - 1 /\ k \in 0 .. (n + 1) - 1
      BY <2>2
    <3> QED BY <3>1, <1>4
  <2>3. n \in T
    <3> HIDE DEF T
    <3> QED BY <2>1, <2>2, Induction
  <2> QED BY <2>3, n <= n
<1> DEFINE G == [n \in Nat |-> CHOOSE g : Steps(g, n)]
           count == [n \in Nat |-> G[n][n]]
           number == [n \in Nat |-> IF n = 0 THEN 0 ELSE Filled(count[n - 1], splitMethod).id]
<1>5. \A n \in Nat : Steps(G[n], n)
  <2>1. \A n \in Nat : \E g : Steps(g, n)
    BY <1>3
  <2> HIDE DEF Steps
  <2> QED BY <2>1
<1>6. \A n \in Nat : count[n] = G[n][n]
  OBVIOUS
<1> HIDE DEF G
<1>7. count \in [Nat -> Counts]
  <2> SUFFICES ASSUME NEW n \in Nat PROVE G[n][n] \in Counts
    OBVIOUS
  <2> QED BY <1>5
<1>8. count[0] = c
  BY <1>5
<1>9. ASSUME NEW n \in Nat PROVE count[n + 1] = Counted(count[n], n + 1, ends, splitMethod)
  <2>1. Steps(G[n], n) /\ Steps(G[n + 1], n + 1)
    BY <1>5
  <2>2. G[n + 1][n] = G[n][n]
    <3> HIDE DEF Steps
    <3> QED BY <2>1, <1>4
  <2>3. G[n + 1][n + 1] = Counted(G[n + 1][n], n + 1, ends, splitMethod)
    <3>1. n \in 0 .. (n + 1) - 1
      OBVIOUS
    <3> QED BY <3>1, <2>1
  <2> QED BY <2>2, <2>3, <1>6
<1> HIDE DEF count
<1>10. \A n \in Nat : Filled(count[n], splitMethod).id \in Nat
  BY <1>7, CountedType DEF Counts
<1>11. number \in [Nat -> Nat]
  <2> SUFFICES ASSUME NEW n \in Nat
               PROVE  (IF n = 0 THEN 0 ELSE Filled(count[n - 1], splitMethod).id) \in Nat
    OBVIOUS
  <2>1. n # 0 => n - 1 \in Nat
    OBVIOUS
  <2> QED BY <2>1, <1>10
<1>12. ASSUME NEW n \in Nat PROVE number[n + 1] = Filled(count[n], splitMethod).id
  <2>1. n + 1 \in Nat /\ n + 1 # 0 /\ (n + 1) - 1 = n
    OBVIOUS
  <2> QED BY <2>1
<1> HIDE DEF number
<1>13. Counting(ends, count, number, splitMethod)
  BY <1>7, <1>9, <1>11, <1>12 DEF Counting
<1> QED BY <1>8, <1>13

LEMMA SpillEndsOfAll ==
  ASSUME NEW heads \in Streams, NEW f \in Fems, NEW i \in DOMAIN heads[f],
         heads[f][i] \in DelimiterHeads
  PROVE  heads[f][i] = "SpillEnd" <=> Ordinal(heads[f], i) \in SpillEnds(heads)
<1>0. i \in Nat /\ Ordinal(heads[f], i) \in Nat
  <2>1. heads[f] \in Seq(Heads)
    BY SamplerAssumption
  <2>2. i \in Nat
    BY <2>1, LenProperties
  <2> QED BY <2>2, OrdinalNext
<1>1. ASSUME heads[f][i] = "SpillEnd" PROVE Ordinal(heads[f], i) \in SpillEnds(heads)
  BY <1>0, <1>1 DEF SpillEnds
<1>2. ASSUME Ordinal(heads[f], i) \in SpillEnds(heads) PROVE heads[f][i] = "SpillEnd"
  <2> PICK g \in Fems : \E j \in DOMAIN heads[g] :
         heads[g][j] = "SpillEnd" /\ Ordinal(heads[f], i) = Ordinal(heads[g], j)
    BY <1>2 DEF SpillEnds
  <2> PICK j \in DOMAIN heads[g] :
         heads[g][j] = "SpillEnd" /\ Ordinal(heads[f], i) = Ordinal(heads[g], j)
    OBVIOUS
  <2>1. {heads[g][j], heads[f][i]} \subseteq DelimiterHeads
    BY DEF DelimiterHeads
  <2>2. SameSpills(heads)
    BY ChainAssumption
  <2> QED BY <2>1, <2>2 DEF SameSpills
<1> QED BY <1>1, <1>2

-----------------------------------------------------------------------------
\* A frame of a front end has all delimiters with its number.
HasAll(heads, frame, number) ==
    Ords(heads, FrameWords(frame)) = {l \in Nat : l >= 1 /\ number[l] = frame.id}

\* The first k delimiters are in the frame that is being built and in those before.
Holds(heads, b, k, number) ==
    /\ Ords(heads, b.fInputPayloads) = {}
    /\ Ords(heads, Work(b)) = {l \in Nat : l >= 1 /\ l <= k /\ number[l] = b.fSTFId}
    /\ \A i \in DOMAIN b.fOutputPayloads : HasAll(heads, b.fOutputPayloads[i], number)

LEMMA FlushedHolds ==
  ASSUME NEW b \in Builders, NEW heads, NEW c \in Builders, c = Flushed(b)
  PROVE  /\ c.fInputPayloads = << >> /\ Ords(heads, << >>) = {}
         /\ Ords(heads, Work(c)) = Ords(heads, Work(b)) \cup Ords(heads, b.fInputPayloads)
         /\ c.fOutputPayloads = b.fOutputPayloads /\ CountOf(c) = CountOf(b)
<1>1. /\ c.fInputPayloads = << >> /\ Work(c) = Work(b) \o b.fInputPayloads
      /\ c.fOutputPayloads = b.fOutputPayloads
      /\ c.fSTFId = b.fSTFId /\ c.fHBFCounter = b.fHBFCounter
  BY FlushedKeeps
<1>2. Ords(heads, Work(c)) = Ords(heads, Work(b)) \cup Ords(heads, b.fInputPayloads)
  <2> PICK u \in Seq(Words) : u = Work(b)
    BY HeldWords
  <2> PICK v \in Seq(Words) : v = b.fInputPayloads
    BY HeldWords
  <2> QED BY <1>1, OrdsConcat
<1>3. Ords(heads, << >>) = {}
  BY OrdsOne
<1> QED BY <1>1, <1>2, <1>3 DEF CountOf

\* The first k delimiters are in frame id and those before, all others after it.
Settled(number, k, id) ==
    /\ \A l \in Nat : l >= 1 /\ l <= k => number[l] <= id
    /\ \A l \in Nat : l > k => number[l] > id

\* FinalizeSTF puts a frame out when no delimiter to come has its number.
LEMMA FinalizeHolds ==
  ASSUME NEW b \in Builders, b.fInputPayloads = << >>, NEW c \in Builders, c = FinalizeSTF(b),
         NEW heads, NEW number \in [Nat -> Nat], NEW k \in Nat, Holds(heads, b, k, number),
         Settled(number, k, b.fSTFId)
  PROVE  Holds(heads, c, k, number) /\ c.fInputPayloads = << >> /\ CountOf(c) = Ended(CountOf(b))
<1> PICK frame : frame = [id |-> b.fSTFId, payloads |-> b.fWorkingPayloads]
  OBVIOUS
<1>1. /\ c.fInputPayloads = << >> /\ c.fSTFId = b.fSTFId + 1 /\ c.fHBFCounter = 0
      /\ Work(c) = << >> /\ c.fOutputPayloads = Append(b.fOutputPayloads, frame)
      /\ frame \in Frames /\ FrameWords(frame) = Work(b)
  BY FinalizeKeeps
<1>2. b.fSTFId \in Nat /\ b.fOutputPayloads \in Seq(Frames) /\ frame.id = b.fSTFId
  BY DEF Builders
<1>3. Ords(heads, << >>) = {}
  BY OrdsOne
<1>4. HasAll(heads, frame, number)
  <2>1. Ords(heads, FrameWords(frame)) = {l \in Nat : l >= 1 /\ l <= k /\ number[l] = b.fSTFId}
    BY <1>1 DEF Holds
  <2>2. \A l \in Nat : number[l] = b.fSTFId => l <= k
    <3> SUFFICES ASSUME NEW l \in Nat, number[l] = b.fSTFId, ~(l <= k) PROVE FALSE
      OBVIOUS
    <3>1. number[l] > b.fSTFId
      BY DEF Settled
    <3> QED BY ONLY <3>1, <1>2, number[l] = b.fSTFId
  <2>3. {l \in Nat : l >= 1 /\ l <= k /\ number[l] = b.fSTFId}
            = {l \in Nat : l >= 1 /\ number[l] = frame.id}
    BY <2>2, <1>2
  <2> QED BY <2>1, <2>3 DEF HasAll
<1>5. {l \in Nat : l >= 1 /\ l <= k /\ number[l] = c.fSTFId} = {}
  <2> SUFFICES ASSUME NEW l \in Nat, l >= 1, l <= k, number[l] = b.fSTFId + 1 PROVE FALSE
    BY <1>1
  <2>1. number[l] <= b.fSTFId
    BY DEF Settled
  <2> QED BY ONLY <2>1, <1>2, number[l] = b.fSTFId + 1
<1>6. \A i \in DOMAIN c.fOutputPayloads : HasAll(heads, c.fOutputPayloads[i], number)
  <2> PICK s \in Seq(Frames) : s = b.fOutputPayloads
    BY <1>2
  <2>1. \A i \in DOMAIN Append(s, frame) :
           \/ i \in DOMAIN s /\ Append(s, frame)[i] = s[i]
           \/ Append(s, frame)[i] = frame
    <3>1. s \in Seq(Frames) /\ frame \in Frames
      BY <1>1
    <3> QED BY ONLY <3>1, FrameAppended
  <2>2. \A i \in DOMAIN s : HasAll(heads, s[i], number)
    BY DEF Holds
  <2>3. \A i \in DOMAIN Append(s, frame) : HasAll(heads, Append(s, frame)[i], number)
    BY <2>1, <2>2, <1>4
  <2> QED BY <2>3, <1>1
<1>7. Holds(heads, c, k, number)
  BY <1>1, <1>3, <1>5, <1>6 DEF Holds
<1>8. CountOf(c) = Ended(CountOf(b))
  BY <1>1 DEF CountOf, Ended
<1> QED BY <1>1, <1>7, <1>8

\* The builder has put together p words of its front end.
Reached(heads, b, p, count, number) ==
    /\ CountOf(b) = count[Ordinal(heads, p)]
    /\ Holds(heads, b, Ordinal(heads, p), number)

LEMMA FullCount ==
  ASSUME NEW b
  PROVE  Full(b) <=> CountFull(CountOf(b))
<1>1. CountOf(b).beats = b.fHBFCounter
  BY DEF CountOf
<1> QED BY <1>1 DEF Full, CountFull

LEMMA FillDataHolds ==
  ASSUME NEW b \in Builders, NEW heads, NEW ends, NEW count, NEW number,
         Counting(ends, count, number, fSplitMethod), NEW k \in Nat,
         CountOf(b) = count[k], Holds(heads, b, k, number), NEW c \in Builders, c = FillData(b)
  PROVE  /\ c.fInputPayloads = << >> /\ CountOf(c) = Filled(count[k], fSplitMethod)
         /\ Holds(heads, c, k, number)
<1> PICK e \in Builders : e = Flushed(b)
  BY FlushedKeeps
<1>1. /\ e.fInputPayloads = << >> /\ Ords(heads, << >>) = {}
      /\ Ords(heads, Work(e)) = Ords(heads, Work(b)) \cup Ords(heads, b.fInputPayloads)
      /\ e.fOutputPayloads = b.fOutputPayloads /\ CountOf(e) = CountOf(b)
  BY FlushedHolds
<1>2. b.fSTFId = count[k].id /\ e.fSTFId = count[k].id
  <2>1. CountOf(b).id = b.fSTFId /\ CountOf(e).id = e.fSTFId
    BY DEF CountOf
  <2> QED BY <2>1, <1>1
<1>3. Holds(heads, e, k, number)
  <2>1. Ords(heads, b.fInputPayloads) = {}
        /\ Ords(heads, Work(b)) = {l \in Nat : l >= 1 /\ l <= k /\ number[l] = b.fSTFId}
        /\ \A i \in DOMAIN b.fOutputPayloads : HasAll(heads, b.fOutputPayloads[i], number)
    BY DEF Holds
  <2>2. Ords(heads, Work(e)) = {l \in Nat : l >= 1 /\ l <= k /\ number[l] = e.fSTFId}
    BY <2>1, <1>1, <1>2
  <2> QED BY <2>1, <2>2, <1>1 DEF Holds
<1>4. CASE fSplitMethod # 0 /\ Full(b)
  <2>1. c = FinalizeSTF(e)
    BY <1>4 DEF FillData
  <2>2. Filled(count[k], fSplitMethod) = Ended(count[k])
    BY <1>4, FullCount DEF Filled
  <2>3. Filled(count[k], fSplitMethod).id = count[k].id + 1
    BY <2>2 DEF Ended
  <2>4. e.fSTFId \in Nat /\ number \in [Nat -> Nat]
    BY DEF Builders, Counting
  <2>5. \A l \in Nat : l >= 1 /\ l <= k => number[l] <= e.fSTFId
    BY <1>2, NumbersGrow
  <2>6. \A l \in Nat : l > k => number[l] > e.fSTFId
    <3> SUFFICES ASSUME NEW l \in Nat, l > k PROVE number[l] > e.fSTFId
      OBVIOUS
    <3>1. number[l] >= e.fSTFId + 1
      BY <1>2, <2>3, NumbersGrow
    <3>2. number[l] \in Nat
      BY <2>4
    <3> QED BY ONLY <3>1, <3>2, <2>4
  <2>7. Holds(heads, c, k, number) /\ c.fInputPayloads = << >> /\ CountOf(c) = Ended(CountOf(e))
    <3>1. Settled(number, k, e.fSTFId)
      BY <2>5, <2>6 DEF Settled
    <3> QED BY <3>1, <2>1, <2>4, <1>1, <1>3, FinalizeHolds
  <2> QED BY <2>2, <2>7, <1>1
<1>5. CASE ~(fSplitMethod # 0 /\ Full(b))
  <2>1. c = e
    BY <1>5 DEF FillData
  <2>2. Filled(count[k], fSplitMethod) = count[k]
    BY <1>5, FullCount DEF Filled
  <2> QED BY <2>1, <2>2, <1>1, <1>3
<1> QED BY <1>4, <1>5

\* A delimiter is put into the frame with its number.
LEMMA OneMoreHeld ==
  ASSUME NEW c \in Builders, NEW heads, NEW ends, NEW count, NEW number,
         Counting(ends, count, number, fSplitMethod), NEW k \in Nat,
         CountOf(c) = Filled(count[k], fSplitMethod), Holds(heads, c, k, number),
         NEW w, w.head \in DelimiterHeads, Ordinal(heads, w.n) = k + 1,
         NEW g \in Builders, g.fInputPayloads = << >>,
         Ords(heads, Work(g)) = Ords(heads, Work(c)) \cup {k + 1},
         g.fOutputPayloads = c.fOutputPayloads, g.fSTFId = c.fSTFId
  PROVE  /\ Holds(heads, g, k + 1, number)
         /\ count[k + 1].id = g.fSTFId + 1 => Settled(number, k + 1, g.fSTFId)
<1>1. CountOf(c).id = c.fSTFId
  BY DEF CountOf
<1>2. number[k + 1] = g.fSTFId /\ g.fSTFId \in Nat /\ number \in [Nat -> Nat]
  BY <1>1 DEF Counting, Builders
<1>3. /\ \A l \in Nat : l >= 1 /\ l <= k => number[l] <= count[k].id
      /\ Filled(count[k], fSplitMethod).id >= count[k].id
      /\ count[k].id \in Nat
  <2>1. count[k] \in Counts
    BY DEF Counting
  <2> QED BY <2>1, NumbersGrow DEF Counts
<1>4. \A l \in Nat : l >= 1 /\ l <= k + 1 => number[l] <= g.fSTFId
  <2> SUFFICES ASSUME NEW l \in Nat, l >= 1, l <= k + 1 PROVE number[l] <= g.fSTFId
    OBVIOUS
  <2>1. CASE l = k + 1
    BY <2>1, <1>2
  <2>2. CASE l # k + 1
    <3>1. number[l] <= count[k].id /\ count[k].id <= g.fSTFId /\ number[l] \in Nat
      <4>1. l <= k
        BY <2>2
      <4> QED BY <4>1, <1>1, <1>2, <1>3
    <3> QED BY ONLY <3>1, <1>2, <1>3
  <2> QED BY <2>1, <2>2
<1>5. {l \in Nat : l >= 1 /\ l <= k /\ number[l] = c.fSTFId} \cup {k + 1}
        = {l \in Nat : l >= 1 /\ l <= k + 1 /\ number[l] = g.fSTFId}
  <2>1. \A l \in Nat : l <= k + 1 <=> l <= k \/ l = k + 1
    OBVIOUS
  <2>2. k + 1 \in Nat /\ k + 1 >= 1 /\ c.fSTFId = g.fSTFId /\ number[k + 1] = g.fSTFId
    BY <1>2
  <2>3. \A l \in Nat : l \in {j \in Nat : j >= 1 /\ j <= k /\ number[j] = c.fSTFId} \cup {k + 1}
           <=> l \in {j \in Nat : j >= 1 /\ j <= k + 1 /\ number[j] = g.fSTFId}
    BY ONLY <2>1, <2>2
  <2> QED BY ONLY <2>2, <2>3
<1>6. Holds(heads, g, k + 1, number)
  <2>1. Ords(heads, << >>) = {}
    BY OrdsOne
  <2>2. Ords(heads, Work(c)) = {l \in Nat : l >= 1 /\ l <= k /\ number[l] = c.fSTFId}
        /\ \A i \in DOMAIN c.fOutputPayloads : HasAll(heads, c.fOutputPayloads[i], number)
    BY DEF Holds
  <2>3. Ords(heads, Work(g)) = {l \in Nat : l >= 1 /\ l <= k + 1 /\ number[l] = g.fSTFId}
    BY <2>2, <1>5
  <2> QED BY <2>1, <2>2, <2>3 DEF Holds
<1>7. ASSUME count[k + 1].id = g.fSTFId + 1, NEW l \in Nat, l > k + 1 PROVE number[l] > g.fSTFId
  <2>1. /\ number[l] >= Filled(count[k + 1], fSplitMethod).id
        /\ Filled(count[k + 1], fSplitMethod).id >= count[k + 1].id
        /\ Filled(count[k + 1], fSplitMethod).id \in Nat
    <3>1. k + 1 \in Nat
      OBVIOUS
    <3>2. \A j \in Nat : j > k + 1 => number[j] >= Filled(count[k + 1], fSplitMethod).id
      BY <3>1, NumbersGrow
    <3>3. Filled(count[k + 1], fSplitMethod).id >= count[k + 1].id
          /\ Filled(count[k + 1], fSplitMethod) \in Counts
      BY <3>1, NumbersGrow
    <3> QED BY <3>2, <3>3, <1>7 DEF Counts
  <2>2. number[l] \in Nat
    BY <1>2
  <2> QED BY ONLY <2>1, <2>2, <1>2, <1>7
<1> QED BY <1>4, <1>6, <1>7 DEF Settled

LEMMA HeartbeatHolds ==
  ASSUME NEW b \in Builders, NEW heads, NEW ends, NEW count, NEW number,
         Counting(ends, count, number, fSplitMethod), NEW k \in Nat,
         CountOf(b) = count[k], Holds(heads, b, k, number),
         NEW w \in Words, w.head \in {"Heartbeat", "ErrorRecovery"},
         Ordinal(heads, w.n) = k + 1, k + 1 \notin ends
  PROVE  LET h == Heartbeat(b, w)
         IN  CountOf(h) = count[k + 1] /\ Holds(heads, h, k + 1, number)
<1> PICK c \in Builders : c = FillData(b)
  BY FillDataKeeps
<1>1. /\ c.fInputPayloads = << >> /\ CountOf(c) = Filled(count[k], fSplitMethod)
      /\ Holds(heads, c, k, number)
  BY FillDataHolds
<1> PICK e \in Builders : e = Delimiter(c, w)
  BY <1>1, DelimiterAdds
<1>2. /\ e.fInputPayloads = << >> /\ Work(e) = Work(c) \o <<w>>
      /\ e.fOutputPayloads = c.fOutputPayloads
      /\ e.fSTFId = c.fSTFId /\ e.fHBFCounter = c.fHBFCounter
  BY <1>1, DelimiterAdds
<1> PICK g \in Builders : g = [e EXCEPT !.fHBFCounter = @ + 1]
  BY OneMoreHeartbeat
<1>3. /\ g \in Builders /\ g.fInputPayloads = << >> /\ g.fSTFId = e.fSTFId
      /\ g.fOutputPayloads = e.fOutputPayloads /\ g.fWorkingPayloads = e.fWorkingPayloads
      /\ g.fHBFCounter = c.fHBFCounter + 1
  BY <1>2, OneMoreHeartbeat
<1>4. w.head \in DelimiterHeads
  BY DEF DelimiterHeads
<1>5. Ords(heads, Work(g)) = Ords(heads, Work(c)) \cup {k + 1}
  <2> PICK u \in Seq(Words) : u = Work(c)
    BY HeldWords
  <2>1. Work(g) = u \o <<w>>
    BY <1>2, <1>3 DEF Work
  <2>2. Ords(heads, u \o <<w>>) = Ords(heads, u) \cup {Ordinal(heads, w.n)}
    BY <1>4, OrdsAppend
  <2> QED BY <2>1, <2>2
<1>6. /\ Holds(heads, g, k + 1, number)
      /\ count[k + 1].id = g.fSTFId + 1 => Settled(number, k + 1, g.fSTFId)
  <2>1. /\ g \in Builders /\ g.fInputPayloads = << >>
        /\ g.fOutputPayloads = c.fOutputPayloads /\ g.fSTFId = c.fSTFId
    BY <1>2, <1>3
  <2>2. /\ c \in Builders /\ k \in Nat /\ Counting(ends, count, number, fSplitMethod)
        /\ CountOf(c) = Filled(count[k], fSplitMethod) /\ Holds(heads, c, k, number)
        /\ Ordinal(heads, w.n) = k + 1
    BY <1>1
  <2> QED BY ONLY <1>4, <1>5, <2>1, <2>2, OneMoreHeld
<1>7. CountOf(g) = OneMore(Filled(count[k], fSplitMethod))
  BY <1>1, <1>2, <1>3 DEF CountOf, OneMore
<1>8. count[k + 1] = IF fSplitMethod = 0 /\ CountFull(CountOf(g)) THEN Ended(CountOf(g)) ELSE CountOf(g)
  <2>1. count[k + 1] = Counted(count[k], k + 1, ends, fSplitMethod)
    BY DEF Counting
  <2> QED BY <2>1, <1>7 DEF Counted
<1>9. Heartbeat(b, w) = IF fSplitMethod = 0 /\ CountFull(CountOf(g)) THEN FinalizeSTF(g) ELSE g
  BY FullCount DEF Heartbeat
<1>10. CASE fSplitMethod = 0 /\ CountFull(CountOf(g))
  <2> PICK h \in Builders : h = FinalizeSTF(g)
    BY <1>3, FinalizeKeeps
  <2>1. count[k + 1].id = g.fSTFId + 1
    BY <1>8, <1>10 DEF Ended, CountOf
  <2>2. Settled(number, k + 1, g.fSTFId) /\ number \in [Nat -> Nat] /\ k + 1 \in Nat
    BY <2>1, <1>6 DEF Counting
  <2>3. Holds(heads, h, k + 1, number) /\ CountOf(h) = Ended(CountOf(g))
    BY <2>2, <1>3, <1>6, <1>2, FinalizeHolds
  <2> QED BY <2>3, <1>8, <1>9, <1>10
<1>11. CASE ~(fSplitMethod = 0 /\ CountFull(CountOf(g)))
  BY <1>6, <1>8, <1>9, <1>11
<1> QED BY <1>10, <1>11

LEMMA SpillEndHolds ==
  ASSUME NEW b \in Builders, NEW heads, NEW ends, NEW count, NEW number,
         Counting(ends, count, number, fSplitMethod), NEW k \in Nat,
         CountOf(b) = count[k], Holds(heads, b, k, number),
         NEW w \in Words, w.head = "SpillEnd",
         Ordinal(heads, w.n) = k + 1, k + 1 \in ends
  PROVE  LET h == SpillEnd(b, w)
         IN  CountOf(h) = count[k + 1] /\ Holds(heads, h, k + 1, number)
<1> PICK c \in Builders : c = FillData(b)
  BY FillDataKeeps
<1>1. /\ c.fInputPayloads = << >> /\ CountOf(c) = Filled(count[k], fSplitMethod)
      /\ Holds(heads, c, k, number)
  BY FillDataHolds
<1> PICK e : e = [c EXCEPT !.fInputPayloads = <<w>>]
  OBVIOUS
<1>2. /\ e \in Builders /\ e.fInputPayloads = <<w>> 
      /\ e.fOutputPayloads = c.fOutputPayloads /\ e.fWorkingPayloads = c.fWorkingPayloads
      /\ e.fSTFId = c.fSTFId /\ e.fHBFCounter = c.fHBFCounter
  <2>1. <<w>> \in Seq(Words)
    OBVIOUS
  <2> QED BY <2>1 DEF Builders
<1>3. CountOf(e) = CountOf(c) /\ Work(e) = Work(c)
  BY <1>2 DEF CountOf, Work
<1>4. ~(fSplitMethod # 0 /\ Full(e))
  <2> SUFFICES ASSUME fSplitMethod # 0, CountFull(Filled(count[k], fSplitMethod)) PROVE FALSE
    BY <1>1, <1>3, FullCount
  <2>1. ~CountFull(Ended(count[k]))
    BY DEF CountFull, Ended
  <2> QED BY <2>1 DEF Filled
<1> PICK g \in Builders : g = Flushed(e)
  BY <1>2, FlushedKeeps
<1>5. SpillEnd(b, w) = FinalizeSTF(g)
  BY <1>4 DEF SpillEnd, FillData
<1>6. w.head \in DelimiterHeads
  BY DEF DelimiterHeads
<1>7. /\ g.fInputPayloads = << >> /\ g.fOutputPayloads = c.fOutputPayloads
      /\ CountOf(g) = CountOf(c) /\ g.fSTFId = c.fSTFId
      /\ Ords(heads, Work(g)) = Ords(heads, Work(c)) \cup {k + 1}
  <2>1. /\ g.fInputPayloads = << >>
        /\ Ords(heads, Work(g)) = Ords(heads, Work(e)) \cup Ords(heads, e.fInputPayloads)
        /\ g.fOutputPayloads = e.fOutputPayloads /\ CountOf(g) = CountOf(e)
    <3>1. e \in Builders /\ g \in Builders /\ g = Flushed(e)
      BY <1>2
    <3> QED BY ONLY <3>1, FlushedHolds
  <2>2. Ords(heads, <<w>>) = {k + 1}
    BY <1>6, OrdsOne
  <2>3. g.fSTFId = c.fSTFId
    <3>1. CountOf(g).id = g.fSTFId /\ CountOf(c).id = c.fSTFId
      BY DEF CountOf
    <3> QED BY <3>1, <2>1, <1>3
  <2> QED BY <2>1, <2>2, <2>3, <1>2, <1>3
<1>8. /\ Holds(heads, g, k + 1, number)
      /\ count[k + 1].id = g.fSTFId + 1 => Settled(number, k + 1, g.fSTFId)
  BY <1>1, <1>6, <1>7, OneMoreHeld
<1>9. count[k + 1] = Ended(CountOf(g))
  <2>1. count[k + 1] = Counted(count[k], k + 1, ends, fSplitMethod)
    BY DEF Counting
  <2>2. Ended(OneMore(CountOf(g))) = Ended(CountOf(g))
    BY DEF Ended, OneMore
  <2> QED BY <2>1, <2>2, <1>1, <1>7 DEF Counted
<1>10. count[k + 1].id = g.fSTFId + 1
  BY <1>9 DEF Ended, CountOf
<1> PICK h \in Builders : h = FinalizeSTF(g)
  BY <1>7, FinalizeKeeps
<1>11. Settled(number, k + 1, g.fSTFId) /\ number \in [Nat -> Nat] /\ k + 1 \in Nat
  BY <1>8, <1>10 DEF Counting
<1>12. Holds(heads, h, k + 1, number) /\ CountOf(h) = Ended(CountOf(g))
  BY <1>7, <1>8, <1>11, FinalizeHolds
<1> QED BY <1>5, <1>9, <1>12

\* One more word.
LEMMA NextWordHolds ==
  ASSUME NEW b \in Builders, NEW heads, NEW ends, NEW count, NEW number,
         Counting(ends, count, number, fSplitMethod), NEW p \in Nat,
         Reached(heads, b, p, count, number),
         NEW w \in Words, w = Word(heads[p + 1], p + 1),
         w.head \in DelimiterHeads => (w.head = "SpillEnd" <=> Ordinal(heads, p + 1) \in ends)
  PROVE  Reached(heads, NextWord(b, w), p + 1, count, number)
<1> PICK k \in Nat : k = Ordinal(heads, p)
  BY OrdinalNext
<1>0. /\ w.head \in Heads /\ w.head = heads[p + 1] /\ w.n = p + 1
      /\ CountOf(b) = count[k] /\ Holds(heads, b, k, number)
  BY DEF Words, Word, Reached
<1>1. CASE w.head \in {"Data", "Other"}
  <2>1. Ordinal(heads, p + 1) = k
    <3>1. heads[p + 1] \notin DelimiterHeads
      BY <1>0, <1>1 DEF DelimiterHeads
    <3> QED BY <3>1, OrdinalNext
  <2>2. CountOf(NextWord(b, w)) = CountOf(b) /\ Holds(heads, NextWord(b, w), k, number)
    <3>1. CASE w.head = "Other"
      BY <3>1, <1>0 DEF NextWord
    <3>2. CASE w.head = "Data"
      <4> PICK c : c = [b EXCEPT !.fInputPayloads = Append(@, w)]
        OBVIOUS
      <4>1. NextWord(b, w) = c
        BY <3>2 DEF NextWord
      <4>2. /\ c.fInputPayloads = Append(b.fInputPayloads, w) /\ c.fHBFCounter = b.fHBFCounter
            /\ c.fOutputPayloads = b.fOutputPayloads /\ c.fWorkingPayloads = b.fWorkingPayloads
            /\ c.fSTFId = b.fSTFId
        BY DEF Builders
      <4>3. Ords(heads, c.fInputPayloads) = {}
        <5> PICK s \in Seq(Words) : s = b.fInputPayloads
          BY HeldWords
        <5>1. Append(s, w) = s \o <<w>> /\ <<w>> \in Seq(Words)
          BY AppendIsConcat
        <5>2. Ords(heads, s \o <<w>>) = Ords(heads, s) \cup Ords(heads, <<w>>)
          BY <5>1, OrdsConcat
        <5>3. Ords(heads, <<w>>) = {}
          BY <3>2, OrdsOne DEF DelimiterHeads
        <5>4. Ords(heads, s) = {}
          BY <1>0 DEF Holds
        <5> QED BY <5>1, <5>2, <5>3, <5>4, <4>2
      <4>4. Work(c) = Work(b) /\ CountOf(c) = CountOf(b)
        BY <4>2 DEF Work, CountOf
      <4>5. Holds(heads, c, k, number)
        BY <1>0, <4>2, <4>3, <4>4 DEF Holds
      <4> QED BY <4>1, <4>4, <4>5
    <3> QED BY <1>1, <3>1, <3>2
  <2> QED BY <2>1, <2>2, <1>0 DEF Reached
<1>2. CASE w.head \in DelimiterHeads
  <2>1. Ordinal(heads, p + 1) = k + 1 /\ Ordinal(heads, w.n) = k + 1
    BY <1>0, <1>2, OrdinalNext
  <2>2. CASE w.head \in {"Heartbeat", "ErrorRecovery"}
    <3>1. k + 1 \notin ends
      BY <2>1, <2>2, <1>2
    <3>2. NextWord(b, w) = Heartbeat(b, w)
      BY <2>2 DEF NextWord
    <3> PICK h : h = Heartbeat(b, w)
      OBVIOUS
    <3>3. CountOf(h) = count[k + 1] /\ Holds(heads, h, k + 1, number)
      BY <1>0, <2>1, <2>2, <3>1, HeartbeatHolds
    <3> QED BY <2>1, <3>2, <3>3 DEF Reached
  <2>3. CASE w.head = "SpillEnd"
    <3>1. k + 1 \in ends
      BY <2>1, <2>3, <1>2
    <3>2. NextWord(b, w) = SpillEnd(b, w)
      BY <2>3 DEF NextWord
    <3> PICK h : h = SpillEnd(b, w)
      OBVIOUS
    <3>3. CountOf(h) = count[k + 1] /\ Holds(heads, h, k + 1, number)
      BY <1>0, <2>1, <2>3, <3>1, SpillEndHolds
    <3> QED BY <2>1, <3>2, <3>3 DEF Reached
  <2> QED BY <1>2, <2>2, <2>3 DEF DelimiterHeads
<1> QED BY <1>0, <1>1, <1>2 DEF Heads, DelimiterHeads

\* The words of a message are those after the first p of the front end.
Follows(heads, m, p) ==
    p + Len(m) <= Len(heads) /\ \A i \in 1 .. Len(m) : m[i] = Word(heads[p + i], p + i)

LEMMA BuildFrameHolds ==
  ASSUME NEW b \in Builders, NEW heads \in Streams, NEW f \in Fems, NEW count, NEW number,
         Counting(SpillEnds(heads), count, number, fSplitMethod), NEW p \in Nat,
         NEW s, s = heads[f],
         Reached(s, b, p, count, number), NEW m \in Seq(Words), Follows(s, m, p)
  PROVE  Reached(s, BuildFrame(b, m), p + Len(m), count, number)
<1> PICK N \in Nat : N = Len(m)
  BY LenProperties
<1>1. PICK h \in [0 .. N -> Builders] :
            /\ h[0] = b /\ h[N] = BuildFrame(b, m)
            /\ \A k \in 1 .. N : h[k] = NextWord(h[k - 1], m[k])
  BY BuildTrace
<1>2. s \in Seq(Heads) /\ Len(s) \in Nat /\ DOMAIN s = 1 .. Len(s)
  BY SamplerAssumption, LenProperties
<1> DEFINE S == {k \in Nat : k <= N => Reached(s, h[k], p + k, count, number)}
<1>3. 0 \in S
  <2>1. p + 0 = p
    OBVIOUS
  <2> QED BY <2>1, <1>1
<1>4. ASSUME NEW k \in Nat, k \in S PROVE k + 1 \in S
  <2> SUFFICES ASSUME k + 1 <= N
               PROVE  Reached(s, h[k + 1], p + (k + 1), count, number)
    OBVIOUS
  <2>1. k \in 0 .. N /\ k + 1 \in 1 .. N /\ (k + 1) - 1 = k
    OBVIOUS
  <2> PICK w \in Words : w = m[k + 1]
    BY <2>1, LenProperties
  <2> PICK c \in Builders : c = h[k]
    BY <2>1
  <2> PICK q \in Nat : q = p + k
    OBVIOUS
  <2>2. Reached(s, c, q, count, number)
    BY <1>4
  <2>3. h[k + 1] = NextWord(c, w)
    BY <1>1, <2>1
  <2>4. w = Word(s[q + 1], q + 1) /\ q + 1 \in DOMAIN s
    <3>1. p + (k + 1) = q + 1 /\ p + N <= Len(s)
      BY DEF Follows
    <3>2. m[k + 1] = Word(s[p + (k + 1)], p + (k + 1))
      BY <2>1 DEF Follows
    <3> QED BY <3>1, <3>2, <1>2
  <2>5. w.head = s[q + 1]
    BY <2>4 DEF Word
  <2>6. w.head \in DelimiterHeads => (w.head = "SpillEnd" <=> Ordinal(s, q + 1) \in SpillEnds(heads))
    BY <2>4, <2>5, SpillEndsOfAll
  <2>7. Reached(s, NextWord(c, w), q + 1, count, number)
    BY <2>2, <2>4, <2>6, NextWordHolds
  <2>8. q + 1 = p + (k + 1)
    OBVIOUS
  <2> HIDE DEF S
  <2> QED BY <2>3, <2>7, <2>8
<1>5. N \in S
  <2> HIDE DEF S
  <2> QED BY <1>3, <1>4, Induction
<1> QED BY <1>1, <1>5, N <= N

-----------------------------------------------------------------------------
(* The numbers of the frames of a builder only grow, and a number is given *)
(* to one frame.                                                           *)

Increasing(b) ==
    /\ \A i \in DOMAIN b.fOutputPayloads : b.fOutputPayloads[i].id < b.fSTFId
    /\ \A i, j \in DOMAIN b.fOutputPayloads :
          i < j => b.fOutputPayloads[i].id < b.fOutputPayloads[j].id

\* All frames that a builder has still to send come after the number x.
Below(x, b) ==
    /\ x < b.fSTFId
    /\ \A i \in DOMAIN b.fOutputPayloads : x < b.fOutputPayloads[i].id

KeepsOrder(b, c) ==
    /\ Increasing(b) => Increasing(c)
    /\ \A x \in Nat : Below(x, b) => Below(x, c)

LEMMA SameOrder ==
  ASSUME NEW b, NEW c, c.fOutputPayloads = b.fOutputPayloads, c.fSTFId = b.fSTFId
  PROVE  KeepsOrder(b, c)
  BY DEF KeepsOrder, Increasing, Below

LEMMA KeepsOrderBoth ==
  ASSUME NEW b, NEW c, NEW d, KeepsOrder(b, c), KeepsOrder(c, d)
  PROVE  KeepsOrder(b, d)
  BY DEF KeepsOrder

LEMMA FinalizeKeepsOrder ==
  ASSUME NEW b \in Builders, NEW c \in Builders, c = FinalizeSTF(b)
  PROVE  KeepsOrder(b, c)
<1> PICK frame : frame = [id |-> b.fSTFId, payloads |-> b.fWorkingPayloads]
  OBVIOUS
<1> PICK s : s = b.fOutputPayloads
  OBVIOUS
<1> PICK t : t = Append(s, frame)
  OBVIOUS
<1>1. /\ b.fSTFId \in Nat /\ s \in Seq(Frames) /\ frame \in Frames /\ frame.id = b.fSTFId
      /\ c.fSTFId = b.fSTFId + 1 /\ c.fOutputPayloads = t
  BY DEF Builders, Frames, FinalizeSTF
<1>2. \A i \in DOMAIN t :
            \/ i \in DOMAIN s /\ t[i] = s[i]
            \/ i \notin DOMAIN s /\ (\A j \in DOMAIN s : j < i) /\ t[i] = frame
  BY <1>1, FrameAppended
<1>3. \A i \in DOMAIN s : s[i].id \in Nat
  <2>1. \A i \in DOMAIN s : s[i] \in Frames
    BY <1>1, LenProperties
  <2> QED BY <2>1 DEF Frames
<1>4. DOMAIN s \subseteq Nat /\ DOMAIN t \subseteq Nat
  <2>1. DOMAIN s = 1 .. Len(s)
    BY <1>1, LenProperties
  <2>2. t \in Seq(Frames)
    BY <1>1, AppendProperties
  <2>3. DOMAIN t = 1 .. Len(t)
    BY <2>2, LenProperties
  <2> QED BY <2>1, <2>3
<1>5. ASSUME Increasing(b) PROVE Increasing(c)
  <2>1. \A i \in DOMAIN s : s[i].id < frame.id
    BY <1>1, <1>5 DEF Increasing
  <2>2. ASSUME NEW i \in DOMAIN t PROVE t[i].id < c.fSTFId
    <3>1. CASE i \in DOMAIN s /\ t[i] = s[i]
      <4>1. s[i].id < frame.id /\ s[i].id \in Nat
        BY <2>1, <1>3, <3>1
      <4> QED BY ONLY <4>1, <3>1, <1>1
    <3>2. CASE t[i] = frame
      BY ONLY <3>2, <1>1
    <3> QED BY <3>1, <3>2, <1>2
  <2>3. ASSUME NEW i \in DOMAIN t, NEW j \in DOMAIN t, i < j PROVE t[i].id < t[j].id
    <3>1. i \in DOMAIN s /\ t[i] = s[i]
      <4> SUFFICES ASSUME \A k \in DOMAIN s : k < i, i \notin DOMAIN s PROVE FALSE
        BY <1>2
      <4>1. j \notin DOMAIN s
        <5> SUFFICES ASSUME j \in DOMAIN s PROVE FALSE
          OBVIOUS
        <5>1. j < i /\ i \in Nat /\ j \in Nat
          BY <1>4
        <5> QED BY ONLY <5>1, <2>3
      <4>2. j = i
        <5>1. DOMAIN t \subseteq DOMAIN s \cup {Len(s) + 1}
          BY <1>1, AppendProperties, LenProperties
        <5> QED BY <5>1, <4>1
      <4>3. i \in Nat
        BY <1>4
      <4> QED BY ONLY <4>2, <4>3, <2>3
    <3>2. CASE j \in DOMAIN s /\ t[j] = s[j]
      BY <3>1, <3>2, <2>3, <1>1, <1>5 DEF Increasing
    <3>3. CASE t[j] = frame
      BY <3>1, <3>3, <2>1
    <3> QED BY <3>2, <3>3, <1>2
  <2> QED BY <2>2, <2>3, <1>1 DEF Increasing
<1>6. ASSUME NEW x \in Nat, Below(x, b) PROVE Below(x, c)
  <2>1. x < b.fSTFId /\ \A i \in DOMAIN s : x < s[i].id
    BY <1>6, <1>1 DEF Below
  <2>2. x < c.fSTFId
    BY <2>1, <1>1
  <2>3. ASSUME NEW i \in DOMAIN t PROVE x < t[i].id
    BY <2>1, <1>1, <1>2
  <2> QED BY <2>2, <2>3, <1>1 DEF Below
<1> QED BY <1>5, <1>6 DEF KeepsOrder

LEMMA FillDataKeepsOrder ==
  ASSUME NEW b \in Builders, NEW c \in Builders, c = FillData(b)
  PROVE  KeepsOrder(b, c)
<1> PICK e \in Builders : e = Flushed(b)
  BY FlushedKeeps
<1>1. KeepsOrder(b, e)
  <2>1. e.fOutputPayloads = b.fOutputPayloads /\ e.fSTFId = b.fSTFId
    BY FlushedKeeps
  <2> QED BY <2>1, SameOrder
<1>2. c = e \/ c = FinalizeSTF(e)
  BY DEF FillData
<1> QED BY <1>1, <1>2, FinalizeKeepsOrder, KeepsOrderBoth

LEMMA HeartbeatKeepsOrder ==
  ASSUME NEW b \in Builders, NEW w \in Words
  PROVE  KeepsOrder(b, Heartbeat(b, w))
<1> PICK c \in Builders : c = FillData(b)
  BY FillDataKeeps
<1>1. c.fInputPayloads = << >> /\ KeepsOrder(b, c)
  BY FillDataKeeps, FillDataKeepsOrder
<1> PICK e \in Builders : e = Delimiter(c, w)
  BY <1>1, DelimiterAdds
<1>2. /\ e.fInputPayloads = << >> /\ e.fOutputPayloads = c.fOutputPayloads
      /\ e.fSTFId = c.fSTFId /\ e.fHBFCounter = c.fHBFCounter
  BY <1>1, DelimiterAdds
<1> PICK g \in Builders : g = [e EXCEPT !.fHBFCounter = @ + 1]
  BY OneMoreHeartbeat
<1>3. /\ g \in Builders /\ g.fSTFId = e.fSTFId /\ g.fInputPayloads = << >>
      /\ g.fOutputPayloads = e.fOutputPayloads
  BY <1>2, OneMoreHeartbeat
<1>4. KeepsOrder(c, g)
  BY <1>2, <1>3, SameOrder
<1>5. Heartbeat(b, w) = g \/ Heartbeat(b, w) = FinalizeSTF(g)
  BY DEF Heartbeat
<1>6. KeepsOrder(b, g)
  BY <1>1, <1>4, KeepsOrderBoth
<1> PICK h \in Builders : h = FinalizeSTF(g)
  BY <1>3, FinalizeKeeps
<1>7. KeepsOrder(b, h)
  <2>1. KeepsOrder(g, h)
    BY <1>3, FinalizeKeepsOrder
  <2> QED BY <2>1, <1>6, KeepsOrderBoth
<1> QED BY <1>5, <1>6, <1>7

LEMMA SpillEndKeepsOrder ==
  ASSUME NEW b \in Builders, NEW w \in Words
  PROVE  KeepsOrder(b, SpillEnd(b, w))
<1> PICK c \in Builders : c = FillData(b)
  BY FillDataKeeps
<1>1. KeepsOrder(b, c)
  BY FillDataKeepsOrder
<1> PICK e : e = [c EXCEPT !.fInputPayloads = <<w>>]
  OBVIOUS
<1>2. /\ e \in Builders /\ e.fOutputPayloads = c.fOutputPayloads /\ e.fSTFId = c.fSTFId
  <2>1. <<w>> \in Seq(Words)
    OBVIOUS
  <2> QED BY <2>1 DEF Builders
<1>3. KeepsOrder(b, e)
  <2>1. KeepsOrder(c, e)
    BY <1>2, SameOrder
  <2> QED BY <2>1, <1>1, KeepsOrderBoth
<1> PICK g \in Builders : g = FillData(e)
  BY <1>2, FillDataKeeps
<1>4. g.fInputPayloads = << >>
  BY <1>2, FillDataKeeps
<1>5. KeepsOrder(b, g)
  <2>1. KeepsOrder(e, g)
    BY <1>2, FillDataKeepsOrder
  <2> QED BY <2>1, <1>3, KeepsOrderBoth
<1> PICK h \in Builders : h = FinalizeSTF(g)
  BY <1>4, FinalizeKeeps
<1>6. SpillEnd(b, w) = h
  BY DEF SpillEnd
<1>7. KeepsOrder(g, h)
  BY FinalizeKeepsOrder
<1> QED BY <1>5, <1>6, <1>7, KeepsOrderBoth

LEMMA NextWordKeepsOrder ==
  ASSUME NEW b \in Builders, NEW w \in Words
  PROVE  KeepsOrder(b, NextWord(b, w))
<1>1. KeepsOrder(b, b)
  BY SameOrder
<1> PICK c : c = [b EXCEPT !.fInputPayloads = Append(@, w)]
  OBVIOUS
<1>2. KeepsOrder(b, c)
  <2>1. c.fOutputPayloads = b.fOutputPayloads /\ c.fSTFId = b.fSTFId
    BY DEF Builders
  <2> QED BY <2>1, SameOrder
<1>3. NextWord(b, w) \in {b, c, Heartbeat(b, w), SpillEnd(b, w)}
  BY Zenon DEF NextWord, Heads, Words
<1> QED BY <1>1, <1>2, <1>3, HeartbeatKeepsOrder, SpillEndKeepsOrder

LEMMA BuildFrameKeepsOrder ==
  ASSUME NEW b \in Builders, NEW m \in Seq(Words)
  PROVE  KeepsOrder(b, BuildFrame(b, m))
<1> PICK N \in Nat : N = Len(m)
  BY LenProperties
<1>1. PICK h \in [0 .. N -> Builders] :
            /\ h[0] = b /\ h[N] = BuildFrame(b, m)
            /\ \A k \in 1 .. N : h[k] = NextWord(h[k - 1], m[k])
  BY BuildTrace
<1> DEFINE S == {k \in Nat : k <= N => KeepsOrder(b, h[k])}
<1>2. 0 \in S
  BY <1>1, SameOrder
<1>3. ASSUME NEW k \in Nat, k \in S PROVE k + 1 \in S
  <2> SUFFICES ASSUME k + 1 <= N PROVE KeepsOrder(b, h[k + 1])
    OBVIOUS
  <2>1. k \in 0 .. N /\ k + 1 \in 1 .. N /\ (k + 1) - 1 = k
    OBVIOUS
  <2> PICK w \in Words : w = m[k + 1]
    BY <2>1, LenProperties
  <2> PICK c \in Builders : c = h[k]
    BY <2>1
  <2>2. KeepsOrder(b, c)
    BY <1>3
  <2>3. h[k + 1] = NextWord(c, w)
    BY <1>1, <2>1
  <2>4. KeepsOrder(c, NextWord(c, w))
    BY NextWordKeepsOrder
  <2> QED BY <2>2, <2>3, <2>4, KeepsOrderBoth
<1>4. N \in S
  <2> HIDE DEF S
  <2> QED BY <1>2, <1>3, Induction
<1> QED BY <1>1, <1>4, N <= N

\* The first frame is sent.
LEMMA FirstIsSent ==
  ASSUME NEW b \in Builders, b.fOutputPayloads # << >>, NEW frame, frame = Head(b.fOutputPayloads),
         NEW c, c.fOutputPayloads = Tail(b.fOutputPayloads), c.fSTFId = b.fSTFId
  PROVE  /\ frame \in Frames
         /\ KeepsOrder(b, c)
         /\ Increasing(b) => Below(frame.id, c)
         /\ \A x \in Nat : Below(x, b) => x < frame.id
<1> PICK s \in Seq(Frames) : s = b.fOutputPayloads /\ s # << >>
  BY DEF Builders
<1>1. /\ Len(s) \in Nat /\ DOMAIN s = 1 .. Len(s) /\ 1 \in DOMAIN s /\ frame = s[1]
      /\ DOMAIN Tail(s) = 1 .. Len(s) - 1
      /\ \A i \in 1 .. Len(s) - 1 : Tail(s)[i] = s[i + 1]
  BY HeadTailProperties, LenProperties, EmptySeq
<1>2. ASSUME NEW i \in DOMAIN Tail(s)
      PROVE  i + 1 \in DOMAIN s /\ Tail(s)[i] = s[i + 1] /\ 1 < i + 1 /\ i \in Nat
  BY <1>1
<1>3. frame \in Frames
  BY <1>1
<1>4. ASSUME Increasing(b) PROVE Increasing(c) /\ Below(frame.id, c)
  <2>1. \A i \in DOMAIN s : s[i].id < b.fSTFId
    BY <1>4 DEF Increasing
  <2>2. \A i, j \in DOMAIN s : i < j => s[i].id < s[j].id
    BY <1>4 DEF Increasing
  <2>3. \A i \in DOMAIN Tail(s) : Tail(s)[i].id < c.fSTFId
    BY <1>2, <2>1
  <2>4. ASSUME NEW i \in DOMAIN Tail(s), NEW j \in DOMAIN Tail(s), i < j
        PROVE  Tail(s)[i].id < Tail(s)[j].id
    <3>1. i + 1 < j + 1
      BY <1>2, <2>4
    <3> QED BY <3>1, <1>2, <2>2
  <2>5. frame.id < c.fSTFId /\ \A i \in DOMAIN Tail(s) : frame.id < Tail(s)[i].id
    BY <1>1, <1>2, <2>1, <2>2
  <2> QED BY <2>3, <2>4, <2>5 DEF Increasing, Below
<1>5. ASSUME NEW x \in Nat, Below(x, b) PROVE Below(x, c) /\ x < frame.id
  <2>1. x < b.fSTFId /\ \A i \in DOMAIN s : x < s[i].id
    BY <1>5 DEF Below
  <2>2. \A i \in DOMAIN Tail(s) : x < Tail(s)[i].id
    BY <2>1, <1>2
  <2> QED BY <2>1, <2>2, <1>1 DEF Below
<1> QED BY <1>3, <1>4, <1>5 DEF KeepsOrder

-----------------------------------------------------------------------------
(* A message of a sampler that has lost nothing goes on where the one      *)
(* before it ended.                                                        *)

\* The builder has handled the first p words of the front end; t bytes of them
\* were received, and message r waits for the builder.
AtPlace(heads, t, r, p) ==
    /\ p \in Nat
    /\ r = << >> => t = fnByte * p
    /\ r # << >> => t = fnByte * (p + Len(Head(r))) /\ Follows(heads, Head(r), p)

LEMMA TimesDivided ==
  ASSUME NEW m \in Nat, NEW d \in Nat \ {0}, NEW n, n = d * m
  PROVE  n \in Nat /\ n % d = 0 /\ n \div d = m
<1>0. n \in Nat /\ d * m \in Nat
  OBVIOUS
<1> PICK q \in Nat : q = n \div d
  BY <1>0, Division
<1> PICK r \in 0 .. d - 1 : r = n % d
  BY <1>0, Division
<1>1. d * m = d * q + r
  BY <1>0, Division
<1>2. d * q \in Nat /\ r \in Nat
  OBVIOUS
<1>3. q <= m
  <2>1. d * q <= d * m
    BY ONLY <1>1, <1>2
  <2> QED BY <2>1, FewerTimes
<1>4. m <= q
  <2> SUFFICES ASSUME q + 1 <= m PROVE FALSE
    OBVIOUS
  <2> PICK e \in Nat : m = q + 1 + e
    <3>1. m - (q + 1) \in Nat /\ m = q + 1 + (m - (q + 1))
      OBVIOUS
    <3> QED BY <3>1
  <2>1. d * m = d * q + d + d * e /\ d * e \in Nat
    OBVIOUS
  <2> QED BY ONLY <2>1, <1>1, <1>2, d \in Nat \ {0}, r \in 0 .. d - 1
<1>5. q = m
  BY <1>3, <1>4
<1>6. r = 0
  BY ONLY <1>1, <1>5, <1>2
<1> QED BY <1>0, <1>5, <1>6

LEMMA ReceivedFollows ==
  ASSUME SamplerType, NEW f \in Fems, NEW k \in Nat, k <= Available(f), NEW g \in Garbled,
         NEW p \in Nat, taken[f] = fnByte * p
  PROVE  /\ Received(f, k, g) \in Seq(Words)
         /\ Len(Received(f, k, g)) = k \div fnByte
         /\ Follows(stream[f], Received(f, k, g), p)
<1>1. fnByte \in Nat \ {0} /\ stream[f] \in Seq(Heads) /\ Len(stream[f]) \in Nat
  <2>1. stream[f] \in Seq(Heads)
    BY SamplerAssumption DEF SamplerType
  <2> QED BY <2>1, SamplerAssumption, LenProperties
<1> PICK q \in Nat : q = k \div fnByte
  BY <1>1, Division
<1> PICK N \in Nat : N = Len(stream[f])
  BY <1>1
<1>2. p + q <= N
  <2>1. k = fnByte * q + (k % fnByte) /\ k % fnByte \in Nat
    BY <1>1, Division
  <2>2. k <= fnByte * N - fnByte * p
    BY DEF Available
  <2>3. fnByte * q \in Nat /\ fnByte * p \in Nat /\ fnByte * N \in Nat
    BY <1>1
  <2>4. fnByte * (p + q) = fnByte * p + fnByte * q
    BY <1>1
  <2>5. fnByte * (p + q) <= fnByte * N
    BY ONLY <2>1, <2>2, <2>3, <2>4, k \in Nat
  <2> QED BY <2>5, <1>1, FewerTimes
<1> PICK m : m = Received(f, k, g)
  OBVIOUS
<1>3. m = [i \in 1 .. q |-> WordAt(f, taken[f] + fnByte * (i - 1), g)]
  BY DEF Received
<1>4. m \in Seq(Words)
  BY ReceivedWords
<1>5. Len(m) = q
  <2>1. DOMAIN m = 1 .. q /\ DOMAIN m = 1 .. Len(m) /\ Len(m) \in Nat
    BY <1>3, <1>4, LenProperties
  <2> QED BY ONLY <2>1, q \in Nat
<1>6. ASSUME NEW i \in 1 .. q PROVE m[i] = Word(stream[f][p + i], p + i)
  <2> PICK j \in Nat : j = p + (i - 1)
    OBVIOUS
  <2> PICK from : from = fnByte * j
    OBVIOUS
  <2>1. taken[f] + fnByte * (i - 1) = from
    <3>1. i - 1 \in Nat
      OBVIOUS
    <3> PICK l \in Nat : l = i - 1
      BY <3>1
    <3>2. fnByte * (p + l) = fnByte * p + fnByte * l
      BY <1>1
    <3> QED BY <3>2
  <2>2. from % fnByte = 0 /\ from \div fnByte = j
    BY <1>1, TimesDivided
  <2>3. m[i] = WordAt(f, from, g)
    BY <1>3, <2>1
  <2>4. WordAt(f, from, g) = Word(stream[f][j + 1], j + 1)
    BY <2>2 DEF WordAt
  <2>5. j + 1 = p + i
    OBVIOUS
  <2> QED BY <2>3, <2>4, <2>5
<1>7. Follows(stream[f], m, p)
  BY <1>2, <1>5, <1>6 DEF Follows
<1> QED BY <1>4, <1>5, <1>7

\* What is kept of a buffer are its first words.
LEMMA KeptFollows ==
  ASSUME NEW words \in Seq(Words), NEW heads, NEW p \in Nat, Follows(heads, words, p),
         Len(heads) \in Nat
  PROVE  /\ KeptWords(words) \in Seq(Words)
         /\ Follows(heads, KeptWords(words), p)
<1> PICK kept \in Seq(Words) : kept = KeptWords(words)
  BY KeptType
<1> DEFINE ends == {i \in DOMAIN words : words[i].head = "SpillEnd"}
           e == CHOOSE i \in ends : \A j \in ends : i <= j
<1>1. DOMAIN words = 1 .. Len(words) /\ Len(words) \in Nat
  BY LenProperties
<1>2. p + Len(words) <= Len(heads) /\ \A i \in 1 .. Len(words) : words[i] = Word(heads[p + i], p + i)
  BY DEF Follows
<1>3. CASE ends = {}
  <2>1. kept = << >>
    BY <1>3 DEF KeptWords
  <2>2. Len(kept) = 0
    BY <2>1
  <2>3. p + Len(kept) <= Len(heads)
    BY ONLY <2>2, <1>1, <1>2, p \in Nat, Len(heads) \in Nat
  <2> QED BY <2>2, <2>3 DEF Follows
<1>4. CASE ends # {}
  <2>1. ends \in SUBSET Nat
    BY <1>1
  <2>2. \E i \in ends : \A j \in ends : i <= j
    <3> HIDE DEF ends
    <3> QED BY <1>4, <2>1, LeastNatural
  <2>3. e \in ends
    <3> HIDE DEF ends
    <3> QED BY <2>2
  <2>4. e \in 1 .. Len(words)
    BY <2>3, <1>1
  <2>5. KeptWords(words) = SubSeq(words, 1, e)
    BY <1>4 DEF KeptWords
  <2> HIDE DEF e
  <2>6. SubSeq(words, 1, e) = [i \in 1 .. e |-> words[i]]
    BY <2>4
  <2>7. kept = [i \in 1 .. e |-> words[i]]
    BY <2>5, <2>6
  <2>8. Len(kept) = e
    <3>1. DOMAIN kept = 1 .. e /\ DOMAIN kept = 1 .. Len(kept) /\ Len(kept) \in Nat /\ e \in Nat
      BY <2>4, <2>7, LenProperties
    <3> QED BY ONLY <3>1
  <2>9. p + e <= Len(heads)
    BY ONLY <2>4, <1>1, <1>2, p \in Nat, Len(heads) \in Nat
  <2>10. \A i \in 1 .. e : kept[i] = Word(heads[p + i], p + i)
    BY <2>4, <2>7, <1>1, <1>2
  <2> QED BY <2>8, <2>9, <2>10 DEF Follows
<1> QED BY <1>3, <1>4

\* A step of a sampler that loses nothing keeps the place.
LEMMA SamplerKeepsPlace ==
  ASSUME SamplerType, NEW f \in Fems, SamplerStep(f), f \notin lost', NEW p,
         AtPlace(stream[f], taken[f], raw[f], p)
  PROVE  AtPlace(stream[f], taken'[f], raw'[f], p)
<1>0. /\ fnByte \in Nat \ {0} /\ fnWordPerCycle \in Nat \ {0} /\ Size = fnByte * fnWordPerCycle
      /\ p \in Nat /\ taken \in [Fems -> Nat] /\ raw \in [Fems -> Messages] /\ Size \in Nat
      /\ stream[f] \in Seq(Heads)
  <2>1. fnByte \in Nat \ {0} /\ fnWordPerCycle \in Nat \ {0} /\ stream[f] \in Seq(Heads)
    BY SamplerAssumption DEF SamplerType
  <2>2. fnByte * fnWordPerCycle \in Nat
    BY <2>1
  <2> QED BY <2>1, <2>2 DEF SamplerType, AtPlace, Size
<1>1. ASSUME NEW m \in Seq(Words), NEW k \in Nat, Send(f, m), taken' = [taken EXCEPT ![f] = @ + k],
             k = fnByte * Len(m), Follows(stream[f], m, p)
      PROVE  AtPlace(stream[f], taken'[f], raw'[f], p)
  <2>1. raw[f] = << >> /\ raw'[f] = <<m>>
    BY <1>0, <1>1 DEF Send
  <2>2. taken[f] = fnByte * p /\ taken'[f] = fnByte * p + k
    BY <1>0, <1>1, <2>1 DEF AtPlace
  <2>3. fnByte * (p + Len(m)) = fnByte * p + k
    <3> PICK l \in Nat : l = Len(m)
      BY LenProperties
    <3>1. fnByte * (p + l) = fnByte * p + fnByte * l
      BY <1>0
    <3> QED BY <3>1, <1>1
  <2>4. <<m>> # << >> /\ Head(<<m>>) = m
    OBVIOUS
  <2> QED BY <1>0, <1>1, <2>1, <2>2, <2>3, <2>4 DEF AtPlace
<1>2. CASE CycleFull(f)
  <2>1. PICK g \in Garbled : Send(f, Received(f, Size, g))
    BY <1>2 DEF CycleFull
  <2>2. Size <= Available(f) /\ taken' = [taken EXCEPT ![f] = @ + Size]
    <3>1. /\ Available(f) >= Size /\ taken' = [taken EXCEPT ![f] = @ + Size]
      BY <1>2 DEF CycleFull
    <3> QED BY <3>1
  <2>3. taken[f] = fnByte * p
    BY <2>1 DEF Send, AtPlace
  <2> PICK m : m = Received(f, Size, g)
    OBVIOUS
  <2>4. m \in Seq(Words) /\ Len(m) = Size \div fnByte /\ Follows(stream[f], m, p)
    BY <1>0, <2>2, <2>3, ReceivedFollows
  <2>5. Size \div fnByte = fnWordPerCycle
    BY <1>0, TimesDivided
  <2> QED BY <1>0, <1>1, <2>1, <2>2, <2>4, <2>5
<1>3. CASE CycleTimeout(f)
  <2>1. PICK k \in 0 .. Size - 1, g \in Garbled :
           /\ k <= Available(f)
           /\ LET kept == KeptWords(Received(f, k, g))
              IN  /\ IF kept = << >> THEN raw' = raw ELSE Send(f, kept)
                  /\ lost' = IF k = fnByte * Len(kept) THEN lost
                                                    ELSE lost \cup {f}
           /\ taken' = [taken EXCEPT ![f] = @ + k]
    BY <1>3 DEF CycleTimeout
  <2>2. k \in Nat
    BY <1>0
  <2> PICK m : m = KeptWords(Received(f, k, g))
    OBVIOUS
  <2>3. k = fnByte * Len(m)
    BY <2>1
  <2>4. CASE m = << >>
    <3>1. raw' = raw
      BY <2>1, <2>4
    <3>2. Len(m) = 0
      BY <2>4
    <3>3. k = 0
      BY <2>3, <3>2, <1>0
    <3>4. taken'[f] = taken[f]
      BY <2>1, <3>3, <1>0
    <3> QED BY <3>1, <3>4
  <2>5. CASE m # << >>
    <3>1. Send(f, m)
      BY <2>1, <2>5
    <3>2. taken[f] = fnByte * p
      BY <3>1 DEF Send, AtPlace
    <3>3. Received(f, k, g) \in Seq(Words) /\ Follows(stream[f], Received(f, k, g), p)
      BY <1>0, <2>1, <2>2, <3>2, ReceivedFollows
    <3>4. m \in Seq(Words) /\ Follows(stream[f], m, p)
      <4>1. Len(stream[f]) \in Nat
        BY <1>0, LenProperties
      <4> QED BY <4>1, <3>3, <1>0, KeptFollows
    <3> QED BY <1>1, <2>1, <2>2, <2>3, <3>1, <3>4
  <2> QED BY <2>4, <2>5
<1>4. ~CycleClosed(f) /\ ~CycleBroken(f)
  BY DEF CycleClosed, CycleBroken
<1> QED BY <1>2, <1>3, <1>4 DEF SamplerStep

-----------------------------------------------------------------------------
(* What the time frame builders put together as long as the builders count *)
(* in step: the parts of a buffer have its number and come from different  *)
(* front ends.                                                             *)

\* A builder that has left its run holds nothing.
TFLeft == \A d \in Destinations : TFBuilder(d) \in ready => fTFBuffer[d] = << >> /\ sending[d] = NoFrame

\* Whatever comes from a front end to d has a number greater than x.
After(x, f, d) ==
    /\ Below(x, built[f])
    /\ link[f][d] # << >> => x < Head(link[f][d]).id

PartsOrdered(d, id, parts) ==
    /\ \A i \in DOMAIN parts : parts[i][2].id = id /\ After(id, parts[i][1], d)
    /\ \A i, j \in DOMAIN parts : i # j => parts[i][1] # parts[j][1]

Whole(s) ==
    s # NoFrame => /\ {s.parts[i][1] : i \in DOMAIN s.parts} = Fems
                   /\ \A i \in DOMAIN s.parts : s.parts[i][2].id = s.id

LinkOrdered(f, d) == link[f][d] # << >> => Below(Head(link[f][d]).id, built[f])

OrderInv ==
    /\ \A f \in Fems : Increasing(built[f])
    /\ inStep # "no" =>
         /\ \A f \in Fems, d \in Destinations : LinkOrdered(f, d)
         /\ \A d \in Destinations : \A id \in Ids(fTFBuffer[d]) : PartsOrdered(d, id, fTFBuffer[d][id])
         /\ \A d \in Destinations : Whole(sending[d])

\* Parts of all front ends.
LEMMA WholeBuffer ==
  ASSUME NEW parts \in Seq(Parts), Len(parts) = fNumSource,
         \A i, j \in DOMAIN parts : i # j => parts[i][1] # parts[j][1]
  PROVE  {parts[i][1] : i \in DOMAIN parts} = Fems
<1> PICK n \in Nat : n = Len(parts)
  BY LenProperties
<1> DEFINE g == [i \in 1 .. n |-> parts[i][1]]
<1>1. DOMAIN parts = 1 .. n /\ \A i \in 1 .. n : parts[i] \in Parts
  BY LenProperties
<1>2. g \in Injection(1 .. n, Fems)
  <2>1. \A i \in 1 .. n : parts[i][1] \in Fems
    BY <1>1 DEF Parts
  <2>2. g \in [1 .. n -> Fems]
    BY <2>1
  <2>3. \A i, j \in 1 .. n : g[i] = g[j] => i = j
    BY <1>1
  <2> HIDE DEF g
  <2> QED BY <2>2, <2>3 DEF Injection, IsInjective
<1>3. IsFiniteSet(Fems)
  BY SamplerAssumption
<1>4. Cardinality(1 .. n) = n
  BY FS_Interval
<1>5. g \in Surjection(1 .. n, Fems)
  <2> HIDE DEF g
  <2> QED BY <1>2, <1>3, <1>4, FS_Injection DEF fNumSource
<1>6. \A f \in Fems : \E i \in 1 .. n : g[i] = f
  <2> HIDE DEF g
  <2> QED BY <1>5 DEF Surjection
<1>7. \A i \in 1 .. n : g[i] = parts[i][1] /\ g[i] \in Fems
  BY <1>1 DEF Parts
<1> HIDE DEF g
<1> QED BY <1>1, <1>6, <1>7

LEMMA OrderInit == ASSUME Init PROVE TFLeft /\ OrderInv
<1>1. /\ built = [f \in Fems |-> NewBuilder] /\ ready = {}
      /\ link = [f \in Fems |-> [d \in Destinations |-> << >>]]
      /\ fTFBuffer = [d \in Destinations |-> << >>] /\ sending = [d \in Destinations |-> NoFrame]
  BY DEF Init, STFBuilderInit, TFBuilderInit
<1>2. Increasing(NewBuilder)
  <2>1. NewBuilder.fOutputPayloads = << >>
    BY DEF NewBuilder
  <2> QED BY <2>1 DEF Increasing
<1>3. Ids(<< >>) = {}
  BY DEF Ids
<1>4. TFLeft
  BY <1>1, <1>3 DEF TFLeft, Whole
<1>5. \A f \in Fems : Increasing(built[f])
  BY <1>1, <1>2
<1>6. \A f \in Fems, d \in Destinations : link[f][d] = << >> /\ LinkOrdered(f, d)
  <2> TAKE f \in Fems, d \in Destinations
  <2>1. link[f][d] = << >>
    BY <1>1
  <2> QED BY <2>1 DEF LinkOrdered
<1>7. \A d \in Destinations : Ids(fTFBuffer[d]) = {} /\ Whole(sending[d])
  BY <1>1, <1>3 DEF Whole
<1> QED BY <1>4, <1>5, <1>6, <1>7 DEF OrderInv

LEMMA OrderUnchanged ==
  ASSUME OrderInv, UNCHANGED <<built, link, fTFBuffer, sending, inStep>>
  PROVE  OrderInv'
  BY DEF OrderInv, LinkOrdered, PartsOrdered, After

\* A step of a builder that sends nothing.
LEMMA OrderBuilt ==
  ASSUME TypeOK, OrderInv, NEW f \in Fems, NEW c \in Builders, built' = [built EXCEPT ![f] = c],
         KeepsOrder(built[f], c), UNCHANGED <<link, fTFBuffer, sending, inStep>>
  PROVE  OrderInv'
<1>1. built \in [Fems -> Builders] /\ built'[f] = c /\ \A g \in Fems \ {f} : built'[g] = built[g]
  BY DEF TypeOK, STFBuilderType
<1>2. ASSUME NEW g \in Fems PROVE KeepsOrder(built[g], built'[g])
  BY <1>1, SameOrder
<1>3. \A g \in Fems : Increasing(built'[g])
  BY <1>2 DEF OrderInv, KeepsOrder
<1>4. ASSUME NEW x \in Nat, NEW g \in Fems, NEW d, After(x, g, d) PROVE After(x, g, d)'
  BY <1>2, <1>4 DEF After, KeepsOrder
<1>5. ASSUME inStep # "no", NEW g \in Fems, NEW d \in Destinations PROVE LinkOrdered(g, d)'
  <2> SUFFICES ASSUME link[g][d] # << >> PROVE Below(Head(link[g][d]).id, built'[g])
    BY DEF LinkOrdered
  <2>1. link[g][d] \in Wires
    BY DEF TypeOK, STFBuilderType
  <2>2. Head(link[g][d]) \in Frames
    BY <2>1, WireParts
  <2>3. Head(link[g][d]).id \in Nat
    BY <2>2 DEF Frames
  <2>4. Below(Head(link[g][d]).id, built[g])
    BY <1>5 DEF OrderInv, LinkOrdered
  <2> QED BY <2>3, <2>4, <1>2 DEF KeepsOrder
<1>6. ASSUME inStep # "no", NEW d \in Destinations, NEW id \in Ids(fTFBuffer[d])
      PROVE  PartsOrdered(d, id, fTFBuffer[d][id])'
  <2>1. PartsOrdered(d, id, fTFBuffer[d][id])
    BY <1>6 DEF OrderInv
  <2>2. fTFBuffer[d] \in Buffers
    BY DEF TypeOK, TFBuilderType
  <2>3. id \in Nat /\ fTFBuffer[d][id] \in Seq(Parts)
    BY <2>2, BufferParts
  <2>4. \A i \in DOMAIN fTFBuffer[d][id] : fTFBuffer[d][id][i][1] \in Fems
    <3>1. \A i \in DOMAIN fTFBuffer[d][id] : fTFBuffer[d][id][i] \in Parts
      BY <2>3, LenProperties
    <3> QED BY <3>1 DEF Parts
  <2> PICK parts : parts = fTFBuffer[d][id]
    OBVIOUS
  <2>5. fTFBuffer'[d][id] = parts
    OBVIOUS
  <2> QED BY <2>1, <2>3, <2>4, <2>5, <1>4 DEF PartsOrdered
<1>7. \A d \in Destinations : Whole(sending[d]) => Whole(sending[d])'
  BY DEF Whole
<1>8. \A d \in Destinations : Ids(fTFBuffer'[d]) = Ids(fTFBuffer[d])
  OBVIOUS
<1> QED BY <1>3, <1>5, <1>6, <1>7, <1>8 DEF OrderInv

LEMMA OrderSTFStep ==
  ASSUME TypeOK, OrderInv, NEW f \in Fems, BuilderStep(f)
  PROVE  OrderInv'
<1>b. built \in [Fems -> Builders] /\ built[f] \in Builders
  BY DEF TypeOK, STFBuilderType
<1>0. UNCHANGED <<fTFBuffer, sending, inStep>>
  BY DEF BuilderStep, tfVars, chainVars
<1>1. CASE HandleData(f)
  <2>1. raw[f] \in Messages /\ raw[f] # << >>
    BY <1>1 DEF HandleData, TypeOK, SamplerType
  <2> PICK m \in Seq(Words) : m = Head(raw[f])
    BY <2>1, MessageParts
  <2> PICK c : c = BuildFrame(built[f], m)
    OBVIOUS
  <2>2. c \in Builders
    BY <1>b, BuildFrameAdds
  <2>3. built' = [built EXCEPT ![f] = c] /\ UNCHANGED link
    BY <1>1 DEF HandleData
  <2>4. KeepsOrder(built[f], c)
    BY <1>b, BuildFrameKeepsOrder
  <2> QED BY <1>0, <2>2, <2>3, <2>4, OrderBuilt
<1>2. CASE DqmSent(f)
  <2>1. UNCHANGED <<built, link>>
    BY <1>2 DEF DqmSent
  <2> QED BY <2>1, <1>0, OrderUnchanged
<1>3. CASE OutputSent(f)
  <2> PICK b \in Builders : b = built[f]
    BY <1>b
  <2>1. b.fOutputPayloads # << >>
    BY <1>3 DEF OutputSent, TypeOK, STFBuilderType
  <2> PICK frame : frame = Head(b.fOutputPayloads)
    OBVIOUS
  <2> PICK c : c = [b EXCEPT !.fOutputPayloads = Tail(b.fOutputPayloads)]
    OBVIOUS
  <2>2. c.fOutputPayloads = Tail(b.fOutputPayloads) /\ c.fSTFId = b.fSTFId
    BY DEF Builders
  <2>3. /\ frame \in Frames /\ KeepsOrder(b, c)
        /\ Increasing(b) => Below(frame.id, c)
        /\ \A x \in Nat : Below(x, b) => x < frame.id
    BY <2>1, <2>2, FirstIsSent
  <2> PICK d \in Destinations : d = Destination(frame)
    BY <2>3, DestinationType
  <2>4. link[f][d] = << >> /\ link' = [link EXCEPT ![f][d] = <<frame>>]
    BY <1>3 DEF OutputSent
  <2>5. built' = [built EXCEPT ![f] = c]
    BY <1>3 DEF OutputSent
  <2>6. built'[f] = c /\ \A g \in Fems \ {f} : built'[g] = built[g]
    BY <2>5, <1>b
  <2>7. /\ link'[f][d] = <<frame>>
        /\ \A g \in Fems, e \in Destinations : g # f \/ e # d => link'[g][e] = link[g][e]
    BY <2>4 DEF TypeOK, STFBuilderType
  <2>8. <<frame>> # << >> /\ Head(<<frame>>) = frame
    OBVIOUS
  <2>9. Increasing(b) /\ \A g \in Fems : Increasing(built[g])
    BY DEF OrderInv
  <2>10. \A g \in Fems : Increasing(built'[g])
    BY <2>3, <2>6, <2>9 DEF KeepsOrder
  <2>11. ASSUME NEW x \in Nat, NEW g \in Fems, NEW e \in Destinations, After(x, g, e)
         PROVE  After(x, g, e)'
    <3>1. Below(x, built[g])
      BY <2>11 DEF After
    <3>2. Below(x, built'[g])
      BY <3>1, <2>3, <2>6 DEF KeepsOrder
    <3>3. ASSUME link'[g][e] # << >> PROVE x < Head(link'[g][e]).id
      <4>1. CASE g = f /\ e = d
        BY <4>1, <3>1, <2>3, <2>7, <2>8
      <4>2. CASE g # f \/ e # d
        BY <4>2, <2>7, <2>11, <3>3 DEF After
      <4> QED BY <4>1, <4>2
    <3> QED BY <3>2, <3>3 DEF After
  <2>12. ASSUME inStep # "no", NEW g \in Fems, NEW e \in Destinations, link'[g][e] # << >>
         PROVE  Below(Head(link'[g][e]).id, built'[g])
    <3>1. CASE g = f /\ e = d
      BY <3>1, <2>3, <2>6, <2>7, <2>8, <2>9
    <3>2. CASE g # f \/ e # d
      <4>1. link'[g][e] = link[g][e]
        BY <3>2, <2>7
      <4>2. link[g][e] \in Wires
        BY DEF TypeOK, STFBuilderType
      <4>3. Head(link[g][e]) \in Frames
        BY <4>1, <4>2, <2>12, WireParts
      <4>4. Head(link[g][e]).id \in Nat
        BY <4>3 DEF Frames
      <4>5. Below(Head(link[g][e]).id, built[g])
        BY <2>12, <4>1 DEF OrderInv, LinkOrdered
      <4>6. CASE g = f
        BY <4>1, <4>4, <4>5, <4>6, <2>3, <2>6 DEF KeepsOrder
      <4>7. CASE g # f
        BY <4>1, <4>5, <4>7, <2>6
      <4> QED BY <4>6, <4>7
    <3> QED BY <3>1, <3>2
  <2>13. ASSUME inStep # "no", NEW e \in Destinations, NEW id \in Ids(fTFBuffer[e])
         PROVE  PartsOrdered(e, id, fTFBuffer[e][id])'
    <3>1. PartsOrdered(e, id, fTFBuffer[e][id])
      BY <2>13 DEF OrderInv
    <3>2. fTFBuffer[e] \in Buffers
      BY DEF TypeOK, TFBuilderType
    <3>3. id \in Nat /\ fTFBuffer[e][id] \in Seq(Parts)
      BY <3>2, BufferParts
    <3> PICK parts \in Seq(Parts) : parts = fTFBuffer[e][id] /\ fTFBuffer'[e][id] = parts
      BY <3>3, <1>0
    <3>4. \A i \in DOMAIN parts : parts[i][1] \in Fems
      <4>1. \A i \in DOMAIN parts : parts[i] \in Parts
        BY LenProperties
      <4> QED BY <4>1 DEF Parts
    <3> QED BY <3>1, <3>3, <3>4, <2>11 DEF PartsOrdered
  <2>14. \A e \in Destinations : Whole(sending[e]) => Whole(sending[e])'
    BY <1>0 DEF Whole
  <2>15. \A e \in Destinations : Ids(fTFBuffer'[e]) = Ids(fTFBuffer[e])
    BY <1>0
  <2> QED BY <1>0, <2>10, <2>12, <2>13, <2>14, <2>15 DEF OrderInv, LinkOrdered
<1> QED BY <1>1, <1>2, <1>3 DEF BuilderStep

LEMMA OrderSTFStop ==
  ASSUME TypeOK, OrderInv, NEW f \in Fems, STFStop(f)
  PROVE  OrderInv'
<1>b. built \in [Fems -> Builders]
  BY DEF TypeOK, STFBuilderType
<1> PICK b \in Builders : b = built[f]
  BY <1>b
<1> PICK c : c = [b EXCEPT !.fInputPayloads = << >>, !.fWorkingPayloads = << >>,
                           !.fOutputPayloads = << >>]
  OBVIOUS
<1>1. built' = [built EXCEPT ![f] = c] /\ UNCHANGED <<link, fTFBuffer, sending, inStep>>
  BY DEF STFStop, PostRunSTF, Leave, tfVars
<1>2. c \in Builders /\ c.fOutputPayloads = << >> /\ c.fSTFId = b.fSTFId
  <2>1. << >> \in Seq(Words) /\ << >> \in Seq(Seq(Words)) /\ << >> \in Seq(Frames)
    OBVIOUS
  <2> QED BY <2>1 DEF Builders
<1>3. KeepsOrder(b, c)
  BY <1>2 DEF KeepsOrder, Increasing, Below
<1> QED BY <1>1, <1>2, <1>3, OrderBuilt

\* What a time frame builder does to the channels to it, its buffers and the frame
\* that it sends.
LEMMA TFMoves ==
  ASSUME TypeOK, NEW d \in Destinations, TFStep(d)
  PROVE  /\ UNCHANGED <<built, inStep, stream, taken, raw, lost, fSplitMethod, ready>>
         /\ \/ \E f \in Fems, frame \in Frames, buffer \in Buffers :
                  /\ link[f][d] = <<frame>> /\ link' = [link EXCEPT ![f][d] = << >>]
                  /\ UNCHANGED sending
                  /\ fTFBuffer' = [fTFBuffer EXCEPT ![d] = buffer]
                  /\ \/ buffer = fTFBuffer[d]
                     \/ buffer = With(fTFBuffer[d], frame.id, <<f, frame>>)
            \/ UNCHANGED <<link, fTFBuffer, sending>>
            \/ \E id \in Ids(fTFBuffer[d]) :
                  /\ UNCHANGED link
                  /\ fTFBuffer' = [fTFBuffer EXCEPT ![d] = Without(fTFBuffer[d], id)]
                  /\ \/ UNCHANGED sending
                     \/ /\ Len(fTFBuffer[d][id]) = fNumSource
                        /\ sending' = [sending EXCEPT ![d] =
                              [id |-> id, parts |-> fTFBuffer[d][id], isock |-> Outputs - 1]]
            \/ \E s \in Sendings :
                  /\ UNCHANGED <<link, fTFBuffer>>
                  /\ sending' = [sending EXCEPT ![d] = s]
                  /\ s # NoFrame => sending[d] # NoFrame /\ s.id = sending[d].id /\ s.parts = sending[d].parts
<1>0. UNCHANGED <<built, inStep, stream, taken, raw, lost, fSplitMethod, ready>>
  BY DEF TFStep, samplerVars, chainVars
<1>t. /\ link \in [Fems -> [Destinations -> Wires]] /\ fTFBuffer \in [Destinations -> Buffers]
      /\ sending \in [Destinations -> Sendings] /\ fTFBuffer[d] \in Buffers /\ sending[d] \in Sendings
      /\ sweep[d] \subseteq Ids(fTFBuffer[d])
  BY DEF TypeOK, STFBuilderType, TFBuilderType
<1>1. ASSUME NEW f \in Fems, ReceiveSTF(d, f)
      PROVE  \E frame \in Frames, buffer \in Buffers :
                  /\ link[f][d] = <<frame>> /\ link' = [link EXCEPT ![f][d] = << >>]
                  /\ UNCHANGED sending
                  /\ fTFBuffer' = [fTFBuffer EXCEPT ![d] = buffer]
                  /\ \/ buffer = fTFBuffer[d]
                     \/ buffer = With(fTFBuffer[d], frame.id, <<f, frame>>)
  <2>1. link[f][d] # << >> /\ link[f][d] \in Wires
    BY <1>1, <1>t DEF ReceiveSTF
  <2> PICK frame \in Frames : frame = Head(link[f][d])
    BY <2>1, WireParts
  <2>2. link[f][d] = <<frame>>
    BY <2>1, WireParts
  <2>3. link' = [link EXCEPT ![f][d] = << >>] /\ UNCHANGED sending
    BY <1>1 DEF ReceiveSTF
  <2>4. fTFBuffer' \in [Destinations -> Buffers]
    BY TFStepType DEF TypeOK, TFBuilderType
  <2> PICK buffer : buffer = fTFBuffer'[d]
    OBVIOUS
  <2>5. fTFBuffer' = [fTFBuffer EXCEPT ![d] = With(fTFBuffer[d], frame.id, <<f, frame>>)]
        \/ fTFBuffer' = fTFBuffer
    BY <1>1 DEF ReceiveSTF
  <2>6. buffer \in Buffers
    BY <2>4
  <2>7. /\ fTFBuffer' = [fTFBuffer EXCEPT ![d] = buffer]
        /\ buffer = fTFBuffer[d] \/ buffer = With(fTFBuffer[d], frame.id, <<f, frame>>)
    BY <2>5, <1>t
  <2> QED BY <2>2, <2>3, <2>6, <2>7
<1>2. CASE ReceiveNoSTF(d)
  BY <1>0, <1>2 DEF ReceiveNoSTF
<1>3. ASSUME NEW id \in sweep[d], SweepComplete(d, id) \/ SweepExpire(d, id) \/ SweepKeep(d, id)
      PROVE  \/ UNCHANGED <<link, fTFBuffer, sending>>
             \/ /\ id \in Ids(fTFBuffer[d]) /\ UNCHANGED link
                /\ fTFBuffer' = [fTFBuffer EXCEPT ![d] = Without(fTFBuffer[d], id)]
                /\ \/ UNCHANGED sending
                   \/ /\ Len(fTFBuffer[d][id]) = fNumSource
                      /\ sending' = [sending EXCEPT ![d] =
                              [id |-> id, parts |-> fTFBuffer[d][id], isock |-> Outputs - 1]]
  BY <1>3, <1>t DEF SweepComplete, SweepExpire, SweepKeep, Visit
<1>4. ASSUME CopySent(d) \/ CopyInterrupted(d) \/ FrameSent(d)
      PROVE  \E s \in Sendings :
                  /\ UNCHANGED <<link, fTFBuffer>>
                  /\ sending' = [sending EXCEPT ![d] = s]
                  /\ s # NoFrame => sending[d] # NoFrame /\ s.id = sending[d].id /\ s.parts = sending[d].parts
  <2>1. UNCHANGED <<link, fTFBuffer>>
    BY <1>4 DEF CopySent, CopyInterrupted, FrameSent
  <2>2. CASE FrameSent(d)
    <3>1. sending' = [sending EXCEPT ![d] = NoFrame] /\ NoFrame \in Sendings
      BY <2>2 DEF FrameSent, Sendings
    <3> QED BY <3>1, <2>1
  <2>3. CASE CopySent(d) \/ CopyInterrupted(d)
    <3>1. sending[d].isock > 0 /\ sending' = [sending EXCEPT ![d].isock = @ - 1]
      BY <2>3 DEF CopySent, CopyInterrupted
    <3>2. sending[d] # NoFrame /\ sending[d] \in [id : Nat, parts : Seq(Parts), isock : Nat]
      <4>1. NoFrame.isock = 0
        BY DEF NoFrame
      <4> QED BY <4>1, <3>1, <1>t DEF Sendings
    <3> PICK s : s = [sending[d] EXCEPT !.isock = @ - 1]
      OBVIOUS
    <3>3. s.id = sending[d].id /\ s.parts = sending[d].parts
      BY <3>2
    <3>4. sending' = [sending EXCEPT ![d] = s]
      BY <3>1
    <3>5. s \in Sendings
      <4>1. s \in [id : Nat, parts : Seq(Parts), isock : Nat]
        BY <3>1, <3>2
      <4> QED BY <4>1 DEF Sendings
    <3> QED BY <2>1, <3>2, <3>3, <3>4, <3>5
  <2> QED BY <1>4, <2>2, <2>3
<1>5. \/ \E f \in Fems : ReceiveSTF(d, f)
      \/ ReceiveNoSTF(d)
      \/ \E id \in sweep[d] : SweepComplete(d, id) \/ SweepExpire(d, id) \/ SweepKeep(d, id)
      \/ CopySent(d) \/ CopyInterrupted(d) \/ FrameSent(d)
  BY Zenon DEF TFStep
<1> QED BY <1>0, <1>1, <1>2, <1>3, <1>4, <1>5

\* A part was put to those of its number.
Joined(buffer, old, id, part) ==
    /\ Ids(buffer) = Ids(old) \cup {id}
    /\ \A i \in Ids(old) \ {id} : buffer[i] = old[i]
    /\ \E p \in Seq(Parts) : /\ buffer[id] = Append(p, part)
                             /\ id \in Ids(old) => p = old[id]
                             /\ id \notin Ids(old) => p = << >>

LEMMA WithParts ==
  ASSUME NEW old \in Buffers, NEW id \in Nat, NEW part \in Parts, NEW buffer,
         buffer = With(old, id, part)
  PROVE  Joined(buffer, old, id, part)
<1>1. Ids(old) \in SUBSET Nat /\ old \in [Ids(old) -> Seq(Parts)]
  BY BufferParts
<1> PICK p \in Seq(Parts) : (id \in Ids(old) => p = old[id]) /\ (id \notin Ids(old) => p = << >>)
  <2>1. << >> \in Seq(Parts)
    OBVIOUS
  <2>2. CASE id \in Ids(old)
    BY <1>1, <2>2
  <2>3. CASE id \notin Ids(old)
    BY <2>1, <2>3
  <2> QED BY <2>2, <2>3
<1>2. buffer = [i \in Ids(old) \cup {id} |->
                   IF i = id THEN Append(IF id \in Ids(old) THEN old[id] ELSE << >>, part) ELSE old[i]]
  BY DEF With
<1>3. Append(IF id \in Ids(old) THEN old[id] ELSE << >>, part) = Append(p, part)
  OBVIOUS
<1>4. buffer = [i \in Ids(old) \cup {id} |-> IF i = id THEN Append(p, part) ELSE old[i]]
  BY <1>2, <1>3
<1>5. DOMAIN buffer = Ids(old) \cup {id} /\ buffer[id] = Append(p, part)
      /\ \A i \in Ids(old) \ {id} : buffer[i] = old[i]
  BY <1>4
<1> QED BY <1>5 DEF Ids, Joined

LEMMA WithoutParts ==
  ASSUME NEW old, NEW id
  PROVE  /\ Ids(Without(old, id)) = Ids(old) \ {id}
         /\ \A i \in Ids(old) \ {id} : Without(old, id)[i] = old[i]
<1> PICK b : b = Without(old, id)
  OBVIOUS
<1>1. b = [i \in Ids(old) \ {id} |-> old[i]]
  BY DEF Without
<1>2. DOMAIN b = Ids(old) \ {id} /\ \A i \in Ids(old) \ {id} : b[i] = old[i]
  BY <1>1
<1> QED BY <1>2 DEF Ids

\* The elements of an Append.
LEMMA PartAppended ==
  ASSUME NEW p \in Seq(Parts), NEW part \in Parts
  PROVE  \A i \in DOMAIN Append(p, part) :
            \/ i \in DOMAIN p /\ Append(p, part)[i] = p[i]
            \/ i = Len(p) + 1 /\ Append(p, part)[i] = part
<1>1. /\ DOMAIN p = 1 .. Len(p) /\ Len(p) \in Nat
      /\ Append(p, part) \in Seq(Parts) /\ Len(Append(p, part)) = Len(p) + 1
      /\ Append(p, part)[Len(p) + 1] = part /\ \A i \in 1 .. Len(p) : Append(p, part)[i] = p[i]
  BY AppendProperties, LenProperties
<1>2. DOMAIN Append(p, part) = 1 .. Len(p) + 1
  BY <1>1, LenProperties
<1>3. \A i \in 1 .. Len(p) + 1 : i \in 1 .. Len(p) \/ i = Len(p) + 1
  BY <1>1
<1> QED BY <1>1, <1>2, <1>3

LEMMA OrderTFStep ==
  ASSUME TypeOK, OrderInv, NEW d \in Destinations, TFStep(d)
  PROVE  OrderInv'
<1>0. UNCHANGED <<built, inStep>>
  BY TFMoves
<1>t. /\ link \in [Fems -> [Destinations -> Wires]] /\ fTFBuffer \in [Destinations -> Buffers]
      /\ sending \in [Destinations -> Sendings] /\ fTFBuffer[d] \in Buffers
  BY DEF TypeOK, STFBuilderType, TFBuilderType
<1>i. \A g \in Fems : Increasing(built'[g])
  BY <1>0 DEF OrderInv
\* The parts of the buffers have front ends that are known.
<1>p. ASSUME NEW e \in Destinations, NEW id \in Ids(fTFBuffer[e])
      PROVE  /\ id \in Nat /\ fTFBuffer[e][id] \in Seq(Parts)
             /\ \A i \in DOMAIN fTFBuffer[e][id] : fTFBuffer[e][id][i][1] \in Fems
  <2>1. fTFBuffer[e] \in Buffers
    BY <1>t
  <2>2. id \in Nat /\ fTFBuffer[e][id] \in Seq(Parts)
    BY <2>1, BufferParts
  <2>3. \A i \in DOMAIN fTFBuffer[e][id] : fTFBuffer[e][id][i] \in Parts
    BY <2>2, LenProperties
  <2> QED BY <2>2, <2>3 DEF Parts
\* What is in order stays so when no channel gets more.
<1>a. ASSUME \A g \in Fems, e \in Destinations : link'[g][e] = link[g][e] \/ link'[g][e] = << >>
      PROVE  /\ \A x : \A g \in Fems, e \in Destinations : After(x, g, e) => After(x, g, e)'
             /\ inStep # "no" => \A g \in Fems, e \in Destinations : LinkOrdered(g, e)'
  BY <1>0, <1>a DEF After, LinkOrdered, OrderInv
<1>k. ASSUME \A g \in Fems, e \in Destinations : link'[g][e] = link[g][e] \/ link'[g][e] = << >>,
             inStep # "no", NEW e \in Destinations, NEW id \in Ids(fTFBuffer[e])
      PROVE  PartsOrdered(e, id, fTFBuffer[e][id]) /\
             \A parts : parts = fTFBuffer[e][id] => PartsOrdered(e, id, parts)'
  <2>1. PartsOrdered(e, id, fTFBuffer[e][id])
    BY <1>k DEF OrderInv
  <2>2. \A x : \A g \in Fems : After(x, g, e) => After(x, g, e)'
    BY <1>a, <1>k
  <2> SUFFICES ASSUME NEW parts, parts = fTFBuffer[e][id] PROVE PartsOrdered(e, id, parts)'
    BY <2>1
  <2>3. \A i \in DOMAIN parts : parts[i][1] \in Fems
    BY <1>p
  <2> QED BY <2>1, <2>2, <2>3 DEF PartsOrdered
<1>1. ASSUME NEW f \in Fems, NEW frame \in Frames, NEW buffer \in Buffers,
             link[f][d] = <<frame>>, link' = [link EXCEPT ![f][d] = << >>], UNCHANGED sending,
             fTFBuffer' = [fTFBuffer EXCEPT ![d] = buffer],
             buffer = fTFBuffer[d] \/ buffer = With(fTFBuffer[d], frame.id, <<f, frame>>)
      PROVE  OrderInv'
  <2>1. /\ \A g \in Fems, e \in Destinations : link'[g][e] = link[g][e] \/ link'[g][e] = << >>
        /\ link'[f][d] = << >>
    BY <1>1, <1>t
  <2>2. ASSUME inStep # "no", NEW e \in Destinations, NEW id \in Ids(fTFBuffer'[e])
        PROVE  PartsOrdered(e, id, fTFBuffer[e][id])'
    <3>1. CASE e # d \/ buffer = fTFBuffer[d]
      <4>1. fTFBuffer'[e] = fTFBuffer[e]
        BY <3>1, <1>1, <1>t
      <4>2. id \in Ids(fTFBuffer[e])
        BY <2>2, <4>1
      <4> PICK parts : parts = fTFBuffer[e][id]
        OBVIOUS
      <4>3. PartsOrdered(e, id, parts)'
        BY <1>k, <2>1, <2>2, <4>2
      <4>4. fTFBuffer'[e][id] = parts
        BY <4>1
      <4> QED BY <4>3, <4>4 DEF PartsOrdered
    <3>2. CASE e = d /\ buffer = With(fTFBuffer[d], frame.id, <<f, frame>>)
      <4> PICK old \in Buffers : old = fTFBuffer[d]
        BY <1>t
      <4>1. fTFBuffer'[e] = buffer
        BY <3>2, <1>1, <1>t
      <4> PICK n \in Nat : n = frame.id
        BY DEF Frames
      <4> PICK part \in Parts : part = <<f, frame>>
        BY DEF Parts
      <4>2. Joined(buffer, old, n, part)
        <5>1. buffer = With(old, n, part)
          BY <3>2
        <5>2. old \in Buffers /\ n \in Nat /\ part \in Parts
          OBVIOUS
        <5> QED BY ONLY <5>1, <5>2, WithParts
      <4>3. CASE id # n
        <5>1. id \in Ids(fTFBuffer[d]) /\ buffer[id] = fTFBuffer[d][id]
          BY <4>1, <4>2, <4>3, <2>2 DEF Joined
        <5> PICK parts : parts = fTFBuffer[d][id]
          OBVIOUS
        <5>2. PartsOrdered(d, id, parts)'
          BY <1>k, <2>1, <2>2, <5>1
        <5>3. fTFBuffer'[e][id] = parts
          BY <4>1, <5>1
        <5> QED BY <5>2, <5>3, <3>2 DEF PartsOrdered
      <4>4. CASE id = n
        <5> PICK p \in Seq(Parts) : /\ buffer[n] = Append(p, part)
                                    /\ n \in Ids(old) => p = old[n]
                                    /\ n \notin Ids(old) => p = << >>
          BY <4>2 DEF Joined
        <5>1. Below(n, built[f]) /\ link[f][d] # << >> /\ Head(link[f][d]).id = n
          <6>1. link[f][d] # << >> /\ Head(link[f][d]) = frame
            BY <1>1
          <6>2. LinkOrdered(f, d)
            BY <2>2 DEF OrderInv
          <6> QED BY <6>1, <6>2 DEF LinkOrdered
        <5>2. /\ \A i \in DOMAIN p : p[i][2].id = n /\ After(n, p[i][1], d) /\ p[i][1] \in Fems
              /\ \A i, j \in DOMAIN p : i # j => p[i][1] # p[j][1]
          <6>1. CASE n \in Ids(old)
            <7>1. PartsOrdered(d, n, p) /\ \A i \in DOMAIN p : p[i][1] \in Fems
              BY <6>1, <2>1, <2>2, <1>k, <1>p
            <7> QED BY <7>1 DEF PartsOrdered
          <6>2. CASE n \notin Ids(old)
            <7>1. p = << >> /\ DOMAIN << >> = {}
              BY <6>2
            <7> QED BY <7>1
          <6> QED BY <6>1, <6>2
        <5>3. \A i \in DOMAIN p : p[i][1] # f
          <6> SUFFICES ASSUME NEW i \in DOMAIN p, p[i][1] = f PROVE FALSE
            OBVIOUS
          <6>1. After(n, f, d)
            BY <5>2
          <6>2. n < n
            BY <5>1, <6>1 DEF After
          <6> QED BY ONLY <6>2, n \in Nat
        <5>4. After(n, f, d)'
          BY <5>1, <2>1, <1>0 DEF After
        <5>5. part[1] = f /\ part[2].id = n
          OBVIOUS
        <5> PICK t : t = Append(p, part)
          OBVIOUS
        <5>6. \A i \in DOMAIN t : (i \in DOMAIN p /\ t[i] = p[i]) \/ (i = Len(p) + 1 /\ t[i] = part)
          BY PartAppended
        <5>7. \A i \in DOMAIN t : t[i][2].id = n /\ After(n, t[i][1], d)'
          <6>1. \A g \in Fems : After(n, g, d) => After(n, g, d)'
            BY <1>a, <2>1
          <6> QED BY <6>1, <5>2, <5>4, <5>5, <5>6
        <5>8. \A i, j \in DOMAIN t : i # j => t[i][1] # t[j][1]
          BY <5>2, <5>3, <5>5, <5>6
        <5>9. PartsOrdered(d, n, t)'
          BY <5>7, <5>8 DEF PartsOrdered
        <5>10. fTFBuffer'[e][id] = t
          BY <4>1, <4>4
        <5> QED BY <5>9, <5>10, <4>4, <3>2 DEF PartsOrdered
      <4> QED BY <4>3, <4>4
    <3> QED BY <3>1, <3>2, <1>1
  <2>3. \A e \in Destinations : Whole(sending[e]) => Whole(sending[e])'
    BY <1>1 DEF Whole
  <2>4. inStep # "no" => \A g \in Fems, e \in Destinations : LinkOrdered(g, e)'
    BY <2>1, <1>a
  <2> QED BY <1>0, <1>i, <2>2, <2>3, <2>4 DEF OrderInv
<1>2. CASE UNCHANGED <<link, fTFBuffer, sending>>
  BY <1>0, <1>2, OrderUnchanged
<1>3. ASSUME NEW id \in Ids(fTFBuffer[d]), UNCHANGED link,
             fTFBuffer' = [fTFBuffer EXCEPT ![d] = Without(fTFBuffer[d], id)],
             \/ UNCHANGED sending
             \/ /\ Len(fTFBuffer[d][id]) = fNumSource
                /\ sending' = [sending EXCEPT ![d] =
                      [id |-> id, parts |-> fTFBuffer[d][id], isock |-> Outputs - 1]]
      PROVE  OrderInv'
  <2>1. \A g \in Fems, e \in Destinations : link'[g][e] = link[g][e] \/ link'[g][e] = << >>
    BY <1>3
  <2>2. ASSUME NEW e \in Destinations, NEW n \in Ids(fTFBuffer'[e])
        PROVE  n \in Ids(fTFBuffer[e]) /\ fTFBuffer'[e][n] = fTFBuffer[e][n]
    <3>1. CASE e # d
      BY <3>1, <1>3, <1>t, <2>2
    <3>2. CASE e = d
      <4>1. fTFBuffer'[d] = Without(fTFBuffer[d], id)
        BY <1>3, <1>t
      <4> QED BY <3>2, <4>1, <2>2, WithoutParts
    <3> QED BY <3>1, <3>2
  <2>3. ASSUME inStep # "no", NEW e \in Destinations, NEW n \in Ids(fTFBuffer'[e])
        PROVE  PartsOrdered(e, n, fTFBuffer[e][n])'
    <3> PICK parts : parts = fTFBuffer[e][n]
      OBVIOUS
    <3>1. n \in Ids(fTFBuffer[e]) /\ fTFBuffer'[e][n] = parts
      BY <2>2
    <3>2. PartsOrdered(e, n, parts)'
      BY <1>k, <2>1, <2>3, <3>1
    <3> QED BY <3>1, <3>2 DEF PartsOrdered
  <2>4. ASSUME inStep # "no", NEW e \in Destinations PROVE Whole(sending'[e])
    <3>1. Whole(sending[e])
      BY <2>4 DEF OrderInv
    <3>2. CASE sending'[e] = sending[e]
      BY <3>1, <3>2
    <3>3. CASE sending'[e] # sending[e]
      <4> PICK parts \in Seq(Parts) : parts = fTFBuffer[d][id]
        BY <1>p
      <4> PICK s : s = [id |-> id, parts |-> parts, isock |-> Outputs - 1]
        OBVIOUS
      <4>1. e = d /\ sending'[d] = s /\ Len(parts) = fNumSource
        BY <3>3, <1>3, <1>t
      <4>2. PartsOrdered(d, id, parts)
        BY <2>4, <1>3 DEF OrderInv
      <4>3. {parts[i][1] : i \in DOMAIN parts} = Fems
        BY <4>1, <4>2, WholeBuffer DEF PartsOrdered
      <4>4. s.id = id /\ s.parts = parts
        OBVIOUS
      <4>5. \A i \in DOMAIN parts : parts[i][2].id = id
        BY <4>2 DEF PartsOrdered
      <4> QED BY <4>1, <4>3, <4>4, <4>5 DEF Whole
    <3> QED BY <3>2, <3>3
  <2>5. inStep # "no" => \A g \in Fems, e \in Destinations : LinkOrdered(g, e)'
    BY <2>1, <1>a
  <2> QED BY <1>0, <1>i, <2>3, <2>4, <2>5 DEF OrderInv
<1>4. ASSUME NEW s \in Sendings, UNCHANGED <<link, fTFBuffer>>, sending' = [sending EXCEPT ![d] = s],
             s # NoFrame => sending[d] # NoFrame /\ s.id = sending[d].id /\ s.parts = sending[d].parts
      PROVE  OrderInv'
  <2>1. ASSUME inStep # "no", NEW e \in Destinations PROVE Whole(sending'[e])
    <3>1. Whole(sending[e]) /\ Whole(sending[d])
      BY <2>1 DEF OrderInv
    <3>2. Whole(s)
      BY <3>1, <1>4 DEF Whole
    <3> QED BY <3>1, <3>2, <1>4, <1>t
  <2>2. inStep # "no" => \A g \in Fems, e \in Destinations : LinkOrdered(g, e)'
    BY <1>a, <1>4
  <2>3. ASSUME inStep # "no", NEW e \in Destinations, NEW n \in Ids(fTFBuffer[e])
        PROVE  PartsOrdered(e, n, fTFBuffer[e][n])'
    <3> PICK parts : parts = fTFBuffer[e][n]
      OBVIOUS
    <3>1. fTFBuffer'[e][n] = parts
      BY <1>4
    <3>2. PartsOrdered(e, n, parts)'
      BY <1>k, <1>4, <2>3
    <3> QED BY <3>1, <3>2 DEF PartsOrdered
  <2>4. \A e \in Destinations : Ids(fTFBuffer'[e]) = Ids(fTFBuffer[e])
    BY <1>4
  <2> QED BY <1>0, <1>i, <2>1, <2>2, <2>3, <2>4 DEF OrderInv
<1>5. \/ \E f \in Fems, frame \in Frames, buffer \in Buffers :
            /\ link[f][d] = <<frame>> /\ link' = [link EXCEPT ![f][d] = << >>]
            /\ UNCHANGED sending
            /\ fTFBuffer' = [fTFBuffer EXCEPT ![d] = buffer]
            /\ \/ buffer = fTFBuffer[d]
               \/ buffer = With(fTFBuffer[d], frame.id, <<f, frame>>)
      \/ UNCHANGED <<link, fTFBuffer, sending>>
      \/ \E id \in Ids(fTFBuffer[d]) :
            /\ UNCHANGED link
            /\ fTFBuffer' = [fTFBuffer EXCEPT ![d] = Without(fTFBuffer[d], id)]
            /\ \/ UNCHANGED sending
               \/ /\ Len(fTFBuffer[d][id]) = fNumSource
                  /\ sending' = [sending EXCEPT ![d] =
                        [id |-> id, parts |-> fTFBuffer[d][id], isock |-> Outputs - 1]]
      \/ \E s \in Sendings :
            /\ UNCHANGED <<link, fTFBuffer>>
            /\ sending' = [sending EXCEPT ![d] = s]
            /\ s # NoFrame => sending[d] # NoFrame /\ s.id = sending[d].id /\ s.parts = sending[d].parts
  BY TFMoves
<1> QED BY <1>1, <1>2, <1>3, <1>4, <1>5

LEMMA OrderTFStop ==
  ASSUME TypeOK, OrderInv, NEW d \in Destinations, TFStop(d)
  PROVE  OrderInv'
<1>1. /\ fTFBuffer' = [fTFBuffer EXCEPT ![d] = << >>] /\ sending' = [sending EXCEPT ![d] = NoFrame]
      /\ UNCHANGED <<built, link, inStep>>
  BY DEF TFStop, PostRunTF, Leave
<1>2. /\ fTFBuffer'[d] = << >> /\ sending'[d] = NoFrame
      /\ \A e \in Destinations \ {d} : fTFBuffer'[e] = fTFBuffer[e] /\ sending'[e] = sending[e]
  BY <1>1 DEF TypeOK, TFBuilderType
<1>3. Ids(<< >>) = {}
  BY DEF Ids
<1>4. \A g \in Fems : Increasing(built'[g])
  BY <1>1 DEF OrderInv
<1>5. inStep # "no" => \A g \in Fems, e \in Destinations : LinkOrdered(g, e)'
  BY <1>1 DEF OrderInv, LinkOrdered
<1>6. ASSUME inStep # "no", NEW e \in Destinations, NEW n \in Ids(fTFBuffer'[e])
      PROVE  PartsOrdered(e, n, fTFBuffer[e][n])'
  <2>1. e # d
    BY <1>2, <1>3, <1>6
  <2> PICK parts : parts = fTFBuffer[e][n]
    OBVIOUS
  <2>2. fTFBuffer'[e][n] = parts /\ n \in Ids(fTFBuffer[e])
    BY <2>1, <1>2, <1>6
  <2>3. PartsOrdered(e, n, parts)
    BY <1>6, <2>2 DEF OrderInv
  <2>4. PartsOrdered(e, n, parts)'
    BY <2>3, <1>1 DEF PartsOrdered, After
  <2> QED BY <2>2, <2>4 DEF PartsOrdered
<1>7. inStep # "no" => \A e \in Destinations : Whole(sending'[e])
  BY <1>2 DEF OrderInv, Whole
<1> QED BY <1>1, <1>4, <1>5, <1>6, <1>7 DEF OrderInv

LEMMA OrderStartRun ==
  ASSUME IInv, TFLeft, NEW reset \in BOOLEAN, StartRun(reset)
  PROVE  OrderInv'
<1>1. ready = Devices /\ UNCHANGED tfVars /\ (inStep' # "no" => NothingOnTheWay)
  BY DEF StartRun
<1>2. ASSUME NEW f \in Fems
      PROVE  built'[f].fOutputPayloads = << >> /\ UNCHANGED link
  <2>1. STFBuilder(f) \in ready /\ built[f] \in Builders
    BY <1>1 DEF Devices, IInv, TypeOK, STFBuilderType
  <2>2. built[f].fOutputPayloads = << >>
    BY <2>1 DEF IInv, LeftInv
  <2>3. InitTaskSTF \/ UNCHANGED stfVars
    BY Zenon DEF StartRun
  <2>4. CASE InitTaskSTF
    <3> PICK b : b = [built[f] EXCEPT !.fSTFId = 0, !.fHBFCounter = 0]
      OBVIOUS
    <3>1. b.fOutputPayloads = << >>
      BY <2>1, <2>2 DEF Builders
    <3> QED BY <2>4, <3>1 DEF InitTaskSTF
  <2>5. CASE UNCHANGED stfVars
    BY <2>2, <2>5 DEF stfVars
  <2> QED BY <2>3, <2>4, <2>5
<1>3. \A f \in Fems : Increasing(built'[f])
  BY <1>2 DEF Increasing
<1>4. \A d \in Destinations : fTFBuffer'[d] = << >> /\ sending'[d] = NoFrame
  <2> TAKE d \in Destinations
  <2>1. TFBuilder(d) \in ready
    BY <1>1 DEF Devices
  <2> QED BY <2>1, <1>1 DEF TFLeft, tfVars
<1>5. Ids(<< >>) = {}
  BY DEF Ids
<1>6. inStep' # "no" => \A f \in Fems, d \in Destinations : link'[f][d] = << >>
  BY <1>1, <1>2 DEF NothingOnTheWay
<1>7. \A d \in Destinations : Ids(fTFBuffer'[d]) = {} /\ Whole(sending'[d])
  BY <1>4, <1>5 DEF Whole
<1>8. inStep' # "no" => \A f \in Fems, d \in Destinations : LinkOrdered(f, d)'
  BY <1>6 DEF LinkOrdered
<1> QED BY <1>3, <1>7, <1>8 DEF OrderInv

LEMMA TFLeftStep ==
  ASSUME TypeOK, TFLeft, [Next]_vars
  PROVE  TFLeft'
<1>n. \A d, e \in Destinations : TFBuilder(d) = TFBuilder(e) => d = e
  BY DEF TFBuilder
<1>1. ASSUME UNCHANGED tfVars,
             ready' = ready \/ ready' = {} \/
                \E f \in Fems : ready' = ready \cup {Sampler(f)} \/ ready' = ready \cup {STFBuilder(f)}
      PROVE  TFLeft'
  <2>1. \A d \in Destinations, f \in Fems : TFBuilder(d) # Sampler(f) /\ TFBuilder(d) # STFBuilder(f)
    BY DEF TFBuilder, Sampler, STFBuilder
  <2>2. \A d \in Destinations : TFBuilder(d) \in ready' => TFBuilder(d) \in ready
    BY <1>1, <2>1
  <2>3. UNCHANGED <<fTFBuffer, sending>>
    BY <1>1 DEF tfVars
  <2> QED BY <2>2, <2>3 DEF TFLeft, TFBuilder
<1>2. ASSUME NEW f \in Fems, SamplerStep(f) \/ SamplerStop(f) \/ BuilderStep(f) \/ STFStop(f)
      PROVE  UNCHANGED tfVars /\ (ready' = ready \/ ready' = ready \cup {Sampler(f)}
                                    \/ ready' = ready \cup {STFBuilder(f)})
  BY <1>2 DEF SamplerStep, SamplerStop, BuilderStep, STFStop, chainVars, Leave
<1>3. ASSUME NEW d \in Destinations, TFStep(d) PROVE TFLeft'
  <2>1. TFBuilder(d) \notin ready /\ ready' = ready
    BY <1>3 DEF TFStep, chainVars
  <2>2. \A e \in Destinations \ {d} : fTFBuffer'[e] = fTFBuffer[e] /\ sending'[e] = sending[e]
    BY <1>3, TFMoves DEF TypeOK, TFBuilderType
  <2> QED BY <2>1, <2>2 DEF TFLeft, TFBuilder
<1>4. ASSUME NEW d \in Destinations, TFStop(d) PROVE TFLeft'
  <2>1. ready' = ready \cup {TFBuilder(d)}
    BY <1>4 DEF TFStop, Leave
  <2>2. /\ fTFBuffer'[d] = << >> /\ sending'[d] = NoFrame
        /\ \A e \in Destinations \ {d} : fTFBuffer'[e] = fTFBuffer[e] /\ sending'[e] = sending[e]
    BY <1>4 DEF TFStop, PostRunTF, TypeOK, TFBuilderType
  <2>3. ASSUME NEW e \in Destinations, TFBuilder(e) \in ready'
        PROVE  fTFBuffer'[e] = << >> /\ sending'[e] = NoFrame
    BY <2>1, <2>2, <2>3, <1>n DEF TFLeft
  <2> QED BY <2>3 DEF TFLeft, TFBuilder
<1>5. CASE StopRequest \/ UNCHANGED vars
  BY <1>5, <1>1 DEF StopRequest, vars, chainVars
<1>6. ASSUME NEW reset \in BOOLEAN, StartRun(reset) PROVE TFLeft'
  BY <1>6, <1>1 DEF StartRun
<1> QED BY <1>1, <1>2, <1>3, <1>4, <1>5, <1>6, StepOfBuilder DEF Next

LEMMA OrderStep ==
  ASSUME IInv, TFLeft, OrderInv, [Next]_vars
  PROVE  OrderInv'
<1> USE DEF IInv
<1>1. ASSUME NEW f \in Fems, SamplerStep(f) \/ SamplerStop(f) PROVE OrderInv'
  <2>1. UNCHANGED <<built, link, fTFBuffer, sending, inStep>>
    BY <1>1 DEF SamplerStep, SamplerStop, stfVars, tfVars, chainVars, Leave
  <2> QED BY <2>1, OrderUnchanged
<1>2. ASSUME NEW f \in Fems, BuilderStep(f) PROVE OrderInv'
  BY <1>2, OrderSTFStep
<1>3. ASSUME NEW f \in Fems, STFStop(f) PROVE OrderInv'
  BY <1>3, OrderSTFStop
<1>4. ASSUME NEW d \in Destinations, TFStep(d) PROVE OrderInv'
  BY <1>4, OrderTFStep
<1>5. ASSUME NEW d \in Destinations, TFStop(d) PROVE OrderInv'
  BY <1>5, OrderTFStop
<1>6. CASE StopRequest \/ UNCHANGED vars
  <2>1. UNCHANGED <<built, link, fTFBuffer, sending, inStep>>
    BY <1>6 DEF StopRequest, vars, stfVars, tfVars, chainVars
  <2> QED BY <2>1, OrderUnchanged
<1>7. ASSUME NEW reset \in BOOLEAN, StartRun(reset) PROVE OrderInv'
  BY <1>7, OrderStartRun
<1> QED BY <1>1, <1>2, <1>3, <1>4, <1>5, <1>6, <1>7, StepOfBuilder DEF Next

-----------------------------------------------------------------------------
(* The builders count alike as long as no sampler loses words, so that all *)
(* frames with one number have the same delimiters.                        *)

\* Frame, of front end f, goes to builder d, waits there or is sent by it.
OnTheWay(d, f, frame) ==
    \/ link[f][d] # << >> /\ frame = Head(link[f][d])
    \/ \E id \in Ids(fTFBuffer[d]) : \E i \in DOMAIN fTFBuffer[d][id] :
          <<f, frame>> = fTFBuffer[d][id][i]
    \/ \E i \in DOMAIN sending[d].parts : <<f, frame>> = sending[d].parts[i]

Placed(f, count, number) ==
    \E p : /\ AtPlace(stream[f], taken[f], raw[f], p)
           /\ STFBuilder(f) \notin ready => Reached(stream[f], built[f], p, count, number)

CountedAlike(count, number) ==
    /\ Counting(SpillEnds(stream), count, number, fSplitMethod)
    /\ \A f \in Fems : Placed(f, count, number)
    /\ \A d \in Destinations, f \in Fems : \A frame :
          OnTheWay(d, f, frame) => HasAll(stream[f], frame, number)

SameInv == inStep # "no" /\ lost = {} => \E count, number : CountedAlike(count, number)

\* Builders that hold nothing and count alike.
LEMMA BeginAlike ==
  ASSUME NEW bs, Alike(bs), NEW ends, NEW splitMethod,
         \A f \in Fems : /\ bs[f] \in Builders /\ bs[f].fInputPayloads = << >>
                         /\ Work(bs[f]) = << >> /\ bs[f].fOutputPayloads = << >>
  PROVE  \E count, number : /\ Counting(ends, count, number, splitMethod)
                            /\ \A f \in Fems : \A heads : Reached(heads, bs[f], 0, count, number)
<1> PICK f0 \in Fems : TRUE
  BY SamplerAssumption
<1>1. CountOf(bs[f0]) \in Counts
  <2>1. bs[f0] \in Builders
    OBVIOUS
  <2>2. bs[f0].fSTFId \in Nat /\ bs[f0].fHBFCounter \in Nat
    BY <2>1 DEF Builders
  <2> QED BY <2>2 DEF CountOf, Counts
<1> PICK count, number : Counting(ends, count, number, splitMethod) /\ count[0] = CountOf(bs[f0])
  BY <1>1, CountingExists
<1>2. ASSUME NEW f \in Fems, NEW heads PROVE Reached(heads, bs[f], 0, count, number)
  <2> PICK b : b = bs[f]
    OBVIOUS
  <2>1. CountOf(b) = count[0]
    BY DEF Alike, CountOf
  <2>2. Ordinal(heads, 0) = 0
    BY OrdinalNext, 0 \in Nat
  <2>3. Ords(heads, << >>) = {}
    BY OrdsOne
  <2>4. {l \in Nat : l >= 1 /\ l <= 0 /\ number[l] = b.fSTFId} = {}
    OBVIOUS
  <2>5. b.fInputPayloads = << >> /\ Work(b) = << >> /\ b.fOutputPayloads = << >> /\ DOMAIN << >> = {}
    OBVIOUS
  <2>6. Holds(heads, b, 0, number)
    BY <2>3, <2>4, <2>5 DEF Holds
  <2> QED BY <2>1, <2>2, <2>6 DEF Reached
<1> QED BY <1>2

LEMMA SameInit == ASSUME Init PROVE SameInv
<1>1. /\ built = [f \in Fems |-> NewBuilder] /\ ready = {}
      /\ link = [f \in Fems |-> [d \in Destinations |-> << >>]]
      /\ fTFBuffer = [d \in Destinations |-> << >>] /\ sending = [d \in Destinations |-> NoFrame]
      /\ taken = [f \in Fems |-> 0] /\ raw = [f \in Fems |-> << >>]
  BY DEF Init, SamplerInit, STFBuilderInit, TFBuilderInit
<1>2. /\ NewBuilder \in Builders /\ NewBuilder.fInputPayloads = << >>
      /\ NewBuilder.fWorkingPayloads = << >> /\ NewBuilder.fOutputPayloads = << >>
  BY DEF NewBuilder, Builders
<1>3. Work(NewBuilder) = << >>
  BY <1>2, FlattenEmpty DEF Work
<1>4. Alike(built)
  BY <1>1 DEF Alike
<1> PICK count, number : /\ Counting(SpillEnds(stream), count, number, fSplitMethod)
                         /\ \A f \in Fems : \A heads : Reached(heads, built[f], 0, count, number)
  BY <1>1, <1>2, <1>3, <1>4, BeginAlike
<1>5. ASSUME NEW f \in Fems PROVE Placed(f, count, number)
  <2>1. AtPlace(stream[f], 0, << >>, 0)
    BY SamplerAssumption DEF AtPlace
  <2>2. Reached(stream[f], built[f], 0, count, number)
    OBVIOUS
  <2> QED BY <2>1, <2>2, <1>1 DEF Placed
<1>6. ASSUME NEW d \in Destinations, NEW f \in Fems, NEW frame PROVE ~OnTheWay(d, f, frame)
  <2>1. NoFrame.parts = << >> /\ DOMAIN << >> = {} /\ Ids(<< >>) = {}
    BY DEF NoFrame, Ids
  <2> QED BY <1>1, <2>1 DEF OnTheWay
<1> QED BY <1>5, <1>6 DEF SameInv, CountedAlike

\* What is left at the places of all front ends but f.
LEMMA PlacedOthers ==
  ASSUME NEW count, NEW number, NEW g, Placed(g, count, number),
         stream' = stream, taken'[g] = taken[g], raw'[g] = raw[g],
         STFBuilder(g) \notin ready' => STFBuilder(g) \notin ready /\ built'[g] = built[g]
  PROVE  Placed(g, count, number)'
<1> PICK p : /\ AtPlace(stream[g], taken[g], raw[g], p)
             /\ STFBuilder(g) \notin ready => Reached(stream[g], built[g], p, count, number)
  BY DEF Placed
<1>1. AtPlace(stream'[g], taken'[g], raw'[g], p)
  OBVIOUS
<1>2. STFBuilder(g) \notin ready' => Reached(stream'[g], built'[g], p, count, number)
  OBVIOUS
<1> QED BY <1>1, <1>2 DEF Placed, STFBuilder

LEMMA AlikeKept ==
  ASSUME NEW count, NEW number, CountedAlike(count, number), UNCHANGED <<stream, fSplitMethod>>,
         \A f \in Fems : Placed(f, count, number)',
         \A d \in Destinations, f \in Fems : \A frame :
            OnTheWay(d, f, frame)' => OnTheWay(d, f, frame) \/ HasAll(stream[f], frame, number)
  PROVE  CountedAlike(count, number)'
<1>1. Counting(SpillEnds(stream'), count, number, fSplitMethod')
  BY DEF CountedAlike
<1>2. ASSUME NEW d \in Destinations, NEW f \in Fems, NEW frame, OnTheWay(d, f, frame)'
      PROVE  HasAll(stream'[f], frame, number)
  BY <1>2 DEF CountedAlike
<1> QED BY <1>1, <1>2 DEF CountedAlike

LEMMA SamplerStepOthers ==
  ASSUME SamplerType, NEW f \in Fems, SamplerStep(f)
  PROVE  /\ stream' = stream
         /\ \A g \in Fems \ {f} : taken'[g] = taken[g] /\ raw'[g] = raw[g]
<1>1. raw \in [Fems -> Messages] /\ taken \in [Fems -> Nat]
  BY DEF SamplerType
<1>2. stream' = stream
  BY DEF SamplerStep, CycleFull, CycleTimeout, CycleClosed, CycleBroken
<1>3. taken' = taken \/ \E k : taken' = [taken EXCEPT ![f] = taken[f] + k]
  BY DEF SamplerStep, CycleFull, CycleTimeout, CycleClosed, CycleBroken
<1>4. raw' = raw \/ \E words : Send(f, words)
  BY DEF SamplerStep, CycleFull, CycleTimeout, CycleClosed, CycleBroken
<1>5. raw' = raw \/ \E m : raw' = [raw EXCEPT ![f] = m]
  BY <1>4 DEF Send
<1>6. \A g \in Fems \ {f} : taken'[g] = taken[g]
  BY <1>1, <1>3
<1>7. \A g \in Fems \ {f} : raw'[g] = raw[g]
  BY <1>1, <1>5
<1> QED BY <1>2, <1>6, <1>7

LEMMA SameSamplerStep ==
  ASSUME TypeOK, NEW f \in Fems, SamplerStep(f), lost' = {},
         NEW count, NEW number, CountedAlike(count, number)
  PROVE  CountedAlike(count, number)'
<1>1. UNCHANGED <<fSplitMethod, built, link, fTFBuffer, sending, ready>>
  BY DEF SamplerStep, stfVars, tfVars, chainVars
<1>2. /\ stream' = stream
      /\ \A g \in Fems \ {f} : taken'[g] = taken[g] /\ raw'[g] = raw[g]
  BY SamplerStepOthers DEF TypeOK
<1>3. Placed(f, count, number)'
  <2> PICK p : /\ AtPlace(stream[f], taken[f], raw[f], p)
               /\ STFBuilder(f) \notin ready => Reached(stream[f], built[f], p, count, number)
    BY DEF CountedAlike, Placed
  <2>1. AtPlace(stream[f], taken'[f], raw'[f], p)
    BY SamplerKeepsPlace DEF TypeOK
  <2> QED BY <2>1, <1>1, <1>2 DEF Placed, STFBuilder
<1>4. \A g \in Fems : Placed(g, count, number)'
  <2> TAKE g \in Fems
  <2>1. CASE g # f
    <3>1. Placed(g, count, number)
      BY DEF CountedAlike
    <3> QED BY <2>1, <3>1, <1>1, <1>2, PlacedOthers
  <2> QED BY <2>1, <1>3
<1>5. \A d \in Destinations, g \in Fems : \A frame : OnTheWay(d, g, frame)' => OnTheWay(d, g, frame)
  BY <1>1 DEF OnTheWay
<1> QED BY <1>1, <1>2, <1>4, <1>5, AlikeKept

LEMMA SameSTFStep ==
  ASSUME TypeOK, NEW f \in Fems, BuilderStep(f), NEW count, NEW number, CountedAlike(count, number)
  PROVE  CountedAlike(count, number)'
<1>t. /\ built \in [Fems -> Builders] /\ built[f] \in Builders /\ taken \in [Fems -> Nat]
      /\ raw \in [Fems -> Messages] /\ link \in [Fems -> [Destinations -> Wires]]
      /\ stream \in Streams /\ stream[f] \in Seq(Heads)
  BY SamplerAssumption DEF TypeOK, STFBuilderType, SamplerType
<1>0. /\ UNCHANGED <<fTFBuffer, sending, ready, stream, taken>> /\ STFBuilder(f) \notin ready
      /\ UNCHANGED fSplitMethod
  BY DEF BuilderStep, tfVars, chainVars, samplerVars, HandleData, DqmSent, OutputSent
<1>c. Counting(SpillEnds(stream), count, number, fSplitMethod)
  BY DEF CountedAlike
<1> PICK p : /\ AtPlace(stream[f], taken[f], raw[f], p)
             /\ Reached(stream[f], built[f], p, count, number)
  BY <1>0 DEF CountedAlike, Placed
<1>p. p \in Nat
  BY DEF AtPlace
<1>o. ASSUME \A g \in Fems \ {f} : raw'[g] = raw[g] /\ built'[g] = built[g],
             Placed(f, count, number)'
      PROVE  \A g \in Fems : Placed(g, count, number)'
  <2> TAKE g \in Fems
  <2>1. CASE g # f
    <3>1. Placed(g, count, number)
      BY DEF CountedAlike
    <3> QED BY <2>1, <3>1, <1>0, <1>o, PlacedOthers
  <2> QED BY <2>1, <1>o
<1>1. CASE HandleData(f)
  <2>1. raw[f] \in Messages /\ raw[f] # << >>
    BY <1>1, <1>t DEF HandleData
  <2> PICK m \in Seq(Words) : m = Head(raw[f]) /\ Tail(raw[f]) = << >>
    BY <2>1, MessageParts
  <2> PICK b : b = BuildFrame(built[f], m)
    OBVIOUS
  <2>2. built' = [built EXCEPT ![f] = b] /\ raw' = [raw EXCEPT ![f] = Tail(raw[f])] /\ UNCHANGED link
    BY <1>1 DEF HandleData
  <2>3. /\ built'[f] = b /\ raw'[f] = << >>
        /\ \A g \in Fems \ {f} : raw'[g] = raw[g] /\ built'[g] = built[g]
    BY <2>2, <1>t
  <2>4. taken[f] = fnByte * (p + Len(m)) /\ Follows(stream[f], m, p)
    BY <2>1 DEF AtPlace
  <2>5. Len(m) \in Nat /\ p + Len(m) \in Nat
    <3>1. Len(m) \in Nat
      BY LenProperties
    <3> QED BY <3>1, <1>p
  <2>6. AtPlace(stream[f], taken'[f], raw'[f], p + Len(m))
    BY <1>0, <2>3, <2>4, <2>5 DEF AtPlace
  <2>7. Reached(stream[f], b, p + Len(m), count, number)
    BY <1>c, <1>p, <1>t, <2>4, BuildFrameHolds
  <2>8. Placed(f, count, number)'
    BY <2>3, <2>6, <2>7, <1>0 DEF Placed
  <2>9. \A g \in Fems : Placed(g, count, number)'
    BY <2>3, <2>8, <1>o
  <2>10. \A d \in Destinations, g \in Fems : \A frame : OnTheWay(d, g, frame)' => OnTheWay(d, g, frame)
    BY <1>0, <2>2 DEF OnTheWay
  <2> QED BY <1>0, <2>9, <2>10, AlikeKept
<1>2. CASE DqmSent(f)
  <2>1. UNCHANGED <<built, link, raw>>
    BY <1>2 DEF DqmSent, BuilderStep, samplerVars, HandleData
  <2>2. Placed(f, count, number)'
    <3>1. Placed(f, count, number)
      BY DEF CountedAlike
    <3> QED BY <3>1, <2>1, <1>0, PlacedOthers
  <2>3. \A g \in Fems : Placed(g, count, number)'
    BY <2>1, <2>2, <1>o
  <2>4. \A d \in Destinations, g \in Fems : \A frame : OnTheWay(d, g, frame)' => OnTheWay(d, g, frame)
    BY <1>0, <2>1 DEF OnTheWay
  <2> QED BY <1>0, <2>3, <2>4, AlikeKept
<1>3. CASE OutputSent(f)
  <2> PICK b \in Builders : b = built[f]
    BY <1>t
  <2>1. b.fOutputPayloads # << >>
    BY <1>3 DEF OutputSent, TypeOK, STFBuilderType
  <2> PICK s \in Seq(Frames) : s = b.fOutputPayloads /\ s # << >>
    BY <2>1 DEF Builders
  <2> PICK frame : frame = Head(s)
    OBVIOUS
  <2> PICK c : c = [b EXCEPT !.fOutputPayloads = Tail(s)]
    OBVIOUS
  <2>2. /\ c.fOutputPayloads = Tail(s) /\ c.fSTFId = b.fSTFId /\ c.fHBFCounter = b.fHBFCounter
        /\ c.fInputPayloads = b.fInputPayloads /\ c.fWorkingPayloads = b.fWorkingPayloads
    BY DEF Builders
  <2>3. frame = s[1] /\ 1 \in DOMAIN s /\ \A i \in DOMAIN Tail(s) : i + 1 \in DOMAIN s /\ Tail(s)[i] = s[i + 1]
    <3>1. /\ Len(s) \in Nat /\ DOMAIN s = 1 .. Len(s) /\ 1 \in DOMAIN s /\ frame = s[1]
          /\ DOMAIN Tail(s) = 1 .. Len(s) - 1
          /\ \A i \in 1 .. Len(s) - 1 : Tail(s)[i] = s[i + 1]
      BY HeadTailProperties, LenProperties, EmptySeq
    <3> QED BY <3>1
  <2>4. frame \in Frames
    BY <2>3, LenProperties
  <2> PICK d \in Destinations : d = Destination(frame)
    BY <2>4, DestinationType
  <2>5. link' = [link EXCEPT ![f][d] = <<frame>>] /\ built' = [built EXCEPT ![f] = c]
    BY <1>3 DEF OutputSent
  <2>6. raw' = raw
    BY <1>3, <1>t DEF BuilderStep, samplerVars, HandleData, OutputSent
  <2>7. /\ built'[f] = c /\ \A g \in Fems \ {f} : raw'[g] = raw[g] /\ built'[g] = built[g]
        /\ link'[f][d] = <<frame>>
        /\ \A g \in Fems, e \in Destinations : g # f \/ e # d => link'[g][e] = link[g][e]
    BY <2>5, <2>6, <1>t
  <2> PICK k : k = Ordinal(stream[f], p)
    OBVIOUS
  <2>8. Holds(stream[f], b, k, number) /\ CountOf(b) = count[k]
    BY DEF Reached
  <2>9. Work(c) = Work(b) /\ CountOf(c) = CountOf(b)
    BY <2>2 DEF Work, CountOf
  <2>10. \A i \in DOMAIN s : HasAll(stream[f], s[i], number)
    BY <2>8 DEF Holds
  <2>11. HasAll(stream[f], frame, number) /\ \A i \in DOMAIN Tail(s) : HasAll(stream[f], Tail(s)[i], number)
    BY <2>3, <2>10
  <2>12. Holds(stream[f], c, k, number)
    BY <2>2, <2>8, <2>9, <2>11 DEF Holds
  <2>13. Placed(f, count, number)'
    <3>1. Reached(stream[f], c, p, count, number)
      BY <2>8, <2>9, <2>12 DEF Reached
    <3> QED BY <3>1, <2>6, <2>7, <1>0 DEF Placed
  <2>14. \A g \in Fems : Placed(g, count, number)'
    BY <2>7, <2>13, <1>o
  <2>15. ASSUME NEW e \in Destinations, NEW g \in Fems, NEW sent, OnTheWay(e, g, sent)'
         PROVE  OnTheWay(e, g, sent) \/ HasAll(stream[g], sent, number)
    <3>1. CASE link'[g][e] # << >> /\ sent = Head(link'[g][e])
      <4>1. CASE g = f /\ e = d
        <5>1. Head(<<frame>>) = frame
          OBVIOUS
        <5> QED BY <3>1, <4>1, <5>1, <2>7, <2>11
      <4>2. CASE g # f \/ e # d
        BY <3>1, <4>2, <2>7 DEF OnTheWay
      <4> QED BY <4>1, <4>2
    <3>2. CASE ~(link'[g][e] # << >> /\ sent = Head(link'[g][e]))
      BY <3>2, <2>15, <1>0 DEF OnTheWay
    <3> QED BY <3>1, <3>2
  <2> QED BY <1>0, <2>14, <2>15, AlikeKept
<1> QED BY <1>1, <1>2, <1>3 DEF BuilderStep

LEMMA SameSTFStop ==
  ASSUME TypeOK, NEW f \in Fems, STFStop(f), NEW count, NEW number, CountedAlike(count, number)
  PROVE  CountedAlike(count, number)'
<1>1. /\ ready' = ready \cup {STFBuilder(f)}
      /\ UNCHANGED <<stream, taken, raw, link, fTFBuffer, sending, fSplitMethod>>
      /\ \A g \in Fems \ {f} : built'[g] = built[g]
  BY DEF STFStop, Leave, PostRunSTF, samplerVars, tfVars, TypeOK, STFBuilderType
<1>2. ASSUME NEW g \in Fems PROVE Placed(g, count, number)'
  <2>1. STFBuilder(g) \notin ready' => STFBuilder(g) \notin ready /\ g # f
    BY <1>1
  <2>2. Placed(g, count, number)
    BY DEF CountedAlike
  <2> QED BY <2>1, <2>2, <1>1, PlacedOthers
<1>3. \A d \in Destinations, g \in Fems : \A frame : OnTheWay(d, g, frame)' => OnTheWay(d, g, frame)
  BY <1>1 DEF OnTheWay
<1> QED BY <1>1, <1>2, <1>3, AlikeKept

\* A time frame builder has no frame but those that came to it.
LEMMA TFStepMoves ==
  ASSUME TypeOK, NEW d \in Destinations, TFStep(d), NEW e \in Destinations, NEW g \in Fems,
         NEW sent, OnTheWay(e, g, sent)'
  PROVE  OnTheWay(e, g, sent)
<1>t. /\ link \in [Fems -> [Destinations -> Wires]] /\ fTFBuffer \in [Destinations -> Buffers]
      /\ sending \in [Destinations -> Sendings] /\ fTFBuffer[d] \in Buffers
  BY DEF TypeOK, STFBuilderType, TFBuilderType
<1>1. ASSUME NEW f \in Fems, NEW frame \in Frames, NEW buffer \in Buffers,
             link[f][d] = <<frame>>, link' = [link EXCEPT ![f][d] = << >>], UNCHANGED sending,
             fTFBuffer' = [fTFBuffer EXCEPT ![d] = buffer],
             buffer = fTFBuffer[d] \/ buffer = With(fTFBuffer[d], frame.id, <<f, frame>>)
      PROVE  OnTheWay(e, g, sent)
  <2>1. /\ link'[g][e] = link[g][e] \/ link'[g][e] = << >>
        /\ e # d => fTFBuffer'[e] = fTFBuffer[e]
        /\ fTFBuffer'[d] = buffer
    BY <1>1, <1>t
  <2>2. CASE link'[g][e] # << >> /\ sent = Head(link'[g][e])
    BY <2>1, <2>2 DEF OnTheWay
  <2>3. CASE \E i \in DOMAIN sending'[e].parts : <<g, sent>> = sending'[e].parts[i]
    BY <1>1, <2>3 DEF OnTheWay
  <2>4. ASSUME NEW id \in Ids(fTFBuffer'[e]), NEW i \in DOMAIN fTFBuffer'[e][id],
               <<g, sent>> = fTFBuffer'[e][id][i]
        PROVE  OnTheWay(e, g, sent)
    <3>1. CASE fTFBuffer'[e] = fTFBuffer[e]
      BY <3>1, <2>4 DEF OnTheWay
    <3>2. CASE fTFBuffer'[e] # fTFBuffer[e]
      <4> PICK old \in Buffers : old = fTFBuffer[d]
        BY <1>t
      <4> PICK n \in Nat : n = frame.id
        BY DEF Frames
      <4> PICK part \in Parts : part = <<f, frame>>
        BY DEF Parts
      <4>1. e = d /\ buffer = With(old, n, part) /\ fTFBuffer'[e] = buffer
        BY <3>2, <2>1, <1>1
      <4>2. Joined(buffer, old, n, part)
        <5>1. old \in Buffers /\ n \in Nat /\ part \in Parts /\ buffer = With(old, n, part)
          BY <4>1
        <5> QED BY ONLY <5>1, WithParts
      <4>3. CASE id # n
        <5>1. id \in Ids(fTFBuffer[e]) /\ buffer[id] = fTFBuffer[e][id]
          BY <4>1, <4>2, <4>3, <2>4 DEF Joined
        <5> QED BY <5>1, <4>1, <2>4 DEF OnTheWay
      <4>4. CASE id = n
        <5> PICK p \in Seq(Parts) : /\ buffer[n] = Append(p, part)
                                    /\ n \in Ids(old) => p = old[n]
                                    /\ n \notin Ids(old) => p = << >>
          BY <4>2 DEF Joined
        <5>1. i \in DOMAIN Append(p, part) /\ <<g, sent>> = Append(p, part)[i]
          BY <4>1, <4>4, <2>4
        <5>2. (i \in DOMAIN p /\ <<g, sent>> = p[i]) \/ <<g, sent>> = part
          BY <5>1, PartAppended
        <5>3. CASE <<g, sent>> = part
          <6>1. g = f /\ sent = frame
            BY <5>3
          <6>2. link[g][e] # << >> /\ sent = Head(link[g][e])
            BY <6>1, <4>1, <1>1
          <6> QED BY <6>2 DEF OnTheWay
        <5>4. CASE i \in DOMAIN p /\ <<g, sent>> = p[i]
          <6>1. DOMAIN << >> = {}
            OBVIOUS
          <6>2. n \in Ids(old) /\ p = old[n]
            BY <5>4, <6>1
          <6> QED BY <6>2, <5>4, <4>1 DEF OnTheWay
        <5> QED BY <5>2, <5>3, <5>4
      <4> QED BY <4>3, <4>4
    <3> QED BY <3>1, <3>2
  <2> QED BY <2>2, <2>3, <2>4, OnTheWay(e, g, sent)' DEF OnTheWay
<1>2. CASE UNCHANGED <<link, fTFBuffer, sending>>
  BY <1>2, OnTheWay(e, g, sent)' DEF OnTheWay
<1>3. ASSUME NEW id \in Ids(fTFBuffer[d]), UNCHANGED link,
             fTFBuffer' = [fTFBuffer EXCEPT ![d] = Without(fTFBuffer[d], id)],
             \/ UNCHANGED sending
             \/ /\ Len(fTFBuffer[d][id]) = fNumSource
                /\ sending' = [sending EXCEPT ![d] =
                      [id |-> id, parts |-> fTFBuffer[d][id], isock |-> Outputs - 1]]
      PROVE  OnTheWay(e, g, sent)
  <2>1. CASE link'[g][e] # << >> /\ sent = Head(link'[g][e])
    BY <1>3, <2>1 DEF OnTheWay
  <2>2. ASSUME NEW n \in Ids(fTFBuffer'[e])
        PROVE  n \in Ids(fTFBuffer[e]) /\ fTFBuffer'[e][n] = fTFBuffer[e][n]
    <3>1. CASE e # d
      BY <3>1, <1>3, <1>t, <2>2
    <3>2. CASE e = d
      <4>1. fTFBuffer'[d] = Without(fTFBuffer[d], id)
        BY <1>3, <1>t
      <4> QED BY <3>2, <4>1, <2>2, WithoutParts
    <3> QED BY <3>1, <3>2
  <2>3. CASE \E n \in Ids(fTFBuffer'[e]) : \E i \in DOMAIN fTFBuffer'[e][n] :
                <<g, sent>> = fTFBuffer'[e][n][i]
    BY <2>2, <2>3 DEF OnTheWay
  <2>4. CASE \E i \in DOMAIN sending'[e].parts : <<g, sent>> = sending'[e].parts[i]
    <3>1. CASE sending'[e] = sending[e]
      BY <2>4, <3>1 DEF OnTheWay
    <3>2. CASE sending'[e] # sending[e]
      <4>1. e = d /\ sending'[e].parts = fTFBuffer[e][id]
        BY <3>2, <1>3, <1>t
      <4> QED BY <4>1, <2>4, <1>3 DEF OnTheWay
    <3> QED BY <3>1, <3>2
  <2> QED BY <2>1, <2>3, <2>4, OnTheWay(e, g, sent)' DEF OnTheWay
<1>4. ASSUME NEW s \in Sendings, UNCHANGED <<link, fTFBuffer>>, sending' = [sending EXCEPT ![d] = s],
             s # NoFrame => sending[d] # NoFrame /\ s.id = sending[d].id /\ s.parts = sending[d].parts
      PROVE  OnTheWay(e, g, sent)
  <2>1. \A i \in DOMAIN sending'[e].parts : i \in DOMAIN sending[e].parts
            /\ sending'[e].parts[i] = sending[e].parts[i]
    <3>1. CASE e = d /\ s = NoFrame
      <4>1. sending'[e].parts = << >> /\ DOMAIN << >> = {}
        BY <3>1, <1>4, <1>t DEF NoFrame
      <4> QED BY <4>1
    <3>2. CASE e # d \/ s # NoFrame
      <4>1. sending'[e].parts = sending[e].parts
        BY <3>2, <1>4, <1>t
      <4> QED BY <4>1
    <3> QED BY <3>1, <3>2
  <2> QED BY <2>1, <1>4, OnTheWay(e, g, sent)' DEF OnTheWay
<1>5. \/ \E f \in Fems, frame \in Frames, buffer \in Buffers :
            /\ link[f][d] = <<frame>> /\ link' = [link EXCEPT ![f][d] = << >>]
            /\ UNCHANGED sending
            /\ fTFBuffer' = [fTFBuffer EXCEPT ![d] = buffer]
            /\ \/ buffer = fTFBuffer[d]
               \/ buffer = With(fTFBuffer[d], frame.id, <<f, frame>>)
      \/ UNCHANGED <<link, fTFBuffer, sending>>
      \/ \E id \in Ids(fTFBuffer[d]) :
            /\ UNCHANGED link
            /\ fTFBuffer' = [fTFBuffer EXCEPT ![d] = Without(fTFBuffer[d], id)]
            /\ \/ UNCHANGED sending
               \/ /\ Len(fTFBuffer[d][id]) = fNumSource
                  /\ sending' = [sending EXCEPT ![d] =
                        [id |-> id, parts |-> fTFBuffer[d][id], isock |-> Outputs - 1]]
      \/ \E s \in Sendings :
            /\ UNCHANGED <<link, fTFBuffer>>
            /\ sending' = [sending EXCEPT ![d] = s]
            /\ s # NoFrame => sending[d] # NoFrame /\ s.id = sending[d].id /\ s.parts = sending[d].parts
  BY TFMoves
<1> QED BY <1>1, <1>2, <1>3, <1>4, <1>5

LEMMA SameTFStep ==
  ASSUME TypeOK, NEW d \in Destinations, TFStep(d), NEW count, NEW number, CountedAlike(count, number)
  PROVE  CountedAlike(count, number)'
<1>1. UNCHANGED <<built, stream, taken, raw, fSplitMethod, ready>>
  BY TFMoves
<1>2. ASSUME NEW g \in Fems PROVE Placed(g, count, number)'
  <2>1. Placed(g, count, number)
    BY DEF CountedAlike
  <2> QED BY <2>1, <1>1, PlacedOthers
<1>3. \A e \in Destinations, g \in Fems : \A frame : OnTheWay(e, g, frame)' => OnTheWay(e, g, frame)
  BY TFStepMoves
<1> QED BY <1>1, <1>2, <1>3, AlikeKept

LEMMA SameTFStop ==
  ASSUME TypeOK, NEW d \in Destinations, TFStop(d), NEW count, NEW number, CountedAlike(count, number)
  PROVE  CountedAlike(count, number)'
<1>1. /\ ready' = ready \cup {TFBuilder(d)}
      /\ UNCHANGED <<stream, taken, raw, built, link, fSplitMethod>>
      /\ fTFBuffer' = [fTFBuffer EXCEPT ![d] = << >>] /\ sending' = [sending EXCEPT ![d] = NoFrame]
  BY DEF TFStop, Leave, PostRunTF, samplerVars
<1>2. ASSUME NEW g \in Fems PROVE Placed(g, count, number)'
  <2>1. Placed(g, count, number)
    BY DEF CountedAlike
  <2> QED BY <2>1, <1>1, PlacedOthers
<1>3. ASSUME NEW e \in Destinations, NEW g \in Fems, NEW frame, OnTheWay(e, g, frame)'
      PROVE  OnTheWay(e, g, frame)
  <2>1. Ids(<< >>) = {} /\ DOMAIN NoFrame.parts = {}
    BY DEF Ids, NoFrame
  <2>2. CASE e = d
    <3>1. fTFBuffer'[e] = << >> /\ sending'[e] = NoFrame
      BY <2>2, <1>1 DEF TypeOK, TFBuilderType
    <3> QED BY <3>1, <2>1, <1>1, <1>3 DEF OnTheWay
  <2>3. CASE e # d
    <3>1. fTFBuffer'[e] = fTFBuffer[e] /\ sending'[e] = sending[e]
      BY <2>3, <1>1 DEF TypeOK, TFBuilderType
    <3> QED BY <3>1, <1>1, <1>3 DEF OnTheWay
  <2> QED BY <2>2, <2>3
<1> QED BY <1>1, <1>2, <1>3, AlikeKept

LEMMA SameStill ==
  ASSUME UNCHANGED <<samplerVars, stfVars, tfVars>>, ready \subseteq ready',
         NEW count, NEW number, CountedAlike(count, number)
  PROVE  CountedAlike(count, number)'
<1>1. UNCHANGED <<stream, taken, raw, built, link, fSplitMethod, fTFBuffer, sending>>
  BY DEF samplerVars, stfVars, tfVars
<1>2. ASSUME NEW g \in Fems PROVE Placed(g, count, number)'
  <2>1. Placed(g, count, number)
    BY DEF CountedAlike
  <2>2. STFBuilder(g) \notin ready' => STFBuilder(g) \notin ready
    OBVIOUS
  <2> QED BY <2>1, <2>2, <1>1, PlacedOthers
<1>3. \A e \in Destinations, g \in Fems : \A frame : OnTheWay(e, g, frame)' => OnTheWay(e, g, frame)
  BY <1>1 DEF OnTheWay
<1> QED BY <1>1, <1>2, <1>3, AlikeKept

\* A run that begins in step.
LEMMA SameStartRun ==
  ASSUME IInv, TFLeft, NEW reset \in BOOLEAN, StartRun(reset), inStep' # "no", lost' = {}
  PROVE  \E count, number : CountedAlike(count, number)'
<1>1. /\ ready = Devices /\ ready' = {} /\ UNCHANGED tfVars /\ NothingOnTheWay /\ Alike(built')
      /\ SamplerPreRun
  BY DEF StartRun
<1>2. ASSUME NEW f \in Fems
      PROVE  /\ built'[f] \in Builders /\ built'[f].fInputPayloads = << >>
             /\ Work(built'[f]) = << >> /\ built'[f].fOutputPayloads = << >>
             /\ UNCHANGED link
  <2>1. STFBuilder(f) \in ready /\ built[f] \in Builders
    BY <1>1 DEF Devices, IInv, TypeOK, STFBuilderType
  <2>2. /\ built[f].fInputPayloads = << >> /\ Work(built[f]) = << >>
        /\ built[f].fOutputPayloads = << >>
    BY <2>1 DEF IInv, LeftInv
  <2>3. InitTaskSTF \/ UNCHANGED stfVars
    BY Zenon DEF StartRun
  <2>4. CASE InitTaskSTF
    <3> PICK b : b = [built[f] EXCEPT !.fSTFId = 0, !.fHBFCounter = 0]
      OBVIOUS
    <3>1. /\ b \in Builders /\ b.fInputPayloads = << >> /\ b.fOutputPayloads = << >>
          /\ b.fWorkingPayloads = built[f].fWorkingPayloads
      BY <2>1, <2>2 DEF Builders
    <3>2. Work(b) = << >>
      BY <3>1, <2>2 DEF Work
    <3>3. built'[f] = b /\ UNCHANGED link
      BY <2>4 DEF InitTaskSTF
    <3> QED BY <3>1, <3>2, <3>3
  <2>5. CASE UNCHANGED stfVars
    BY <2>1, <2>2, <2>5 DEF stfVars
  <2> QED BY <2>3, <2>4, <2>5
<1>3. /\ taken' = [f \in Fems |-> 0] /\ raw' = raw
      /\ \A f \in Fems : raw[f] = << >>
  BY <1>1 DEF SamplerPreRun
<1> PICK count, number : /\ Counting(SpillEnds(stream'), count, number, fSplitMethod')
                         /\ \A f \in Fems : \A heads : Reached(heads, built'[f], 0, count, number)
  BY <1>1, <1>2, BeginAlike
<1>4. ASSUME NEW f \in Fems PROVE Placed(f, count, number)'
  <2>1. AtPlace(stream'[f], 0, << >>, 0)
    BY SamplerAssumption DEF AtPlace
  <2>2. Reached(stream'[f], built'[f], 0, count, number)
    OBVIOUS
  <2>3. taken'[f] = 0 /\ raw'[f] = << >>
    BY <1>3
  <2> QED BY <2>1, <2>2, <2>3 DEF Placed
<1>5. ASSUME NEW d \in Destinations, NEW f \in Fems, NEW frame PROVE ~OnTheWay(d, f, frame)'
  <2>1. NoFrame.parts = << >> /\ DOMAIN << >> = {} /\ Ids(<< >>) = {}
    BY DEF NoFrame, Ids
  <2>2. fTFBuffer'[d] = << >> /\ sending'[d] = NoFrame
    <3>1. TFBuilder(d) \in ready
      BY <1>1 DEF Devices
    <3> QED BY <3>1, <1>1 DEF TFLeft, tfVars
  <2>3. link'[f][d] = << >>
    BY <1>1, <1>2 DEF NothingOnTheWay
  <2> QED BY <2>1, <2>2, <2>3 DEF OnTheWay
<1>6. CountedAlike(count, number)'
  BY <1>4, <1>5 DEF CountedAlike
<1> QED BY <1>6

LEMMA SameStep ==
  ASSUME IInv, TFLeft, SameInv, [Next]_vars
  PROVE  SameInv'
<1> SUFFICES ASSUME inStep' # "no", lost' = {}
             PROVE  \E count, number : CountedAlike(count, number)'
  BY DEF SameInv
<1>t. TypeOK
  BY DEF IInv
<1>1. ASSUME NEW reset \in BOOLEAN, StartRun(reset)
      PROVE  \E count, number : CountedAlike(count, number)'
  BY <1>1, SameStartRun
<1>2. ASSUME NEW f \in Fems, SamplerStep(f), inStep' = inStep, lost \subseteq lost'
      PROVE  \E count, number : CountedAlike(count, number)'
  <2> PICK count, number : CountedAlike(count, number)
    BY <1>2 DEF SameInv
  <2> QED BY <1>t, <1>2, SameSamplerStep
<1>3. ASSUME inStep' = inStep, lost' = lost,
             ASSUME NEW count, NEW number, CountedAlike(count, number)
             PROVE  CountedAlike(count, number)'
      PROVE  \E count, number : CountedAlike(count, number)'
  <2> PICK count, number : CountedAlike(count, number)
    BY <1>3 DEF SameInv
  <2> QED BY <1>3
<1>4. ASSUME NEW f \in Fems, SamplerStep(f) PROVE inStep' = inStep /\ lost \subseteq lost'
  <2>1. inStep' = inStep
    BY <1>4 DEF SamplerStep, chainVars
  <2>2. lost' = lost \/ lost' = lost \cup {f}
    BY <1>4 DEF SamplerStep, CycleFull, CycleTimeout, CycleClosed, CycleBroken
  <2> QED BY <2>1, <2>2
<1>5. ASSUME NEW f \in Fems, SamplerStop(f) PROVE \E count, number : CountedAlike(count, number)'
  <2>1. UNCHANGED <<samplerVars, stfVars, tfVars>> /\ ready \subseteq ready' /\ inStep' = inStep
    BY <1>5 DEF SamplerStop, Leave
  <2>2. lost' = lost
    BY <2>1 DEF samplerVars
  <2> QED BY <2>1, <2>2, <1>3, SameStill
<1>6. ASSUME NEW f \in Fems, BuilderStep(f) PROVE \E count, number : CountedAlike(count, number)'
  <2>1. inStep' = inStep /\ lost' = lost
    BY <1>6 DEF BuilderStep, chainVars, samplerVars
  <2> QED BY <2>1, <1>t, <1>3, <1>6, SameSTFStep
<1>7. ASSUME NEW f \in Fems, STFStop(f) PROVE \E count, number : CountedAlike(count, number)'
  <2>1. inStep' = inStep /\ lost' = lost
    BY <1>7 DEF STFStop, Leave, samplerVars
  <2> QED BY <2>1, <1>t, <1>3, <1>7, SameSTFStop
<1>8. ASSUME NEW d \in Destinations, TFStep(d) PROVE \E count, number : CountedAlike(count, number)'
  <2>1. inStep' = inStep /\ lost' = lost
    BY <1>8 DEF TFStep, chainVars, samplerVars
  <2> QED BY <2>1, <1>t, <1>3, <1>8, SameTFStep
<1>9. ASSUME NEW d \in Destinations, TFStop(d) PROVE \E count, number : CountedAlike(count, number)'
  <2>1. inStep' = inStep /\ lost' = lost
    BY <1>9 DEF TFStop, Leave, samplerVars
  <2> QED BY <2>1, <1>t, <1>3, <1>9, SameTFStop
<1>10. ASSUME StopRequest \/ UNCHANGED vars PROVE \E count, number : CountedAlike(count, number)'
  <2>1. UNCHANGED <<samplerVars, stfVars, tfVars>> /\ ready \subseteq ready' /\ inStep' = inStep
    BY <1>10 DEF StopRequest, vars, chainVars
  <2>2. lost' = lost
    BY <2>1 DEF samplerVars
  <2> QED BY <2>1, <2>2, <1>3, SameStill
<1>11. \/ \E f \in Fems : SamplerStep(f) \/ SamplerStop(f) \/ BuilderStep(f) \/ STFStop(f)
       \/ \E d \in Destinations : TFStep(d) \/ TFStop(d)
       \/ StopRequest \/ UNCHANGED vars
       \/ \E reset \in BOOLEAN : StartRun(reset)
  BY StepOfBuilder DEF Next
<1> QED BY <1>1, <1>2, <1>4, <1>5, <1>6, <1>7, <1>8, <1>9, <1>10, <1>11

LEMMA SameImplied == ASSUME IInv, OrderInv, SameInv PROVE SameHeartbeats
<1> SUFFICES ASSUME inStep # "no", lost = {}, NEW d \in Destinations, NEW s, s = sending[d], s # NoFrame
             PROVE  /\ {p[1] : p \in Range(s.parts)} = Fems
                    /\ \A p, q \in Range(s.parts) : Ordinals(p) = Ordinals(q)
  BY DEF SameHeartbeats
<1>1. /\ {s.parts[i][1] : i \in DOMAIN s.parts} = Fems
      /\ \A i \in DOMAIN s.parts : s.parts[i][2].id = s.id
  BY DEF OrderInv, Whole
<1>2. Range(s.parts) = {s.parts[i] : i \in DOMAIN s.parts}
  BY DEF Range
<1> PICK count, number : CountedAlike(count, number)
  BY DEF SameInv
<1>3. s \in [id : Nat, parts : Seq(Parts), isock : Nat]
  BY DEF IInv, TypeOK, TFBuilderType, Sendings
<1>4. s.parts \in Seq(Parts)
  BY <1>3
<1>5. ASSUME NEW p \in Range(s.parts)
      PROVE  Ordinals(p) = {l \in Nat : l >= 1 /\ number[l] = s.id}
  <2> PICK i \in DOMAIN s.parts : p = s.parts[i]
    BY <1>2
  <2>1. p \in Parts
    BY <1>4, LenProperties
  <2> PICK f \in Fems, frame \in Frames : p = <<f, frame>>
    BY <2>1 DEF Parts
  <2>2. OnTheWay(d, f, frame)
    BY DEF OnTheWay
  <2>3. HasAll(stream[f], frame, number)
    BY <2>2 DEF CountedAlike
  <2>4. p[1] = f /\ p[2] = frame /\ frame.id = s.id
    <3>1. p[1] = f /\ p[2] = frame
      OBVIOUS
    <3>2. p[2].id = s.id
      BY <1>1
    <3> QED BY <3>1, <3>2
  <2>5. Ordinals(p) = Ords(stream[f], FrameWords(frame))
    BY <2>4 DEF Ordinals, Ords
  <2> QED BY <2>3, <2>4, <2>5 DEF HasAll
<1>6. {p[1] : p \in Range(s.parts)} = Fems
  BY <1>1, <1>2
<1> QED BY <1>5, <1>6

\* The parts of a time frame are of the same heartbeats, in any run that began in
\* step and in which no sampler has lost words: the builders give the n-th
\* delimiter of every front end the same number (BuildFrame, FillData and
\* FinalizeSTF of HulStrTdcSTFBuilder.cxx), and the time frame builder takes one
\* part of each front end with it (ConditionalRun of HulStrTdcTFBuilder.cxx).
THEOREM FramesAgree == Spec => []SameHeartbeats
<1>1. Init => IInv /\ TFLeft /\ OrderInv /\ SameInv
  BY IInit, OrderInit, SameInit
<1>2. IInv /\ TFLeft /\ OrderInv /\ SameInv /\ [Next]_vars
        => IInv' /\ TFLeft' /\ OrderInv' /\ SameInv'
  BY IStep, TFLeftStep, OrderStep, SameStep DEF IInv
<1>3. IInv /\ OrderInv /\ SameInv => SameHeartbeats
  BY SameImplied
<1> QED BY <1>1, <1>2, <1>3, PTL DEF Spec
=============================================================================
