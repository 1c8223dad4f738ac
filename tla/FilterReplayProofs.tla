------------------------ MODULE FilterReplayProofs ------------------------
(***************************************************************************)
(* Theorems about the trigger filter between the file players and the file *)
(* writer, for any front ends, any time frames with any number of          *)
(* heartbeats, and all options (TLC: run flt).                             *)
(*                                                                         *)
(* The invariant (IInv, at the end) says of every frame on its way what    *)
(* the lemmas before it need: it is a header and sub time frames (IsFrame) *)
(* whose messages are cut as by the split method of the run (IsCut,        *)
(* IsWhole), and its headers say how long they are (AreLong).  That the    *)
(* steps keep it has three parts:                                          *)
(*                                                                         *)
(*   - the filter sends such a frame when it gets one, whatever data it    *)
(*     drops, and the headers of that frame agree (FilteredFrame);         *)
(*   - a player that reads the units of such a frame one after the other   *)
(*     makes its messages again (Recut for a sub time frame, Replayed for  *)
(*     a time frame);                                                      *)
(*   - the file of an original is that of such a frame (PartsAre).         *)
(*                                                                         *)
(* Sizes, cuts and replays are recursive functions.  What such a function  *)
(* goes through is stated of all its values at once (TraceExists), and     *)
(* where a message is among the units by its places (Lies).                *)
(***************************************************************************)
EXTENDS FilterReplay, TLAPS, SequenceTheorems, FiniteSetTheorems

-----------------------------------------------------------------------------
(* Recursive functions: what the loops go through. *)

\* A set of naturals has a least element.
LEMMA LeastNatural ==
  ASSUME NEW S \in SUBSET Nat, S # {}
  PROVE  \E x \in S : \A y \in S : x <= y
<1> DEFINE T == {0 .. n : n \in S}
<1>1. T \subseteq FiniteSubsetsOf(Nat)
  <2>1. ASSUME NEW n \in S PROVE 0 .. n \in SUBSET Nat /\ IsFiniteSet(0 .. n)
    BY FS_Interval
  <2> QED BY <2>1 DEF FiniteSubsetsOf
<1>2. T # {}
  OBVIOUS
<1>3. PICK t \in T : \A u \in T : <<u, t>> \notin StrictSubsetOrdering(Nat)
  <2> HIDE DEF T
  <2> QED BY <1>1, <1>2, FS_StrictSubsetOrderingWellFounded, WFMin
<1>4. PICK x \in S : t = 0 .. x
  BY <1>3
<1>5. ASSUME NEW y \in S, y < x PROVE FALSE
  <2>1. /\ 0 .. y \in T /\ 0 .. y \subseteq t /\ 0 .. y # t
    BY <1>4, <1>5
  <2>2. <<0 .. y, t>> \in StrictSubsetOrdering(Nat)
    BY <2>1, <1>4 DEF StrictSubsetOrdering
  <2> QED BY <2>1, <2>2, <1>3
<1> QED BY <1>5

\* Induction.
LEMMA Induction ==
  ASSUME NEW S, 0 \in S, \A n \in Nat : n \in S => n + 1 \in S
  PROVE  Nat \subseteq S
<1> SUFFICES ASSUME Nat \ S # {} PROVE FALSE
  OBVIOUS
<1>1. PICK x \in Nat \ S : \A y \in Nat \ S : x <= y
  BY LeastNatural
<1>2. x # 0 /\ x - 1 \in Nat
  BY <1>1
<1>3. x - 1 \in S
  BY <1>1, <1>2
<1> QED BY <1>1, <1>2, <1>3

\* A value that is made step by step from the one before it.
IsTrace(h, V, G, b, N) ==
    /\ h \in [0 .. N -> V] /\ h[0] = b
    /\ \A n \in 1 .. N : h[n] = G[<<h[n - 1], n>>]

\* There is one for every step G.
LEMMA TraceExists ==
  ASSUME NEW V, NEW b \in V, NEW N \in Nat, NEW G \in [V \X (1 .. N) -> V]
  PROVE  \E h : IsTrace(h, V, G, b, N)
<1> DEFINE Upto(h, n) == /\ h \in [0 .. n -> V] /\ h[0] = b
                          /\ \A k \in 1 .. n : h[k] = G[<<h[k - 1], k>>]
           S == {n \in Nat : n <= N => \E h : Upto(h, n)}
<1>1. \E h : Upto(h, 0)
  <2> DEFINE h == [k \in 0 .. 0 |-> b]
  <2>1. Upto(h, 0)
    BY 1 .. 0 = {}
  <2> QED BY <2>1
<1>2. ASSUME NEW n \in Nat, n + 1 <= N, NEW g, Upto(g, n) PROVE \E h : Upto(h, n + 1)
  <2> PICK e : e = G[<<g[n], n + 1>>]
    OBVIOUS
  <2>1. e \in V
    <3>1. n + 1 \in 1 .. N /\ n \in 0 .. n
      BY <1>2
    <3>2. g[n] \in V
      BY <1>2, <3>1
    <3>3. <<g[n], n + 1>> \in V \X (1 .. N)
      BY ONLY <3>1, <3>2
    <3> QED BY ONLY <3>3, e = G[<<g[n], n + 1>>], G \in [V \X (1 .. N) -> V]
  <2> DEFINE h == [k \in 0 .. n + 1 |-> IF k = n + 1 THEN e ELSE g[k]]
  <2>2. h[n + 1] = e /\ \A k \in 0 .. n : h[k] = g[k]
    OBVIOUS
  <2>3. h \in [0 .. n + 1 -> V]
    <3>1. \A k \in 0 .. n + 1 : (IF k = n + 1 THEN e ELSE g[k]) \in V
      BY <1>2, <2>1
    <3> QED BY <3>1
  <2> HIDE DEF h
  <2>4. ASSUME NEW k \in 1 .. n + 1 PROVE h[k] = G[<<h[k - 1], k>>]
    <3>1. CASE k = n + 1
      BY <2>2, <3>1
    <3>2. CASE k \in 1 .. n
      BY <1>2, <2>2, <3>2
    <3> QED BY <3>1, <3>2
  <2>5. h[0] = b
    BY <1>2, <2>2
  <2>6. Upto(h, n + 1)
    BY <2>3, <2>4, <2>5
  <2> QED BY <2>6
<1> HIDE DEF Upto
<1>3. 0 \in S /\ \A n \in Nat : n \in S => n + 1 \in S
  BY <1>1, <1>2
<1>4. Nat \subseteq S
  <2> HIDE DEF S
  <2> QED BY <1>3, Induction
<1>5. \E h : Upto(h, N)
  BY <1>4
<1> QED BY <1>5 DEF IsTrace, Upto

\* A function that makes each value from the one before it is such a trace.
LEMMA TraceOf ==
  ASSUME NEW V, NEW b \in V, NEW N \in Nat, NEW G \in [V \X (1 .. N) -> V], NEW f,
         f = [n \in 0 .. N |-> f[n]], f[0] = b,
         \A n \in 1 .. N : f[n - 1] \in V => f[n] = G[<<f[n - 1], n>>]
  PROVE  IsTrace(f, V, G, b, N)
<1> DEFINE S == {n \in Nat : n <= N => f[n] \in V}
<1>1. ASSUME NEW n \in 1 .. N, f[n - 1] \in V PROVE f[n] \in V
  <2>1. <<f[n - 1], n>> \in V \X (1 .. N)
    BY <1>1
  <2> QED BY <1>1, <2>1
<1>2. 0 \in S
  OBVIOUS
<1>3. ASSUME NEW n \in Nat, n \in S PROVE n + 1 \in S
  <2> SUFFICES ASSUME n + 1 <= N PROVE f[n + 1] \in V
    OBVIOUS
  <2>1. n + 1 \in 1 .. N /\ (n + 1) - 1 = n /\ f[n] \in V
    BY <1>3
  <2> QED BY <2>1, <1>1
<1>4. Nat \subseteq S
  <2> HIDE DEF S
  <2> QED BY <1>2, <1>3, Induction
<1>5. \A n \in 0 .. N : f[n] \in V
  BY <1>4
<1>6. f \in [0 .. N -> V]
  BY <1>5
<1>7. ASSUME NEW n \in 1 .. N PROVE f[n] = G[<<f[n - 1], n>>]
  <2>1. n - 1 \in 0 .. N
    OBVIOUS
  <2> QED BY <2>1, <1>5
<1> QED BY <1>6, <1>7 DEF IsTrace

-----------------------------------------------------------------------------
(* Sequences of sequences. *)

\* FlattenSeq puts one after the other.
LEMMA FlatTrace ==
  ASSUME NEW V, NEW s \in Seq(Seq(V))
  PROVE  \E F : /\ F \in [0 .. Len(s) -> Seq(V)] /\ F[0] = <<>>
                /\ \A n \in 1 .. Len(s) : F[n] = F[n - 1] \o s[n]
                /\ FlattenSeq(s) = F[Len(s)]
<1> DEFINE N == Len(s)
           G == [p \in Seq(V) \X (1 .. N) |-> p[1] \o s[p[2]]]
           Fits(f) == f = [i \in 1 .. N |-> IF i = 1 THEN s[i] ELSE f[i - 1] \o s[i]]
<1>1. N \in Nat /\ \A n \in 1 .. N : s[n] \in Seq(V)
  OBVIOUS
<1>2. G \in [Seq(V) \X (1 .. N) -> Seq(V)]
  <2>1. \A p \in Seq(V) \X (1 .. N) : p[1] \o s[p[2]] \in Seq(V)
    BY <1>1
  <2> QED BY <2>1
<1>3. <<>> \in Seq(V)
  OBVIOUS
<1>4. PICK F : IsTrace(F, Seq(V), G, <<>>, N)
  <2> HIDE DEF G, N
  <2> QED BY <1>1, <1>2, <1>3, TraceExists
<1>5. F \in [0 .. N -> Seq(V)] /\ F[0] = <<>> /\ \A n \in 1 .. N : F[n] = F[n - 1] \o s[n]
  <2>1. ASSUME NEW n \in 1 .. N PROVE F[n] = F[n - 1] \o s[n]
    <3>1. F[n - 1] \in Seq(V) /\ F[n] = G[<<F[n - 1], n>>]
      <4>1. n - 1 \in 0 .. N
        BY <1>1
      <4> HIDE DEF G
      <4> QED BY <4>1, <1>4 DEF IsTrace
    <3>2. G[<<F[n - 1], n>>] = <<F[n - 1], n>>[1] \o s[<<F[n - 1], n>>[2]]
      BY <3>1
    <3> QED BY <3>1, <3>2
  <2> QED BY <1>4, <2>1 DEF IsTrace
<1>6. CASE N = 0
  <2>1. s = <<>>
    BY <1>6
  <2> QED BY <1>5, <1>6, <2>1 DEF FlattenSeq
<1>7. CASE N # 0
  <2> DEFINE h == [i \in 1 .. N |-> F[i]]
             g == CHOOSE f : Fits(f)
  <2>1. Fits(h)
    <3>1. ASSUME NEW i \in 1 .. N PROVE F[i] = IF i = 1 THEN s[i] ELSE h[i - 1] \o s[i]
      <4>1. CASE i = 1
        <5>1. F[1] = <<>> \o s[1]
          <6>1. 1 \in 1 .. N /\ 1 - 1 = 0
            BY <4>1
          <6> QED BY <1>5, <6>1
        <5> QED BY <1>1, <4>1, <5>1
      <4>2. CASE i # 1
        <5>1. i - 1 \in 1 .. N
          BY <1>1, <4>2
        <5> QED BY <1>5, <4>2, <5>1
      <4> QED BY <4>1, <4>2
    <3> QED BY <3>1
  <2>2. Fits(g)
    <3> HIDE DEF h, Fits
    <3> QED BY <2>1
  <2>3. FlattenSeq(s) = g[N]
    <3>1. FlattenSeq(s) = (CHOOSE f : Fits(f))[N]
      BY <1>7 DEF FlattenSeq
    <3> QED BY <3>1
  <2> HIDE DEF g
  <2> DEFINE S == {n \in Nat : n + 1 <= N => g[n + 1] = F[n + 1]}
  <2>4. 0 \in S
    <3>1. g[1] = s[1] /\ h[1] = s[1]
      <4>1. 1 \in 1 .. N
        BY <1>1, <1>7
      <4> QED BY <2>1, <2>2, <4>1
    <3>2. h[1] = F[1]
      BY <1>1, <1>7
    <3> QED BY <3>1, <3>2
  <2>5. ASSUME NEW n \in Nat, n \in S PROVE n + 1 \in S
    <3> SUFFICES ASSUME n + 2 <= N PROVE g[n + 2] = F[n + 2]
      OBVIOUS
    <3>1. n + 2 \in 1 .. N /\ n + 2 # 1 /\ (n + 2) - 1 = n + 1
      BY <1>1
    <3>2. g[n + 2] = g[n + 1] \o s[n + 2]
      BY <2>2, <3>1
    <3>3. g[n + 1] = F[n + 1]
      BY <2>5
    <3> QED BY <1>5, <3>1, <3>2, <3>3
  <2>6. Nat \subseteq S
    <3> HIDE DEF S
    <3> QED BY <2>4, <2>5, Induction
  <2>7. N - 1 \in S /\ (N - 1) + 1 = N
    <3>1. N - 1 \in Nat /\ (N - 1) + 1 = N
      BY <1>1, <1>7
    <3> HIDE DEF S
    <3> QED BY <2>6, <3>1
  <2>8. g[N] = F[N]
    BY <2>7
  <2> QED BY <1>5, <2>3, <2>8
<1> QED BY <1>6, <1>7

\* A sequence w is made of the pieces of M, one after the other: piece n has the
\* places P[n - 1] + 1 .. P[n].
Lies(w, M, P) ==
    /\ P \in [0 .. Len(M) -> Nat] /\ P[0] = 0 /\ Len(w) = P[Len(M)]
    /\ \A n \in 1 .. Len(M) : P[n] = P[n - 1] + Len(M[n])
    /\ \A n \in 1 .. Len(M) : \A k \in 1 .. Len(M[n]) : w[P[n - 1] + k] = M[n][k]

Spells(w, M) == \E P : Lies(w, M, P)

\* The places grow.
LEMMA PlacesGrow ==
  ASSUME NEW V, NEW M \in Seq(Seq(V)), NEW w \in Seq(V), NEW P, Lies(w, M, P)
  PROVE  \A i, j \in 0 .. Len(M) : i <= j => P[i] <= P[j]
<1> SUFFICES ASSUME NEW i \in 0 .. Len(M) PROVE \A j \in 0 .. Len(M) : i <= j => P[i] <= P[j]
  OBVIOUS
<1>0. \A n \in 0 .. Len(M) : P[n] \in Nat
  BY DEF Lies
<1> DEFINE S == {n \in Nat : i + n <= Len(M) => P[i] <= P[i + n]}
<1>1. 0 \in S
  <2>1. i + 0 = i /\ P[i] \in Nat
    BY <1>0
  <2> QED BY <2>1
<1>2. ASSUME NEW n \in Nat, n \in S PROVE n + 1 \in S
  <2> SUFFICES ASSUME i + (n + 1) <= Len(M) PROVE P[i] <= P[i + (n + 1)]
    OBVIOUS
  <2>1. i + (n + 1) \in 1 .. Len(M) /\ (i + (n + 1)) - 1 = i + n /\ i + n \in 0 .. Len(M)
    OBVIOUS
  <2>2. P[i + (n + 1)] = P[i + n] + Len(M[i + (n + 1)])
    BY <2>1 DEF Lies
  <2>3. P[i] <= P[i + n] /\ Len(M[i + (n + 1)]) \in Nat /\ P[i] \in Nat /\ P[i + n] \in Nat
    BY <1>0, <1>2, <2>1
  <2> QED BY ONLY <2>2, <2>3
<1>3. Nat \subseteq S
  <2> HIDE DEF S
  <2> QED BY <1>1, <1>2, Induction
<1>4. ASSUME NEW j \in 0 .. Len(M), i <= j PROVE P[i] <= P[j]
  <2>1. j - i \in Nat /\ i + (j - i) = j
    BY <1>4
  <2>2. j - i \in S
    BY <1>3, <2>1
  <2> QED BY <2>1, <2>2
<1> QED BY <1>4

\* Every place is in a piece.
InPiece(q, M, P) == \E n \in 1 .. Len(M) : \E k \in 1 .. Len(M[n]) : q = P[n - 1] + k

\* No place is in none of them.
LEMMA PlacesCover ==
  ASSUME NEW V, NEW M \in Seq(Seq(V)), NEW w \in Seq(V), NEW P, Lies(w, M, P),
         NEW q \in 1 .. Len(w)
  PROVE  InPiece(q, M, P)
<1> DEFINE S == {n \in Nat : n <= Len(M) /\ q <= P[n]}
<1>1. Len(M) \in S /\ Len(M) \in Nat
  BY DEF Lies
<1>2. PICK m \in S : \A n \in S : m <= n
  <2>1. S \in SUBSET Nat /\ S # {}
    BY <1>1
  <2> HIDE DEF S
  <2> QED BY <2>1, LeastNatural
<1>3. m # 0
  BY <1>2 DEF Lies
<1>4. m \in 1 .. Len(M) /\ m - 1 \in 0 .. Len(M) /\ m - 1 \in Nat /\ m - 1 \notin S
  BY <1>1, <1>2, <1>3
<1>5. P[m - 1] < q /\ P[m - 1] \in Nat /\ Len(M[m]) \in Nat /\ P[m] = P[m - 1] + Len(M[m])
  BY <1>4, SMTT(30) DEF Lies
<1>6. q - P[m - 1] \in 1 .. Len(M[m]) /\ q = P[m - 1] + (q - P[m - 1])
  <2>1. q \in Nat /\ q <= P[m]
    BY <1>2
  <2> PICK a : a = P[m - 1]
    OBVIOUS
  <2> PICK b : b = Len(M[m])
    OBVIOUS
  <2>2. a \in Nat /\ b \in Nat /\ a < q /\ q <= a + b
    BY <1>5, <2>1
  <2>3. q - a \in 1 .. b /\ q = a + (q - a)
    BY ONLY q \in Nat, <2>2
  <2> QED BY <2>3
<1> QED BY <1>4, <1>6 DEF InPiece

\* A sequence is determined by its pieces.
LEMMA SpellsOne ==
  ASSUME NEW V, NEW M \in Seq(Seq(V)), NEW v \in Seq(V), NEW w \in Seq(V), NEW P,
         Lies(v, M, P), Lies(w, M, P)
  PROVE  v = w
<1>1. Len(v) = Len(w)
  BY DEF Lies
<1>2. ASSUME NEW q \in 1 .. Len(v) PROVE v[q] = w[q]
  <2>1. PICK n \in 1 .. Len(M) : \E k \in 1 .. Len(M[n]) : q = P[n - 1] + k
    <3>1. InPiece(q, M, P)
      BY PlacesCover
    <3> QED BY <3>1 DEF InPiece
  <2> QED BY <2>1 DEF Lies
<1> QED BY <1>1, <1>2, SeqEqual

\* The places are determined by the pieces, too.
LEMMA PlacesAreOne ==
  ASSUME NEW V, NEW M \in Seq(Seq(V)), NEW v, NEW w, NEW P, NEW Q, Lies(v, M, P), Lies(w, M, Q)
  PROVE  P = Q
<1> DEFINE S == {n \in Nat : n <= Len(M) => P[n] = Q[n]}
<1>1. 0 \in S
  BY DEF Lies
<1>2. ASSUME NEW n \in Nat, n \in S PROVE n + 1 \in S
  <2> SUFFICES ASSUME n + 1 <= Len(M) PROVE P[n + 1] = Q[n + 1]
    OBVIOUS
  <2>1. n + 1 \in 1 .. Len(M) /\ (n + 1) - 1 = n
    OBVIOUS
  <2>2. P[n + 1] = P[n] + Len(M[n + 1]) /\ Q[n + 1] = Q[n] + Len(M[n + 1])
    BY <2>1 DEF Lies
  <2> QED BY <1>2, <2>2
<1>3. Nat \subseteq S
  <2> HIDE DEF S
  <2> QED BY <1>1, <1>2, Induction
<1>4. \A n \in 0 .. Len(M) : P[n] = Q[n]
  BY <1>3
<1> QED BY <1>4 DEF Lies

\* FlattenSeq puts the pieces where they belong.
LEMMA LiesFlat ==
  ASSUME NEW V, NEW s \in Seq(Seq(V))
  PROVE  FlattenSeq(s) \in Seq(V) /\ Spells(FlattenSeq(s), s)
<1> PICK F : /\ F \in [0 .. Len(s) -> Seq(V)] /\ F[0] = <<>>
             /\ \A n \in 1 .. Len(s) : F[n] = F[n - 1] \o s[n]
             /\ FlattenSeq(s) = F[Len(s)]
  BY FlatTrace
<1> DEFINE P == [n \in 0 .. Len(s) |-> Len(F[n])]
           Holds(m) == \A n \in 1 .. m : \A k \in 1 .. Len(s[n]) : F[m][P[n - 1] + k] = s[n][k]
           S == {m \in Nat : m <= Len(s) => Holds(m)}
<1>1. \A n \in 0 .. Len(s) : P[n] = Len(F[n]) /\ P[n] \in Nat
  OBVIOUS
<1>2. P \in [0 .. Len(s) -> Nat] /\ P[0] = 0
  BY <1>1
<1> HIDE DEF P
<1>3. ASSUME NEW n \in 1 .. Len(s)
      PROVE  /\ P[n] = P[n - 1] + Len(s[n]) /\ Len(s[n]) \in Nat
             /\ \A q \in 1 .. P[n - 1] : F[n][q] = F[n - 1][q]
             /\ \A k \in 1 .. Len(s[n]) : F[n][P[n - 1] + k] = s[n][k]
  <2>0. n - 1 \in 0 .. Len(s) /\ n \in 0 .. Len(s)
    OBVIOUS
  <2>1. F[n - 1] \in Seq(V) /\ s[n] \in Seq(V) /\ F[n] = F[n - 1] \o s[n]
    <3>1. s[n] \in Seq(V)
      BY ONLY s \in Seq(Seq(V)), n \in 1 .. Len(s)
    <3>2. F[n - 1] \in Seq(V)
      BY ONLY F \in [0 .. Len(s) -> Seq(V)], <2>0
    <3> QED BY <3>1, <3>2
  <2>2. P[n] = Len(F[n]) /\ P[n - 1] = Len(F[n - 1])
    BY <1>1, <2>0
  <2> PICK a : a = F[n - 1]
    OBVIOUS
  <2> PICK b : b = s[n]
    OBVIOUS
  <2> PICK c : c = a \o b
    OBVIOUS
  <2>3. a \in Seq(V) /\ b \in Seq(V)
    BY <2>1
  <2>4. /\ Len(c) = Len(a) + Len(b) /\ Len(b) \in Nat /\ Len(a) \in Nat
        /\ \A q \in 1 .. Len(a) : c[q] = a[q]
        /\ \A k \in 1 .. Len(b) : c[Len(a) + k] = b[k]
    BY ONLY <2>3, c = a \o b
  <2>5. c = F[n]
    BY <2>1
  <2> QED BY ONLY <2>2, <2>4, <2>5, a = F[n - 1], b = s[n]
<1>4. \A m \in Nat : m <= Len(s) => \A n \in 1 .. m : P[n - 1] \in Nat /\ P[n - 1] + Len(s[n]) <= P[m]
  <2> DEFINE R == {m \in Nat : m <= Len(s) => \A n \in 1 .. m : P[n - 1] + Len(s[n]) <= P[m]}
  <2>1. 0 \in R
    OBVIOUS
  <2>2. ASSUME NEW m \in Nat, m \in R PROVE m + 1 \in R
    <3> SUFFICES ASSUME m + 1 <= Len(s), NEW n \in 1 .. m + 1 PROVE P[n - 1] + Len(s[n]) <= P[m + 1]
      OBVIOUS
    <3>1. m + 1 \in 1 .. Len(s) /\ (m + 1) - 1 = m /\ m \in 0 .. Len(s)
      OBVIOUS
    <3>2. P[m + 1] = P[m] + Len(s[m + 1]) /\ Len(s[m + 1]) \in Nat /\ P[m] \in Nat
      BY <1>1, <1>3, <3>1
    <3>3. CASE n = m + 1
      BY <3>1, <3>2, <3>3
    <3>4. CASE n \in 1 .. m
      <4>1. P[n - 1] + Len(s[n]) <= P[m] /\ P[n - 1] \in Nat /\ Len(s[n]) \in Nat
        <5>1. n \in 1 .. Len(s) /\ n - 1 \in 0 .. Len(s)
          BY <3>4
        <5> QED BY <1>1, <1>3, <2>2, <3>4, <5>1
      <4> QED BY <3>2, <4>1
    <3> QED BY <3>3, <3>4
  <2>3. Nat \subseteq R
    <3> HIDE DEF R
    <3> QED BY <2>1, <2>2, Induction
  <2>4. ASSUME NEW m \in Nat, m <= Len(s), NEW n \in 1 .. m PROVE P[n - 1] \in Nat
    <3>1. n - 1 \in 0 .. Len(s)
      BY <2>4
    <3> QED BY <1>1, <3>1
  <2> QED BY <2>3, <2>4
<1>5. 0 \in S
  OBVIOUS
<1>6. ASSUME NEW m \in Nat, m \in S PROVE m + 1 \in S
  <2> SUFFICES ASSUME m + 1 <= Len(s), NEW n \in 1 .. m + 1, NEW k \in 1 .. Len(s[n])
               PROVE  F[m + 1][P[n - 1] + k] = s[n][k]
    BY SMTT(30)
  <2>1. m + 1 \in 1 .. Len(s) /\ (m + 1) - 1 = m
    OBVIOUS
  <2>2. CASE n = m + 1
    BY <1>3, <2>1, <2>2
  <2>3. CASE n \in 1 .. m
    <3>1. P[n - 1] \in Nat /\ P[n - 1] + Len(s[n]) <= P[m] /\ Len(s[n]) \in Nat /\ P[m] \in Nat
      <4>1. n \in 1 .. Len(s) /\ m \in 0 .. Len(s)
        BY <2>3
      <4> QED BY <1>1, <1>3, <1>4, <2>3, <4>1
    <3>2. P[n - 1] + k \in 1 .. P[m]
      BY ONLY <3>1, k \in 1 .. Len(s[n])
    <3>3. F[m][P[n - 1] + k] = s[n][k]
      BY <1>6, <2>3
    <3> QED BY <1>3, <2>1, <3>2, <3>3
  <2> QED BY <2>2, <2>3
<1>7. Nat \subseteq S
  <2> HIDE DEF S
  <2> QED BY <1>5, <1>6, Induction
<1>8. Holds(Len(s))
  <2>1. Len(s) \in Nat
    OBVIOUS
  <2> HIDE DEF Holds
  <2> QED BY <1>7, <2>1
<1>9. Lies(FlattenSeq(s), s, P)
  <2>1. FlattenSeq(s) = F[Len(s)] /\ Len(FlattenSeq(s)) = P[Len(s)]
    BY <1>1
  <2> QED BY <1>2, <1>3, <1>8, <2>1, ZenonT(40) DEF Lies
<1>10. FlattenSeq(s) \in Seq(V)
  OBVIOUS
<1> QED BY <1>9, <1>10 DEF Spells

\* A stretch of the pieces.
LEMMA LiesSub ==
  ASSUME NEW V, NEW M \in Seq(Seq(V)), NEW w \in Seq(V), NEW P, Lies(w, M, P),
         NEW i \in 0 .. Len(M), NEW j \in i .. Len(M)
  PROVE  /\ SubSeq(w, P[i] + 1, P[j]) \in Seq(V) /\ SubSeq(M, i + 1, j) \in Seq(Seq(V))
         /\ Spells(SubSeq(w, P[i] + 1, P[j]), SubSeq(M, i + 1, j))
<1>1. /\ j \in 0 .. Len(M) /\ P[i] \in Nat /\ P[j] \in Nat /\ P[i] <= P[j] /\ P[j] <= Len(w)
      /\ Len(w) \in Nat
  <2>1. j \in 0 .. Len(M) /\ Len(M) \in 0 .. Len(M) /\ j <= Len(M) /\ i <= j
    OBVIOUS
  <2>2. P[i] <= P[j] /\ P[j] <= P[Len(M)]
    BY <2>1, PlacesGrow
  <2> QED BY <2>1, <2>2 DEF Lies
<1> PICK a : a = P[i]
  OBVIOUS
<1> PICK b : b = P[j]
  OBVIOUS
<1> PICK v : v = SubSeq(w, a + 1, b)
  OBVIOUS
<1> PICK K : K = SubSeq(M, i + 1, j)
  OBVIOUS
<1>2. v \in Seq(V) /\ Len(v) = b - a /\ \A q \in 1 .. b - a : v[q] = w[a + q]
  <2>1. a \in Nat /\ b \in Nat /\ a <= b /\ b <= Len(w)
    BY <1>1
  <2>2. SubSeq(w, a + 1, b) \in Seq(V) /\ Len(SubSeq(w, a + 1, b)) = b - a
    BY ONLY <2>1, w \in Seq(V)
  <2>3. \A q \in 1 .. b - a : SubSeq(w, a + 1, b)[q] = w[a + q]
    BY ONLY <2>1, w \in Seq(V)
  <2> QED BY <2>2, <2>3
<1>3. K \in Seq(Seq(V)) /\ Len(K) = j - i /\ \A n \in 1 .. j - i : K[n] = M[i + n]
  <2> PICK U : U = Seq(V)
    OBVIOUS
  <2>1. i \in Nat /\ j \in Nat /\ i <= j /\ j <= Len(M)
    OBVIOUS
  <2>2. SubSeq(M, i + 1, j) \in Seq(U) /\ Len(SubSeq(M, i + 1, j)) = j - i
    BY ONLY <2>1, M \in Seq(U), U = Seq(V)
  <2>3. \A n \in 1 .. j - i : SubSeq(M, i + 1, j)[n] = M[i + n]
    BY ONLY <2>1, M \in Seq(U), U = Seq(V)
  <2> QED BY <2>2, <2>3
<1> DEFINE Q == [n \in 0 .. j - i |-> P[i + n] - a]
<1>4. ASSUME NEW n \in 0 .. j - i
      PROVE  Q[n] = P[i + n] - a /\ Q[n] \in Nat /\ P[i + n] \in Nat /\ i + n \in 0 .. Len(M) /\ P[i + n] <= b
  <2>1. i + n \in 0 .. Len(M) /\ i <= i + n /\ i + n <= j
    OBVIOUS
  <2>2. P[i] <= P[i + n] /\ P[i + n] <= P[j]
    BY <1>1, <2>1, PlacesGrow
  <2>3. P[i + n] \in Nat
    BY <2>1 DEF Lies
  <2> QED BY <1>1, <2>1, <2>2, <2>3
<1>5. Q \in [0 .. j - i -> Nat]
  BY <1>4
<1> HIDE DEF Q
<1>6. Q[0] = 0 /\ Q[j - i] = b - a
  <2>1. 0 \in 0 .. j - i /\ j - i \in 0 .. j - i /\ i + (j - i) = j /\ i + 0 = i
    OBVIOUS
  <2> QED BY <1>1, <1>4, <2>1
<1>7. ASSUME NEW n \in 1 .. j - i
      PROVE  /\ Q[n] = Q[n - 1] + Len(K[n])
             /\ \A k \in 1 .. Len(K[n]) : v[Q[n - 1] + k] = K[n][k]
  <2>1. n \in 0 .. j - i /\ n - 1 \in 0 .. j - i /\ i + n \in 1 .. Len(M) /\ (i + n) - 1 = i + (n - 1)
    OBVIOUS
  <2>2. P[i + n] = P[i + (n - 1)] + Len(M[i + n])
        /\ \A k \in 1 .. Len(M[i + n]) : w[P[i + (n - 1)] + k] = M[i + n][k]
    BY <2>1 DEF Lies
  <2>3. K[n] = M[i + n] /\ Len(M[i + n]) \in Nat
    <3>1. M[i + n] \in Seq(V)
      BY <2>1
    <3> QED BY <1>3, <3>1
  <2>4. Q[n] = P[i + n] - a /\ Q[n - 1] = P[i + (n - 1)] - a /\ P[i + (n - 1)] \in Nat /\ P[i + n] <= b
        /\ Q[n - 1] \in Nat /\ a \in Nat /\ b \in Nat
    BY <1>1, <1>4, <2>1
  <2> PICK p0 : p0 = P[i + (n - 1)]
    OBVIOUS
  <2> PICK l : l = Len(M[i + n])
    OBVIOUS
  <2> PICK q0 : q0 = Q[n - 1]
    OBVIOUS
  <2> PICK p1 : p1 = P[i + n]
    OBVIOUS
  <2> PICK q1 : q1 = Q[n]
    OBVIOUS
  <2>7. /\ p1 = p0 + l /\ q1 = p1 - a /\ q0 = p0 - a /\ p0 \in Nat /\ p1 <= b /\ q0 \in Nat
        /\ a \in Nat /\ b \in Nat /\ l \in Nat /\ l = Len(K[n])
    BY <2>2, <2>3, <2>4
  <2>8. q1 = q0 + l /\ \A k \in 1 .. l : q0 + k \in 1 .. b - a /\ a + (q0 + k) = p0 + k
    BY ONLY <2>7
  <2>5. Q[n] = Q[n - 1] + Len(K[n])
    BY <2>7, <2>8
  <2>6. ASSUME NEW k \in 1 .. Len(K[n]) PROVE v[Q[n - 1] + k] = K[n][k]
    <3>1. Q[n - 1] + k \in 1 .. b - a /\ a + (Q[n - 1] + k) = P[i + (n - 1)] + k
      BY <2>7, <2>8
    <3> QED BY <1>2, <2>2, <2>3, <3>1
  <2> QED BY <2>5, <2>6
<1>8. Lies(v, K, Q)
  <2> PICK d : d = j - i
    OBVIOUS
  <2>1. Len(K) = d /\ Q \in [0 .. d -> Nat] /\ Q[0] = 0 /\ Len(v) = Q[d]
    BY <1>2, <1>3, <1>5, <1>6
  <2>2. \A n \in 1 .. d : Q[n] = Q[n - 1] + Len(K[n])
    BY <1>7
  <2>3. \A n \in 1 .. d : \A k \in 1 .. Len(K[n]) : v[Q[n - 1] + k] = K[n][k]
    BY <1>7
  <2> QED BY ONLY <2>1, <2>2, <2>3 DEF Lies
<1> QED BY <1>2, <1>3, <1>8 DEF Spells

-----------------------------------------------------------------------------
(* Choosing from a sequence. *)

\* How many of 1 .. n are chosen.
Counts(K, N, chosen) ==
    /\ K \in [0 .. N -> Nat] /\ K[0] = 0
    /\ \A n \in 1 .. N : K[n] = IF n \in chosen THEN K[n - 1] + 1 ELSE K[n - 1]

\* The numbers grow by one with each that is chosen.
LEMMA CountsGrow ==
  ASSUME NEW N \in Nat, NEW chosen, NEW K, Counts(K, N, chosen)
  PROVE  /\ \A i, j \in 0 .. N : i <= j => K[i] <= K[j]
         /\ \A i \in 0 .. N, j \in chosen : j \in 1 .. N /\ i < j => K[i] < K[j]
         /\ \A j \in chosen : j \in 1 .. N => K[j] \in 1 .. K[N]
<1>0. \A n \in 0 .. N : K[n] \in Nat
  BY DEF Counts
<1>1. ASSUME NEW i \in 0 .. N PROVE \A j \in 0 .. N : i <= j => K[i] <= K[j]
  <2> DEFINE S == {n \in Nat : i + n <= N => K[i] <= K[i + n]}
  <2>1. 0 \in S
    <3>1. i + 0 = i /\ K[i] \in Nat
      BY <1>0
    <3> QED BY <3>1
  <2>2. ASSUME NEW n \in Nat, n \in S PROVE n + 1 \in S
    <3> SUFFICES ASSUME i + (n + 1) <= N PROVE K[i] <= K[i + (n + 1)]
      OBVIOUS
    <3>1. i + (n + 1) \in 1 .. N /\ (i + (n + 1)) - 1 = i + n /\ i + n \in 0 .. N
      OBVIOUS
    <3>2. K[i + (n + 1)] = K[i + n] + 1 \/ K[i + (n + 1)] = K[i + n]
      BY <3>1 DEF Counts
    <3>3. K[i] <= K[i + n] /\ K[i] \in Nat /\ K[i + n] \in Nat
      BY <1>0, <2>2, <3>1
    <3> QED BY ONLY <3>2, <3>3
  <2>3. Nat \subseteq S
    <3> HIDE DEF S
    <3> QED BY <2>1, <2>2, Induction
  <2> SUFFICES ASSUME NEW j \in 0 .. N, i <= j PROVE K[i] <= K[j]
    OBVIOUS
  <2>4. j - i \in Nat /\ i + (j - i) = j
    OBVIOUS
  <2>5. j - i \in S
    BY <2>3, <2>4
  <2> QED BY <2>4, <2>5
<1>2. ASSUME NEW i \in 0 .. N, NEW j \in chosen, j \in 1 .. N, i < j PROVE K[i] < K[j]
  <2>1. j - 1 \in 0 .. N /\ i <= j - 1
    BY <1>2
  <2>2. K[i] <= K[j - 1] /\ K[j] = K[j - 1] + 1 /\ K[i] \in Nat /\ K[j - 1] \in Nat
    BY <1>0, <1>1, <1>2, <2>1 DEF Counts
  <2> QED BY ONLY <2>2
<1>3. ASSUME NEW j \in chosen, j \in 1 .. N PROVE K[j] \in 1 .. K[N]
  <2>1. 0 \in 0 .. N /\ 0 < j /\ K[0] = 0 /\ j \in 0 .. N /\ N \in 0 .. N /\ j <= N
    BY <1>3 DEF Counts
  <2>2. K[0] < K[j] /\ K[j] <= K[N] /\ K[j] \in Nat /\ K[N] \in Nat
    BY <1>0, <1>1, <1>2, <1>3, <2>1
  <2> QED BY ONLY <2>1, <2>2
<1> QED BY <1>1, <1>2, <1>3

\* The chosen ones, in order.
IsChoice(out, N, chosen, H, K) ==
    /\ Counts(K, N, chosen) /\ Len(out) = K[N]
    /\ \A n \in 1 .. N : n \in chosen => out[K[n]] = H[n]
    /\ \A q \in 1 .. K[N] : \E n \in chosen : n \in 1 .. N /\ K[n] = q

\* The chosen ones are a sequence.
LEMMA Chosen ==
  ASSUME NEW V, NEW N \in Nat, NEW chosen, NEW H, \A i \in 1 .. N : i \in chosen => H[i] \in V, NEW s,
         s = [i \in 1 .. N |-> IF i \in chosen THEN <<H[i]>> ELSE <<>>]
  PROVE  FlattenSeq(s) \in Seq(V) /\ \E K : IsChoice(FlattenSeq(s), N, chosen, H, K)
<1>1. \A i \in 1 .. N : (IF i \in chosen THEN <<H[i]>> ELSE <<>>) \in Seq(V)
  OBVIOUS
<1>2. s \in Seq(Seq(V)) /\ Len(s) = N
  <2> PICK W : W = Seq(V)
    OBVIOUS
  <2>1. \A i \in 1 .. N : (IF i \in chosen THEN <<H[i]>> ELSE <<>>) \in W
    BY <1>1
  <2>2. [i \in 1 .. N |-> IF i \in chosen THEN <<H[i]>> ELSE <<>>] \in Seq(W)
    BY ONLY N \in Nat, <2>1
  <2>3. s \in Seq(W)
    BY <2>2
  <2>4. DOMAIN s = 1 .. N
    OBVIOUS
  <2>5. Len(s) = N
    BY ONLY <2>3, <2>4, N \in Nat
  <2> QED BY <2>3, <2>5
<1>3. FlattenSeq(s) \in Seq(V) /\ Spells(FlattenSeq(s), s)
  BY <1>2, LiesFlat
<1> PICK out : out = FlattenSeq(s)
  OBVIOUS
<1>4. out \in Seq(V) /\ Spells(out, s)
  BY <1>3
<1>5. PICK K : Lies(out, s, K)
  BY <1>4 DEF Spells
<1>6. ASSUME NEW n \in 1 .. N
      PROVE  /\ n \in chosen => Len(s[n]) = 1 /\ s[n][1] = H[n]
             /\ n \notin chosen => Len(s[n]) = 0
  <2>1. s[n] = IF n \in chosen THEN <<H[n]>> ELSE <<>>
    OBVIOUS
  <2>2. Len(<<H[n]>>) = 1 /\ <<H[n]>>[1] = H[n] /\ Len(<<>>) = 0
    OBVIOUS
  <2> QED BY ONLY <2>1, <2>2
<1>7. Counts(K, N, chosen)
  <2>1. K \in [0 .. N -> Nat] /\ K[0] = 0
    BY <1>2, <1>5 DEF Lies
  <2>2. ASSUME NEW n \in 1 .. N PROVE K[n] = IF n \in chosen THEN K[n - 1] + 1 ELSE K[n - 1]
    <3>1. K[n] = K[n - 1] + Len(s[n])
      BY <1>2, <1>5 DEF Lies
    <3>2. n - 1 \in 0 .. N /\ K[n - 1] \in Nat
      BY <2>1
    <3> QED BY <3>1, <3>2, <1>6
  <2> QED BY <2>1, <2>2 DEF Counts
<1>8. ASSUME NEW n \in 1 .. N, n \in chosen PROVE out[K[n]] = H[n]
  <2>1. Len(s[n]) = 1 /\ s[n][1] = H[n]
    BY <1>6, <1>8
  <2>2. out[K[n - 1] + 1] = s[n][1]
    <3>1. \A k \in 1 .. Len(s[n]) : out[K[n - 1] + k] = s[n][k]
      BY <1>2, <1>5, ZenonT(40) DEF Lies
    <3> QED BY <2>1, <3>1
  <2>3. K[n] = K[n - 1] + 1
    BY <1>7, <1>8 DEF Counts
  <2> QED BY <2>1, <2>2, <2>3
<1>9. Len(out) = K[N]
  BY <1>2, <1>5 DEF Lies
<1>10. ASSUME NEW q \in 1 .. K[N] PROVE \E n \in chosen : n \in 1 .. N /\ K[n] = q
  <2>1. InPiece(q, s, K)
    BY <1>2, <1>4, <1>5, <1>9, PlacesCover
  <2>2. PICK n \in 1 .. N : \E k \in 1 .. Len(s[n]) : q = K[n - 1] + k
    BY <2>1, <1>2 DEF InPiece
  <2>3. n \in chosen
    BY <2>2, <1>6
  <2>4. q = K[n - 1] + 1
    BY <2>2, <2>3, <1>6
  <2> QED BY <2>3, <2>4, <1>7 DEF Counts
<1> QED BY <1>4, <1>7, <1>8, <1>9, <1>10 DEF IsChoice

-----------------------------------------------------------------------------
(* Size. *)

Sums(z, parts, is) ==
    /\ z \in [0 .. Len(parts) -> Nat] /\ z[0] = 0
    /\ \A n \in 1 .. Len(parts) : z[n] = z[n - 1] + IF n \in is THEN Len(parts[n]) ELSE 0
    /\ Size(parts, is) = z[Len(parts)]

\* Size is the last of its sums.
LEMMA SizeSums ==
  ASSUME NEW V, NEW parts \in Seq(Seq(V)), NEW is
  PROVE  \E z : Sums(z, parts, is)
<1> DEFINE N == Len(parts)
           G == [p \in Nat \X (1 .. N) |-> p[1] + IF p[2] \in is THEN Len(parts[p[2]]) ELSE 0]
           Fits(f) == f = [n \in 0 .. N |->
                            IF n = 0 THEN 0 ELSE f[n - 1] + IF n \in is THEN Len(parts[n]) ELSE 0]
<1>1. N \in Nat /\ \A n \in 1 .. N : Len(parts[n]) \in Nat
  <2>1. \A n \in 1 .. N : parts[n] \in Seq(V)
    OBVIOUS
  <2> QED BY <2>1
<1>2. G \in [Nat \X (1 .. N) -> Nat]
  BY <1>1
<1>3. \A a \in Nat, n \in 1 .. N : G[<<a, n>>] = a + IF n \in is THEN Len(parts[n]) ELSE 0
  <2>1. \A a \in Nat, n \in 1 .. N : <<a, n>> \in Nat \X (1 .. N) /\ <<a, n>>[1] = a /\ <<a, n>>[2] = n
    OBVIOUS
  <2> QED BY <2>1, Zenon
<1> HIDE DEF G
<1>4. PICK h : IsTrace(h, Nat, G, 0, N)
  BY <1>1, <1>2, TraceExists
<1>5. Fits(h)
  <2>1. h = [n \in 0 .. N |-> h[n]]
    BY <1>4 DEF IsTrace
  <2>2. ASSUME NEW n \in 0 .. N
        PROVE  h[n] = IF n = 0 THEN 0 ELSE h[n - 1] + IF n \in is THEN Len(parts[n]) ELSE 0
    <3>1. CASE n = 0
      BY <3>1, <1>4 DEF IsTrace
    <3>2. CASE n # 0
      <4>1. n \in 1 .. N /\ n - 1 \in 0 .. N
        BY <3>2
      <4>2. h[n] = G[<<h[n - 1], n>>] /\ h[n - 1] \in Nat
        BY <1>4, <4>1 DEF IsTrace
      <4> QED BY <1>3, <3>2, <4>1, <4>2
    <3> QED BY <3>1, <3>2
  <2> QED BY <2>1, <2>2
<1> DEFINE g == CHOOSE f : Fits(f)
<1>6. Fits(g)
  BY <1>5
<1>7. Size(parts, is) = g[N]
  BY DEF Size
<1> HIDE DEF g
<1>8. IsTrace(g, Nat, G, 0, N)
  <2>1. g = [n \in 0 .. N |-> g[n]]
    BY <1>6
  <2>2. g[0] = 0
    BY <1>6, <1>1
  <2>3. ASSUME NEW n \in 1 .. N, g[n - 1] \in Nat PROVE g[n] = G[<<g[n - 1], n>>]
    <3>1. n \in 0 .. N /\ n # 0
      OBVIOUS
    <3>2. g[n] = g[n - 1] + IF n \in is THEN Len(parts[n]) ELSE 0
      BY <1>6, <3>1
    <3> QED BY <3>2, <2>3, <1>3
  <2> QED BY <1>1, <1>2, <2>1, <2>2, <2>3, TraceOf
<1>9. ASSUME NEW n \in 1 .. N PROVE g[n] = g[n - 1] + IF n \in is THEN Len(parts[n]) ELSE 0
  <2>1. n \in 0 .. N /\ n # 0
    OBVIOUS
  <2> QED BY <1>6, <2>1
<1>10. Sums(g, parts, is)
  <2>1. g \in [0 .. N -> Nat] /\ g[0] = 0
    BY <1>8 DEF IsTrace
  <2> HIDE DEF Fits
  <2> QED BY <2>1, <1>7, <1>9 DEF Sums
<1> QED BY <1>10

\* Only the pieces in is count.
LEMMA SizeSame ==
  ASSUME NEW V, NEW parts \in Seq(Seq(V)), NEW is, NEW js,
         \A n \in 1 .. Len(parts) : n \in is <=> n \in js
  PROVE  Size(parts, is) = Size(parts, js) /\ Size(parts, is) \in Nat
<1>1. PICK y : Sums(y, parts, is)
  BY SizeSums
<1>2. PICK z : Sums(z, parts, js)
  BY SizeSums
<1> DEFINE S == {n \in Nat : n <= Len(parts) => y[n] = z[n]}
<1>3. 0 \in S
  BY <1>1, <1>2 DEF Sums
<1>4. ASSUME NEW n \in Nat, n \in S PROVE n + 1 \in S
  <2> SUFFICES ASSUME n + 1 <= Len(parts) PROVE y[n + 1] = z[n + 1]
    OBVIOUS
  <2>1. n + 1 \in 1 .. Len(parts) /\ (n + 1) - 1 = n
    OBVIOUS
  <2>2. /\ y[n + 1] = y[n] + IF n + 1 \in is THEN Len(parts[n + 1]) ELSE 0
        /\ z[n + 1] = z[n] + IF n + 1 \in js THEN Len(parts[n + 1]) ELSE 0
    BY <1>1, <1>2, <2>1 DEF Sums
  <2>3. y[n] = z[n] /\ (n + 1 \in is <=> n + 1 \in js)
    BY <1>4, <2>1
  <2> QED BY ONLY <2>2, <2>3
<1>5. Nat \subseteq S
  <2> HIDE DEF S
  <2> QED BY <1>3, <1>4, Induction
<1>6. y[Len(parts)] = z[Len(parts)]
  BY <1>5
<1>7. Len(parts) \in 0 .. Len(parts)
  OBVIOUS
<1> QED BY <1>1, <1>2, <1>6, <1>7 DEF Sums

\* The size of a stretch of the pieces.
LEMMA SizeRange ==
  ASSUME NEW V, NEW parts \in Seq(Seq(V)), NEW w, NEW P, Lies(w, parts, P),
         NEW a \in 0 .. Len(parts), NEW b \in a .. Len(parts)
  PROVE  Size(parts, a + 1 .. b) = P[b] - P[a]
<1>1. PICK z : Sums(z, parts, a + 1 .. b)
  BY SizeSums
<1>0. a \in Nat /\ b \in Nat /\ a <= b /\ b <= Len(parts) /\ Len(parts) \in Nat
  OBVIOUS
<1>2. \A n \in 0 .. Len(parts) : P[n] \in Nat
  BY DEF Lies
<1>3. ASSUME NEW n \in Nat, n + 1 <= Len(parts)
      PROVE  /\ z[n + 1] = z[n] + IF n + 1 \in a + 1 .. b THEN Len(parts[n + 1]) ELSE 0
             /\ P[n + 1] = P[n] + Len(parts[n + 1])
             /\ Len(parts[n + 1]) \in Nat /\ z[n] \in Nat /\ P[n] \in Nat
  <2>1. n + 1 \in 1 .. Len(parts) /\ (n + 1) - 1 = n /\ n \in 0 .. Len(parts)
    BY <1>3
  <2>2. parts[n + 1] \in Seq(V)
    BY <2>1
  <2>3. Len(parts[n + 1]) \in Nat
    BY <2>2
  <2>4. /\ z[n + 1] = z[n] + IF n + 1 \in a + 1 .. b THEN Len(parts[n + 1]) ELSE 0
        /\ z[n] \in Nat
    BY <1>1, <2>1 DEF Sums
  <2>5. P[n + 1] = P[n] + Len(parts[n + 1])
    BY <2>1 DEF Lies
  <2> QED BY <1>2, <2>1, <2>3, <2>4, <2>5
<1> DEFINE Upto(n) == /\ n <= a => z[n] = 0
                      /\ a <= n /\ n <= b => z[n] = P[n] - P[a]
                      /\ b <= n => z[n] = P[b] - P[a]
           S == {n \in Nat : n <= Len(parts) => Upto(n)}
<1>4. 0 \in S
  <2>1. z[0] = 0 /\ P[a] \in Nat /\ P[b] \in Nat
    BY <1>0, <1>1, <1>2 DEF Sums
  <2>2. a <= 0 => P[0] - P[a] = 0
    BY <1>0, <2>1
  <2>3. b <= 0 => P[b] - P[a] = 0
    BY <1>0, <2>1
  <2> QED BY <2>1, <2>2, <2>3
<1>5. ASSUME NEW n \in Nat, n \in S PROVE n + 1 \in S
  <2> SUFFICES ASSUME n + 1 <= Len(parts) PROVE Upto(n + 1)
    OBVIOUS
  <2>1. Upto(n)
    BY <1>0, <1>5
  <2> PICK l : l = Len(parts[n + 1])
    OBVIOUS
  <2> PICK pa : pa = P[a]
    OBVIOUS
  <2> PICK pb : pb = P[b]
    OBVIOUS
  <2> PICK pn : pn = P[n]
    OBVIOUS
  <2> PICK pm : pm = P[n + 1]
    OBVIOUS
  <2> PICK zn : zn = z[n]
    OBVIOUS
  <2> PICK zm : zm = z[n + 1]
    OBVIOUS
  <2>2. /\ zm = zn + (IF n + 1 \in a + 1 .. b THEN l ELSE 0) /\ pm = pn + l
        /\ l \in Nat /\ zn \in Nat /\ pn \in Nat
    BY <1>3
  <2>3. (n = a => pn = pa) /\ (n + 1 = b => pm = pb) /\ (n = b => pn = pb) /\ pa \in Nat /\ pb \in Nat
    BY <1>0, <1>2
  <2>4. (n <= a => zn = 0) /\ (a <= n /\ n <= b => zn = pn - pa) /\ (b <= n => zn = pb - pa)
    BY <2>1
  <2>6. n + 1 <= a => n + 1 \notin a + 1 .. b /\ n <= a
    BY ONLY <1>0, n \in Nat
  <2>7. n + 1 = a => n + 1 \notin a + 1 .. b
    BY ONLY <1>0, n \in Nat
  <2>8. a <= n /\ n + 1 <= b => n + 1 \in a + 1 .. b /\ n <= b
    BY ONLY <1>0, n \in Nat
  <2>9. b <= n => n + 1 \notin a + 1 .. b
    BY ONLY <1>0, n \in Nat
  <2>10. n + 1 <= a => zm = 0
    BY ONLY <2>2, <2>4, <2>6
  <2>11. a <= n + 1 /\ n + 1 <= b => zm = pm - pa
    <3>1. CASE a <= n
      BY ONLY <2>2, <2>3, <2>4, <2>8, <3>1, <1>0, n \in Nat
    <3>2. CASE n + 1 = a
      <4>1. pm = pa
        BY <3>2
      <4> QED BY ONLY <2>2, <2>3, <2>4, <2>7, <3>2, <4>1, <1>0, n \in Nat
    <3> QED BY ONLY <3>1, <3>2, <1>0, n \in Nat
  <2>12. b <= n + 1 => zm = pb - pa
    <3>1. CASE b <= n
      BY ONLY <2>2, <2>4, <2>9, <3>1
    <3>2. CASE n + 1 = b
      BY ONLY <2>3, <2>11, <3>2, <1>0, n \in Nat
    <3> QED BY ONLY <3>1, <3>2, <1>0, n \in Nat
  <2> QED BY <2>10, <2>11, <2>12
<1>6. Nat \subseteq S
  <2> HIDE DEF S
  <2> QED BY <1>4, <1>5, Induction
<1>7. Upto(Len(parts))
  BY <1>0, <1>6
<1>8. z[Len(parts)] = P[b] - P[a]
  BY <1>0, <1>7
<1> QED BY <1>1, <1>8 DEF Sums

\* What is chosen has the size of what it is chosen from.
LEMMA SizeChosen ==
  ASSUME NEW V, NEW parts \in Seq(Seq(V)), NEW out \in Seq(Seq(V)), NEW chosen, NEW H, NEW K,
         IsChoice(out, Len(parts), chosen, H, K),
         \A n \in 1 .. Len(parts) : n \in chosen => Len(H[n]) = Len(parts[n]),
         NEW is, NEW js,
         \A n \in 1 .. Len(parts) : n \in is <=> n \in chosen /\ K[n] \in js
  PROVE  Size(out, js) = Size(parts, is)
<1> DEFINE N == Len(parts)
<1>1. PICK y : Sums(y, parts, is)
  BY SizeSums
<1>2. PICK z : Sums(z, out, js)
  BY SizeSums
<1>3. Counts(K, N, chosen) /\ Len(out) = K[N] /\ N \in Nat
  BY DEF IsChoice
<1> DEFINE S == {n \in Nat : n <= N => z[K[n]] = y[n]}
<1>4. 0 \in S
  BY <1>1, <1>2, <1>3 DEF Sums, Counts
<1>5. ASSUME NEW n \in Nat, n \in S PROVE n + 1 \in S
  <2> SUFFICES ASSUME n + 1 <= N PROVE z[K[n + 1]] = y[n + 1]
    OBVIOUS
  <2>1. n + 1 \in 1 .. N /\ (n + 1) - 1 = n /\ n \in 0 .. N
    BY <1>3
  <2>2. y[n + 1] = y[n] + IF n + 1 \in is THEN Len(parts[n + 1]) ELSE 0
    BY <1>1, <2>1 DEF Sums
  <2>3. z[K[n]] = y[n] /\ y[n] \in Nat
    BY <1>1, <1>5, <2>1 DEF Sums
  <2>4. CASE n + 1 \notin chosen
    <3>1. K[n + 1] = K[n] /\ n + 1 \notin is
      BY <1>3, <2>1, <2>4 DEF Counts
    <3> QED BY <2>2, <2>3, <3>1
  <2>5. CASE n + 1 \in chosen
    <3>1. K[n + 1] = K[n] + 1 /\ K[n] \in Nat /\ K[n + 1] \in 1 .. Len(out)
      <4>1. K[n + 1] = K[n] + 1 /\ K[n] \in Nat
        BY <1>3, <2>1, <2>5 DEF Counts
      <4>2. K[n + 1] \in 1 .. K[N]
        BY <1>3, <2>1, <2>5, CountsGrow
      <4> QED BY <1>3, <4>1, <4>2
    <3>2. out[K[n + 1]] = H[n + 1] /\ Len(H[n + 1]) = Len(parts[n + 1])
      BY <2>1, <2>5 DEF IsChoice
    <3>3. n + 1 \in is <=> K[n + 1] \in js
      BY <2>1, <2>5
    <3>4. z[K[n + 1]] = z[K[n + 1] - 1] + IF K[n + 1] \in js THEN Len(out[K[n + 1]]) ELSE 0
      BY <1>2, <3>1 DEF Sums
    <3>5. K[n + 1] - 1 = K[n]
      BY <3>1
    <3> QED BY <2>2, <2>3, <3>2, <3>3, <3>4, <3>5
  <2> QED BY <2>4, <2>5
<1>6. Nat \subseteq S
  <2> HIDE DEF S
  <2> QED BY <1>4, <1>5, Induction
<1>7. z[K[N]] = y[N]
  BY <1>3, <1>6
<1> QED BY <1>1, <1>2, <1>3, <1>7 DEF Sums

-----------------------------------------------------------------------------
(* What the messages of a time frame look like. *)

DataUnit == [head : {"T", "SE", "HB"}, fem : FemSet, hb : Nat, sig : BOOLEAN]
StfUnit  == [head : {"STF"}, fem : FemSet, length : Nat, numMessages : Nat]
TfUnit   == [head : {"TF"}, numSource : Nat \ {0}, length : Nat]
FltUnit  == [head : {"FLT"}, length : Nat, numTrigs : Nat]
Unit     == DataUnit \union StfUnit \union TfUnit \union FltUnit

IsStf(part) == part[1].head = "STF"
Heads(part) == [k \in DOMAIN part |-> part[k].head]

\* The messages the players make, by split method.
Forms(split) ==
    CASE split = 0 -> {<<"HB">>, <<"SE">>, <<"T", "HB">>, <<"T", "SE">>}
      [] split = 1 -> {<<"T">>, <<"SE">>, <<"HB", "HB">>}
      [] OTHER     -> {<<"HB">>, <<"HB", "HB">>, <<"T", "HB", "HB">>,
                       <<"SE", "HB">>, <<"T", "SE", "HB">>}

\* No message of its sub time frame comes after message i.
IsLast(parts, i) == i = Len(parts) \/ IsStf(parts[i + 1])

\* A time frame: headers and messages, of one front end from header to header.
IsFrame(parts) ==
    /\ parts \in Seq(Seq(Unit)) /\ parts # <<>>
    /\ \E tf \in TfUnit : parts[1] = <<tf>>
    /\ Len(parts) > 1 => IsStf(parts[2])
    /\ \A i \in 2 .. Len(parts) :
        /\ IsStf(parts[i]) => \E stf \in StfUnit : parts[i] = <<stf>>
        /\ ~IsStf(parts[i]) =>
            /\ parts[i] \in Seq(DataUnit) /\ parts[i] # <<>>
            /\ \A k \in DOMAIN parts[i] : parts[i][k].fem = parts[i - 1][1].fem

\* Its messages are cut as by split method split.
IsCut(parts, split) ==
    \A i \in 2 .. Len(parts) : ~IsStf(parts[i]) =>
        /\ Heads(parts[i]) \in Forms(split)
        /\ split = 0 /\ ~IsHartBeat(parts[i]) =>
                ~IsLast(parts, i) /\ IsHartBeat(parts[i + 1])
        /\ split = 1 /\ Heads(parts[i]) = <<"T">> /\ ~IsLast(parts, i) =>
                Heads(parts[i + 1]) # <<"T">>
        /\ split = 1 /\ Heads(parts[i]) = <<"SE">> =>
                ~IsLast(parts, i) /\ Heads(parts[i + 1]) = <<"HB", "HB">> /\ IsLast(parts, i + 1)
        /\ split = 2 /\ Heads(parts[i]) = <<"HB">> => IsLast(parts, i)

\* With split methods 0 and 1 a message comes after all data.
IsWhole(parts, split) ==
    \A i \in 2 .. Len(parts) : ~IsStf(parts[i]) /\ ~IsHartBeat(parts[i]) /\ split \in {0, 1} =>
        ~IsLast(parts, i)

\* The lengths in the headers are those of what comes after them.
AreLong(parts) ==
    /\ parts[1][1].length = Size(parts, DOMAIN parts)
    /\ \A h \in StfHeaders(parts) : parts[h][1].length = 1 + Size(parts, MessagesOf(parts, h))

\* The kinds of units are apart.
LEMMA Units ==
  /\ \A u \in DataUnit : u.head \in {"T", "SE", "HB"} /\ u.fem \in FemSet
  /\ \A u \in StfUnit : u.head = "STF" /\ u.fem \in FemSet /\ u.length \in Nat /\ u.numMessages \in Nat
  /\ \A u \in TfUnit : u.head = "TF" /\ u.numSource \in Nat \ {0} /\ u.length \in Nat
  /\ \A u \in FltUnit : u.head = "FLT" /\ u.length \in Nat /\ u.numTrigs \in Nat
BY DEF DataUnit, StfUnit, TfUnit, FltUnit

\* What is in a frame, by place.
LEMMA FrameFacts ==
  ASSUME NEW parts, IsFrame(parts)
  PROVE  /\ parts \in Seq(Seq(Unit)) /\ Len(parts) \in Nat /\ Len(parts) >= 1
         /\ DOMAIN parts = 1 .. Len(parts)
         /\ Len(parts[1]) = 1 /\ parts[1][1] \in TfUnit /\ parts[1] = <<parts[1][1]>> /\ ~IsStf(parts[1])
         /\ \A h \in StfHeaders(parts) : /\ h \in 2 .. Len(parts) /\ IsStf(parts[h])
                                         /\ Len(parts[h]) = 1 /\ parts[h][1] \in StfUnit
                                         /\ parts[h] = <<parts[h][1]>>
         /\ \A i \in 1 .. Len(parts) : IsStf(parts[i]) <=> i \in StfHeaders(parts)
         /\ \A i \in 2 .. Len(parts) : ~IsStf(parts[i]) =>
                /\ i \in 3 .. Len(parts) /\ parts[i] \in Seq(DataUnit) /\ Len(parts[i]) \in Nat \ {0}
                /\ parts[i][1] \in DataUnit /\ i - 1 \in 2 .. Len(parts)
<1>1. parts \in Seq(Seq(Unit)) /\ Len(parts) \in Nat /\ Len(parts) >= 1 /\ DOMAIN parts = 1 .. Len(parts)
  <2>1. parts \in Seq(Seq(Unit)) /\ parts # <<>>
    BY DEF IsFrame
  <2> PICK W : W = Seq(Unit)
    OBVIOUS
  <2> QED BY ONLY <2>1, W = Seq(Unit)
<1>2. Len(parts[1]) = 1 /\ parts[1][1] \in TfUnit /\ parts[1] = <<parts[1][1]>> /\ ~IsStf(parts[1])
  <2>1. PICK tf \in TfUnit : parts[1] = <<tf>>
    BY DEF IsFrame
  <2>2. tf.head # "STF"
    BY Units
  <2> QED BY <2>1, <2>2 DEF IsStf
<1>3. \A i \in 1 .. Len(parts) : IsStf(parts[i]) <=> i \in StfHeaders(parts)
  BY <1>1 DEF StfHeaders, IsStf
<1>4. ASSUME NEW h \in StfHeaders(parts)
      PROVE  /\ h \in 2 .. Len(parts) /\ IsStf(parts[h])
             /\ Len(parts[h]) = 1 /\ parts[h][1] \in StfUnit /\ parts[h] = <<parts[h][1]>>
  <2>1. h \in 1 .. Len(parts) /\ IsStf(parts[h])
    BY <1>1 DEF StfHeaders, IsStf
  <2>2. h \in 2 .. Len(parts)
    BY <1>2, <2>1
  <2>3. PICK stf \in StfUnit : parts[h] = <<stf>>
    BY <2>1, <2>2 DEF IsFrame
  <2> QED BY <2>1, <2>2, <2>3
<1>5. ASSUME NEW i \in 2 .. Len(parts), ~IsStf(parts[i])
      PROVE  /\ i \in 3 .. Len(parts) /\ parts[i] \in Seq(DataUnit) /\ Len(parts[i]) \in Nat \ {0}
             /\ parts[i][1] \in DataUnit /\ i - 1 \in 2 .. Len(parts)
  <2>1. Len(parts) > 1
    BY <1>1
  <2>2. i # 2
    BY <1>5, <2>1 DEF IsFrame
  <2>3. parts[i] \in Seq(DataUnit) /\ parts[i] # <<>>
    BY <1>5 DEF IsFrame
  <2> PICK m : m = parts[i]
    OBVIOUS
  <2>4. m \in Seq(DataUnit) /\ m # <<>>
    BY <2>3
  <2>5. Len(m) \in Nat \ {0} /\ m[1] \in DataUnit
    BY ONLY <2>4
  <2> QED BY <1>1, <2>2, <2>3, <2>5
<1> QED BY <1>1, <1>2, <1>3, <1>4, <1>5

\* Every message comes after the header of its front end.
LEMMA HeaderOf ==
  ASSUME NEW parts, IsFrame(parts), NEW i \in 2 .. Len(parts)
  PROVE  \E h \in StfHeaders(parts) :
            /\ h <= i /\ \A k \in h + 1 .. i : ~IsStf(parts[k])
            /\ \A k \in DOMAIN parts[i] : parts[i][k].fem = parts[h][1].fem
<1> DEFINE Has(n) == \E h \in StfHeaders(parts) :
                        /\ h <= n /\ \A k \in h + 1 .. n : ~IsStf(parts[k])
                        /\ \A k \in DOMAIN parts[n] : parts[n][k].fem = parts[h][1].fem
           S == {n \in Nat : n + 2 <= Len(parts) => Has(n + 2)}
<1>1. Len(parts) \in Nat
  BY FrameFacts
<1>2. ASSUME NEW n \in 2 .. Len(parts), IsStf(parts[n]) PROVE Has(n)
  <2>1. n \in StfHeaders(parts) /\ n <= n /\ n + 1 .. n = {}
    BY <1>1, <1>2, FrameFacts
  <2>2. parts[n] = <<parts[n][1]>>
    BY <2>1, FrameFacts
  <2>3. \A k \in DOMAIN parts[n] : k = 1
    <3> PICK x : x = parts[n][1]
      OBVIOUS
    <3> QED BY <2>2
  <2> QED BY <2>1, <2>3
<1>3. 0 \in S
  <2> SUFFICES ASSUME 0 + 2 <= Len(parts) PROVE Has(0 + 2)
    OBVIOUS
  <2>1. 2 \in 2 .. Len(parts) /\ Len(parts) > 1 /\ 0 + 2 = 2
    BY <1>1
  <2>2. IsStf(parts[2])
    BY <2>1 DEF IsFrame
  <2> HIDE DEF Has
  <2> QED BY <1>2, <2>1, <2>2
<1>4. ASSUME NEW n \in Nat, n \in S PROVE n + 1 \in S
  <2> SUFFICES ASSUME (n + 1) + 2 <= Len(parts) PROVE Has((n + 1) + 2)
    OBVIOUS
  <2> PICK m : m = n + 2
    OBVIOUS
  <2>1. m \in 2 .. Len(parts) /\ m + 1 \in 2 .. Len(parts) /\ (n + 1) + 2 = m + 1 /\ (m + 1) - 1 = m
    BY <1>1
  <2>2. CASE IsStf(parts[m + 1])
    <3> HIDE DEF Has
    <3> QED BY <1>2, <2>1, <2>2
  <2>3. CASE ~IsStf(parts[m + 1])
    <3>1. PICK h \in StfHeaders(parts) :
                /\ h <= m /\ \A k \in h + 1 .. m : ~IsStf(parts[k])
                /\ \A k \in DOMAIN parts[m] : parts[m][k].fem = parts[h][1].fem
      <4>1. Has(m)
        BY <1>1, <1>4, <2>1
      <4> QED BY <4>1
    <3>2. h \in Nat
      BY FrameFacts
    <3>3. h <= m + 1 /\ \A k \in h + 1 .. m + 1 : ~IsStf(parts[k])
      <4>1. \A k \in h + 1 .. m + 1 : k \in h + 1 .. m \/ k = m + 1
        BY <2>1, <3>2
      <4> QED BY <2>1, <2>3, <3>1, <3>2, <4>1
    <3>4. 1 \in DOMAIN parts[m]
      <4>1. CASE IsStf(parts[m])
        <5>1. m \in StfHeaders(parts)
          BY <2>1, <4>1, FrameFacts
        <5> PICK x : x = parts[m][1]
          OBVIOUS
        <5>2. parts[m] = <<x>>
          BY <5>1, FrameFacts
        <5> QED BY <5>2
      <4>2. CASE ~IsStf(parts[m])
        <5>1. parts[m] \in Seq(DataUnit) /\ Len(parts[m]) \in Nat \ {0}
          BY <2>1, <4>2, FrameFacts
        <5> PICK x : x = parts[m]
          OBVIOUS
        <5>2. 1 \in DOMAIN x
          BY <5>1
        <5> QED BY <5>2
      <4> QED BY <4>1, <4>2
    <3>5. \A k \in DOMAIN parts[m + 1] : parts[m + 1][k].fem = parts[m][1].fem
      BY <2>1, <2>3 DEF IsFrame
    <3>6. \A k \in DOMAIN parts[m + 1] : parts[m + 1][k].fem = parts[h][1].fem
      BY <3>1, <3>4, <3>5
    <3>7. Has(m + 1)
      BY <3>3, <3>6
    <3> QED BY <2>1, <3>7
  <2> QED BY <2>2, <2>3
<1>5. Nat \subseteq S
  <2> HIDE DEF S
  <2> QED BY <1>3, <1>4, Induction
<1>6. i - 2 \in Nat /\ (i - 2) + 2 = i
  BY <1>1
<1>7. Has(i)
  <2> HIDE DEF Has
  <2>1. i - 2 \in S
    BY <1>5, <1>6
  <2>2. (i - 2) + 2 <= Len(parts)
    BY <1>6
  <2>3. Has((i - 2) + 2)
    BY <2>1, <2>2
  <2> QED BY <1>6, <2>3
<1> QED BY <1>7

\* The messages of a sub time frame are those up to the last one.
LEMMA MessagesAre ==
  ASSUME NEW parts, IsFrame(parts), NEW h \in StfHeaders(parts)
  PROVE  \E e \in h .. Len(parts) :
            /\ MessagesOf(parts, h) = h + 1 .. e /\ IsLast(parts, e)
            /\ Cardinality(MessagesOf(parts, h)) = e - h
<1>1. h \in 2 .. Len(parts) /\ Len(parts) \in Nat /\ h \in Nat
  BY FrameFacts
<1> DEFINE S == {n \in h .. Len(parts) : IsLast(parts, n)}
<1>2. Len(parts) \in S
  BY <1>1 DEF IsLast
<1>3. PICK e \in S : \A n \in S : e <= n
  <2>1. S \in SUBSET Nat /\ S # {}
    BY <1>1, <1>2
  <2> HIDE DEF S
  <2> QED BY <2>1, LeastNatural
<1>4. e \in h .. Len(parts) /\ IsLast(parts, e)
  BY <1>3
<1>5. \A k \in h + 1 .. e : ~IsStf(parts[k])
  <2> SUFFICES ASSUME NEW k \in h + 1 .. e, IsStf(parts[k]) PROVE FALSE
    OBVIOUS
  <2>1. k - 1 \in h .. Len(parts) /\ (k - 1) + 1 = k /\ k - 1 < e
    BY <1>1, <1>4
  <2>2. IsLast(parts, k - 1)
    BY <2>1 DEF IsLast
  <2>3. k - 1 \in S
    BY <2>1, <2>2
  <2> QED BY <1>1, <1>3, <2>1, <2>3
<1>6. ASSUME NEW i \in h + 1 .. Len(parts) PROVE (\A k \in h + 1 .. i : ~IsStf(parts[k])) <=> i <= e
  <2>1. CASE i <= e
    <3>1. \A k \in h + 1 .. i : k \in h + 1 .. e
      BY <1>1, <1>4, <2>1
    <3> QED BY <1>5, <2>1, <3>1
  <2>2. CASE ~(i <= e)
    <3>1. e + 1 \in h + 1 .. i /\ e # Len(parts)
      BY <1>1, <1>4, <2>2
    <3>2. IsStf(parts[e + 1])
      BY <1>4, <3>1 DEF IsLast
    <3> QED BY <2>2, <3>1, <3>2
  <2> QED BY <2>1, <2>2
<1>7. MessagesOf(parts, h) = h + 1 .. e
  <2>1. MessagesOf(parts, h) = {i \in h + 1 .. Len(parts) : \A k \in h + 1 .. i : ~IsStf(parts[k])}
    BY DEF MessagesOf, IsStf
  <2>2. MessagesOf(parts, h) = {i \in h + 1 .. Len(parts) : i <= e}
    BY <1>6, <2>1
  <2> QED BY <1>1, <1>4, <2>2
<1>8. Cardinality(h + 1 .. e) = e - h
  <2>1. e \in Nat /\ h + 1 \in Nat
    BY <1>1, <1>4
  <2> PICK a : a = h + 1
    OBVIOUS
  <2> PICK c : c = Cardinality(a .. e)
    OBVIOUS
  <2>2. c = IF a > e THEN 0 ELSE e - a + 1
    <3>1. a \in Int /\ e \in Int
      BY <2>1
    <3>2. Cardinality(a .. e) = IF a > e THEN 0 ELSE e - a + 1
      BY ONLY <3>1, FS_Interval, Zenon
    <3> QED BY <3>2
  <2>3. e >= h /\ h \in Nat /\ e \in Nat
    BY <1>1, <1>4, <2>1
  <2>4. c = e - h
    <3>1. CASE a > e
      BY ONLY <2>2, <2>3, a = h + 1, <3>1
    <3>2. CASE ~(a > e)
      BY ONLY <2>2, <2>3, a = h + 1, <3>2
    <3> QED BY <3>1, <3>2
  <2> QED BY <2>4
<1> QED BY <1>4, <1>7, <1>8

\* A message of a front end is one of the messages behind its header.
LEMMA MessageOf ==
  ASSUME NEW parts, IsFrame(parts), NEW h \in StfHeaders(parts), NEW i
  PROVE  i \in MessagesOf(parts, h) <=>
            i \in h + 1 .. Len(parts) /\ \A k \in h + 1 .. i : ~IsStf(parts[k])
BY DEF MessagesOf, IsStf

\* It has one header.
LEMMA MessageHeader ==
  ASSUME NEW parts, IsFrame(parts), NEW i \in 2 .. Len(parts), ~IsStf(parts[i])
  PROVE  \E h \in StfHeaders(parts) :
            /\ i \in MessagesOf(parts, h) /\ h < i
            /\ \A k \in DOMAIN parts[i] : parts[i][k].fem = parts[h][1].fem
<1>0. Len(parts) \in Nat
  BY FrameFacts
<1>1. PICK h \in StfHeaders(parts) :
            /\ h <= i /\ \A k \in h + 1 .. i : ~IsStf(parts[k])
            /\ \A k \in DOMAIN parts[i] : parts[i][k].fem = parts[h][1].fem
  BY <1>0, HeaderOf
<1>2. h \in 2 .. Len(parts) /\ IsStf(parts[h])
  BY FrameFacts
<1>3. h < i
  BY <1>0, <1>1, <1>2
<1>4. i \in h + 1 .. Len(parts)
  BY <1>0, <1>2, <1>3
<1>5. i \in MessagesOf(parts, h)
  BY <1>1, <1>4, MessageOf
<1> QED BY <1>1, <1>3, <1>5

-----------------------------------------------------------------------------
(* What the filter drops. *)

IsMessage(parts, i) == i \in 3 .. Len(parts) /\ ~IsStf(parts[i])

\* Data, and heartbeats behind data that are dropped.
Drops(parts, split, dropped0) ==
    \A d \in dropped0 :
        /\ IsMessage(parts, d)
        /\ IsHartBeat(parts[d]) => split \in {0, 1} /\ d - 1 \in dropped0 /\ IsMessage(parts, d - 1)

Sent(parts, dropped0) == DOMAIN parts \ (dropped0 \union Emptied(parts, dropped0))

\* The messages that are sent.
SentPart(parts, dropped0, i) ==
    CASE i \in StfHeaders(parts) /\ i \notin Emptied(parts, dropped0) ->
            <<StfHeader(parts, i, dropped0)>>
      [] parts[i][1].head = "TF" ->
            <<[parts[i][1] EXCEPT !.length = Size(parts, Sent(parts, dropped0))]>>
      [] OTHER -> parts[i]

\* What is sent for a message: the same units, but for a header.
LEMMA SentParts ==
  ASSUME NEW parts, IsFrame(parts), NEW dropped0, NEW i \in Sent(parts, dropped0)
  PROVE  /\ i \in 1 .. Len(parts)
         /\ SentPart(parts, dropped0, i) \in Seq(Unit)
         /\ Len(SentPart(parts, dropped0, i)) = Len(parts[i])
         /\ IsStf(SentPart(parts, dropped0, i)) <=> IsStf(parts[i])
         /\ i = 1 => /\ SentPart(parts, dropped0, i) = <<SentPart(parts, dropped0, i)[1]>>
                     /\ SentPart(parts, dropped0, i)[1] \in TfUnit
                     /\ SentPart(parts, dropped0, i)[1].length = Size(parts, Sent(parts, dropped0))
                     /\ SentPart(parts, dropped0, i)[1].numSource = parts[i][1].numSource
         /\ i \in StfHeaders(parts) =>
                /\ SentPart(parts, dropped0, i) = <<SentPart(parts, dropped0, i)[1]>>
                /\ SentPart(parts, dropped0, i)[1] \in StfUnit
                /\ SentPart(parts, dropped0, i)[1].fem = parts[i][1].fem
                /\ SentPart(parts, dropped0, i)[1].length = Size(parts, Left(parts, i, dropped0)) + 1
                /\ SentPart(parts, dropped0, i)[1].numMessages = Cardinality(Left(parts, i, dropped0))
         /\ i # 1 /\ i \notin StfHeaders(parts) => SentPart(parts, dropped0, i) = parts[i]
<1> DEFINE part == SentPart(parts, dropped0, i)
           sent == Sent(parts, dropped0)
<1>0. i \in 1 .. Len(parts) /\ i \notin Emptied(parts, dropped0)
      /\ parts \in Seq(Seq(Unit)) /\ Len(parts) \in Nat
  BY FrameFacts DEF Sent
<1>1. CASE i = 1
  <2>1. parts[1] = <<parts[1][1]>> /\ parts[1][1] \in TfUnit /\ ~IsStf(parts[1]) /\ 1 \notin StfHeaders(parts)
    BY FrameFacts
  <2> PICK tf : tf = parts[1][1]
    OBVIOUS
  <2>2. tf \in TfUnit /\ tf.head = "TF"
    BY <2>1, Units
  <2>3. Size(parts, sent) \in Nat
    BY <1>0, SizeSame
  <2>4. part = <<[tf EXCEPT !.length = Size(parts, sent)]>>
    <3>1. i \notin StfHeaders(parts) /\ parts[i][1].head = "TF" /\ parts[i][1] = tf
      BY <1>1, <2>1, <2>2
    <3> QED BY <3>1, Zenon DEF SentPart
  <2> PICK sz : sz = Size(parts, sent)
    OBVIOUS
  <2> PICK tg : tg = [tf EXCEPT !.length = sz]
    OBVIOUS
  <2>5. tg \in TfUnit /\ tg.length = sz /\ tg.numSource = tf.numSource
    BY <2>2, <2>3 DEF TfUnit
  <2>6. part = <<tg>>
    BY <2>4
  <2>7. tg.head # "STF" /\ tg \in Unit
    BY <2>5, Units DEF Unit
  <2>8. part[1] = tg /\ Len(part) = 1 /\ part \in Seq(Unit) /\ part = <<part[1]>>
    <3> HIDE DEF part
    <3> QED BY <2>6, <2>7
  <2>9. Len(parts[1]) = 1
    BY FrameFacts
  <2> HIDE DEF part
  <2>10. ~IsStf(part)
    BY <2>7, <2>8 DEF IsStf
  <2> QED BY <1>0, <1>1, <2>1, <2>5, <2>8, <2>9, <2>10 DEF part
<1>2. CASE i \in StfHeaders(parts)
  <2>1. parts[i] = <<parts[i][1]>> /\ parts[i][1] \in StfUnit /\ IsStf(parts[i]) /\ i # 1 /\ Len(parts[i]) = 1
    BY <1>2, FrameFacts
  <2> PICK stf : stf = parts[i][1]
    OBVIOUS
  <2> PICK sz : sz = Size(parts, Left(parts, i, dropped0)) + 1
    OBVIOUS
  <2> PICK num : num = Cardinality(Left(parts, i, dropped0))
    OBVIOUS
  <2>3. sz \in Nat
    <3>1. Size(parts, Left(parts, i, dropped0)) \in Nat
      BY <1>0, SizeSame
    <3> QED BY <3>1
  <2>4. num \in Nat
    <3>1. PICK e \in i .. Len(parts) : MessagesOf(parts, i) = i + 1 .. e
      BY <1>2, MessagesAre
    <3>2. IsFiniteSet(MessagesOf(parts, i))
      <4>1. i + 1 \in Int /\ e \in Int
        BY <1>0
      <4> QED BY <3>1, <4>1, FS_Interval
    <3>3. IsFiniteSet(Left(parts, i, dropped0))
      BY <3>2, FS_Subset DEF Left
    <3> QED BY <3>3, FS_CardinalityType
  <2> PICK stg : stg = [stf EXCEPT !.length = sz, !.numMessages = num]
    OBVIOUS
  <2>5. stg \in StfUnit /\ stg.length = sz /\ stg.numMessages = num /\ stg.fem = stf.fem
    BY <2>1, <2>3, <2>4 DEF StfUnit
  <2>6. part = <<stg>>
    <3>1. StfHeader(parts, i, dropped0) = stg
      BY DEF StfHeader
    <3>2. part = <<StfHeader(parts, i, dropped0)>>
      <4>1. parts[i][1].head # "TF"
        BY <2>1 DEF IsStf
      <4> QED BY <1>0, <1>2, <4>1, Zenon DEF SentPart
    <3> QED BY <3>1, <3>2
  <2>7. stg.head = "STF" /\ stg \in Unit
    BY <2>5, Units DEF Unit
  <2>8. part[1] = stg /\ Len(part) = 1 /\ part \in Seq(Unit) /\ part = <<part[1]>>
    <3> HIDE DEF part
    <3> QED BY <2>6, <2>7
  <2> HIDE DEF part
  <2>10. IsStf(part)
    BY <2>7, <2>8 DEF IsStf
  <2> QED BY <1>0, <1>2, <2>1, <2>5, <2>8, <2>10 DEF part
<1>3. CASE i # 1 /\ i \notin StfHeaders(parts)
  <2>1. ~IsStf(parts[i]) /\ i \in 2 .. Len(parts)
    <3>1. i \in 1 .. Len(parts) => (IsStf(parts[i]) <=> i \in StfHeaders(parts))
      BY FrameFacts
    <3>2. Len(parts) \in Nat
      BY FrameFacts
    <3>3. i \in 1 .. Len(parts)
      BY <1>0
    <3>4. i # 1
      BY <1>3
    <3>5. i \in 2 .. Len(parts)
      BY ONLY <3>2, <3>3, <3>4
    <3> QED BY <1>3, <3>1, <3>3, <3>5
  <2>2. parts[i][1] \in DataUnit
    BY <2>1, FrameFacts
  <2>3. parts[i][1].head # "TF"
    BY <2>2, Units
  <2>4. part = parts[i]
    BY <1>3, <2>3, Zenon DEF SentPart
  <2>5. parts[i] \in Seq(Unit)
    BY <1>0
  <2> QED BY <1>0, <1>3, <2>4, <2>5
<1> QED BY <1>1, <1>2, <1>3

\* What comes out of Suppress.
IsSuppressed(parts, dropped0, out, K) ==
    /\ IsFrame(parts) /\ out \in Seq(Seq(Unit))
    /\ IsChoice(out, Len(parts), Sent(parts, dropped0),
                [i \in 1 .. Len(parts) |-> SentPart(parts, dropped0, i)], K)

\* Suppress sends the messages that are left, in their order.
LEMMA SuppressChooses ==
  ASSUME NEW parts, IsFrame(parts), NEW dropped0
  PROVE  \E K : IsSuppressed(parts, dropped0, Suppress(parts, dropped0), K)
<1> DEFINE N == Len(parts)
           sent == Sent(parts, dropped0)
           H == [i \in 1 .. N |-> SentPart(parts, dropped0, i)]
           s == [i \in 1 .. N |-> IF i \in sent THEN <<H[i]>> ELSE <<>>]
           r == [i \in DOMAIN parts |-> IF i \in sent THEN <<SentPart(parts, dropped0, i)>> ELSE <<>>]
<1>1. N \in Nat /\ DOMAIN parts = 1 .. N
  BY FrameFacts
<1>2. \A i \in 1 .. N : i \in sent => H[i] \in Seq(Unit)
  BY SentParts
<1>3. r = s
  BY <1>1
<1>4. Suppress(parts, dropped0) = FlattenSeq(r)
  BY DEF Suppress, SentPart, Sent
<1> DEFINE V == Seq(Unit)
<1>5. FlattenSeq(s) \in Seq(V) /\ \E K : IsChoice(FlattenSeq(s), N, sent, H, K)
  <2> PICK ss : ss = s
    OBVIOUS
  <2> PICK HH : HH = H
    OBVIOUS
  <2>1. ss = [i \in 1 .. N |-> IF i \in sent THEN <<HH[i]>> ELSE <<>>]
    OBVIOUS
  <2>2. \A i \in 1 .. N : i \in sent => HH[i] \in V
    BY <1>2
  <2>3. N \in Nat
    BY <1>1
  <2> HIDE DEF s, H, sent, N, V
  <2>4. FlattenSeq(ss) \in Seq(V) /\ \E K : IsChoice(FlattenSeq(ss), N, sent, HH, K)
    BY ONLY <2>1, <2>2, <2>3, Chosen
  <2> QED BY <2>4
<1> HIDE DEF s, r
<1>6. Suppress(parts, dropped0) = FlattenSeq(s)
  BY <1>3, <1>4
<1> QED BY <1>5, <1>6 DEF IsSuppressed

\* What is sent, and where it goes.
LEMMA SentOnes ==
  ASSUME NEW parts, NEW split, NEW dropped0, NEW out, NEW K,
         IsSuppressed(parts, dropped0, out, K), Drops(parts, split, dropped0)
  PROVE  /\ \A n \in 1 .. Len(parts) : ~IsStf(parts[n]) =>
                (n \in Sent(parts, dropped0) <=> n \notin dropped0)
         /\ \A h \in StfHeaders(parts) : \A n \in MessagesOf(parts, h) :
                n \in Sent(parts, dropped0) => h \in Sent(parts, dropped0)
         /\ 1 \in Sent(parts, dropped0) /\ K[1] = 1
         /\ Len(out) \in Nat
         /\ \A i \in Sent(parts, dropped0) :
                i \in 1 .. Len(parts) /\ K[i] \in 1 .. Len(out) /\ out[K[i]] = SentPart(parts, dropped0, i)
         /\ \A i, j \in Sent(parts, dropped0) : i < j <=> K[i] < K[j]
         /\ \A q \in 1 .. Len(out) : \E n \in Sent(parts, dropped0) : K[n] = q
         /\ \A n \in Sent(parts, dropped0) : n + 1 \in Sent(parts, dropped0) => K[n + 1] = K[n] + 1
<1> DEFINE sent == Sent(parts, dropped0)
           N == Len(parts)
           H == [i \in 1 .. N |-> SentPart(parts, dropped0, i)]
<1>1. IsFrame(parts) /\ IsChoice(out, N, sent, H, K) /\ out \in Seq(Seq(Unit))
  BY DEF IsSuppressed
<1>2. Counts(K, N, sent) /\ Len(out) = K[N] /\ N \in Nat /\ N >= 1
  BY <1>1, FrameFacts DEF IsChoice
<1>3. sent \subseteq 1 .. N /\ DOMAIN parts = 1 .. N
  BY <1>1, FrameFacts DEF Sent
<1>4. \A d \in dropped0 : d \in 3 .. N /\ ~IsStf(parts[d])
  BY DEF Drops, IsMessage
<1>5. \A h \in Emptied(parts, dropped0) : IsStf(parts[h]) /\ h \in StfHeaders(parts)
  BY <1>1, FrameFacts DEF Emptied
<1>6. ASSUME NEW n \in 1 .. N, ~IsStf(parts[n])
      PROVE  n \in sent <=> n \notin dropped0
  BY <1>3, <1>5, <1>6 DEF Sent
<1>7. ASSUME NEW h \in StfHeaders(parts), NEW n \in MessagesOf(parts, h), n \in sent
      PROVE  h \in sent
  <2>1. n \in Left(parts, h, dropped0)
    BY <1>7 DEF Left, Sent
  <2>2. h \notin Emptied(parts, dropped0)
    BY <2>1 DEF Emptied
  <2>3. IsStf(parts[h]) /\ h \in 1 .. N
    BY <1>1, FrameFacts
  <2>4. h \notin dropped0
    BY <1>4, <2>3
  <2> QED BY <1>3, <2>2, <2>3, <2>4 DEF Sent
<1>8. 1 \in sent
  <2>1. ~IsStf(parts[1]) /\ 1 \in 1 .. N
    BY <1>1, <1>2, FrameFacts
  <2>2. 1 \notin dropped0
    BY <1>4
  <2> QED BY <1>6, <2>1, <2>2
<1>9. K[1] = 1
  <2>1. 1 \in 1 .. N /\ 1 - 1 = 0 /\ K[0] = 0
    BY <1>2 DEF Counts
  <2>2. K[1] = K[1 - 1] + 1
    BY <1>2, <1>8, <2>1 DEF Counts
  <2> QED BY <2>1, <2>2
<1>10. Len(out) \in Nat
  BY <1>2 DEF Counts
<1>11. ASSUME NEW i \in sent
       PROVE  i \in 1 .. N /\ K[i] \in 1 .. Len(out) /\ out[K[i]] = SentPart(parts, dropped0, i)
  <2>1. i \in 1 .. N
    BY <1>3
  <2>2. K[i] \in 1 .. K[N]
    BY <1>2, <2>1, CountsGrow
  <2>3. out[K[i]] = H[i]
    BY <1>1, <2>1 DEF IsChoice
  <2> QED BY <1>2, <2>1, <2>2, <2>3
<1>12. ASSUME NEW i \in sent, NEW j \in sent PROVE i < j <=> K[i] < K[j]
  <2>1. i \in 1 .. N /\ j \in 1 .. N /\ i \in 0 .. N /\ j \in 0 .. N /\ K[i] \in Nat /\ K[j] \in Nat
    BY <1>2, <1>3 DEF Counts
  <2>2. i < j => K[i] < K[j]
    BY <1>2, <2>1, CountsGrow
  <2>3. j <= i => K[j] <= K[i]
    BY <1>2, <2>1, CountsGrow
  <2> QED BY ONLY <1>2, <2>1, <2>2, <2>3
<1>13. ASSUME NEW q \in 1 .. Len(out) PROVE \E n \in sent : K[n] = q
  BY <1>1, <1>2 DEF IsChoice
<1>14. ASSUME NEW n \in sent, n + 1 \in sent PROVE K[n + 1] = K[n] + 1
  <2>1. n + 1 \in 1 .. N /\ n \in 1 .. N
    BY <1>3, <1>14
  <2>2. (n + 1) - 1 = n
    BY <2>1
  <2>3. K[n + 1] = K[(n + 1) - 1] + 1
    BY <1>2, <1>14, <2>1 DEF Counts
  <2> QED BY <2>2, <2>3
<1> HIDE DEF H
<1> QED BY <1>2, <1>6, <1>7, <1>8, <1>9, <1>10, <1>11, <1>12, <1>13, <1>14

\* The message that is sent after another of the same front end comes after it in

\* the frame too, with no header between them.
LEMMA SentNext ==
  ASSUME NEW parts, NEW split, NEW dropped0, NEW out, NEW K,
         IsSuppressed(parts, dropped0, out, K), Drops(parts, split, dropped0),
         NEW i \in Sent(parts, dropped0), ~IsLast(out, K[i])
  PROVE  \E j \in Sent(parts, dropped0) :
            /\ i < j /\ K[j] = K[i] + 1 /\ out[K[i] + 1] = parts[j] /\ ~IsStf(parts[j])
            /\ \A k \in i + 1 .. j : ~IsStf(parts[k])
<1> DEFINE sent == Sent(parts, dropped0)
<1>1. IsFrame(parts)
  BY DEF IsSuppressed
<1>2. i \in 1 .. Len(parts) /\ K[i] \in 1 .. Len(out) /\ Len(out) \in Nat
  BY SentOnes
<1>3. K[i] # Len(out) /\ ~IsStf(out[K[i] + 1])
  BY DEF IsLast
<1>4. K[i] + 1 \in 1 .. Len(out)
  BY <1>2, <1>3
<1>5. PICK j \in sent : K[j] = K[i] + 1
  BY <1>4, SentOnes
<1>6. i < j
  <2>1. K[i] < K[j]
    BY <1>2, <1>5
  <2> QED BY <2>1, SentOnes
<1>7. j \in 1 .. Len(parts) /\ out[K[j]] = SentPart(parts, dropped0, j)
  BY SentOnes
<1>8. ~IsStf(parts[j])
  <2>1. ~IsStf(SentPart(parts, dropped0, j))
    BY <1>3, <1>5, <1>7
  <2> QED BY <1>1, <2>1, SentParts
<1>9. j \in 2 .. Len(parts)
  BY <1>2, <1>6, <1>7
<1>10. j \notin StfHeaders(parts) /\ j # 1
  BY <1>1, <1>7, <1>8, <1>9, FrameFacts
<1>11. out[K[i] + 1] = parts[j]
  BY <1>1, <1>5, <1>7, <1>10, SentParts
<1>12. PICK h \in StfHeaders(parts) : j \in MessagesOf(parts, h) /\ h < j
  BY <1>1, <1>8, <1>9, MessageHeader
<1>13. h \in sent
  BY <1>12, SentOnes
<1>14. h <= i
  <2> SUFFICES ASSUME i < h PROVE FALSE
    BY <1>2, <1>1, FrameFacts
  <2>1. K[i] < K[h] /\ K[h] < K[j]
    BY <1>12, <1>13, SentOnes
  <2>2. K[h] \in 1 .. Len(out)
    BY <1>13, SentOnes
  <2> QED BY <1>2, <1>5, <2>1, <2>2
<1>15. \A k \in i + 1 .. j : ~IsStf(parts[k])
  <2>1. \A k \in h + 1 .. j : ~IsStf(parts[k])
    BY <1>1, <1>12, MessageOf
  <2>2. h \in Nat /\ i \in Nat /\ j \in Nat
    BY <1>1, <1>2, <1>7, FrameFacts
  <2> QED BY <1>14, <2>1, <2>2
<1> QED BY <1>5, <1>6, <1>8, <1>11, <1>15

\* The last message of a front end that is sent has none after it.
LEMMA SentLast ==
  ASSUME NEW parts, NEW split, NEW dropped0, NEW out, NEW K,
         IsSuppressed(parts, dropped0, out, K), Drops(parts, split, dropped0),
         NEW i \in Sent(parts, dropped0), IsLast(parts, i)
  PROVE  IsLast(out, K[i])
<1> SUFFICES ASSUME ~IsLast(out, K[i]) PROVE FALSE
  OBVIOUS
<1>1. PICK j \in Sent(parts, dropped0) : i < j /\ \A k \in i + 1 .. j : ~IsStf(parts[k])
  BY SentNext
<1>2. i \in 1 .. Len(parts) /\ j \in 1 .. Len(parts)
  BY SentOnes
<1>3. i # Len(parts) /\ i + 1 \in i + 1 .. j
  BY <1>1, <1>2
<1> QED BY <1>1, <1>3 DEF IsLast

\* A message that is sent.
LEMMA SentMessage ==
  ASSUME NEW parts, NEW split, NEW dropped0, NEW out, NEW K,
         IsSuppressed(parts, dropped0, out, K), Drops(parts, split, dropped0),
         NEW q \in 2 .. Len(out), ~IsStf(out[q])
  PROVE  \E n \in Sent(parts, dropped0) :
            /\ K[n] = q /\ n \in 3 .. Len(parts) /\ ~IsStf(parts[n]) /\ n \notin dropped0
            /\ out[q] = parts[n]
<1>1. IsFrame(parts)
  BY DEF IsSuppressed
<1>2. Len(out) \in Nat
  BY SentOnes
<1>3. q \in 1 .. Len(out)
  BY <1>2
<1>4. PICK n \in Sent(parts, dropped0) : K[n] = q
  BY <1>3, SentOnes
<1>5. n \in 1 .. Len(parts) /\ out[q] = SentPart(parts, dropped0, n)
  BY <1>4, SentOnes
<1>6. ~IsStf(parts[n])
  BY <1>1, <1>5, SentParts
<1>7. n # 1
  BY <1>2, <1>4, SentOnes
<1>8. n \in 2 .. Len(parts)
  BY <1>5, <1>7
<1>9. n \in 3 .. Len(parts)
  BY <1>1, <1>6, <1>8, FrameFacts
<1>10. n \notin StfHeaders(parts)
  BY <1>1, <1>5, <1>6, FrameFacts
<1>11. out[q] = parts[n]
  BY <1>1, <1>5, <1>7, <1>10, SentParts
<1>12. n \notin dropped0
  BY <1>5, <1>6, SentOnes
<1> QED BY <1>4, <1>6, <1>9, <1>11, <1>12

\* A header that is sent.
LEMMA SentHeader ==
  ASSUME NEW parts, NEW split, NEW dropped0, NEW out, NEW K,
         IsSuppressed(parts, dropped0, out, K), Drops(parts, split, dropped0),
         NEW q \in 1 .. Len(out), IsStf(out[q])
  PROVE  \E h \in Sent(parts, dropped0) :
            /\ K[h] = q /\ h \in StfHeaders(parts)
            /\ out[q] = <<out[q][1]>> /\ out[q][1] \in StfUnit /\ out[q][1].fem = parts[h][1].fem
            /\ out[q][1].length = Size(parts, Left(parts, h, dropped0)) + 1
            /\ out[q][1].numMessages = Cardinality(Left(parts, h, dropped0))
<1>1. IsFrame(parts)
  BY DEF IsSuppressed
<1>4. PICK h \in Sent(parts, dropped0) : K[h] = q
  BY SentOnes
<1>5. h \in 1 .. Len(parts) /\ out[q] = SentPart(parts, dropped0, h)
  BY <1>4, SentOnes
<1>6. IsStf(parts[h])
  BY <1>1, <1>5, SentParts
<1>7. h \in StfHeaders(parts)
  BY <1>1, <1>5, <1>6, FrameFacts
<1>8. /\ out[q] = <<out[q][1]>> /\ out[q][1] \in StfUnit /\ out[q][1].fem = parts[h][1].fem
      /\ out[q][1].length = Size(parts, Left(parts, h, dropped0)) + 1
      /\ out[q][1].numMessages = Cardinality(Left(parts, h, dropped0))
  <2> PICK x : x = SentPart(parts, dropped0, h)
    OBVIOUS
  <2>1. /\ x = <<x[1]>> /\ x[1] \in StfUnit /\ x[1].fem = parts[h][1].fem
        /\ x[1].length = Size(parts, Left(parts, h, dropped0)) + 1
        /\ x[1].numMessages = Cardinality(Left(parts, h, dropped0))
    BY <1>1, <1>7, SentParts
  <2>2. out[q] = x
    BY <1>5
  <2> QED BY ONLY <2>1, <2>2
<1> QED BY <1>4, <1>7, <1>8

\* What is sent is a time frame again.
LEMMA SuppressedIsFrame ==
  ASSUME NEW parts, NEW split, NEW dropped0, NEW out, NEW K,
         IsSuppressed(parts, dropped0, out, K), Drops(parts, split, dropped0)
  PROVE  IsFrame(out) /\ out[1][1].numSource = parts[1][1].numSource
         /\ out[1][1].length = Size(parts, Sent(parts, dropped0))
<1>1. IsFrame(parts) /\ out \in Seq(Seq(Unit))
  BY DEF IsSuppressed
<1>2. Len(out) \in Nat /\ 1 \in Sent(parts, dropped0) /\ K[1] = 1 /\ 1 \in 1 .. Len(out)
      /\ out[1] = SentPart(parts, dropped0, 1)
  BY SentOnes
<1>3. out # <<>>
  BY <1>2
<1>4. /\ out[1] = <<out[1][1]>> /\ out[1][1] \in TfUnit
      /\ out[1][1].numSource = parts[1][1].numSource
      /\ out[1][1].length = Size(parts, Sent(parts, dropped0))
  <2> PICK x : x = SentPart(parts, dropped0, 1)
    OBVIOUS
  <2>1. x = <<x[1]>> /\ x[1] \in TfUnit /\ x[1].numSource = parts[1][1].numSource
        /\ x[1].length = Size(parts, Sent(parts, dropped0))
    BY <1>1, <1>2, SentParts
  <2>2. out[1] = x
    BY <1>2
  <2> QED BY ONLY <2>1, <2>2
<1>5. ASSUME Len(out) > 1 PROVE IsStf(out[2])
  <2> SUFFICES ASSUME ~IsStf(out[2]) PROVE FALSE
    OBVIOUS
  <2>1. 2 \in 2 .. Len(out)
    BY <1>2, <1>5
  <2>2. PICK n \in Sent(parts, dropped0) : K[n] = 2 /\ n \in 3 .. Len(parts) /\ ~IsStf(parts[n])
    BY <2>1, SentMessage
  <2>3. n \in 2 .. Len(parts)
    BY <2>2
  <2>4. PICK h \in StfHeaders(parts) : n \in MessagesOf(parts, h) /\ h < n
    BY <1>1, <2>2, <2>3, MessageHeader
  <2>5. h \in Sent(parts, dropped0) /\ 1 < h
    BY <1>1, <2>4, SentOnes, FrameFacts
  <2>6. K[1] < K[h] /\ K[h] < K[n] /\ K[h] \in 1 .. Len(out)
    BY <1>2, <2>4, <2>5, SentOnes
  <2> QED BY <1>2, <2>2, <2>6
<1>6. ASSUME NEW q \in 2 .. Len(out), IsStf(out[q]) PROVE \E stf \in StfUnit : out[q] = <<stf>>
  <2>1. q \in 1 .. Len(out)
    BY <1>2
  <2>2. out[q] = <<out[q][1]>> /\ out[q][1] \in StfUnit
    BY <1>6, <2>1, SentHeader
  <2> QED BY <2>2
<1>7. ASSUME NEW q \in 2 .. Len(out), ~IsStf(out[q])
      PROVE  /\ out[q] \in Seq(DataUnit) /\ out[q] # <<>>
             /\ \A k \in DOMAIN out[q] : out[q][k].fem = out[q - 1][1].fem
  <2>1. PICK n \in Sent(parts, dropped0) :
            K[n] = q /\ n \in 3 .. Len(parts) /\ ~IsStf(parts[n]) /\ out[q] = parts[n]
    BY <1>7, SentMessage
  <2>2. n \in 2 .. Len(parts)
    BY <2>1
  <2>3. out[q] \in Seq(DataUnit) /\ out[q] # <<>>
    BY <1>1, <2>1, <2>2 DEF IsFrame
  <2>4. PICK h \in StfHeaders(parts) :
            /\ n \in MessagesOf(parts, h) /\ h < n
            /\ \A k \in DOMAIN parts[n] : parts[n][k].fem = parts[h][1].fem
    BY <1>1, <2>1, <2>2, MessageHeader
  <2>5. h \in Sent(parts, dropped0) /\ h \in 2 .. Len(parts)
    BY <1>1, <2>4, SentOnes, FrameFacts
  <2>6. q - 1 \in 1 .. Len(out)
    BY <1>2
  <2>7. PICK m \in Sent(parts, dropped0) : K[m] = q - 1
    BY <2>6, SentOnes, SMTT(30)
  <2>8. m \in 1 .. Len(parts) /\ out[q - 1] = SentPart(parts, dropped0, m)
    BY <2>7, SentOnes
  <2>9. m < n
    <3>1. K[m] < K[n]
      BY <1>2, <2>1, <2>7
    <3> QED BY <3>1, SentOnes
  <2>10. h <= m
    <3> SUFFICES ASSUME m < h PROVE FALSE
      BY <2>5, <2>8
    <3>1. K[m] < K[h] /\ K[h] < K[n] /\ K[h] \in 1 .. Len(out)
      BY <2>4, <2>5, SentOnes
    <3> QED BY <1>2, <2>1, <2>7, <3>1
  <2>11. out[q - 1][1].fem = parts[h][1].fem
    <3>1. CASE m = h
      <4>1. q - 1 = K[h] /\ IsStf(parts[h])
        BY <1>1, <2>7, <3>1, FrameFacts
      <4> PICK x : x = SentPart(parts, dropped0, h)
        OBVIOUS
      <4>2. x[1].fem = parts[h][1].fem
        BY <1>1, <2>4, <2>5, SentParts, SMTT(30)
      <4> QED BY <2>8, <3>1, <4>2
    <3>2. CASE m # h
      <4>1. m \in h + 1 .. Len(parts) /\ m \in 2 .. Len(parts) /\ m \in h + 1 .. n
        BY <2>2, <2>5, <2>8, <2>9, <2>10, <3>2
      <4>2. \A k \in h + 1 .. n : ~IsStf(parts[k])
        BY <1>1, <2>4, MessageOf
      <4>3. ~IsStf(parts[m]) /\ \A k \in h + 1 .. m : ~IsStf(parts[k])
        <5>1. \A k \in h + 1 .. m : k \in h + 1 .. n
          BY <2>2, <2>5, <2>8, <2>9
        <5> QED BY <4>1, <4>2, <5>1
      <4>4. m \notin StfHeaders(parts) /\ m # 1
        BY <1>1, <2>8, <4>1, <4>3, FrameFacts
      <4>5. out[q - 1] = parts[m]
        BY <1>1, <2>8, <4>4, SentParts
      <4>6. PICK g \in StfHeaders(parts) :
                /\ m \in MessagesOf(parts, g) /\ g < m
                /\ \A k \in DOMAIN parts[m] : parts[m][k].fem = parts[g][1].fem
        BY <1>1, <4>1, <4>3, MessageHeader
      <4>7. g = h
        <5>1. \A k \in g + 1 .. m : ~IsStf(parts[k])
          BY <1>1, <4>6, MessageOf
        <5>2. g \in Nat /\ h \in Nat /\ IsStf(parts[g]) /\ IsStf(parts[h]) /\ m \in Nat
          <6>1. h \in 2 .. Len(parts) /\ IsStf(parts[h])
            BY <1>1, FrameFacts
          <6>2. g \in 2 .. Len(parts) /\ IsStf(parts[g])
            BY <1>1, FrameFacts
          <6> QED BY <2>8, <6>1, <6>2
        <5>3. ~(g < h)
          <6> SUFFICES ASSUME g < h PROVE FALSE
            OBVIOUS
          <6>1. h \in g + 1 .. m
            BY <2>10, <5>2
          <6> QED BY <5>1, <5>2, <6>1
        <5>4. ~(h < g)
          <6> SUFFICES ASSUME h < g PROVE FALSE
            OBVIOUS
          <6>1. g \in h + 1 .. m
            BY <4>6, <5>2
          <6> QED BY <4>3, <5>2, <6>1
        <5> QED BY <5>2, <5>3, <5>4
      <4>8. 1 \in DOMAIN parts[m]
        <5> PICK x : x = parts[m]
          OBVIOUS
        <5>1. x \in Seq(DataUnit) /\ Len(x) \in Nat \ {0}
          BY <1>1, <4>1, <4>3, FrameFacts
        <5> QED BY <5>1
      <4> QED BY <4>5, <4>6, <4>7, <4>8
    <3> QED BY <3>1, <3>2
  <2> QED BY <2>1, <2>3, <2>4, <2>11
<1> QED BY <1>1, <1>3, <1>4, <1>5, <1>6, <1>7 DEF IsFrame

\* Its messages are cut the way they were.
LEMMA SuppressedIsCut ==
  ASSUME NEW parts, NEW split, NEW dropped0, NEW out, NEW K,
         IsSuppressed(parts, dropped0, out, K), Drops(parts, split, dropped0),
         IsCut(parts, split), IsWhole(parts, split)
  PROVE  /\ IsCut(out, split)
         /\ (split = 1 => \A i \in 2 .. Len(parts) : Heads(parts[i]) # <<"SE">>) => IsWhole(out, split)
<1>0. IsFrame(parts) /\ Len(out) \in Nat /\ Len(parts) \in Nat
  BY SentOnes, FrameFacts DEF IsSuppressed
\* A heartbeat is dropped only with the data before it.
<1>1. ASSUME NEW n \in Sent(parts, dropped0), n \in 2 .. Len(parts), ~IsLast(parts, n), IsHartBeat(parts[n + 1])
      PROVE  K[n + 1] = K[n] + 1 /\ out[K[n] + 1] = parts[n + 1] /\ n + 1 \in Sent(parts, dropped0)
             /\ ~IsStf(parts[n + 1]) /\ n + 1 \in 2 .. Len(parts) /\ ~IsLast(out, K[n])
  <2>1. n + 1 \in 2 .. Len(parts) /\ n + 1 \in 1 .. Len(parts) /\ ~IsStf(parts[n + 1]) /\ (n + 1) - 1 = n
    BY <1>0, <1>1 DEF IsLast
  <2>2. n \notin dropped0
    BY DEF Sent
  <2>3. n + 1 \notin dropped0
    BY <1>1, <2>1, <2>2 DEF Drops
  <2>4. n + 1 \in Sent(parts, dropped0)
    BY <2>1, <2>3, SentOnes
  <2>5. K[n + 1] = K[n] + 1 /\ K[n + 1] \in 1 .. Len(out) /\ out[K[n + 1]] = SentPart(parts, dropped0, n + 1)
        /\ K[n] \in 1 .. Len(out)
    BY <2>4, SentOnes
  <2>6. n + 1 \notin StfHeaders(parts) /\ n + 1 # 1
    BY <1>0, <2>1, FrameFacts
  <2>7. SentPart(parts, dropped0, n + 1) = parts[n + 1]
    BY <1>0, <2>4, <2>6, SentParts
  <2>8. out[K[n] + 1] = parts[n + 1]
    BY <2>5, <2>7
  <2>9. K[n] # Len(out)
    BY <1>0, <2>5
  <2> QED BY <2>1, <2>4, <2>5, <2>8, <2>9 DEF IsLast
<1>2. ASSUME NEW i \in 2 .. Len(parts), Heads(parts[i]) = <<"HB", "HB">> PROVE IsHartBeat(parts[i])
  <2>1. 1 \in DOMAIN Heads(parts[i]) /\ Heads(parts[i])[1] = "HB"
    BY <1>2
  <2>2. Heads(parts[i])[1] = parts[i][1].head
    BY <2>1 DEF Heads
  <2> QED BY <2>1, <2>2 DEF IsHartBeat
<1>3. ASSUME NEW i \in 2 .. Len(parts), Heads(parts[i]) = <<"SE">> \/ Heads(parts[i]) = <<"T">>
      PROVE  ~IsHartBeat(parts[i])
  <2>1. 1 \in DOMAIN Heads(parts[i]) /\ Heads(parts[i])[1] # "HB"
    BY <1>3
  <2>2. Heads(parts[i])[1] = parts[i][1].head
    BY <2>1 DEF Heads
  <2> QED BY <2>1, <2>2 DEF IsHartBeat
<1>4. Forms(1) = {<<"T">>, <<"SE">>, <<"HB", "HB">>}
  BY DEF Forms
<1>5. ASSUME NEW q \in 2 .. Len(out), ~IsStf(out[q])
      PROVE  /\ Heads(out[q]) \in Forms(split)
             /\ split = 0 /\ ~IsHartBeat(out[q]) => ~IsLast(out, q) /\ IsHartBeat(out[q + 1])
             /\ split = 1 /\ Heads(out[q]) = <<"T">> /\ ~IsLast(out, q) => Heads(out[q + 1]) # <<"T">>
             /\ split = 1 /\ Heads(out[q]) = <<"SE">> =>
                    ~IsLast(out, q) /\ Heads(out[q + 1]) = <<"HB", "HB">> /\ IsLast(out, q + 1)
             /\ split = 2 /\ Heads(out[q]) = <<"HB">> => IsLast(out, q)
  <2>1. PICK n \in Sent(parts, dropped0) :
            /\ K[n] = q /\ n \in 3 .. Len(parts) /\ ~IsStf(parts[n]) /\ n \notin dropped0
            /\ out[q] = parts[n]
    BY <1>5, SentMessage
  <2>2. n \in 2 .. Len(parts)
    BY <2>1
  <2>3. Heads(out[q]) \in Forms(split)
    BY <2>1, <2>2 DEF IsCut
  <2>4. ASSUME split = 0, ~IsHartBeat(out[q]) PROVE ~IsLast(out, q) /\ IsHartBeat(out[q + 1])
    <3>1. ~IsLast(parts, n) /\ IsHartBeat(parts[n + 1])
      BY <2>1, <2>2, <2>4 DEF IsCut
    <3>2. out[K[n] + 1] = parts[n + 1] /\ ~IsLast(out, K[n])
      BY <1>1, <2>2, <3>1
    <3> QED BY <2>1, <3>1, <3>2
  <2>5. ASSUME split = 1, Heads(out[q]) = <<"SE">>
        PROVE  ~IsLast(out, q) /\ Heads(out[q + 1]) = <<"HB", "HB">> /\ IsLast(out, q + 1)
    <3>1. ~IsLast(parts, n) /\ Heads(parts[n + 1]) = <<"HB", "HB">> /\ IsLast(parts, n + 1)
      BY <2>1, <2>2, <2>5 DEF IsCut
    <3>2. n + 1 \in 2 .. Len(parts)
      BY <1>0, <2>2, <3>1 DEF IsLast
    <3>3. IsHartBeat(parts[n + 1])
      BY <1>2, <3>1, <3>2
    <3>4. out[K[n] + 1] = parts[n + 1] /\ ~IsLast(out, K[n]) /\ K[n + 1] = K[n] + 1
          /\ n + 1 \in Sent(parts, dropped0)
      BY <1>1, <2>2, <3>1, <3>3
    <3>5. IsLast(out, K[n + 1])
      BY <3>1, <3>4, SentLast
    <3> QED BY <2>1, <3>1, <3>4, <3>5
  <2>6. ASSUME split = 1, Heads(out[q]) = <<"T">>, ~IsLast(out, q) PROVE Heads(out[q + 1]) # <<"T">>
    <3> SUFFICES ASSUME Heads(out[q + 1]) = <<"T">> PROVE FALSE
      OBVIOUS
    <3>1. PICK j \in Sent(parts, dropped0) :
              /\ n < j /\ K[j] = K[n] + 1 /\ out[K[n] + 1] = parts[j]
              /\ \A k \in n + 1 .. j : ~IsStf(parts[k])
      BY <2>1, <2>6, SentNext
    <3>2. j \in 1 .. Len(parts) /\ Heads(parts[j]) = <<"T">>
      BY <2>1, <3>1, SentOnes
    <3>3. ~IsLast(parts, n)
      <4>1. ~IsHartBeat(parts[n])
        BY <1>3, <2>1, <2>2, <2>6
      <4> QED BY <2>1, <2>2, <2>6, <4>1 DEF IsWhole
    <3>4. Heads(parts[n + 1]) # <<"T">>
      BY <2>1, <2>2, <2>6, <3>3 DEF IsCut
    <3>5. n + 1 \in 2 .. Len(parts) /\ ~IsStf(parts[n + 1]) /\ j \in Nat /\ n \in Nat
      BY <1>0, <2>2, <3>2, <3>3 DEF IsLast
    <3>6. Heads(parts[n + 1]) \in Forms(1)
      BY <2>6, <3>5 DEF IsCut
    <3>7. j # n + 1
      BY <3>2, <3>4
    <3>8. CASE Heads(parts[n + 1]) = <<"HB", "HB">>
      <4>1. IsHartBeat(parts[n + 1])
        BY <1>2, <3>5, <3>8
      <4>2. K[n + 1] = K[n] + 1 /\ n + 1 \in Sent(parts, dropped0)
        BY <1>1, <2>2, <3>3, <4>1
      <4>3. ~(K[n + 1] < K[j]) /\ n + 1 < j
        <5>1. K[j] \in Nat
          <6>1. K[j] \in 1 .. Len(out)
            BY SentOnes
          <6> QED BY <6>1
        <5> QED BY <3>1, <3>5, <3>7, <4>2, <5>1
      <4> QED BY <4>2, <4>3, SentOnes
    <3>9. CASE Heads(parts[n + 1]) = <<"SE">>
      <4>1. ~IsLast(parts, n + 1) /\ Heads(parts[(n + 1) + 1]) = <<"HB", "HB">> /\ IsLast(parts, (n + 1) + 1)
        BY <2>6, <3>5, <3>9 DEF IsCut
      <4>2. (n + 1) + 1 = n + 2 /\ (n + 2) + 1 = n + 3
        BY <3>5
      <4>3. j # n + 2
        BY <3>2, <4>1, <4>2
      <4>4. n + 3 <= j /\ n + 3 \in n + 1 .. j /\ n + 2 # Len(parts)
        BY <3>1, <3>2, <3>5, <3>7, <4>3
      <4>5. IsStf(parts[n + 3])
        BY <4>1, <4>2, <4>4 DEF IsLast
      <4> QED BY <3>1, <4>4, <4>5
    <3> QED BY <1>4, <3>4, <3>6, <3>8, <3>9
  <2>7. ASSUME split = 2, Heads(out[q]) = <<"HB">> PROVE IsLast(out, q)
    <3>1. IsLast(parts, n)
      BY <2>1, <2>2, <2>7 DEF IsCut
    <3> QED BY <2>1, <3>1, SentLast
  <2> QED BY <2>3, <2>4, <2>5, <2>6, <2>7
<1>6. ASSUME split = 1 => \A i \in 2 .. Len(parts) : Heads(parts[i]) # <<"SE">>
      PROVE  IsWhole(out, split)
  <2> SUFFICES ASSUME NEW q \in 2 .. Len(out), ~IsStf(out[q]), ~IsHartBeat(out[q]), split \in {0, 1}
               PROVE  ~IsLast(out, q)
    BY DEF IsWhole
  <2>0. CASE split = 0
    BY <1>5, <2>0
  <2>1. CASE split = 1
    <3>1. PICK n \in Sent(parts, dropped0) :
              /\ K[n] = q /\ n \in 3 .. Len(parts) /\ ~IsStf(parts[n]) /\ n \notin dropped0
              /\ out[q] = parts[n]
      BY SentMessage
    <3>2. n \in 2 .. Len(parts)
      BY <3>1
    <3>3. ~IsLast(parts, n)
      BY <3>1, <3>2 DEF IsWhole
    <3>4. n + 1 \in 2 .. Len(parts) /\ ~IsStf(parts[n + 1])
      BY <1>0, <3>2, <3>3 DEF IsLast
    <3>5. Heads(parts[n]) \in Forms(1) /\ Heads(parts[n + 1]) \in Forms(1)
      BY <2>1, <3>1, <3>2, <3>4 DEF IsCut
    <3>6. Heads(parts[n]) = <<"T">>
      <4>1. Heads(parts[n]) # <<"HB", "HB">>
        BY <1>2, <3>1, <3>2
      <4> QED BY <1>4, <1>6, <2>1, <3>2, <3>5, <4>1
    <3>7. Heads(parts[n + 1]) = <<"HB", "HB">>
      <4>1. Heads(parts[n + 1]) # <<"T">>
        BY <2>1, <3>1, <3>2, <3>3, <3>6 DEF IsCut
      <4> QED BY <1>4, <1>6, <2>1, <3>4, <3>5, <4>1
    <3>8. IsHartBeat(parts[n + 1])
      BY <1>2, <3>4, <3>7
    <3>9. ~IsLast(out, K[n])
      BY <1>1, <3>2, <3>3, <3>8
    <3> QED BY <3>1, <3>9
  <2> QED BY <2>0, <2>1
<1> QED BY <1>5, <1>6 DEF IsCut

\* What is left of a front end is what comes behind its header.
LEMMA SentMessages ==
  ASSUME NEW parts, NEW split, NEW dropped0, NEW out, NEW K,
         IsSuppressed(parts, dropped0, out, K), Drops(parts, split, dropped0),
         NEW h \in Sent(parts, dropped0), h \in StfHeaders(parts)
  PROVE  /\ \A n \in 1 .. Len(parts) : n \in Left(parts, h, dropped0) <=>
                n \in Sent(parts, dropped0) /\ K[n] \in MessagesOf(out, K[h])
         /\ K[h] \in StfHeaders(out)
<1>0. IsFrame(parts) /\ IsFrame(out)
  BY SuppressedIsFrame DEF IsSuppressed
<1>00. Len(out) \in Nat /\ Len(parts) \in Nat
  BY <1>0, FrameFacts
<1>1. h \in 2 .. Len(parts) /\ IsStf(parts[h]) /\ h \in Nat
  <2>1. h \in 2 .. Len(parts) /\ IsStf(parts[h])
    BY <1>0, FrameFacts
  <2> QED BY <2>1
<1>2. ASSUME NEW i \in Sent(parts, dropped0) PROVE IsStf(out[K[i]]) <=> IsStf(parts[i])
  <2>1. out[K[i]] = SentPart(parts, dropped0, i)
    BY SentOnes
  <2> QED BY <1>0, <2>1, SentParts
<1>3. K[h] \in 1 .. Len(out) /\ IsStf(out[K[h]])
  BY <1>1, <1>2, SentOnes
<1>4. K[h] \in StfHeaders(out) /\ K[h] \in Nat
  BY <1>0, <1>3, FrameFacts
<1>5. ASSUME NEW n \in Left(parts, h, dropped0) PROVE n \in Sent(parts, dropped0) /\ K[n] \in MessagesOf(out, K[h])
  <2>1. n \in MessagesOf(parts, h) /\ n \notin dropped0
    BY DEF Left
  <2>2. n \in h + 1 .. Len(parts) /\ \A k \in h + 1 .. n : ~IsStf(parts[k])
    BY <1>0, <2>1, MessageOf
  <2>3. n \in 1 .. Len(parts) /\ ~IsStf(parts[n]) /\ n \in Nat /\ h < n
    BY <1>1, <2>2
  <2>4. n \in Sent(parts, dropped0)
    BY <2>1, <2>3, SentOnes
  <2>5. K[n] \in 1 .. Len(out) /\ K[h] < K[n]
    BY <2>3, <2>4, SentOnes
  <2>6. K[n] \in K[h] + 1 .. Len(out)
    BY <1>4, <2>5
  <2>7. ASSUME NEW k \in K[h] + 1 .. K[n] PROVE ~IsStf(out[k])
    <3>1. k \in 1 .. Len(out) /\ K[h] < k /\ k <= K[n]
      BY <1>4, <2>5
    <3>2. PICK m \in Sent(parts, dropped0) : K[m] = k
      BY <3>1, SentOnes
    <3>3. h < m /\ ~(n < m) /\ m \in 1 .. Len(parts)
      <4>1. h < m
        BY <3>1, <3>2, SentOnes
      <4>2. ~(K[n] < K[m])
        BY <2>5, <3>1, <3>2
      <4> QED BY <2>4, <4>1, <4>2, SentOnes
    <3>4. m \in h + 1 .. n
      BY <1>1, <2>3, <3>3
    <3> QED BY <1>2, <2>2, <3>2, <3>4
  <2>8. K[n] \in MessagesOf(out, K[h])
    BY <1>0, <1>4, <2>6, <2>7, MessageOf
  <2> QED BY <2>4, <2>8
<1>6. ASSUME NEW n \in Sent(parts, dropped0), K[n] \in MessagesOf(out, K[h])
      PROVE  n \in Left(parts, h, dropped0)
  <2>1. K[n] \in K[h] + 1 .. Len(out) /\ \A k \in K[h] + 1 .. K[n] : ~IsStf(out[k])
    BY <1>0, <1>4, <1>6, MessageOf
  <2>2. K[h] < K[n] /\ ~IsStf(out[K[n]]) /\ K[n] \in Nat
    BY <1>4, <2>1
  <2>3. h < n /\ n \in 1 .. Len(parts) /\ ~IsStf(parts[n])
    <3>1. h < n
      BY <2>2, SentOnes
    <3> QED BY <1>2, <2>2, <3>1, SentOnes
  <2>4. n \in 2 .. Len(parts)
    BY <1>1, <2>3
  <2>5. PICK g \in StfHeaders(parts) : n \in MessagesOf(parts, g) /\ g < n
    BY <1>0, <2>3, <2>4, MessageHeader
  <2>6. g \in 2 .. Len(parts) /\ IsStf(parts[g]) /\ g \in Nat
    <3>1. g \in 2 .. Len(parts) /\ IsStf(parts[g])
      BY <1>0, FrameFacts
    <3> QED BY <3>1
  <2>7. g \in Sent(parts, dropped0)
    BY <2>5, SentOnes
  <2>8. ~(h < g)
    <3> SUFFICES ASSUME h < g PROVE FALSE
      OBVIOUS
    <3>1. K[h] < K[g] /\ K[g] < K[n] /\ K[g] \in 1 .. Len(out)
      BY <2>5, <2>7, SentOnes
    <3>2. K[g] \in K[h] + 1 .. K[n]
      BY <1>4, <2>2, <3>1
    <3> QED BY <1>2, <2>1, <2>6, <2>7, <3>2
  <2>9. ~(g < h)
    <3> SUFFICES ASSUME g < h PROVE FALSE
      OBVIOUS
    <3>1. h \in g + 1 .. n
      BY <1>1, <2>3, <2>6
    <3>2. \A k \in g + 1 .. n : ~IsStf(parts[k])
      BY <1>0, <2>5, MessageOf
    <3> QED BY <1>1, <3>1, <3>2
  <2>10. g = h
    BY <1>1, <2>6, <2>8, <2>9
  <2>11. n \notin dropped0
    BY DEF Sent
  <2> QED BY <2>5, <2>10, <2>11 DEF Left
<1> QED BY <1>4, <1>5, <1>6

\* The headers say how much is sent.
LEMMA SuppressedIsLong ==
  ASSUME NEW parts, NEW split, NEW dropped0, NEW out, NEW K,
         IsSuppressed(parts, dropped0, out, K), Drops(parts, split, dropped0)
  PROVE  /\ AreLong(out)
         /\ \A q \in StfHeaders(out) : out[q][1].numMessages = Cardinality(MessagesOf(out, q))
<1> DEFINE sent == Sent(parts, dropped0)
           N == Len(parts)
           H == [i \in 1 .. N |-> SentPart(parts, dropped0, i)]
<1>0. IsFrame(parts) /\ IsFrame(out) /\ parts \in Seq(Seq(Unit)) /\ out \in Seq(Seq(Unit))
  BY SuppressedIsFrame, FrameFacts DEF IsSuppressed
<1>1. IsChoice(out, N, sent, H, K) /\ \A n \in 1 .. N : n \in sent => Len(H[n]) = Len(parts[n])
  <2>1. \A n \in 1 .. N : n \in sent => Len(SentPart(parts, dropped0, n)) = Len(parts[n])
    BY <1>0, SentParts
  <2> QED BY <2>1 DEF IsSuppressed
<1> HIDE DEF H
<1>2. ASSUME NEW is, NEW js, \A n \in 1 .. N : n \in is <=> n \in sent /\ K[n] \in js
      PROVE  Size(out, js) = Size(parts, is)
  BY <1>0, <1>1, <1>2, SizeChosen
<1>3. out[1][1].length = Size(out, DOMAIN out)
  <2>1. \A n \in 1 .. N : n \in sent <=> n \in sent /\ K[n] \in DOMAIN out
    <3>1. DOMAIN out = 1 .. Len(out)
      BY <1>0, FrameFacts
    <3> QED BY <3>1, SentOnes
  <2>2. Size(out, DOMAIN out) = Size(parts, sent)
    BY <1>2, <2>1
  <2> QED BY <2>2, SuppressedIsFrame
<1>4. ASSUME NEW q \in StfHeaders(out)
      PROVE  out[q][1].length = 1 + Size(out, MessagesOf(out, q))
             /\ out[q][1].numMessages = Cardinality(MessagesOf(out, q))
  <2>1. q \in 1 .. Len(out) /\ IsStf(out[q])
    <3>1. q \in 2 .. Len(out) /\ IsStf(out[q]) /\ Len(out) \in Nat
      BY <1>0, FrameFacts
    <3> QED BY <3>1
  <2>2. PICK h \in sent :
            /\ K[h] = q /\ h \in StfHeaders(parts)
            /\ out[q][1].length = Size(parts, Left(parts, h, dropped0)) + 1
            /\ out[q][1].numMessages = Cardinality(Left(parts, h, dropped0))
    BY <2>1, SentHeader
  <2>3. \A n \in 1 .. N : n \in Left(parts, h, dropped0) <=> n \in sent /\ K[n] \in MessagesOf(out, q)
    BY <2>2, SentMessages
  <2>4. Size(out, MessagesOf(out, q)) = Size(parts, Left(parts, h, dropped0))
    BY <1>2, <2>3
  <2>5. Size(parts, Left(parts, h, dropped0)) \in Nat
    BY <1>0, SizeSame
  <2>6. Cardinality(Left(parts, h, dropped0)) = Cardinality(MessagesOf(out, q))
    <3> DEFINE A == Left(parts, h, dropped0)
               B == MessagesOf(out, q)
               f == [n \in A |-> K[n]]
    <3>1. \A n \in A : n \in 1 .. N /\ n \in MessagesOf(parts, h)
      <4>1. h \in 2 .. Len(parts) /\ Len(parts) \in Nat
        BY <1>0, <2>2, FrameFacts
      <4> QED BY <4>1 DEF Left, MessagesOf
    <3>2. \A n \in A : n \in sent /\ K[n] \in B
      BY <2>3, <3>1
    <3>3. \A y \in B : \E n \in A : K[n] = y
      <4> SUFFICES ASSUME NEW y \in B PROVE \E n \in A : K[n] = y
        OBVIOUS
      <4>1. y \in 1 .. Len(out)
        <5>1. q \in 2 .. Len(out) /\ Len(out) \in Nat
          BY <1>0, FrameFacts
        <5> QED BY <5>1 DEF MessagesOf
      <4>2. PICK n \in sent : K[n] = y
        BY <4>1, SentOnes
      <4>3. n \in 1 .. N
        BY SentOnes
      <4> QED BY <2>3, <4>2, <4>3
    <3>4. \A m, n \in A : K[m] = K[n] => m = n
      <4> SUFFICES ASSUME NEW m \in A, NEW n \in A, K[m] = K[n], m # n PROVE FALSE
        OBVIOUS
      <4>1. m \in 1 .. N /\ n \in 1 .. N /\ m \in sent /\ n \in sent
        BY <3>1, <3>2
      <4>2. m < n \/ n < m
        BY <4>1
      <4>3. K[m] < K[n] \/ K[n] < K[m]
        BY <4>1, <4>2, SentOnes
      <4>4. K[m] \in 1 .. Len(out)
        BY <4>1, SentOnes
      <4> QED BY <4>3, <4>4
    <3>5. IsFiniteSet(A)
      <4>1. PICK e \in h .. Len(parts) : MessagesOf(parts, h) = h + 1 .. e
        BY <1>0, <2>2, MessagesAre
      <4>2. h \in 2 .. Len(parts) /\ Len(parts) \in Nat
        BY <1>0, <2>2, FrameFacts
      <4>3. h + 1 \in Int /\ e \in Int
        BY <4>2
      <4>4. IsFiniteSet(MessagesOf(parts, h))
        BY <4>1, <4>3, FS_Interval
      <4> QED BY <4>4, FS_Subset DEF Left
    <3>6. f \in Bijection(A, B)
      <4>1. f \in [A -> B]
        BY <3>2
      <4>2. \A m, n \in A : f[m] = f[n] => m = n
        BY <3>4
      <4>3. \A y \in B : \E n \in A : f[n] = y
        BY <3>3
      <4> HIDE DEF f, A, B
      <4> QED BY <4>1, <4>2, <4>3 DEF Bijection, Injection, Surjection, IsInjective
    <3> HIDE DEF f, A, B
    <3>7. ExistsBijection(A, B)
      BY <3>6 DEF ExistsBijection
    <3>8. Cardinality(B) = Cardinality(A)
      BY <3>5, <3>6, <3>7, FS_Bijection
    <3> QED BY <3>8 DEF A, B
  <2> QED BY <2>2, <2>4, <2>5, <2>6
<1> QED BY <1>3, <1>4 DEF AreLong

\* The blocks of a sub time frame are its messages.
LEMMA BlocksAre ==
  ASSUME NEW parts, IsFrame(parts), NEW split, NEW h \in StfHeaders(parts)
  PROVE  Blocks(parts, h, split) \in Seq({Dummy} \union MessagesOf(parts, h))
<1> DEFINE V == {Dummy} \union MessagesOf(parts, h)
           c == Cardinality(MessagesOf(parts, h))
           is == [k \in 1 .. c |-> h + k]
           Block(k) == IF /\ split = 1 /\ IsHartBeat(parts[is[k]])
                          /\ k = 1 \/ IsHartBeat(parts[is[k - 1]])
                       THEN <<Dummy, is[k]>> ELSE <<is[k]>>
           s == [k \in DOMAIN is |-> Block(k)]
<1>1. PICK e \in h .. Len(parts) : MessagesOf(parts, h) = h + 1 .. e /\ Cardinality(MessagesOf(parts, h)) = e - h
  BY MessagesAre
<1>2. h \in Nat /\ e \in Nat /\ c \in Nat /\ c = e - h
  <2>1. h \in 2 .. Len(parts) /\ Len(parts) \in Nat
    BY FrameFacts
  <2> QED BY <1>1, <2>1
<1>3. \A k \in 1 .. c : is[k] \in V
  BY <1>1, <1>2
<1>4. \A k \in 1 .. c : Block(k) \in Seq(V)
  <2> SUFFICES ASSUME NEW k \in 1 .. c PROVE Block(k) \in Seq(V)
    OBVIOUS
  <2> PICK i : i = is[k]
    OBVIOUS
  <2>1. i \in V /\ Dummy \in V
    BY <1>3
  <2>2. <<Dummy, i>> \in Seq(V) /\ <<i>> \in Seq(V)
    BY <2>1
  <2>3. Block(k) = <<Dummy, i>> \/ Block(k) = <<i>>
    <3> HIDE DEF is
    <3> QED OBVIOUS
  <2> QED BY <2>2, <2>3
<1>5. DOMAIN is = 1 .. c
  OBVIOUS
<1>6. s \in Seq(Seq(V))
  <2> PICK W : W = Seq(V)
    OBVIOUS
  <2>1. \A k \in 1 .. c : Block(k) \in W
    BY <1>4
  <2> HIDE DEF Block, is, V, c
  <2>2. [k \in 1 .. c |-> Block(k)] \in Seq(W)
    BY ONLY <2>1, <1>2
  <2> QED BY <1>5, <2>2
<1>7. FlattenSeq(s) \in Seq(V)
  <2> HIDE DEF s, V
  <2> QED BY <1>6, LiesFlat
<1> QED BY <1>7 DEF Blocks, WithDummies

\* Every heartbeat of the block map is a message of its front end.
LEMMA BlockMapIs ==
  ASSUME NEW parts, IsFrame(parts), NEW split
  PROVE  /\ \A blocks \in BlockMap(parts, split) :
                \E h \in StfHeaders(parts) : blocks \in Seq({Dummy} \union MessagesOf(parts, h))
         /\ BlockMap(parts, split) # {} =>
                /\ BsizeMin(BlockMap(parts, split)) \in Nat
                /\ \A blocks \in BlockMap(parts, split) : BsizeMin(BlockMap(parts, split)) <= Len(blocks)
         /\ Len(parts) > 1 => BlockMap(parts, split) # {}
<1> DEFINE bm == BlockMap(parts, split)
<1>1. ASSUME NEW blocks \in bm
      PROVE  \E h \in StfHeaders(parts) : blocks \in Seq({Dummy} \union MessagesOf(parts, h))
  <2>1. PICK h \in StfHeaders(parts) : blocks = Blocks(parts, h, split)
    BY DEF BlockMap
  <2> QED BY <2>1, BlocksAre
<1>2. ASSUME bm # {} PROVE BsizeMin(bm) \in Nat /\ \A blocks \in bm : BsizeMin(bm) <= Len(blocks)
  <2> DEFINE S == {Len(blocks) : blocks \in bm}
  <2>1. S \in SUBSET Nat /\ S # {}
    <3>1. \A blocks \in bm : Len(blocks) \in Nat
      BY <1>1
    <3> HIDE DEF bm
    <3> QED BY <1>2, <3>1
  <2>2. \E x \in S : \A y \in S : x <= y
    <3> HIDE DEF S
    <3> QED BY <2>1, LeastNatural
  <2>3. Min(S) \in S /\ \A y \in S : Min(S) <= y
    <3> HIDE DEF S
    <3> QED BY <2>2 DEF Min
  <2>4. BsizeMin(bm) = Min(S)
    BY DEF BsizeMin
  <2> QED BY <2>1, <2>3, <2>4
<1>3. ASSUME Len(parts) > 1 PROVE bm # {}
  <2>1. Len(parts) \in 2 .. Len(parts) /\ Len(parts) \in Nat
    BY <1>3, FrameFacts
  <2>2. PICK h \in StfHeaders(parts) : h <= Len(parts) /\ \A k \in h + 1 .. Len(parts) : ~IsStf(parts[k])
    BY <2>1, HeaderOf
  <2>3. \A g \in StfHeaders(parts) : g <= h
    <3> SUFFICES ASSUME NEW g \in StfHeaders(parts), ~(g <= h) PROVE FALSE
      OBVIOUS
    <3>1. g \in 2 .. Len(parts) /\ IsStf(parts[g])
      BY FrameFacts
    <3>2. h \in 2 .. Len(parts)
      BY FrameFacts
    <3>3. g \in h + 1 .. Len(parts)
      BY <2>1, <3>1, <3>2
    <3> QED BY <2>2, <3>1, <3>3
  <2>4. Blocks(parts, h, split) \in bm
    BY <2>3 DEF BlockMap
  <2> QED BY <2>4
<1> QED BY <1>1, <1>2, <1>3

\* The filter drops data, and heartbeats behind them.
LEMMA UntriggeredDrops ==
  ASSUME NEW parts, IsFrame(parts), NEW split, IsCut(parts, split), IsWhole(parts, split),
         NEW removeHB, NEW fems
  PROVE  Drops(parts, split, Untriggered(parts, split, removeHB, fems))
<1> DEFINE bm == BlockMap(parts, split)
           data == UNION {DataAt(parts, bm, i) : i \in {i \in 1 .. BsizeMin(bm) : ~Hits(parts, bm, i, fems)}}
           dropped == Untriggered(parts, split, removeHB, fems)
<1>1. dropped = data \union IF split \in {0, 1} /\ removeHB
                            THEN {b + 1 : b \in data} \intersect DOMAIN parts ELSE {}
  BY DEF Untriggered
<1>2. ASSUME NEW d \in data PROVE IsMessage(parts, d) /\ ~IsHartBeat(parts[d])
  <2>1. PICK i \in 1 .. BsizeMin(bm) : d \in DataAt(parts, bm, i)
    OBVIOUS
  <2>2. d # Dummy /\ ~IsHartBeat(parts[d]) /\ \E blocks \in bm : d = blocks[i]
    BY <2>1 DEF DataAt
  <2>3. PICK blocks \in bm : d = blocks[i]
    BY <2>2
  <2>4. BsizeMin(bm) \in Nat /\ BsizeMin(bm) <= Len(blocks)
    BY BlockMapIs
  <2>5. PICK h \in StfHeaders(parts) : blocks \in Seq({Dummy} \union MessagesOf(parts, h))
    BY BlockMapIs
  <2>6. d \in {Dummy} \union MessagesOf(parts, h)
    <3> PICK V : V = {Dummy} \union MessagesOf(parts, h)
      OBVIOUS
    <3>1. blocks \in Seq(V) /\ i \in 1 .. Len(blocks)
      BY <2>4, <2>5
    <3>2. blocks[i] \in V
      BY ONLY <3>1
    <3> QED BY <2>3, <3>2
  <2>7. d \in MessagesOf(parts, h)
    BY <2>2, <2>6
  <2>8. d \in h + 1 .. Len(parts) /\ \A k \in h + 1 .. d : ~IsStf(parts[k])
    BY <2>7, MessageOf
  <2>9. h \in 2 .. Len(parts) /\ Len(parts) \in Nat
    BY FrameFacts
  <2> QED BY <2>2, <2>8, <2>9 DEF IsMessage
<1>3. ASSUME NEW b \in data, split \in {0, 1} PROVE IsMessage(parts, b + 1)
  <2>1. b \in 3 .. Len(parts) /\ ~IsStf(parts[b]) /\ ~IsHartBeat(parts[b]) /\ Len(parts) \in Nat
    BY <1>2, FrameFacts DEF IsMessage
  <2>2. b \in 2 .. Len(parts)
    BY <2>1
  <2>3. ~IsLast(parts, b)
    BY <1>3, <2>1, <2>2 DEF IsWhole
  <2> QED BY <2>1, <2>3 DEF IsLast, IsMessage
<1> HIDE DEF data
<1> SUFFICES ASSUME NEW d \in dropped
             PROVE  /\ IsMessage(parts, d)
                    /\ IsHartBeat(parts[d]) =>
                            split \in {0, 1} /\ d - 1 \in dropped /\ IsMessage(parts, d - 1)
  BY DEF Drops
<1>4. CASE d \in data
  BY <1>2, <1>4
<1>5. CASE d \notin data
  <2>1. split \in {0, 1} /\ \E b \in data : d = b + 1
    BY <1>1, <1>5
  <2>2. PICK b \in data : d = b + 1
    BY <2>1
  <2>3. b \in Nat
    <3>1. b \in 3 .. Len(parts)
      BY <1>2 DEF IsMessage
    <3> QED BY <3>1
  <2>4. d - 1 = b /\ b \in dropped
    BY <1>1, <2>2, <2>3
  <2> QED BY <1>2, <1>3, <2>1, <2>2, <2>4
<1> QED BY <1>4, <1>5

-----------------------------------------------------------------------------
(* What the filter sends. *)

\* The part of HeadersAgree about a frame.
HeadersAgreeIn(parts) ==
    /\ parts[1][1].length = Size(parts, DOMAIN parts)
    /\ parts[2][1].length = Size(parts, 2 .. Len(parts))
    /\ \A h \in StfHeaders(parts) :
        /\ parts[h][1].length = Size(parts, {h} \union MessagesOf(parts, h))
        /\ parts[h][1].numMessages = Cardinality(MessagesOf(parts, h))
    /\ \A i \in 3 .. Len(parts) : i \notin StfHeaders(parts) =>
        \E h \in StfHeaders(parts) :
            i \in MessagesOf(parts, h) /\ parts[h][1].fem = parts[i][1].fem

\* HeadersAgree is about the frame that is sent next.
LEMMA HeadersAgreeInIs == HeadersAgree <=> (outParts # <<>> /\ option.suppress => HeadersAgreeIn(Head(outParts)))
BY DEF HeadersAgree, HeadersAgreeIn

\* A message in front of a frame.
IsBefore(x, left, parts) ==
    /\ parts \in Seq(Seq(Unit)) /\ Len(parts) = Len(left) + 1 /\ parts[1] = <<x>>
    /\ \A i \in 1 .. Len(left) : parts[i + 1] = left[i]

\* All that was in the frame is one place further.
LEMMA Before ==
  ASSUME NEW left, IsFrame(left), NEW x \in Unit
  PROVE  IsBefore(x, left, <<<<x>>>> \o left) /\ Head(<<<<x>>>> \o left) = <<x>> /\ Tail(<<<<x>>>> \o left) = left
<1> PICK V : V = Seq(Unit)
  OBVIOUS
<1> PICK y : y = <<x>>
  OBVIOUS
<1>1. left \in Seq(V) /\ y \in V
  <2>1. <<x>> \in Seq(Unit)
    OBVIOUS
  <2> QED BY <2>1, FrameFacts
<1>2. /\ <<y>> \o left \in Seq(V) /\ Len(<<y>> \o left) = Len(left) + 1 /\ (<<y>> \o left)[1] = y
      /\ \A i \in 1 .. Len(left) : (<<y>> \o left)[i + 1] = left[i]
  BY ONLY <1>1
<1>3. Head(<<y>> \o left) = y /\ Tail(<<y>> \o left) = left
  BY ONLY <1>1
<1> QED BY <1>2, <1>3 DEF IsBefore

\* So are its sizes,
LEMMA SizeBefore ==
  ASSUME NEW left, IsFrame(left), NEW x, NEW parts, IsBefore(x, left, parts), NEW is, NEW js,
         \A n \in 1 .. Len(left) : n \in js <=> n + 1 \in is
  PROVE  Size(parts, is) = (IF 1 \in is THEN 1 ELSE 0) + Size(left, js)
<1>1. parts \in Seq(Seq(Unit)) /\ left \in Seq(Seq(Unit)) /\ Len(left) \in Nat /\ Len(parts) = Len(left) + 1
  BY FrameFacts DEF IsBefore
<1>2. PICK y : Sums(y, left, js)
  BY <1>1, SizeSums
<1>3. PICK z : Sums(z, parts, is)
  BY <1>1, SizeSums
<1> DEFINE first == IF 1 \in is THEN 1 ELSE 0
           S == {n \in Nat : n <= Len(left) => z[n + 1] = first + y[n]}
<1>4. 0 \in S
  <2>1. 1 \in 1 .. Len(parts) /\ 1 - 1 = 0 /\ 0 + 1 = 1
    BY <1>1
  <2>2. Len(parts[1]) = 1
    BY DEF IsBefore
  <2>3. z[1] = z[1 - 1] + IF 1 \in is THEN Len(parts[1]) ELSE 0
    BY <1>3, <2>1 DEF Sums
  <2>4. z[0] = 0 /\ y[0] = 0
    BY <1>2, <1>3 DEF Sums
  <2> QED BY <2>1, <2>2, <2>3, <2>4
<1>5. ASSUME NEW n \in Nat, n \in S PROVE n + 1 \in S
  <2> SUFFICES ASSUME n + 1 <= Len(left) PROVE z[(n + 1) + 1] = first + y[n + 1]
    OBVIOUS
  <2>1. n + 1 \in 1 .. Len(left) /\ (n + 1) - 1 = n /\ (n + 1) + 1 \in 1 .. Len(parts)
        /\ ((n + 1) + 1) - 1 = n + 1 /\ n \in 0 .. Len(left)
    BY <1>1
  <2>2. y[n + 1] = y[n] + (IF n + 1 \in js THEN Len(left[n + 1]) ELSE 0) /\ y[n] \in Nat
    BY <1>2, <2>1 DEF Sums
  <2>3. z[(n + 1) + 1] = z[n + 1] + (IF (n + 1) + 1 \in is THEN Len(parts[(n + 1) + 1]) ELSE 0)
    BY <1>3, <2>1 DEF Sums
  <2>4. parts[(n + 1) + 1] = left[n + 1] /\ (n + 1 \in js <=> (n + 1) + 1 \in is)
    BY <2>1 DEF IsBefore
  <2>5. z[n + 1] = first + y[n] /\ first \in Nat
    BY <1>1, <1>5, <2>1
  <2>6. Len(left[n + 1]) \in Nat
    <3>1. left[n + 1] \in Seq(Unit)
      BY <1>1, <2>1
    <3> QED BY <3>1
  <2> QED BY <2>2, <2>3, <2>4, <2>5, <2>6
<1>6. Nat \subseteq S
  <2> HIDE DEF S
  <2> QED BY <1>4, <1>5, Induction
<1>7. z[Len(left) + 1] = first + y[Len(left)]
  BY <1>1, <1>6
<1> QED BY <1>1, <1>2, <1>3, <1>7 DEF Sums

\* and its headers and their messages.
LEMMA HeadersBefore ==
  ASSUME NEW left, IsFrame(left), NEW x, x.head # "STF", NEW parts, IsBefore(x, left, parts)
  PROVE  /\ \A h : h \in StfHeaders(parts) <=> h - 1 \in StfHeaders(left) /\ h \in 2 .. Len(parts)
         /\ \A h \in StfHeaders(left) : \E e \in h .. Len(left) :
                /\ MessagesOf(left, h) = h + 1 .. e /\ MessagesOf(parts, h + 1) = h + 2 .. e + 1
                /\ Cardinality(MessagesOf(parts, h + 1)) = e - h
<1>1. parts \in Seq(Seq(Unit)) /\ Len(left) \in Nat /\ Len(parts) = Len(left) + 1
  BY FrameFacts DEF IsBefore
<1>2. DOMAIN parts = 1 .. Len(parts) /\ DOMAIN left = 1 .. Len(left)
  BY <1>1, FrameFacts
<1>3. ~IsStf(parts[1]) /\ \A i \in 1 .. Len(left) : parts[i + 1] = left[i]
  <2> PICK y : y = parts[1]
    OBVIOUS
  <2>1. y = <<x>>
    BY DEF IsBefore
  <2>2. y[1].head # "STF"
    BY <2>1
  <2> QED BY <2>2 DEF IsBefore, IsStf
<1>4. ASSUME NEW h PROVE h \in StfHeaders(parts) <=> h - 1 \in StfHeaders(left) /\ h \in 2 .. Len(parts)
  <2>1. h \in StfHeaders(parts) <=> h \in 1 .. Len(parts) /\ IsStf(parts[h])
    BY <1>2 DEF StfHeaders, IsStf
  <2>2. ASSUME h \in 2 .. Len(parts)
        PROVE  (h - 1 \in StfHeaders(left) <=> IsStf(parts[h]))
    <3>1. h - 1 \in 1 .. Len(left) /\ (h - 1) + 1 = h
      BY <1>1, <2>2
    <3>2. parts[h] = left[h - 1]
      BY <1>3, <3>1
    <3> QED BY <1>2, <3>1, <3>2 DEF StfHeaders, IsStf
  <2>3. h \in 1 .. Len(parts) /\ IsStf(parts[h]) => h \in 2 .. Len(parts)
    BY <1>1, <1>3
  <2>4. h \in 2 .. Len(parts) => h \in 1 .. Len(parts)
    BY <1>1
  <2> QED BY <2>1, <2>2, <2>3, <2>4
<1>5. ASSUME NEW h \in StfHeaders(left)
      PROVE  \E e \in h .. Len(left) :
                /\ MessagesOf(left, h) = h + 1 .. e /\ MessagesOf(parts, h + 1) = h + 2 .. e + 1
                /\ Cardinality(MessagesOf(parts, h + 1)) = e - h
  <2>1. PICK e \in h .. Len(left) : /\ MessagesOf(left, h) = h + 1 .. e
                                    /\ Cardinality(MessagesOf(left, h)) = e - h
    BY MessagesAre
  <2>2. h \in 2 .. Len(left) /\ h \in Nat /\ e \in Nat /\ h <= e
    <3>1. h \in 2 .. Len(left)
      BY FrameFacts
    <3> QED BY <1>1, <3>1
  <2>3. ASSUME NEW i \in h + 2 .. Len(parts)
        PROVE  (\A k \in h + 2 .. i : ~IsStf(parts[k])) <=> i \in h + 2 .. e + 1
    <3>1. i - 1 \in h + 1 .. Len(left) /\ i \in Nat
      BY <1>1, <2>2
    <3>2. i - 1 \in MessagesOf(left, h) <=> \A k \in h + 1 .. i - 1 : ~IsStf(left[k])
      BY <3>1, MessageOf
    <3>3. i - 1 \in MessagesOf(left, h) <=> i \in h + 2 .. e + 1
      BY <2>1, <2>2, <3>1
    <3>4. ASSUME \A k \in h + 1 .. i - 1 : ~IsStf(left[k]), NEW k \in h + 2 .. i PROVE ~IsStf(parts[k])
      <4>1. k - 1 \in h + 1 .. i - 1 /\ k - 1 \in 1 .. Len(left) /\ (k - 1) + 1 = k
        BY <1>1, <2>2, <3>1
      <4>2. parts[k] = left[k - 1]
        BY <1>3, <4>1
      <4> QED BY <3>4, <4>1, <4>2
    <3>5. ASSUME \A k \in h + 2 .. i : ~IsStf(parts[k]), NEW k \in h + 1 .. i - 1 PROVE ~IsStf(left[k])
      <4>1. k + 1 \in h + 2 .. i /\ k \in 1 .. Len(left)
        BY <1>1, <2>2, <3>1
      <4>2. parts[k + 1] = left[k]
        BY <1>3, <4>1
      <4> QED BY <3>5, <4>1, <4>2
    <3> QED BY <3>2, <3>3, <3>4, <3>5
  <2>4. MessagesOf(parts, h + 1) = {i \in h + 2 .. Len(parts) : \A k \in h + 2 .. i : ~IsStf(parts[k])}
    <3>1. (h + 1) + 1 = h + 2
      BY <2>2
    <3> QED BY <3>1 DEF MessagesOf, IsStf
  <2>5. MessagesOf(parts, h + 1) = h + 2 .. e + 1
    <3>1. \A i \in h + 2 .. e + 1 : i \in h + 2 .. Len(parts)
      BY <1>1, <2>2
    <3> QED BY <2>3, <2>4, <3>1
  <2>6. Cardinality(h + 2 .. e + 1) = e - h
    <3> PICK a : a = h + 2
      OBVIOUS
    <3> PICK b : b = e + 1
      OBVIOUS
    <3>1. a \in Int /\ b \in Int
      BY <2>2
    <3>2. Cardinality(a .. b) = IF a > b THEN 0 ELSE b - a + 1
      BY ONLY <3>1, FS_Interval, Zenon
    <3> PICK c : c = Cardinality(a .. b)
      OBVIOUS
    <3>3. c = e - h
      <4>1. CASE a > b
        BY ONLY <2>2, <3>2, c = Cardinality(a .. b), a = h + 2, b = e + 1, <4>1
      <4>2. CASE ~(a > b)
        BY ONLY <2>2, <3>2, c = Cardinality(a .. b), a = h + 2, b = e + 1, <4>2
      <4> QED BY <4>1, <4>2
    <3> QED BY <3>3
  <2> QED BY <2>1, <2>5, <2>6
<1> QED BY <1>4, <1>5

\* The size of a sub time frame with its header.
LEMMA SizeWithHeader ==
  ASSUME NEW parts, IsFrame(parts), NEW h \in StfHeaders(parts)
  PROVE  Size(parts, {h} \union MessagesOf(parts, h)) = 1 + Size(parts, MessagesOf(parts, h))
<1>1. parts \in Seq(Seq(Unit)) /\ Len(parts) \in Nat /\ h \in 2 .. Len(parts) /\ Len(parts[h]) = 1
  BY FrameFacts
<1>2. PICK e \in h .. Len(parts) : MessagesOf(parts, h) = h + 1 .. e
  BY MessagesAre
<1> PICK w : w = FlattenSeq(parts)
  OBVIOUS
<1>3. PICK P : Lies(w, parts, P)
  BY <1>1, LiesFlat DEF Spells
<1> PICK g : g = h - 1
  OBVIOUS
<1>4. g \in 0 .. Len(parts) /\ e \in g .. Len(parts) /\ g + 1 = h /\ h \in 0 .. Len(parts)
      /\ e \in h .. Len(parts) /\ h \in 1 .. Len(parts) /\ e \in 0 .. Len(parts)
  BY <1>1, <1>2
<1> HIDE DEF Lies
<1>5. Size(parts, g + 1 .. e) = P[e] - P[g]
  BY ONLY <1>1, <1>3, <1>4, SizeRange
<1>6. Size(parts, h + 1 .. e) = P[e] - P[h]
  BY ONLY <1>1, <1>3, <1>4, SizeRange
<1>7. P[h] = P[g] + 1 /\ P[g] \in Nat /\ P[e] \in Nat
  <2>1. h - 1 = g
    OBVIOUS
  <2>2. P[h] = P[g] + Len(parts[h])
    BY <1>3, <1>4, <2>1 DEF Lies
  <2>3. P[g] \in Nat /\ P[e] \in Nat
    BY <1>3, <1>4 DEF Lies
  <2> QED BY <1>1, <2>2, <2>3
<1>8. {h} \union MessagesOf(parts, h) = g + 1 .. e
  <2>1. \A n : n \in {h} \union (h + 1 .. e) <=> n \in g + 1 .. e
    BY ONLY <1>1, <1>4
  <2> QED BY <1>2, <2>1
<1>9. Size(parts, {h} \union MessagesOf(parts, h)) = P[e] - P[g] /\ Size(parts, MessagesOf(parts, h)) = P[e] - P[h]
  BY <1>2, <1>5, <1>6, <1>8
<1> PICK pe : pe = P[e]
  OBVIOUS
<1> PICK pg : pg = P[g]
  OBVIOUS
<1> PICK ph : ph = P[h]
  OBVIOUS
<1>10. pe - pg = 1 + (pe - ph)
  <2>1. ph = pg + 1 /\ pg \in Nat /\ pe \in Nat
    BY <1>7
  <2> QED BY ONLY <2>1
<1> QED BY <1>9, <1>10

\* With the header of the filter before it, the headers agree.
LEMMA LongAgrees ==
  ASSUME NEW left, IsFrame(left), AreLong(left),
         \A h \in StfHeaders(left) : left[h][1].numMessages = Cardinality(MessagesOf(left, h)),
         NEW x \in FltUnit, x.length = left[1][1].length + 1, NEW parts, IsBefore(x, left, parts)
  PROVE  HeadersAgreeIn(parts)
<1>1. parts \in Seq(Seq(Unit)) /\ Len(parts) = Len(left) + 1 /\ Len(left) \in Nat /\ Len(left) >= 1
      /\ left \in Seq(Seq(Unit)) /\ DOMAIN left = 1 .. Len(left)
  BY FrameFacts DEF IsBefore
<1>2. parts[1] = <<x>> /\ \A i \in 1 .. Len(left) : parts[i + 1] = left[i]
  BY DEF IsBefore
<1>3. x.head # "STF"
  BY Units
<1>4. DOMAIN parts = 1 .. Len(parts)
  BY <1>1
<1>5. parts[1][1] = x /\ parts[2] = left[1]
  <2>1. <<x>>[1] = x
    OBVIOUS
  <2>2. 1 \in 1 .. Len(left) /\ 1 + 1 = 2
    BY <1>1
  <2> QED BY <1>2, <2>1, <2>2
<1>6. Size(left, DOMAIN left) \in Nat /\ left[1][1].length = Size(left, DOMAIN left)
  <2>1. Size(left, DOMAIN left) \in Nat
    BY <1>1, SizeSame
  <2> QED BY <2>1 DEF AreLong
<1>7. parts[1][1].length = Size(parts, DOMAIN parts)
  <2>1. \A n \in 1 .. Len(left) : n \in DOMAIN left <=> n + 1 \in DOMAIN parts
    BY <1>1, <1>4
  <2>2. Size(parts, DOMAIN parts) = (IF 1 \in DOMAIN parts THEN 1 ELSE 0) + Size(left, DOMAIN left)
    BY <2>1, SizeBefore
  <2>3. 1 \in DOMAIN parts
    BY <1>1, <1>4
  <2> QED BY <1>5, <1>6, <2>2, <2>3
<1>8. parts[2][1].length = Size(parts, 2 .. Len(parts))
  <2>1. \A n \in 1 .. Len(left) : n \in DOMAIN left <=> n + 1 \in 2 .. Len(parts)
    BY <1>1
  <2>2. Size(parts, 2 .. Len(parts)) = (IF 1 \in 2 .. Len(parts) THEN 1 ELSE 0) + Size(left, DOMAIN left)
    BY <2>1, SizeBefore
  <2> QED BY <1>5, <1>6, <2>2
<1>9. ASSUME NEW h \in StfHeaders(parts)
      PROVE  /\ parts[h][1].length = Size(parts, {h} \union MessagesOf(parts, h))
             /\ parts[h][1].numMessages = Cardinality(MessagesOf(parts, h))
  <2>1. h - 1 \in StfHeaders(left) /\ h \in 2 .. Len(parts)
    BY <1>3, HeadersBefore
  <2> PICK g : g = h - 1
    OBVIOUS
  <2>2. g \in StfHeaders(left) /\ g \in 1 .. Len(left) /\ h = g + 1 /\ g \in Nat
    BY <1>1, <2>1
  <2>3. PICK e \in g .. Len(left) :
            /\ MessagesOf(left, g) = g + 1 .. e /\ MessagesOf(parts, g + 1) = g + 2 .. e + 1
            /\ Cardinality(MessagesOf(parts, g + 1)) = e - g
    BY <1>3, <2>2, HeadersBefore
  <2>4. parts[h] = left[g]
    BY <1>2, <2>2
  <2>5. \A n \in 1 .. Len(left) :
            n \in {g} \union MessagesOf(left, g) <=> n + 1 \in {h} \union MessagesOf(parts, h)
    BY <2>2, <2>3
  <2>6. Size(parts, {h} \union MessagesOf(parts, h)) =
            (IF 1 \in {h} \union MessagesOf(parts, h) THEN 1 ELSE 0) + Size(left, {g} \union MessagesOf(left, g))
    BY <2>5, SizeBefore
  <2>7. 1 \notin {h} \union MessagesOf(parts, h)
    BY <2>2, <2>3
  <2>8. Size(left, {g} \union MessagesOf(left, g)) = 1 + Size(left, MessagesOf(left, g))
        /\ Size(left, {g} \union MessagesOf(left, g)) \in Nat
    BY <1>1, <2>2, SizeWithHeader, SizeSame
  <2>9. left[g][1].length = 1 + Size(left, MessagesOf(left, g))
        /\ left[g][1].numMessages = Cardinality(MessagesOf(left, g))
    BY <2>2 DEF AreLong
  <2>10. Cardinality(MessagesOf(left, g)) = e - g
    <3>1. PICK f \in g .. Len(left) : MessagesOf(left, g) = g + 1 .. f /\ Cardinality(MessagesOf(left, g)) = f - g
      BY <2>2, MessagesAre
    <3>2. f = e
      <4>1. f \in Nat /\ e \in Nat /\ f >= g /\ e >= g
        BY <2>2
      <4>2. g + 1 .. f = g + 1 .. e
        BY <2>3, <3>1
      <4>3. ~(f < e)
        <5> SUFFICES ASSUME f < e PROVE FALSE
          OBVIOUS
        <5>1. e \in g + 1 .. e /\ e \notin g + 1 .. f
          BY <2>2, <4>1
        <5> QED BY <4>2, <5>1
      <4>4. ~(e < f)
        <5> SUFFICES ASSUME e < f PROVE FALSE
          OBVIOUS
        <5>1. f \in g + 1 .. f /\ f \notin g + 1 .. e
          BY <2>2, <4>1
        <5> QED BY <4>2, <5>1
      <4> QED BY <4>1, <4>3, <4>4
    <3> QED BY <3>1, <3>2
  <2> QED BY <2>2, <2>3, <2>4, <2>6, <2>7, <2>8, <2>9, <2>10
<1>10. ASSUME NEW i \in 3 .. Len(parts), i \notin StfHeaders(parts)
       PROVE  \E h \in StfHeaders(parts) : i \in MessagesOf(parts, h) /\ parts[h][1].fem = parts[i][1].fem
  <2> PICK j : j = i - 1
    OBVIOUS
  <2>1. j \in 2 .. Len(left) /\ j \in 1 .. Len(left) /\ i = j + 1 /\ i \in 2 .. Len(parts)
    BY <1>1
  <2>2. j \notin StfHeaders(left)
    BY <1>3, <1>10, <2>1, HeadersBefore
  <2>3. ~IsStf(left[j])
    BY <2>1, <2>2, FrameFacts
  <2>4. PICK g \in StfHeaders(left) :
            /\ j \in MessagesOf(left, g)
            /\ \A k \in DOMAIN left[j] : left[j][k].fem = left[g][1].fem
    BY <2>1, <2>3, MessageHeader
  <2>5. g \in 2 .. Len(left) /\ g \in 1 .. Len(left) /\ g \in Nat
    <3>1. g \in 2 .. Len(left)
      BY FrameFacts
    <3> QED BY <1>1, <3>1, SMTT(30)
  <2>6. PICK e \in g .. Len(left) :
            MessagesOf(left, g) = g + 1 .. e /\ MessagesOf(parts, g + 1) = g + 2 .. e + 1
    BY <1>3, HeadersBefore
  <2>7. g + 1 \in StfHeaders(parts)
    <3>1. (g + 1) - 1 = g /\ g + 1 \in 2 .. Len(parts)
      BY <1>1, <2>5
    <3> QED BY <1>3, <3>1, HeadersBefore
  <2>8. i \in MessagesOf(parts, g + 1)
    BY <1>1, <2>1, <2>4, <2>5, <2>6
  <2>9. parts[i] = left[j] /\ parts[g + 1] = left[g]
    BY <1>2, <2>1, <2>5
  <2>10. 1 \in DOMAIN left[j]
    <3> PICK y : y = left[j]
      OBVIOUS
    <3>1. y \in Seq(DataUnit) /\ Len(y) \in Nat \ {0}
      BY <2>1, <2>3, FrameFacts
    <3> QED BY <3>1
  <2>11. parts[g + 1][1].fem = parts[i][1].fem
    BY <2>4, <2>9, <2>10
  <2> QED BY <2>7, <2>8, <2>11
<1> QED BY <1>7, <1>8, <1>9, <1>10 DEF HeadersAgreeIn
\* What the filter has to send.
IsFiltered(parts, split, suppress, left) ==
    /\ IsFrame(left) /\ IsCut(left, split) /\ left[1][1].numSource = parts[1][1].numSource
    /\ suppress => /\ AreLong(left)
                   /\ \A h \in StfHeaders(left) : left[h][1].numMessages = Cardinality(MessagesOf(left, h))
                   /\ (split = 1 => \A i \in 2 .. Len(parts) : Heads(parts[i]) # <<"SE">>) => IsWhole(left, split)
    /\ ~suppress => left = parts

\* With the header of the filter.
IsOutput(sent, parts, split, suppress) ==
    \E left : \E x \in FltUnit :
        /\ sent = <<<<x>>>> \o left
        /\ x.length = left[1][1].length + 1 /\ IsFiltered(parts, split, suppress, left)

\* The filter sends a frame again, and its headers agree.
LEMMA FilteredFrame ==
  ASSUME NEW parts, IsFrame(parts), Len(parts) > 1, NEW split, IsCut(parts, split), IsWhole(parts, split),
         NEW suppress \in BOOLEAN, NEW removeHB, NEW fems
  PROVE  IsOutput(Filtered(parts, split, suppress, removeHB, fems), parts, split, suppress)
<1> DEFINE dropped0 == Untriggered(parts, split, removeHB, fems)
           left == IF suppress THEN Suppress(parts, dropped0) ELSE parts
           num == TotalHits(parts, split, fems)
           x == [head |-> "FLT", length |-> left[1][1].length + 1, numTrigs |-> num]
<1>1. Filtered(parts, split, suppress, removeHB, fems) = <<<<x>>>> \o left
  BY DEF Filtered
<1>2. IsFiltered(parts, split, suppress, left)
  <2>1. CASE suppress
    <3>1. Drops(parts, split, dropped0)
      BY UntriggeredDrops
    <3>2. PICK K : IsSuppressed(parts, dropped0, Suppress(parts, dropped0), K)
      BY SuppressChooses
    <3> HIDE DEF dropped0
    <3> PICK d : d = dropped0
      OBVIOUS
    <3> PICK out : out = Suppress(parts, dropped0)
      OBVIOUS
    <3>3. IsSuppressed(parts, d, out, K) /\ Drops(parts, split, d) /\ left = out
      BY <2>1, <3>1, <3>2
    <3>4. IsFrame(out) /\ out[1][1].numSource = parts[1][1].numSource
      BY <3>3, SuppressedIsFrame
    <3>5. IsCut(out, split)
          /\ ((split = 1 => \A i \in 2 .. Len(parts) : Heads(parts[i]) # <<"SE">>) => IsWhole(out, split))
      BY <3>3, SuppressedIsCut
    <3>6. AreLong(out) /\ \A q \in StfHeaders(out) : out[q][1].numMessages = Cardinality(MessagesOf(out, q))
      BY <3>3, SuppressedIsLong
    <3> HIDE DEF left
    <3> QED BY <2>1, <3>3, <3>4, <3>5, <3>6 DEF IsFiltered
  <2>2. CASE ~suppress
    BY <2>2 DEF IsFiltered
  <2> QED BY <2>1, <2>2
<1>3. num \in Nat
  <2> DEFINE bm == BlockMap(parts, split)
             S == {i \in 1 .. BsizeMin(bm) : Hits(parts, bm, i, fems)}
  <2>1. BsizeMin(bm) \in Nat
    BY BlockMapIs
  <2>2. IsFiniteSet(1 .. BsizeMin(bm))
    <3>1. 1 \in Int /\ BsizeMin(bm) \in Int
      BY <2>1
    <3> HIDE DEF bm
    <3> QED BY <3>1, FS_Interval
  <2>3. IsFiniteSet(S)
    <3>1. S \subseteq 1 .. BsizeMin(bm)
      OBVIOUS
    <3> HIDE DEF S, bm
    <3> QED BY <2>2, <3>1, FS_Subset
  <2>4. Cardinality(S) \in Nat
    <3> HIDE DEF S
    <3> QED BY <2>3, FS_CardinalityType
  <2> QED BY <2>4 DEF TotalHits
<1>4. left[1][1].length \in Nat
  <2>1. IsFrame(left)
    BY <1>2 DEF IsFiltered
  <2> HIDE DEF left
  <2>2. left[1][1] \in TfUnit
    BY <2>1, FrameFacts
  <2> QED BY <2>2, Units
<1>5. x \in FltUnit /\ x.length = left[1][1].length + 1
  <2> HIDE DEF left, num
  <2> QED BY <1>3, <1>4 DEF FltUnit
<1> HIDE DEF left, x
<1> QED BY <1>1, <1>2, <1>5 DEF IsOutput

-----------------------------------------------------------------------------
(* How the players cut a sub time frame. *)

IsMethod(player, split) ==
    player \in {"STFB", "TFB"} /\ split \in 0 .. 2 /\ (split = 2 => player = "TFB")

\* Where a message ends, when the player is at unit p.
LEMMA LastUnitIs ==
  ASSUME NEW player, NEW split, IsMethod(player, split), NEW w \in Seq(Unit),
         NEW begin \in Nat, NEW p \in 1 .. Len(w)
  PROVE  /\ LastUnit(player, split, w, begin, p) \in 0 .. Len(w)
         /\ split = 0 => LastUnit(player, split, w, begin, p) = p
         /\ split = 1 /\ p = begin => LastUnit(player, split, w, begin, p) = 0
         /\ split = 1 /\ p # begin /\ w[p - 1].head # "HB" => LastUnit(player, split, w, begin, p) = p - 1
         /\ split = 1 /\ p = begin + 1 /\ w[p - 1].head = "HB" => LastUnit(player, split, w, begin, p) = p
         /\ split = 2 /\ p < Len(w) /\ w[p + 1].head = "HB" => LastUnit(player, split, w, begin, p) = p + 1
         /\ split = 2 /\ p = Len(w) => LastUnit(player, split, w, begin, p) = p
<1> DEFINE end == LastUnit(player, split, w, begin, p)
<1>0. Len(w) \in Nat /\ p \in Nat /\ p >= 1 /\ p <= Len(w) /\ p - 1 \in 0 .. Len(w) /\ p \in 0 .. Len(w)
  OBVIOUS
<1>1. CASE split = 0
  <2>1. end = p
    BY <1>1 DEF LastUnit
  <2> QED BY <1>0, <1>1, <2>1
<1>2. CASE split = 1
  <2>1. CASE player = "STFB"
    <3>1. end = STFBEnd1(w, begin, p)
      BY <1>2, <2>1 DEF LastUnit
    <3>2. end = IF p = begin THEN 0 ELSE IF w[p - 1].head = "HB" THEN p ELSE p - 1
      BY <3>1 DEF STFBEnd1
    <3> HIDE DEF end
    <3> QED BY <1>0, <1>2, <3>2 DEF end
  <2>2. CASE player = "TFB"
    <3>1. end = TFBEnd1(w, begin, p)
      BY <1>2, <2>2 DEF LastUnit
    <3>2. end = IF p = begin THEN 0 ELSE IF p > begin + 1 \/ w[p - 1].head # "HB" THEN p - 1 ELSE p
      BY <3>1 DEF TFBEnd1
    <3>3. p = begin + 1 => ~(p > begin + 1) /\ p # begin
      BY <1>0
    <3> HIDE DEF end
    <3> QED BY <1>0, <1>2, <3>2, <3>3 DEF end
  <2> QED BY <2>1, <2>2 DEF IsMethod
<1>3. CASE split = 2
  <2>1. player = "TFB"
    BY <1>3 DEF IsMethod
  <2>2. end = TFBEnd2(w, p)
    BY <1>3, <2>1 DEF LastUnit
  <2>3. end = IF p < Len(w) /\ w[p + 1].head = "HB" THEN p + 1 ELSE p
    BY <2>2 DEF TFBEnd2
  <2>4. p < Len(w) => p + 1 \in 0 .. Len(w)
    BY <1>0
  <2>5. p = Len(w) => ~(p < Len(w))
    BY <1>0
  <2> HIDE DEF end
  <2> QED BY <1>0, <1>3, <2>3, <2>4, <2>5 DEF end
<1> QED BY <1>1, <1>2, <1>3 DEF IsMethod

\* What the loop of a player goes through.
Cuts(c, player, split, w) ==
    /\ c \in [0 .. Len(w) -> [messages : Seq(Seq(Unit)), begin : 1 .. Len(w) + 1, next : Nat]]
    /\ c[0] = [messages |-> <<>>, begin |-> 1, next |-> 1]
    /\ \A p \in 1 .. Len(w) : c[p] = CutAt(player, split, w, c[p - 1], p)
    /\ Cut(player, split, w) = c[Len(w)].messages

\* Cut is the last of them.
LEMMA CutCuts ==
  ASSUME NEW player, NEW split, IsMethod(player, split), NEW w \in Seq(Unit)
  PROVE  \E c : Cuts(c, player, split, w)
<1> DEFINE N == Len(w)
           V == [messages : Seq(Seq(Unit)), begin : 1 .. N + 1, next : Nat]
           b0 == [messages |-> <<>>, begin |-> 1, next |-> 1]
           G == [x \in V \X (1 .. N) |-> CutAt(player, split, w, x[1], x[2])]
           Fits(f) == f = [p \in 0 .. N |->
                IF p = 0 THEN [messages |-> <<>>, begin |-> 1, next |-> 1]
                         ELSE CutAt(player, split, w, f[p - 1], p)]
<1>1. N \in Nat /\ b0 \in V
  OBVIOUS
<1>2. ASSUME NEW acc \in V, NEW p \in 1 .. N PROVE CutAt(player, split, w, acc, p) \in V
  <2> PICK end : end = LastUnit(player, split, w, acc.begin, p)
    OBVIOUS
  <2>1. acc.begin \in 1 .. N + 1 /\ acc.begin \in Nat /\ acc.messages \in Seq(Seq(Unit))
    BY <1>1
  <2>2. end \in 0 .. N
    BY <2>1, LastUnitIs
  <2>3. CutAt(player, split, w, acc, p) =
            IF p < acc.next \/ ~Delimiter(w[p]) \/ end = 0 THEN acc
            ELSE [messages |-> Append(acc.messages, SubSeq(w, acc.begin, end)),
                  begin |-> end + 1, next |-> IF end > p THEN end + 1 ELSE p + 1]
    BY DEF CutAt
  <2>4. SubSeq(w, acc.begin, end) \in Seq(Unit)
    BY <1>1, <2>1, <2>2
  <2>5. Append(acc.messages, SubSeq(w, acc.begin, end)) \in Seq(Seq(Unit))
    <3> PICK W : W = Seq(Unit)
      OBVIOUS
    <3> PICK v : v = SubSeq(w, acc.begin, end)
      OBVIOUS
    <3> PICK m : m = acc.messages
      OBVIOUS
    <3>1. v \in W /\ m \in Seq(W)
      BY <2>1, <2>4
    <3>2. Append(m, v) \in Seq(W)
      BY ONLY <3>1
    <3> QED BY <3>2
  <2>6. end + 1 \in 1 .. N + 1 /\ (IF end > p THEN end + 1 ELSE p + 1) \in Nat
    BY <1>1, <2>2
  <2> QED BY <2>3, <2>5, <2>6
<1> HIDE DEF V
<1>3. G \in [V \X (1 .. N) -> V] /\ \A a \in V, n \in 1 .. N : G[<<a, n>>] = CutAt(player, split, w, a, n)
  <2>1. \A a \in V, n \in 1 .. N : <<a, n>> \in V \X (1 .. N) /\ <<a, n>>[1] = a /\ <<a, n>>[2] = n
    OBVIOUS
  <2>2. \A x \in V \X (1 .. N) : x[1] \in V /\ x[2] \in 1 .. N
    OBVIOUS
  <2> QED BY <1>2, <2>1, <2>2
<1> HIDE DEF G
<1>4. PICK h : IsTrace(h, V, G, b0, N)
  BY <1>1, <1>3, TraceExists
<1>5. Fits(h)
  <2>1. h = [n \in 0 .. N |-> h[n]]
    BY <1>4 DEF IsTrace
  <2>2. ASSUME NEW n \in 0 .. N
        PROVE  h[n] = IF n = 0 THEN b0 ELSE CutAt(player, split, w, h[n - 1], n)
    <3>1. CASE n = 0
      BY <3>1, <1>4 DEF IsTrace
    <3>2. CASE n # 0
      <4>1. n \in 1 .. N /\ n - 1 \in 0 .. N
        BY <3>2
      <4>2. h[n] = G[<<h[n - 1], n>>] /\ h[n - 1] \in V
        BY <1>4, <4>1 DEF IsTrace
      <4>3. h[n] = CutAt(player, split, w, h[n - 1], n)
        BY <1>3, <4>1, <4>2
      <4> QED BY <3>2, <4>3
    <3> QED BY <3>1, <3>2
  <2> QED BY <2>1, <2>2
<1> DEFINE g == CHOOSE f : Fits(f)
<1>6. Fits(g)
  BY <1>5
<1>7. Cut(player, split, w) = g[N].messages
  BY DEF Cut
<1> HIDE DEF g
<1>8. IsTrace(g, V, G, b0, N)
  <2>1. g = [n \in 0 .. N |-> g[n]]
    BY <1>6
  <2>2. g[0] = b0
    BY <1>6, <1>1
  <2>3. ASSUME NEW n \in 1 .. N, g[n - 1] \in V PROVE g[n] = G[<<g[n - 1], n>>]
    <3>1. n \in 0 .. N /\ n # 0
      OBVIOUS
    <3>2. g[n] = CutAt(player, split, w, g[n - 1], n)
      BY <1>6, <3>1
    <3> QED BY <3>2, <2>3, <1>3
  <2> HIDE DEF b0
  <2> QED BY <1>1, <1>3, <2>1, <2>2, <2>3, TraceOf
<1>9. ASSUME NEW n \in 1 .. N PROVE g[n] = CutAt(player, split, w, g[n - 1], n)
  <2>1. n \in 0 .. N /\ n # 0
    OBVIOUS
  <2> QED BY <1>6, <2>1
<1>10. Cuts(g, player, split, w)
  <2>1. g \in [0 .. N -> V] /\ g[0] = b0
    BY <1>8 DEF IsTrace
  <2> HIDE DEF Fits
  <2> QED BY <2>1, <1>7, <1>9 DEF Cuts, V
<1> QED BY <1>10

\* With split method 1, data end before the unit behind them,
LEMMA LastUnitBehind ==
  ASSUME NEW player, IsMethod(player, 1), NEW w \in Seq(Unit), NEW begin \in Nat, NEW p \in 1 .. Len(w),
         p # begin, w[p - 1].head # "HB"
  PROVE  LastUnit(player, 1, w, begin, p) = p - 1
<1> PICK split : split = 1
  OBVIOUS
<1>1. IsMethod(player, split)
  OBVIOUS
<1>2. split = 1 /\ p # begin /\ w[p - 1].head # "HB" => LastUnit(player, split, w, begin, p) = p - 1
  BY ONLY <1>1, w \in Seq(Unit), begin \in Nat, p \in 1 .. Len(w), LastUnitIs
<1> QED BY <1>2

\* and a heartbeat with the one that follows.
LEMMA LastUnitOfPair ==
  ASSUME NEW player, IsMethod(player, 1), NEW w \in Seq(Unit), NEW begin \in Nat, NEW p \in 1 .. Len(w),
         p = begin + 1, w[p - 1].head = "HB"
  PROVE  LastUnit(player, 1, w, begin, p) = p
<1> PICK split : split = 1
  OBVIOUS
<1>1. IsMethod(player, split)
  OBVIOUS
<1>2. split = 1 /\ p = begin + 1 /\ w[p - 1].head = "HB" => LastUnit(player, split, w, begin, p) = p
  BY ONLY <1>1, w \in Seq(Unit), begin \in Nat, p \in 1 .. Len(w), LastUnitIs
<1> QED BY <1>2

\* With split method 2 a heartbeat ends with the one that follows, too.
LEMMA LastUnit2 ==
  ASSUME NEW player, IsMethod(player, 2), NEW w \in Seq(Unit), NEW begin \in Nat, NEW p \in 1 .. Len(w)
  PROVE  /\ p < Len(w) /\ w[p + 1].head = "HB" => LastUnit(player, 2, w, begin, p) = p + 1
         /\ p = Len(w) => LastUnit(player, 2, w, begin, p) = p
<1> PICK split : split = 2
  OBVIOUS
<1>1. IsMethod(player, split)
  OBVIOUS
<1>2. /\ split = 2 /\ p < Len(w) /\ w[p + 1].head = "HB" => LastUnit(player, split, w, begin, p) = p + 1
      /\ split = 2 /\ p = Len(w) => LastUnit(player, split, w, begin, p) = p
  BY ONLY <1>1, w \in Seq(Unit), begin \in Nat, p \in 1 .. Len(w), LastUnitIs
<1> QED BY <1>2

\* The messages of a sub time frame, cut as by split method split.
IsCutting(M, split) ==
    \A n \in 1 .. Len(M) :
        /\ M[n] \in Seq(DataUnit) /\ Heads(M[n]) \in Forms(split)
        /\ split = 0 /\ ~IsHartBeat(M[n]) => n < Len(M) /\ IsHartBeat(M[n + 1])
        /\ split = 1 /\ Heads(M[n]) = <<"T">> /\ n < Len(M) => Heads(M[n + 1]) # <<"T">>
        /\ split = 1 /\ Heads(M[n]) = <<"SE">> =>
                n < Len(M) /\ Heads(M[n + 1]) = <<"HB", "HB">> /\ n + 1 = Len(M)
        /\ split = 2 /\ Heads(M[n]) = <<"HB">> => n = Len(M)

\* Without data at the end, behind which there is no heartbeat.
Trimmed(M, split) ==
    IF split = 1 /\ Len(M) > 0 /\ Heads(M[Len(M)]) = <<"T">> THEN SubSeq(M, 1, Len(M) - 1) ELSE M

\* The heads of a message say how long it is.
LEMMA HeadsAre ==
  ASSUME NEW V, NEW m \in Seq(V)
  PROVE  /\ \A a : Heads(m) = <<a>> => Len(m) = 1 /\ m[1].head = a
         /\ \A a, b : Heads(m) = <<a, b>> => Len(m) = 2 /\ m[1].head = a /\ m[2].head = b
         /\ \A a, b, c : Heads(m) = <<a, b, c>> =>
                Len(m) = 3 /\ m[1].head = a /\ m[2].head = b /\ m[3].head = c
<1>1. DOMAIN m = 1 .. Len(m) /\ Len(m) \in Nat /\ DOMAIN Heads(m) = DOMAIN m
      /\ \A k \in DOMAIN m : Heads(m)[k] = m[k].head
  BY DEF Heads
<1>2. ASSUME NEW N \in Nat, 1 .. Len(m) = 1 .. N PROVE Len(m) = N
  <2>1. ~(Len(m) < N)
    <3> SUFFICES ASSUME Len(m) < N PROVE FALSE
      OBVIOUS
    <3>1. N \in 1 .. N /\ N \notin 1 .. Len(m)
      BY <1>1
    <3> QED BY <1>2, <3>1
  <2>2. ~(N < Len(m))
    <3> SUFFICES ASSUME N < Len(m) PROVE FALSE
      OBVIOUS
    <3>1. Len(m) \in 1 .. Len(m) /\ Len(m) \notin 1 .. N
      BY <1>1
    <3> QED BY <1>2, <3>1
  <2> PICK l : l = Len(m)
    OBVIOUS
  <2>3. l \in Nat /\ ~(l < N) /\ ~(N < l)
    BY <1>1, <2>1, <2>2
  <2> QED BY ONLY <2>3, N \in Nat, l = Len(m)
<1>3. ASSUME NEW a, Heads(m) = <<a>> PROVE Len(m) = 1 /\ m[1].head = a
  <2>1. DOMAIN <<a>> = 1 .. 1 /\ <<a>>[1] = a
    OBVIOUS
  <2>2. Len(m) = 1
    <3>1. 1 .. Len(m) = 1 .. 1
      BY <1>1, <1>3, <2>1
    <3>2. 1 \in Nat
      OBVIOUS
    <3> QED BY ONLY <1>2, <3>1, <3>2
  <2>3. Heads(m)[1] = a
    BY <1>3, <2>1
  <2>4. DOMAIN m = 1 .. 1
    BY <1>1, <2>2
  <2>5. 1 \in 1 .. 1
    OBVIOUS
  <2>6. m[1].head = a
    BY <1>1, <2>3, <2>4, <2>5, Zenon
  <2> QED BY <2>2, <2>6
<1>4. ASSUME NEW a, NEW b, Heads(m) = <<a, b>> PROVE Len(m) = 2 /\ m[1].head = a /\ m[2].head = b
  <2>1. DOMAIN <<a, b>> = 1 .. 2 /\ <<a, b>>[1] = a /\ <<a, b>>[2] = b
    OBVIOUS
  <2>2. Len(m) = 2
    <3>1. 1 .. Len(m) = 1 .. 2
      BY <1>1, <1>4, <2>1
    <3>2. 2 \in Nat
      OBVIOUS
    <3> QED BY ONLY <1>2, <3>1, <3>2
  <2>3. Heads(m)[1] = a /\ Heads(m)[2] = b
    BY <1>4, <2>1
  <2>4. DOMAIN m = 1 .. 2
    BY <1>1, <2>2
  <2>5. 1 \in 1 .. 2 /\ 2 \in 1 .. 2
    OBVIOUS
  <2>6. m[1].head = a /\ m[2].head = b
    BY <1>1, <2>3, <2>4, <2>5, Zenon
  <2> QED BY <2>2, <2>6
<1>5. ASSUME NEW a, NEW b, NEW c, Heads(m) = <<a, b, c>>
      PROVE  Len(m) = 3 /\ m[1].head = a /\ m[2].head = b /\ m[3].head = c
  <2>1. DOMAIN <<a, b, c>> = 1 .. 3 /\ <<a, b, c>>[1] = a /\ <<a, b, c>>[2] = b /\ <<a, b, c>>[3] = c
    OBVIOUS
  <2>2. Len(m) = 3
    <3>1. 1 .. Len(m) = 1 .. 3
      BY <1>1, <1>5, <2>1
    <3>2. 3 \in Nat
      OBVIOUS
    <3> QED BY ONLY <1>2, <3>1, <3>2
  <2>3. Heads(m)[1] = a /\ Heads(m)[2] = b /\ Heads(m)[3] = c
    BY <1>5, <2>1
  <2>4. DOMAIN m = 1 .. 3
    BY <1>1, <2>2
  <2>5. 1 \in 1 .. 3 /\ 2 \in 1 .. 3 /\ 3 \in 1 .. 3
    OBVIOUS
  <2>6. m[1].head = a /\ m[2].head = b /\ m[3].head = c
    BY <1>1, <2>3, <2>4, <2>5, Zenon
  <2> QED BY <2>2, <2>6
<1> QED BY <1>3, <1>4, <1>5

\* A piece is found at its place.
LEMMA PieceIs ==
  ASSUME NEW V, NEW M \in Seq(Seq(V)), NEW w \in Seq(V), NEW P, Lies(w, M, P), NEW n \in 1 .. Len(M)
  PROVE  /\ SubSeq(w, P[n - 1] + 1, P[n]) = M[n] /\ M[n] \in Seq(V)
         /\ P[n] = P[n - 1] + Len(M[n]) /\ P[n - 1] \in Nat /\ P[n] <= Len(w)
         /\ \A k \in 1 .. Len(M[n]) : w[P[n - 1] + k] = M[n][k]
<1>1. n - 1 \in 0 .. Len(M) /\ n \in 0 .. Len(M) /\ Len(M) \in 0 .. Len(M) /\ n <= Len(M)
  OBVIOUS
<1>2. P[n] = P[n - 1] + Len(M[n]) /\ P[n - 1] \in Nat /\ P[n] \in Nat /\ Len(w) = P[Len(M)]
      /\ \A k \in 1 .. Len(M[n]) : w[P[n - 1] + k] = M[n][k]
  BY <1>1 DEF Lies
<1>3. P[n] <= Len(w)
  <2>1. \A i, j \in 0 .. Len(M) : i <= j => P[i] <= P[j]
    BY PlacesGrow
  <2>2. P[n] <= P[Len(M)]
    BY ONLY <1>1, <2>1
  <2> QED BY <1>2, <2>2
<1>4. M[n] \in Seq(V)
  OBVIOUS
<1> PICK a : a = P[n - 1]
  OBVIOUS
<1> PICK b : b = P[n]
  OBVIOUS
<1> PICK m : m = M[n]
  OBVIOUS
<1>5. /\ a \in Nat /\ b = a + Len(m) /\ b <= Len(w) /\ m \in Seq(V) /\ w \in Seq(V)
      /\ \A k \in 1 .. Len(m) : w[a + k] = m[k]
  BY <1>2, <1>3, <1>4
<1> PICK s : s = SubSeq(w, a + 1, b)
  OBVIOUS
<1>6. s \in Seq(V) /\ Len(s) = b - a /\ \A k \in 1 .. b - a : s[k] = w[a + k]
  <2>1. a \in Nat /\ b \in Nat /\ a <= b /\ b <= Len(w)
    BY <1>5
  <2>2. SubSeq(w, a + 1, b) \in Seq(V) /\ Len(SubSeq(w, a + 1, b)) = b - a
    BY ONLY <2>1, w \in Seq(V)
  <2>3. \A q \in 1 .. b - a : SubSeq(w, a + 1, b)[q] = w[a + q]
    BY ONLY <2>1, w \in Seq(V)
  <2> QED BY <2>2, <2>3
<1>7. b - a = Len(m) /\ Len(m) \in Nat
  <2> PICK l : l = Len(m)
    OBVIOUS
  <2>1. l \in Nat
    BY <1>5
  <2>2. b = a + l /\ a \in Nat
    BY <1>5
  <2>3. b - a = l
    BY ONLY <2>1, <2>2
  <2> QED BY <2>1, <2>3
<1>8. s = m
  <2>1. Len(s) = Len(m) /\ \A k \in 1 .. Len(s) : s[k] = m[k]
    BY <1>5, <1>6, <1>7
  <2> QED BY ONLY <2>1, <1>6, m \in Seq(V), <1>5, SeqEqual
<1> QED BY <1>2, <1>3, <1>4, <1>8

\* The player has cut the first n messages when it has looked at unit q, and the
\* next one begins at b.
Behind(a, M, q, n, b) == a.messages = SubSeq(M, 1, n) /\ a.begin = b /\ a.next <= q + 1

\* A unit that ends no message.
LEMMA GoOn ==
  ASSUME NEW player, NEW split, IsMethod(player, split), NEW w \in Seq(Unit), NEW c, Cuts(c, player, split, w),
         NEW M, NEW n, NEW b \in Nat, NEW p \in 1 .. Len(w), Behind(c[p - 1], M, p - 1, n, b),
         ~Delimiter(w[p]) \/ LastUnit(player, split, w, b, p) = 0
  PROVE  Behind(c[p], M, p, n, b)
<1>1. c[p] = CutAt(player, split, w, c[p - 1], p)
  BY DEF Cuts
<1>2. c[p - 1].begin = b
  BY DEF Behind
<1>3. c[p] = c[p - 1]
  BY <1>1, <1>2 DEF CutAt
<1>4. c[p - 1].next \in Nat
  <2>1. p - 1 \in 0 .. Len(w)
    OBVIOUS
  <2> QED BY <2>1 DEF Cuts
<1> PICK x : x = c[p - 1].next
  OBVIOUS
<1>5. x <= (p - 1) + 1 /\ x \in Nat
  BY <1>4 DEF Behind
<1>6. x <= p + 1
  BY <1>5
<1> QED BY <1>3, <1>6 DEF Behind

\* A unit that ends one.
LEMMA CutHere ==
  ASSUME NEW player, NEW split, IsMethod(player, split), NEW w \in Seq(Unit), NEW c, Cuts(c, player, split, w),
         NEW M \in Seq(Seq(Unit)), NEW P, Lies(w, M, P), NEW n \in 1 .. Len(M),
         NEW p \in 1 .. Len(w), Behind(c[p - 1], M, p - 1, n - 1, P[n - 1] + 1),
         Delimiter(w[p]), LastUnit(player, split, w, P[n - 1] + 1, p) = P[n], P[n] # 0
  PROVE  /\ P[n] <= p => Behind(c[p], M, p, n, P[n] + 1)
         /\ P[n] = p + 1 => Behind(c[p + 1], M, p + 1, n, P[n] + 1)
<1>0. P[n] \in Nat /\ P[n - 1] \in Nat /\ P[n] <= Len(w) /\ SubSeq(w, P[n - 1] + 1, P[n]) = M[n] /\ M[n] \in Seq(Unit)
  <2>1. n - 1 \in 0 .. Len(M) /\ n \in 0 .. Len(M)
    OBVIOUS
  <2>2. P[n] \in Nat
    BY <2>1 DEF Lies
  <2>3. SubSeq(w, P[n - 1] + 1, P[n]) = M[n] /\ M[n] \in Seq(Unit)
    BY PieceIs
  <2>4. P[n - 1] \in Nat /\ P[n] <= Len(w)
    BY PieceIs
  <2> QED BY <2>2, <2>3, <2>4
<1>1. p - 1 \in 0 .. Len(w) /\ p \in Nat
  OBVIOUS
<1>2. c[p] = CutAt(player, split, w, c[p - 1], p)
  BY DEF Cuts
<1> PICK acc : acc = c[p - 1]
  OBVIOUS
<1> PICK end : end = P[n]
  OBVIOUS
<1>3. acc.messages = SubSeq(M, 1, n - 1) /\ acc.begin = P[n - 1] + 1 /\ acc.next <= p /\ acc.next \in Nat
  <2>1. acc.next \in Nat
    BY <1>1 DEF Cuts
  <2>2. acc.messages = SubSeq(M, 1, n - 1) /\ acc.begin = P[n - 1] + 1 /\ acc.next <= (p - 1) + 1
    BY DEF Behind
  <2>3. (p - 1) + 1 = p
    OBVIOUS
  <2> QED BY <2>1, <2>2, <2>3
<1>4. Append(SubSeq(M, 1, n - 1), M[n]) = SubSeq(M, 1, n)
  <2> PICK W : W = Seq(Unit)
    OBVIOUS
  <2>1. M \in Seq(W) /\ n \in 1 .. Len(M)
    OBVIOUS
  <2>2. /\ SubSeq(M, 1, n - 1) \in Seq(W) /\ Len(SubSeq(M, 1, n - 1)) = n - 1
        /\ \A k \in 1 .. n - 1 : SubSeq(M, 1, n - 1)[k] = M[k]
    BY ONLY <2>1
  <2>3. /\ SubSeq(M, 1, n) \in Seq(W) /\ Len(SubSeq(M, 1, n)) = n
        /\ \A k \in 1 .. n : SubSeq(M, 1, n)[k] = M[k]
    BY ONLY <2>1
  <2> PICK s : s = SubSeq(M, 1, n - 1)
    OBVIOUS
  <2> PICK t : t = SubSeq(M, 1, n)
    OBVIOUS
  <2> PICK m : m = M[n]
    OBVIOUS
  <2>4. /\ s \in Seq(W) /\ Len(s) = n - 1 /\ t \in Seq(W) /\ Len(t) = n /\ m \in W /\ n \in Nat
        /\ \A k \in 1 .. n - 1 : t[k] = s[k]
        /\ t[n] = m
    <3>1. s \in Seq(W) /\ Len(s) = n - 1 /\ \A k \in 1 .. n - 1 : s[k] = M[k]
      BY ONLY <2>2, s = SubSeq(M, 1, n - 1)
    <3>2. t \in Seq(W) /\ Len(t) = n /\ \A k \in 1 .. n : t[k] = M[k]
      BY ONLY <2>3, t = SubSeq(M, 1, n)
    <3>3. n \in Nat /\ n \in 1 .. n /\ \A k \in 1 .. n - 1 : k \in 1 .. n
      BY ONLY <2>1
    <3>4. m \in W
      BY ONLY <2>1, m = M[n]
    <3>5. t[n] = m
      BY ONLY <3>2, <3>3, m = M[n]
    <3>6. \A k \in 1 .. n - 1 : t[k] = s[k]
      BY ONLY <3>1, <3>2, <3>3
    <3> QED BY ONLY <3>1, <3>2, <3>3, <3>4, <3>5, <3>6
  <2>5. Append(s, m) \in Seq(W) /\ Len(Append(s, m)) = n
        /\ \A k \in 1 .. n : Append(s, m)[k] = t[k]
    BY ONLY <2>4
  <2>6. Append(s, m) = t
    BY ONLY <2>4, <2>5, SeqEqual
  <2> QED BY <2>6
<1>5. ~(p < acc.next)
  BY <1>1, <1>3
<1>6. c[p] = [messages |-> SubSeq(M, 1, n), begin |-> end + 1, next |-> IF end > p THEN end + 1 ELSE p + 1]
  <2>1. LastUnit(player, split, w, acc.begin, p) = end /\ end # 0
    BY <1>3
  <2>2. SubSeq(w, acc.begin, end) = M[n]
    BY <1>0, <1>3
  <2> QED BY <1>2, <1>3, <1>4, <1>5, <2>1, <2>2 DEF CutAt
<1>7. ASSUME end <= p PROVE Behind(c[p], M, p, n, end + 1)
  BY <1>0, <1>1, <1>6, <1>7 DEF Behind
<1>8. ASSUME end = p + 1 PROVE Behind(c[p + 1], M, p + 1, n, end + 1)
  <2>1. p + 1 \in 1 .. Len(w) /\ (p + 1) - 1 = p
    BY <1>0, <1>1, <1>8
  <2>2. c[p + 1] = CutAt(player, split, w, c[p], p + 1)
    BY <2>1 DEF Cuts
  <2>3. c[p].next = end + 1 /\ p + 1 < end + 1
    <3>1. end > p /\ p + 1 < end + 1
      BY <1>1, <1>8
    <3>2. c[p].next = IF end > p THEN end + 1 ELSE p + 1
      BY <1>6
    <3> QED BY <3>1, <3>2
  <2>4. c[p + 1] = c[p]
    BY <2>2, <2>3 DEF CutAt
  <2>5. end + 1 <= (p + 1) + 1
    BY <1>1, <1>8
  <2> QED BY <1>6, <2>3, <2>4, <2>5 DEF Behind
<1> QED BY <1>7, <1>8

\* A message m between the places a and b.
Piece(w, a, b, m) ==
    /\ a \in Nat /\ b \in Nat /\ b <= Len(w) /\ Len(w) \in Nat /\ m \in Seq(Unit)
    /\ Len(m) = 1 => b = a + 1 /\ w[a + 1] = m[1]
    /\ Len(m) = 2 => b = a + 2 /\ w[a + 1] = m[1] /\ w[a + 2] = m[2]
    /\ Len(m) = 3 => b = a + 3 /\ w[a + 1] = m[1] /\ w[a + 2] = m[2] /\ w[a + 3] = m[3]

\* Where message n is.
LEMMA PieceAt ==
  ASSUME NEW w \in Seq(Unit), NEW M \in Seq(Seq(Unit)), NEW P, Lies(w, M, P), NEW n \in 1 .. Len(M)
  PROVE  Piece(w, P[n - 1], P[n], M[n])
<1> PICK a : a = P[n - 1]
  OBVIOUS
<1> PICK b : b = P[n]
  OBVIOUS
<1> PICK m : m = M[n]
  OBVIOUS
<1>1. m \in Seq(Unit) /\ b = a + Len(m) /\ a \in Nat /\ b <= Len(w)
  BY PieceIs
<1>2. \A k \in 1 .. Len(m) : w[a + k] = m[k]
  BY PieceIs
<1>3. Len(m) \in Nat /\ Len(w) \in Nat /\ b \in Nat
  BY <1>1
<1>4. Len(m) = 1 => b = a + 1 /\ w[a + 1] = m[1]
  BY <1>1, <1>2
<1>5. Len(m) = 2 => b = a + 2 /\ w[a + 1] = m[1] /\ w[a + 2] = m[2]
  BY <1>1, <1>2
<1>6. Len(m) = 3 => b = a + 3 /\ w[a + 1] = m[1] /\ w[a + 2] = m[2] /\ w[a + 3] = m[3]
  BY <1>1, <1>2
<1> QED BY <1>1, <1>3, <1>4, <1>5, <1>6 DEF Piece

\* All the players have cut when they have looked at the unit P[n].
CutStep0(c, M, P, n) == Behind(c[P[n]], M, P[n], n, P[n] + 1)

\* The next message, split method by split method.
LEMMA Cut0 ==
  ASSUME NEW player, IsMethod(player, 0), NEW w \in Seq(Unit), NEW c, Cuts(c, player, 0, w),
         NEW M \in Seq(Seq(Unit)), IsCutting(M, 0), NEW P, Lies(w, M, P), NEW n \in 1 .. Len(M),
         CutStep0(c, M, P, n - 1)
  PROVE  CutStep0(c, M, P, n)
<1> PICK a : a = P[n - 1]
  OBVIOUS
<1> PICK b : b = P[n]
  OBVIOUS
<1> PICK m : m = M[n]
  OBVIOUS
<1>0. Piece(w, a, b, m)
  BY PieceAt
<1>1. /\ a \in Nat /\ b \in Nat /\ b <= Len(w) /\ Len(w) \in Nat /\ m \in Seq(Unit)
      /\ Len(m) = 1 => b = a + 1 /\ w[a + 1] = m[1]
      /\ Len(m) = 2 => b = a + 2 /\ w[a + 1] = m[1] /\ w[a + 2] = m[2]
      /\ Len(m) = 3 => b = a + 3 /\ w[a + 1] = m[1] /\ w[a + 2] = m[2] /\ w[a + 3] = m[3]
  BY ONLY <1>0 DEF Piece
<1>2. Heads(M[n]) \in {<<"HB">>, <<"SE">>, <<"T", "HB">>, <<"T", "SE">>}
  BY DEF IsCutting, Forms
<1>3. Behind(c[a], M, a, n - 1, a + 1)
  BY DEF CutStep0
<1>4. CASE Heads(M[n]) = <<"HB">> \/ Heads(M[n]) = <<"SE">>
  <2>1. Len(m) = 1 /\ m[1].head \in {"HB", "SE"}
    BY <1>1, <1>4, HeadsAre
  <2>2. b = a + 1 /\ b \in 1 .. Len(w) /\ b - 1 = a /\ b <= b /\ b # 0
    BY ONLY <1>1, <2>1
  <2>3. Delimiter(w[b])
    BY ONLY <1>1, <2>1, <2>2 DEF Delimiter
  <2>4. a + 1 \in Nat
    BY ONLY <1>1
  <2>5. LastUnit(player, 0, w, a + 1, b) = b
    BY <2>2, <2>4, LastUnitIs
  <2>6. Behind(c[b], M, b, n, b + 1)
    BY <1>3, <2>2, <2>3, <2>5, CutHere
  <2> QED BY <2>6 DEF CutStep0
<1>5. CASE Heads(M[n]) = <<"T", "HB">> \/ Heads(M[n]) = <<"T", "SE">>
  <2>1. Len(m) = 2 /\ m[1].head = "T" /\ m[2].head \in {"HB", "SE"}
    BY <1>1, <1>5, HeadsAre, SMTT(30)
  <2> PICK p : p = a + 1
    OBVIOUS
  <2>2. b = a + 2 /\ b \in 1 .. Len(w) /\ b - 1 = p /\ b <= b /\ b # 0 /\ p \in 1 .. Len(w) /\ p - 1 = a
        /\ p \in Nat
    BY ONLY <1>1, <2>1, p = a + 1
  <2>3. Delimiter(w[b]) /\ ~Delimiter(w[p])
    BY ONLY <1>1, <2>1, <2>2, p = a + 1 DEF Delimiter
  <2>5. LastUnit(player, 0, w, p, b) = b
    BY <2>2, LastUnitIs, SMTT(30)
  <2>6. Behind(c[p], M, p, n - 1, p)
    BY <1>3, <2>2, <2>3, GoOn
  <2>7. Behind(c[b], M, b, n, b + 1)
    BY <2>2, <2>3, <2>5, <2>6, CutHere
  <2> QED BY <2>7 DEF CutStep0
<1> QED BY <1>2, <1>4, <1>5

LEMMA Cut2 ==
  ASSUME NEW player, IsMethod(player, 2), NEW w \in Seq(Unit), NEW c, Cuts(c, player, 2, w),
         NEW M \in Seq(Seq(Unit)), IsCutting(M, 2), NEW P, Lies(w, M, P), NEW n \in 1 .. Len(M),
         CutStep0(c, M, P, n - 1)
  PROVE  CutStep0(c, M, P, n)
<1> PICK a : a = P[n - 1]
  OBVIOUS
<1> PICK b : b = P[n]
  OBVIOUS
<1> PICK m : m = M[n]
  OBVIOUS
<1>0. Piece(w, a, b, m)
  BY PieceAt
<1>1. /\ a \in Nat /\ b \in Nat /\ b <= Len(w) /\ Len(w) \in Nat /\ m \in Seq(Unit)
      /\ Len(m) = 1 => b = a + 1 /\ w[a + 1] = m[1]
      /\ Len(m) = 2 => b = a + 2 /\ w[a + 1] = m[1] /\ w[a + 2] = m[2]
      /\ Len(m) = 3 => b = a + 3 /\ w[a + 1] = m[1] /\ w[a + 2] = m[2] /\ w[a + 3] = m[3]
  BY ONLY <1>0 DEF Piece
<1>2. Heads(M[n]) \in {<<"HB">>, <<"HB", "HB">>, <<"T", "HB", "HB">>, <<"SE", "HB">>, <<"T", "SE", "HB">>}
  BY DEF IsCutting, Forms
<1>3. Behind(c[a], M, a, n - 1, a + 1)
  BY DEF CutStep0
<1> PICK p : p = a + 1
  OBVIOUS
<1>4. CASE Heads(M[n]) = <<"HB">>
  <2>1. Len(m) = 1 /\ m[1].head = "HB"
    BY <1>1, <1>4, HeadsAre
  <2>2. n = Len(M)
    BY <1>4 DEF IsCutting
  <2>3. b = Len(w)
    BY <2>2 DEF Lies
  <2>4. b = p /\ b \in 1 .. Len(w) /\ b - 1 = a /\ b <= b /\ b # 0 /\ b \in Nat
    BY ONLY <1>1, <2>1, p = a + 1
  <2>5. Delimiter(w[b])
    BY ONLY <1>1, <2>1, <2>4, p = a + 1 DEF Delimiter
  <2>6. LastUnit(player, 2, w, b, b) = b
    BY ONLY <2>3, <2>4, IsMethod(player, 2), w \in Seq(Unit), LastUnit2
  <2>7. Behind(c[b], M, b, n, b + 1)
    BY <1>3, <2>4, <2>5, <2>6, CutHere
  <2> QED BY <2>7 DEF CutStep0
<1>5. CASE Heads(M[n]) = <<"HB", "HB">> \/ Heads(M[n]) = <<"SE", "HB">>
  <2>1. Len(m) = 2 /\ m[1].head \in {"HB", "SE"} /\ m[2].head = "HB"
    BY <1>1, <1>5, HeadsAre, SMTT(30)
  <2>2. b = p + 1 /\ p \in 1 .. Len(w) /\ p - 1 = a /\ p < Len(w) /\ p \in Nat /\ b # 0 /\ b = a + 2
    BY ONLY <1>1, <2>1, p = a + 1
  <2>3. Delimiter(w[p]) /\ w[p + 1].head = "HB"
    <3>1. p + 1 = a + 2
      BY ONLY <1>1, p = a + 1
    <3> QED BY ONLY <1>1, <2>1, <3>1, p = a + 1 DEF Delimiter
  <2>4. LastUnit(player, 2, w, p, p) = b
    BY ONLY <2>2, <2>3, IsMethod(player, 2), w \in Seq(Unit), LastUnit2
  <2>5. Behind(c[b], M, b, n, b + 1)
    BY <1>3, <2>2, <2>3, <2>4, CutHere
  <2> QED BY <2>5 DEF CutStep0
<1>6. CASE Heads(M[n]) = <<"T", "HB", "HB">> \/ Heads(M[n]) = <<"T", "SE", "HB">>
  <2>1. Len(m) = 3 /\ m[1].head = "T" /\ m[2].head \in {"HB", "SE"} /\ m[3].head = "HB"
    <3>1. CASE Heads(m) = <<"T", "HB", "HB">>
      BY ONLY <1>1, <3>1, HeadsAre, SMTT(30)
    <3>2. CASE Heads(m) = <<"T", "SE", "HB">>
      BY ONLY <1>1, <3>2, HeadsAre, SMTT(30)
    <3> QED BY <1>6, <3>1, <3>2
  <2> PICK q : q = a + 2
    OBVIOUS
  <2>2. /\ b = q + 1 /\ p \in 1 .. Len(w) /\ p - 1 = a /\ q \in 1 .. Len(w) /\ q - 1 = p /\ q < Len(w)
        /\ p \in Nat /\ q \in Nat /\ b # 0 /\ b = a + 3
    BY ONLY <1>1, <2>1, p = a + 1, q = a + 2, SMTT(30)
  <2>3. ~Delimiter(w[p]) /\ Delimiter(w[q]) /\ w[q + 1].head = "HB"
    <3>1. q + 1 = a + 3
      BY ONLY <1>1, q = a + 2
    <3> QED BY ONLY <1>1, <2>1, <3>1, p = a + 1, q = a + 2 DEF Delimiter
  <2>4. LastUnit(player, 2, w, p, q) = b
    BY ONLY <2>2, <2>3, IsMethod(player, 2), w \in Seq(Unit), LastUnit2
  <2>5. Behind(c[p], M, p, n - 1, p)
    BY <1>3, <2>2, <2>3, GoOn
  <2>6. Behind(c[b], M, b, n, b + 1)
    BY <2>2, <2>3, <2>4, <2>5, CutHere
  <2> QED BY <2>6 DEF CutStep0
<1> QED BY <1>2, <1>4, <1>5, <1>6

\* With split method 1, data are cut at the unit behind them.
Pending(M, n) == n > 0 /\ Heads(M[n]) # <<"HB", "HB">>
CutStep1(c, M, P, n) ==
    /\ Pending(M, n) => Behind(c[P[n]], M, P[n], n - 1, P[n - 1] + 1)
    /\ ~Pending(M, n) => Behind(c[P[n]], M, P[n], n, P[n] + 1)

LEMMA Cut1 ==
  ASSUME NEW player, IsMethod(player, 1), NEW w \in Seq(Unit), NEW c, Cuts(c, player, 1, w),
         NEW M \in Seq(Seq(Unit)), IsCutting(M, 1), NEW P, Lies(w, M, P), NEW n \in 1 .. Len(M),
         CutStep1(c, M, P, n - 1)
  PROVE  CutStep1(c, M, P, n)
<1> PICK a : a = P[n - 1]
  OBVIOUS
<1> PICK b : b = P[n]
  OBVIOUS
<1> PICK p : p = a + 1
  OBVIOUS
<1> PICK m : m = M[n]
  OBVIOUS
<1>0. Piece(w, a, b, m)
  BY PieceAt
<1>1. /\ a \in Nat /\ b \in Nat /\ b <= Len(w) /\ Len(w) \in Nat /\ m \in Seq(Unit)
      /\ Len(m) = 1 => b = a + 1 /\ w[a + 1] = m[1]
      /\ Len(m) = 2 => b = a + 2 /\ w[a + 1] = m[1] /\ w[a + 2] = m[2]
      /\ Len(m) = 3 => b = a + 3 /\ w[a + 1] = m[1] /\ w[a + 2] = m[2] /\ w[a + 3] = m[3]
  BY ONLY <1>0 DEF Piece
<1>2. \A i \in 1 .. Len(M) : Heads(M[i]) \in {<<"T">>, <<"SE">>, <<"HB", "HB">>}
  BY DEF IsCutting, Forms
<1>3. \/ Len(m) = 1 /\ (m[1].head = "T" \/ m[1].head = "SE") /\ Heads(m) # <<"HB", "HB">>
      \/ Len(m) = 2 /\ m[1].head = "HB" /\ m[2].head = "HB" /\ Heads(m) = <<"HB", "HB">>
  <2>1. Heads(m) = <<"HB", "HB">> => Len(m) = 2 /\ m[1].head = "HB" /\ m[2].head = "HB"
    BY <1>1, HeadsAre, SMTT(30)
  <2>2. Heads(m) = <<"T">> => Len(m) = 1 /\ m[1].head = "T" /\ Heads(m) # <<"HB", "HB">>
    BY <1>1, <2>1, HeadsAre
  <2>3. Heads(m) = <<"SE">> => Len(m) = 1 /\ m[1].head = "SE" /\ Heads(m) # <<"HB", "HB">>
    BY <1>1, <2>1, HeadsAre
  <2> QED BY <1>2, <2>1, <2>2, <2>3
<1>4. p \in 1 .. Len(w) /\ p - 1 = a /\ p \in Nat /\ w[p] = m[1] /\ b \in Nat
  <2>1. Len(m) = 1 \/ Len(m) = 2
    BY <1>3
  <2>3. p \in 1 .. Len(w) /\ p - 1 = a /\ p \in Nat /\ b \in Nat /\ w[p] = m[1]
    BY ONLY <1>1, <2>1, p = a + 1
  <2> QED BY <2>3
\* After the first unit of the message.
<1>5. Behind(c[p], M, p, n - 1, p)
  <2>1. CASE Pending(M, n - 1)
    <3> PICK i : i = n - 1
      OBVIOUS
    <3>1. i \in 1 .. Len(M) /\ i + 1 = n /\ n \in Nat
      BY <2>1 DEF Pending
    <3>2. Behind(c[a], M, a, i - 1, P[i - 1] + 1)
      BY <2>1 DEF CutStep1
    <3>3. Heads(M[i]) = <<"T">> \/ Heads(M[i]) = <<"SE">>
      BY <1>2, <2>1, <3>1 DEF Pending
    <3> PICK z : z = P[i - 1]
      OBVIOUS
    <3> PICK x : x = M[i]
      OBVIOUS
    <3>4. Piece(w, z, a, x)
      BY <3>1, PieceAt
    <3>41. z \in Nat /\ x \in Seq(Unit) /\ (Len(x) = 1 => a = z + 1 /\ w[z + 1] = x[1])
      BY ONLY <3>4 DEF Piece
    <3>5. Len(x) = 1 /\ x[1].head # "HB"
      BY <3>3, <3>41, HeadsAre, SMTT(30)
    <3>6. a = z + 1 /\ w[a].head # "HB" /\ a # 0 /\ p # z + 1 /\ z + 1 \in Nat /\ a <= p
      BY ONLY <3>41, <3>5, p = a + 1
    <3>7. m[1].head # "T"
      <4>1. Heads(m) # <<"T">>
        <5>1. CASE Heads(M[i]) = <<"T">>
          <6>1. i < Len(M)
            BY <3>1
          <6> QED BY <3>1, <5>1, <6>1 DEF IsCutting
        <5>2. CASE Heads(M[i]) = <<"SE">>
          <6>1. Heads(m) = <<"HB", "HB">>
            BY <3>1, <5>2 DEF IsCutting
          <6>2. Len(m) = 2
            BY <1>1, <6>1, HeadsAre
          <6>3. Heads(m) = <<"T">> => Len(m) = 1
            BY <1>1, HeadsAre
          <6> QED BY <6>2, <6>3
        <5> QED BY <3>3, <5>1, <5>2
      <4>2. Heads(m) = <<"SE">> => m[1].head = "SE"
        BY <1>1, HeadsAre
      <4>3. Heads(m) = <<"HB", "HB">> => m[1].head = "HB"
        <5>1. m \in Seq(Unit)
          BY <1>1
        <5> PICK a1, b1 : a1 = "HB" /\ b1 = "HB"
          OBVIOUS
        <5>2. Heads(m) = <<a1, b1>> => m[1].head = a1
          BY ONLY <5>1, HeadsAre
        <5> QED BY <5>2
      <4> QED BY <1>2, <4>1, <4>2, <4>3
    <3>8. Delimiter(w[p])
      BY <1>3, <1>4, <3>7 DEF Delimiter
    <3>9. LastUnit(player, 1, w, z + 1, p) = a
      <4>1. p \in 1 .. Len(w)
        BY <1>4
      <4>2. p - 1 = a
        BY <1>4
      <4>3. w[p - 1].head # "HB"
        BY <3>6, <4>2
      <4>4. z + 1 \in Nat /\ p # z + 1
        BY <3>6
      <4>5. LastUnit(player, 1, w, z + 1, p) = p - 1
        <5> PICK q : q = z + 1
          OBVIOUS
        <5>1. q \in Nat /\ p # q
          BY <4>4
        <5>2. LastUnit(player, 1, w, q, p) = p - 1
          BY ONLY <4>1, <4>3, <5>1, IsMethod(player, 1), w \in Seq(Unit), LastUnitBehind
        <5> QED BY <5>2
      <4> QED BY ONLY <4>2, <4>5
    <3>10. Behind(c[p - 1], M, p - 1, i - 1, P[i - 1] + 1) /\ a = P[i] /\ LastUnit(player, 1, w, P[i - 1] + 1, p) = P[i]
      BY <1>4, <3>2, <3>9
    <3>11. Behind(c[p], M, p, i, P[i] + 1)
      BY <1>4, <3>1, <3>6, <3>8, <3>10, CutHere
    <3> QED BY <3>10, <3>11
  <2>2. CASE ~Pending(M, n - 1)
    <3>1. Behind(c[p - 1], M, p - 1, n - 1, p)
      BY <1>4, <2>2 DEF CutStep1
    <3>2. LastUnit(player, 1, w, p, p) = 0
      BY <1>4, LastUnitIs
    <3> QED BY <1>4, <3>1, <3>2, GoOn
  <2> QED BY <2>1, <2>2
<1>6. CASE Len(m) = 1
  <2>1. b = p /\ Pending(M, n)
    <3>1. Heads(m) # <<"HB", "HB">>
      BY <1>3, <1>6
    <3> QED BY <1>1, <1>6, <3>1 DEF Pending
  <2> QED BY <1>5, <2>1 DEF CutStep1
<1>7. CASE Len(m) = 2
  <2>1. b = p + 1 /\ ~Pending(M, n) /\ b = a + 2 /\ b \in 1 .. Len(w) /\ b - 1 = p /\ b # 0 /\ b <= b
    <3>1. b = p + 1 /\ b = a + 2 /\ b \in 1 .. Len(w) /\ b - 1 = p /\ b # 0 /\ b <= b
      BY ONLY <1>1, <1>7, p = a + 1
    <3>2. ~Pending(M, n)
      BY <1>3, <1>7 DEF Pending
    <3> QED BY <3>1, <3>2
  <2>2. w[b] = m[2] /\ m[1].head = "HB" /\ m[2].head = "HB"
    <3>1. w[b] = m[2]
      BY ONLY <1>1, <1>7
    <3>2. m[1].head = "HB" /\ m[2].head = "HB"
      BY ONLY <1>3, <1>7
    <3> QED BY <3>1, <3>2
  <2>3. Delimiter(w[b]) /\ w[b - 1].head = "HB"
    BY <1>4, <2>1, <2>2 DEF Delimiter
  <2>4. LastUnit(player, 1, w, p, b) = b
    <3>1. p \in Nat
      BY <1>4
    <3>2. b \in 1 .. Len(w) /\ b = p + 1
      BY <2>1
    <3>3. w[b - 1].head = "HB"
      BY <2>3
    <3> QED BY ONLY <3>1, <3>2, <3>3, IsMethod(player, 1), w \in Seq(Unit), LastUnitOfPair
  <2>5. Behind(c[b - 1], M, b - 1, n - 1, a + 1)
    BY <1>5, <2>1
  <2>6. Behind(c[b], M, b, n, b + 1)
    BY <2>1, <2>3, <2>4, <2>5, CutHere
  <2> QED BY <2>1, <2>6 DEF CutStep1
<1> QED BY <1>3, <1>6, <1>7

\* The player finds the messages a sub time frame is made of.
LEMMA Recut ==
  ASSUME NEW player, NEW split, IsMethod(player, split), NEW w \in Seq(Unit), NEW M \in Seq(Seq(Unit)),
         Spells(w, M), IsCutting(M, split)
  PROVE  Cut(player, split, w) = Trimmed(M, split)
<1>1. PICK P : Lies(w, M, P)
  BY DEF Spells
<1>2. PICK c : Cuts(c, player, split, w)
  BY CutCuts
<1> DEFINE N == Len(M)
<1>3. N \in Nat /\ P[0] = 0 /\ Len(w) = P[N]
  BY <1>1 DEF Lies
<1>4. SubSeq(M, 1, N) = M /\ SubSeq(M, 1, 0) = <<>>
  <2> PICK W : W = Seq(Unit)
    OBVIOUS
  <2>1. M \in Seq(W)
    OBVIOUS
  <2>2. SubSeq(M, 1, Len(M)) = M /\ SubSeq(M, 1, 0) = <<>>
    BY ONLY <2>1
  <2> QED BY <2>2
<1>5. Behind(c[P[0]], M, P[0], 0, P[0] + 1)
  <2>1. c[0] = [messages |-> <<>>, begin |-> 1, next |-> 1]
    BY <1>2 DEF Cuts
  <2>2. Behind(c[0], M, 0, 0, 1)
    BY <1>4, <2>1 DEF Behind
  <2> QED BY <1>3, <2>2
<1>6. Cut(player, split, w) = c[P[N]].messages
  BY <1>2, <1>3 DEF Cuts
<1>7. ASSUME split \in {0, 2} PROVE Cut(player, split, w) = Trimmed(M, split)
  <2> DEFINE S == {n \in Nat : n <= N => CutStep0(c, M, P, n)}
  <2>1. 0 \in S
    BY <1>5 DEF CutStep0
  <2>2. ASSUME NEW n \in Nat, n \in S PROVE n + 1 \in S
    <3> SUFFICES ASSUME n + 1 <= N PROVE CutStep0(c, M, P, n + 1)
      OBVIOUS
    <3> PICK m : m = n + 1
      OBVIOUS
    <3>1. m \in 1 .. Len(M) /\ m - 1 = n /\ n <= N
      BY <1>3
    <3>2. CutStep0(c, M, P, m - 1)
      BY <2>2, <3>1
    <3>3. CASE split = 0
      <4>1. IsMethod(player, 0) /\ Cuts(c, player, 0, w) /\ IsCutting(M, 0)
        BY <1>2, <3>3
      <4> QED BY <1>1, <3>1, <3>2, <4>1, Cut0
    <3>4. CASE split = 2
      <4>1. IsMethod(player, 2) /\ Cuts(c, player, 2, w) /\ IsCutting(M, 2)
        BY <1>2, <3>4
      <4> QED BY <1>1, <3>1, <3>2, <4>1, Cut2
    <3> QED BY <1>7, <3>3, <3>4
  <2>3. Nat \subseteq S
    <3> HIDE DEF S
    <3> QED BY <2>1, <2>2, Induction
  <2>4. CutStep0(c, M, P, N)
    BY <1>3, <2>3
  <2>5. c[P[N]].messages = M
    BY <1>4, <2>4 DEF CutStep0, Behind
  <2> QED BY <1>6, <1>7, <2>5 DEF Trimmed
<1>8. ASSUME split = 1 PROVE Cut(player, split, w) = Trimmed(M, split)
  <2> DEFINE S == {n \in Nat : n <= N => CutStep1(c, M, P, n)}
  <2>0. IsMethod(player, 1) /\ Cuts(c, player, 1, w) /\ IsCutting(M, 1)
    BY <1>2, <1>8
  <2>1. 0 \in S
    BY <1>5 DEF CutStep1, Pending
  <2>2. ASSUME NEW n \in Nat, n \in S PROVE n + 1 \in S
    <3> SUFFICES ASSUME n + 1 <= N PROVE CutStep1(c, M, P, n + 1)
      OBVIOUS
    <3> PICK m : m = n + 1
      OBVIOUS
    <3>1. m \in 1 .. Len(M) /\ m - 1 = n /\ n <= N
      BY <1>3
    <3>2. CutStep1(c, M, P, m - 1)
      BY <2>2, <3>1
    <3> QED BY <1>1, <2>0, <3>1, <3>2, Cut1
  <2>3. Nat \subseteq S
    <3> HIDE DEF S
    <3> QED BY <2>1, <2>2, Induction
  <2>4. CutStep1(c, M, P, N)
    BY <1>3, <2>3
  <2>5. CASE Pending(M, N)
    <3>1. N > 0 /\ Heads(M[N]) # <<"HB", "HB">> /\ N \in 1 .. Len(M)
      BY <1>3, <2>5 DEF Pending
    <3>2. Heads(M[N]) \in {<<"T">>, <<"SE">>, <<"HB", "HB">>}
      BY <2>0, <3>1, SMTT(30) DEF IsCutting, Forms
    <3>3. Heads(M[N]) # <<"SE">>
      BY <1>3, <2>0, <3>1 DEF IsCutting
    <3>4. c[P[N]].messages = SubSeq(M, 1, N - 1)
      BY <2>4, <2>5 DEF CutStep1, Behind
    <3> QED BY <1>6, <1>8, <3>1, <3>2, <3>3, <3>4 DEF Trimmed
  <2>6. CASE ~Pending(M, N)
    <3>1. c[P[N]].messages = M
      BY <1>4, <2>4, <2>6 DEF CutStep1, Behind
    <3>2. N > 0 => Heads(M[N]) # <<"T">>
      <4> SUFFICES ASSUME N > 0 PROVE Heads(M[N]) # <<"T">>
        OBVIOUS
      <4>1. Heads(M[N]) = <<"HB", "HB">> /\ N \in 1 .. Len(M)
        BY <1>3, <2>6 DEF Pending
      <4>2. M[N] \in Seq(Unit)
        BY <4>1
      <4> PICK m : m = M[N]
        OBVIOUS
      <4>3. Len(m) = 2
        BY <4>1, <4>2, HeadsAre
      <4>4. Heads(m) = <<"T">> => Len(m) = 1
        BY <4>2, HeadsAre
      <4> QED BY <4>3, <4>4
    <3> QED BY <1>6, <1>8, <3>1, <3>2 DEF Trimmed
  <2> QED BY <2>5, <2>6
<1>9. split \in {0, 2} \/ split = 1
  BY DEF IsMethod
<1> QED BY <1>7, <1>8, <1>9

-----------------------------------------------------------------------------
(* A frame is put together from the sub time frames. *)

\* A sub time frame that ends in a heartbeat, where data and heartbeats are in
\* messages of their own.
EndsWhole(M, split) == split \in {0, 1} /\ Len(M) > 0 => IsHartBeat(M[Len(M)])
OfFem(M, fem) == \A n \in 1 .. Len(M) : \A k \in DOMAIN M[n] : M[n][k].fem = fem

\* Nothing is trimmed of a sub time frame that ends in a heartbeat.
LEMMA TrimmedIs ==
  ASSUME NEW split, NEW M \in Seq(Seq(Unit)), IsCutting(M, split)
  PROVE  /\ Trimmed(M, split) \in Seq(Seq(Unit)) /\ IsCutting(Trimmed(M, split), split)
         /\ EndsWhole(Trimmed(M, split), split)
         /\ EndsWhole(M, split) => Trimmed(M, split) = M
         /\ \A fem : OfFem(M, fem) => OfFem(Trimmed(M, split), fem)
<1>1. Len(M) \in Nat
  OBVIOUS
<1>h. \A n \in 1 .. Len(M) : Heads(M[n]) = <<"T">> => M[n][1].head = "T"
  <2> TAKE n \in 1 .. Len(M)
  <2>1. M[n] \in Seq(Unit)
    OBVIOUS
  <2> QED BY <2>1, HeadsAre
<1>2. CASE split = 1 /\ Len(M) > 0 /\ Heads(M[Len(M)]) = <<"T">>
  <2> PICK N : N = SubSeq(M, 1, Len(M) - 1)
    OBVIOUS
  <2>1. Trimmed(M, split) = N
    BY <1>2 DEF Trimmed
  <2>2. N \in Seq(Seq(Unit)) /\ Len(N) = Len(M) - 1 /\ \A n \in 1 .. Len(N) : N[n] = M[n]
    <3> PICK V : V = Seq(Unit)
      OBVIOUS
    <3>1. M \in Seq(V) /\ Len(M) - 1 \in Nat
      BY <1>1, <1>2
    <3> PICK l : l = Len(M) - 1
      OBVIOUS
    <3>2. l \in Nat /\ l <= Len(M) /\ N = SubSeq(M, 1, l)
      BY <3>1
    <3>3. N \in Seq(V) /\ Len(N) = l
      BY ONLY <3>1, <3>2
    <3>4. \A n \in 1 .. l : N[n] = M[n]
      BY ONLY <3>1, <3>2
    <3> QED BY <3>3, <3>4, V = Seq(Unit), l = Len(M) - 1
  <2>3. \A n \in 1 .. Len(N) : n \in 1 .. Len(M) /\ n < Len(M) /\ n + 1 \in 1 .. Len(M)
    BY <1>1, <2>2
  <2>h. ~IsHartBeat(M[Len(M)])
    <3> PICK n : n = Len(M)
      OBVIOUS
    <3>1. n \in 1 .. Len(M) /\ Heads(M[n]) = <<"T">>
      BY <1>1, <1>2
    <3>2. M[n][1].head = "T"
      BY <1>h, <3>1
    <3>3. M[n][1].head # "HB"
      BY <3>2
    <3> QED BY <3>3 DEF IsHartBeat
  <2>4. \A n \in 1 .. Len(N) : n + 1 = Len(M) => Heads(M[n]) # <<"T">>
    BY <1>2, <2>3 DEF IsCutting
  <2>5. \A n \in 1 .. Len(N) : Heads(M[n]) # <<"SE">>
    <3> SUFFICES ASSUME NEW n \in 1 .. Len(N), Heads(M[n]) = <<"SE">> PROVE FALSE
      OBVIOUS
    <3>1. Heads(M[n + 1]) = <<"HB", "HB">> /\ n + 1 = Len(M)
      BY <1>2, <2>3 DEF IsCutting
    <3> QED BY <1>2, <3>1
  <2>6. IsCutting(N, split)
    <3> SUFFICES ASSUME NEW n \in 1 .. Len(N)
                 PROVE /\ N[n] \in Seq(DataUnit) /\ Heads(N[n]) \in Forms(split)
                       /\ Heads(N[n]) = <<"T">> /\ n < Len(N) => Heads(N[n + 1]) # <<"T">>
                       /\ Heads(N[n]) # <<"SE">>
      BY <1>2, SMTT(30) DEF IsCutting
    <3>1. N[n] \in Seq(DataUnit) /\ Heads(N[n]) \in Forms(split) /\ N[n] = M[n]
      BY <2>2, <2>3 DEF IsCutting
    <3>2. Heads(N[n]) # <<"SE">>
      BY <2>5, <3>1
    <3>3. n < Len(N) => N[n + 1] = M[n + 1]
      BY <2>2, <1>1
    <3>4. Heads(M[n]) = <<"T">> => Heads(M[n + 1]) # <<"T">>
      BY <1>2, <2>3 DEF IsCutting
    <3> QED BY <3>1, <3>2, <3>3, <3>4
  <2>7. EndsWhole(N, split)
    <3> SUFFICES ASSUME Len(N) > 0 PROVE IsHartBeat(N[Len(N)])
      BY DEF EndsWhole
    <3> PICK n : n = Len(N)
      OBVIOUS
    <3>1. n \in 1 .. Len(N) /\ n + 1 = Len(M)
      BY <1>1, <2>2
    <3>2. Heads(M[n]) \in Forms(1) /\ Heads(M[n]) # <<"T">> /\ Heads(M[n]) # <<"SE">>
      BY <1>2, <2>3, <2>4, <2>5, <3>1 DEF IsCutting
    <3>3. Heads(M[n]) = <<"HB", "HB">>
      BY <3>2 DEF Forms
    <3>4. M[n] \in Seq(Unit)
      BY <2>3, <3>1
    <3>5. M[n][1].head = "HB"
      BY <3>3, <3>4, HeadsAre
    <3> QED BY <2>2, <3>1, <3>5 DEF IsHartBeat
  <2>8. ~EndsWhole(M, split)
    BY <1>2, <2>h DEF EndsWhole
  <2>9. \A fem : OfFem(M, fem) => OfFem(N, fem)
    BY <2>2, <2>3 DEF OfFem
  <2> QED BY <2>1, <2>2, <2>6, <2>7, <2>8, <2>9
<1>3. CASE ~(split = 1 /\ Len(M) > 0 /\ Heads(M[Len(M)]) = <<"T">>)
  <2>1. Trimmed(M, split) = M
    BY <1>3 DEF Trimmed
  <2>2. EndsWhole(M, split)
    <3> SUFFICES ASSUME split \in {0, 1}, Len(M) > 0, ~IsHartBeat(M[Len(M)]) PROVE FALSE
      BY DEF EndsWhole
    <3> PICK n : n = Len(M)
      OBVIOUS
    <3>1. n \in 1 .. Len(M) /\ ~(n < Len(M)) /\ M[n] \in Seq(Unit)
      BY <1>1
    <3>2. CASE split = 0
      BY <3>1, <3>2 DEF IsCutting
    <3>3. CASE split = 1
      <4>1. Heads(M[n]) \in Forms(1) /\ Heads(M[n]) # <<"SE">> /\ Heads(M[n]) # <<"T">>
        BY <1>3, <3>1, <3>3 DEF IsCutting
      <4>2. Heads(M[n]) = <<"HB", "HB">>
        BY <4>1 DEF Forms
      <4>3. M[n][1].head = "HB"
        BY <4>2, <3>1, HeadsAre
      <4> QED BY <4>3 DEF IsHartBeat
    <3> QED BY <3>2, <3>3
  <2> QED BY <2>1, <2>2
<1> QED BY <1>2, <1>3
\* A sub time frame behind a frame.
IsAppended(b, a, stf, M) ==
    /\ b \in Seq(Seq(Unit)) /\ Len(b) = Len(a) + 1 + Len(M) /\ b[Len(a) + 1] = <<stf>>
    /\ \A i \in 1 .. Len(a) : b[i] = a[i]
    /\ \A n \in 1 .. Len(M) : b[Len(a) + 1 + n] = M[n]

\* By place.
LEMMA AppendIs ==
  ASSUME NEW a \in Seq(Seq(Unit)), NEW stf \in Unit, NEW M \in Seq(Seq(Unit))
  PROVE  IsAppended(a \o <<<<stf>>>> \o M, a, stf, M)
<1> PICK V : V = Seq(Unit)
  OBVIOUS
<1> PICK x : x = <<stf>>
  OBVIOUS
<1>1. x \in V /\ a \in Seq(V) /\ M \in Seq(V)
  OBVIOUS
<1> PICK t : t = a \o <<x>>
  OBVIOUS
<1>2. t \in Seq(V) /\ Len(t) = Len(a) + 1 /\ Len(a) \in Nat /\ Len(M) \in Nat
  BY ONLY <1>1, t = a \o <<x>>
<1>3. t[Len(a) + 1] = x /\ \A i \in 1 .. Len(a) : t[i] = a[i]
  BY ONLY <1>1, t = a \o <<x>>
<1> PICK b : b = t \o M
  OBVIOUS
<1>0. t \in Seq(V) /\ M \in Seq(V)
  BY <1>1, <1>2
<1>4. b \in Seq(V) /\ Len(b) = Len(t) + Len(M)
  BY ONLY <1>0, b = t \o M
<1>5. \A i \in 1 .. Len(t) : b[i] = t[i]
  BY ONLY <1>0, b = t \o M
<1>6. \A n \in 1 .. Len(M) : b[Len(t) + n] = M[n]
  BY ONLY <1>0, b = t \o M
<1>7. Len(a) + 1 \in 1 .. Len(t) /\ \A i \in 1 .. Len(a) : i \in 1 .. Len(t)
  BY ONLY <1>2
<1>8. b[Len(a) + 1] = x /\ \A i \in 1 .. Len(a) : b[i] = a[i]
  BY ONLY <1>3, <1>5, <1>7
<1>9. b = a \o <<<<stf>>>> \o M
  OBVIOUS
<1>10. IsAppended(b, a, stf, M)
  BY <1>2, <1>4, <1>6, <1>8 DEF IsAppended
<1> QED BY <1>9, <1>10

\* Where the messages and the ends of sub time frames are.
ArePlaces(b, a, stf, M, L) ==
    /\ L \in Nat /\ L >= 2 /\ Len(b) = L + Len(M) /\ Len(b) \in Nat /\ Len(M) \in Nat
    /\ IsStf(b[L]) /\ b[L] = <<stf>>
    /\ \A i \in 1 .. L - 1 : b[i] = a[i] /\ (IsLast(b, i) <=> IsLast(a, i))
    /\ \A n \in 1 .. Len(M) : /\ b[L + n] = M[n] /\ ~IsStf(M[n]) /\ M[n] \in Seq(DataUnit)
                              /\ M[n] # <<>> /\ (IsLast(b, L + n) <=> n = Len(M))
    /\ \A i \in 2 .. Len(b) : i \in 2 .. L - 1 \/ i = L \/ i - L \in 1 .. Len(M)

\* Behind the frame there is one more header, and its messages.
LEMMA AppendedPlaces ==
  ASSUME NEW a, IsFrame(a), NEW stf \in StfUnit, NEW split, NEW M \in Seq(Seq(Unit)), IsCutting(M, split),
         NEW b, IsAppended(b, a, stf, M), NEW L, L = Len(a) + 1
  PROVE  ArePlaces(b, a, stf, M, L)
<1>1. Len(a) \in Nat /\ Len(a) >= 1
  BY FrameFacts
<1>2. L \in Nat /\ L >= 2 /\ Len(M) \in Nat /\ Len(b) = L + Len(M) /\ Len(b) \in Nat
  BY <1>1 DEF IsAppended
<1>3. b[L] = <<stf>> /\ IsStf(b[L])
  <2>1. b[L] = <<stf>> /\ stf.head = "STF"
    BY Units DEF IsAppended
  <2> QED BY <2>1 DEF IsStf
<1>4. ASSUME NEW n \in 1 .. Len(M)
      PROVE  b[L + n] = M[n] /\ ~IsStf(M[n]) /\ M[n] \in Seq(DataUnit) /\ M[n] # <<>>
  <2>1. b[L + n] = M[n]
    BY DEF IsAppended
  <2> PICK m : m = M[n]
    OBVIOUS
  <2>2. m \in Seq(DataUnit) /\ Heads(m) \in Forms(split)
    BY DEF IsCutting
  <2>3. Len(m) \in 1 .. 3
    <3>1. /\ \A a1 : Heads(m) = <<a1>> => Len(m) = 1
          /\ \A a1, b1 : Heads(m) = <<a1, b1>> => Len(m) = 2
          /\ \A a1, b1, c1 : Heads(m) = <<a1, b1, c1>> => Len(m) = 3
      BY <2>2, HeadsAre
    <3>2. (\E a1 : Heads(m) = <<a1>>) \/ (\E a1, b1 : Heads(m) = <<a1, b1>>)
            \/ (\E a1, b1, c1 : Heads(m) = <<a1, b1, c1>>)
      BY ONLY <2>2, Zenon DEF Forms
    <3> QED BY <3>1, <3>2
  <2>4. m # <<>> /\ m[1] \in DataUnit
    BY ONLY <2>2, <2>3
  <2>5. m[1].head # "STF"
    BY <2>4, Units
  <2> QED BY <2>1, <2>2, <2>4, <2>5 DEF IsStf
<1>5. ASSUME NEW n \in 1 .. Len(M) PROVE IsLast(b, L + n) <=> n = Len(M)
  <2>1. CASE n = Len(M)
    BY <1>2, <2>1 DEF IsLast
  <2>2. CASE n # Len(M)
    <3>1. n + 1 \in 1 .. Len(M) /\ (L + n) + 1 = L + (n + 1) /\ L + n # Len(b)
      BY <1>2, <2>2
    <3>2. ~IsStf(b[(L + n) + 1])
      BY <1>4, <3>1
    <3> QED BY <2>2, <3>1, <3>2 DEF IsLast
  <2> QED BY <2>1, <2>2
<1>6. ASSUME NEW i \in 1 .. L - 1 PROVE b[i] = a[i] /\ (IsLast(b, i) <=> IsLast(a, i))
  <2>0. i \in 1 .. Len(a) /\ i \in Nat
    BY <1>1
  <2>1. b[i] = a[i]
    BY <2>0 DEF IsAppended
  <2>2. CASE i = Len(a)
    <3>1. IsLast(a, i) /\ i + 1 = L
      BY <2>2 DEF IsLast
    <3> QED BY <1>3, <2>1, <3>1 DEF IsLast
  <2>3. CASE i # Len(a)
    <3>1. i + 1 \in 1 .. Len(a) /\ i # Len(b)
      BY <1>1, <1>2, <2>0, <2>3
    <3>2. b[i + 1] = a[i + 1]
      BY <3>1 DEF IsAppended
    <3> QED BY <2>1, <2>3, <3>1, <3>2 DEF IsLast
  <2> QED BY <2>2, <2>3
<1>7. \A i \in 2 .. Len(b) : i \in 2 .. L - 1 \/ i = L \/ i - L \in 1 .. Len(M)
  BY ONLY <1>2
<1> QED BY <1>2, <1>3, <1>4, <1>5, <1>6, <1>7 DEF ArePlaces

\* What comes of it is a frame,
LEMMA AppendedIsFrame ==
  ASSUME NEW a, IsFrame(a), NEW stf \in StfUnit, NEW split, NEW M \in Seq(Seq(Unit)), IsCutting(M, split),
         OfFem(M, stf.fem), NEW b, IsAppended(b, a, stf, M)
  PROVE  IsFrame(b) /\ Len(b) > 1 /\ b[1] = a[1]
<1> PICK L : L = Len(a) + 1
  OBVIOUS
<1>1. /\ L \in Nat /\ L >= 2 /\ Len(b) = L + Len(M) /\ Len(b) \in Nat /\ Len(M) \in Nat
      /\ IsStf(b[L]) /\ b[L] = <<stf>>
      /\ \A i \in 1 .. L - 1 : b[i] = a[i]
      /\ \A n \in 1 .. Len(M) : b[L + n] = M[n] /\ ~IsStf(M[n]) /\ M[n] \in Seq(DataUnit) /\ M[n] # <<>>
      /\ \A i \in 2 .. Len(b) : i \in 2 .. L - 1 \/ i = L \/ i - L \in 1 .. Len(M)
  <2>1. ArePlaces(b, a, stf, M, L)
    BY AppendedPlaces
  <2> QED BY <2>1 DEF ArePlaces
<1>2. Len(a) = L - 1 /\ Len(b) > 1 /\ 1 \in 1 .. L - 1 /\ b[1] = a[1]
  <2>1. Len(a) \in Nat
    BY FrameFacts
  <2> QED BY <1>1, <2>1
<1>3. b \in Seq(Seq(Unit)) /\ b # <<>>
  <2>1. b \in Seq(Seq(Unit))
    BY DEF IsAppended
  <2>2. Len(b) # 0
    BY <1>1
  <2> QED BY <2>1, <2>2
<1>4. \E tf \in TfUnit : b[1] = <<tf>>
  BY <1>2 DEF IsFrame
<1>5. IsStf(b[2])
  <2>1. CASE L = 2
    BY <1>1, <2>1
  <2>2. CASE L # 2
    <3>1. 2 \in 1 .. L - 1 /\ Len(a) > 1
      BY <1>1, <1>2, <2>2
    <3> QED BY <1>1, <3>1 DEF IsFrame
  <2> QED BY <2>1, <2>2
<1>6. ASSUME NEW i \in 2 .. Len(b)
      PROVE  /\ IsStf(b[i]) => \E u \in StfUnit : b[i] = <<u>>
             /\ ~IsStf(b[i]) =>
                /\ b[i] \in Seq(DataUnit) /\ b[i] # <<>>
                /\ \A k \in DOMAIN b[i] : b[i][k].fem = b[i - 1][1].fem
  <2>1. CASE i \in 2 .. L - 1
    <3>1. i \in 2 .. Len(a) /\ i - 1 \in 1 .. L - 1 /\ i \in 1 .. L - 1
      BY <1>1, <1>2, <2>1
    <3>2. b[i] = a[i] /\ b[i - 1] = a[i - 1]
      BY <1>1, <3>1
    <3> QED BY <3>1, <3>2 DEF IsFrame
  <2>2. CASE i = L
    BY <1>1, <2>2
  <2>3. CASE i - L \in 1 .. Len(M)
    <3> PICK n : n = i - L
      OBVIOUS
    <3>1. n \in 1 .. Len(M) /\ i = L + n /\ b[i] = M[n]
      <4>1. i = L + n
        BY <1>1
      <4> QED BY <1>1, <2>3, <4>1
    <3>2. \A k \in DOMAIN b[i] : b[i][k].fem = stf.fem
      BY <3>1 DEF OfFem
    <3>3. b[i - 1][1].fem = stf.fem
      <4>1. CASE n = 1
        <5>1. i - 1 = L
          BY <1>1, <3>1, <4>1
        <5> QED BY <1>1, <5>1
      <4>2. CASE n # 1
        <5> PICK p : p = n - 1
          OBVIOUS
        <5>1. p \in 1 .. Len(M) /\ i - 1 = L + p
          <6>1. L \in Nat /\ Len(M) \in Nat
            BY <1>1
          <6> PICK l : l = Len(M)
            OBVIOUS
          <6>2. n \in 1 .. l /\ i = L + n /\ n # 1 /\ l \in Nat
            BY <3>1, <4>2, <6>1
          <6> QED BY ONLY <6>1, <6>2, p = n - 1, l = Len(M)
        <5>2. b[i - 1] = M[p] /\ M[p] \in Seq(DataUnit) /\ M[p] # <<>>
          BY <1>1, <5>1
        <5> PICK m : m = M[p]
          OBVIOUS
        <5>3. 1 \in DOMAIN m
          BY <5>2
        <5> QED BY <5>1, <5>2, <5>3, ZenonT(40) DEF OfFem
      <4> QED BY <4>1, <4>2
    <3> QED BY <1>1, <3>1, <3>2, <3>3
  <2> QED BY <1>1, <2>1, <2>2, <2>3
<1> QED BY <1>2, <1>3, <1>4, <1>5, <1>6 DEF IsFrame

\* cut as both were.
LEMMA AppendedIsCut ==
  ASSUME NEW a, IsFrame(a), NEW stf \in StfUnit, NEW split, NEW M \in Seq(Seq(Unit)), IsCutting(M, split),
         EndsWhole(M, split), IsCut(a, split), IsWhole(a, split), NEW b, IsAppended(b, a, stf, M)
  PROVE  IsCut(b, split) /\ IsWhole(b, split)
<1> PICK L : L = Len(a) + 1
  OBVIOUS
<1>1. ArePlaces(b, a, stf, M, L)
  BY AppendedPlaces
<1>2. /\ L \in Nat /\ L >= 2 /\ Len(b) = L + Len(M) /\ Len(b) \in Nat /\ Len(M) \in Nat /\ IsStf(b[L])
      /\ \A i \in 2 .. Len(b) : i \in 2 .. L - 1 \/ i = L \/ i - L \in 1 .. Len(M)
  BY <1>1 DEF ArePlaces
<1>3. \A i \in 1 .. L - 1 : b[i] = a[i] /\ (IsLast(b, i) <=> IsLast(a, i))
  BY <1>1 DEF ArePlaces
<1>4. \A n \in 1 .. Len(M) : b[L + n] = M[n] /\ (IsLast(b, L + n) <=> n = Len(M))
  BY <1>1 DEF ArePlaces
<1>5. Len(a) = L - 1
  <2>1. Len(a) \in Nat
    BY FrameFacts
  <2> QED BY <2>1
<1> DEFINE Is(i) ==
        /\ Heads(b[i]) \in Forms(split)
        /\ split = 0 /\ ~IsHartBeat(b[i]) => ~IsLast(b, i) /\ IsHartBeat(b[i + 1])
        /\ split = 1 /\ Heads(b[i]) = <<"T">> /\ ~IsLast(b, i) => Heads(b[i + 1]) # <<"T">>
        /\ split = 1 /\ Heads(b[i]) = <<"SE">> =>
                ~IsLast(b, i) /\ Heads(b[i + 1]) = <<"HB", "HB">> /\ IsLast(b, i + 1)
        /\ split = 2 /\ Heads(b[i]) = <<"HB">> => IsLast(b, i)
        /\ ~IsHartBeat(b[i]) /\ split \in {0, 1} => ~IsLast(b, i)
<1>6. ASSUME NEW i \in 2 .. L - 1, ~IsStf(b[i]) PROVE Is(i)
  <2>1. i \in 1 .. L - 1 /\ i \in 2 .. Len(a) /\ b[i] = a[i] /\ (IsLast(b, i) <=> IsLast(a, i)) /\ ~IsStf(a[i])
    BY <1>2, <1>3, <1>5, <1>6
  <2>2. ~IsLast(a, i) => b[i + 1] = a[i + 1] /\ (IsLast(b, i + 1) <=> IsLast(a, i + 1))
    <3> SUFFICES ASSUME ~IsLast(a, i) PROVE b[i + 1] = a[i + 1] /\ (IsLast(b, i + 1) <=> IsLast(a, i + 1))
      OBVIOUS
    <3>1. i # Len(a)
      BY DEF IsLast
    <3>2. i + 1 \in 1 .. L - 1
      <4>1. i # L - 1 /\ L \in Nat /\ i \in 1 .. L - 1
        BY <1>2, <1>5, <2>1, <3>1, Zenon
      <4> QED BY ONLY <4>1
    <3> QED BY <1>3, <3>2
  <2>3. /\ Heads(a[i]) \in Forms(split)
        /\ split = 0 /\ ~IsHartBeat(a[i]) => ~IsLast(a, i) /\ IsHartBeat(a[i + 1])
        /\ split = 1 /\ Heads(a[i]) = <<"T">> /\ ~IsLast(a, i) => Heads(a[i + 1]) # <<"T">>
        /\ split = 1 /\ Heads(a[i]) = <<"SE">> =>
                ~IsLast(a, i) /\ Heads(a[i + 1]) = <<"HB", "HB">> /\ IsLast(a, i + 1)
        /\ split = 2 /\ Heads(a[i]) = <<"HB">> => IsLast(a, i)
    BY <2>1 DEF IsCut
  <2>4. ~IsHartBeat(a[i]) /\ split \in {0, 1} => ~IsLast(a, i)
    BY <2>1 DEF IsWhole
  <2> QED BY ONLY <2>1, <2>2, <2>3, <2>4, Zenon
<1>7. ASSUME NEW n \in 1 .. Len(M) PROVE Is(L + n)
  <2> PICK i : i = L + n
    OBVIOUS
  <2>1. b[i] = M[n] /\ (IsLast(b, i) <=> n = Len(M)) /\ (n = Len(M) <=> ~(n < Len(M)))
    BY <1>2, <1>4
  <2>2. n < Len(M) => b[i + 1] = M[n + 1] /\ (IsLast(b, i + 1) <=> n + 1 = Len(M))
    <3> SUFFICES ASSUME n < Len(M) PROVE b[i + 1] = M[n + 1] /\ (IsLast(b, i + 1) <=> n + 1 = Len(M))
      OBVIOUS
    <3>1. n + 1 \in 1 .. Len(M) /\ i + 1 = L + (n + 1)
      BY <1>2
    <3> QED BY <1>4, <3>1
  <2>3. /\ Heads(M[n]) \in Forms(split)
        /\ split = 0 /\ ~IsHartBeat(M[n]) => n < Len(M) /\ IsHartBeat(M[n + 1])
        /\ split = 1 /\ Heads(M[n]) = <<"T">> /\ n < Len(M) => Heads(M[n + 1]) # <<"T">>
        /\ split = 1 /\ Heads(M[n]) = <<"SE">> =>
                n < Len(M) /\ Heads(M[n + 1]) = <<"HB", "HB">> /\ n + 1 = Len(M)
        /\ split = 2 /\ Heads(M[n]) = <<"HB">> => n = Len(M)
    BY DEF IsCutting
  <2>4. ~IsHartBeat(M[n]) /\ split \in {0, 1} => n # Len(M)
    <3>1. Len(M) > 0
      BY <1>2
    <3> QED BY <3>1 DEF EndsWhole
  <2>5. Is(i)
    BY ONLY <2>1, <2>2, <2>3, <2>4, Zenon
  <2> QED BY <2>5
<1>8. \A i \in 2 .. Len(b) : ~IsStf(b[i]) => Is(i)
  <2> SUFFICES ASSUME NEW i \in 2 .. Len(b), ~IsStf(b[i]) PROVE Is(i)
    OBVIOUS
  <2> HIDE DEF Is
  <2>1. i = L + (i - L)
    BY <1>2
  <2>2. i # L
    BY <1>2
  <2>3. CASE i \in 2 .. L - 1
    BY <1>6, <2>3
  <2>4. CASE i - L \in 1 .. Len(M)
    BY <1>7, <2>1, <2>4
  <2> QED BY <1>2, <2>2, <2>3, <2>4
<1>9. IsCut(b, split)
  BY <1>8 DEF IsCut
<1>10. IsWhole(b, split)
  BY <1>8 DEF IsWhole
<1> QED BY <1>9, <1>10
\* The messages of a sub time frame in a frame.
IsSource(M, parts, split, h, e) ==
    /\ M \in Seq(Seq(Unit)) /\ Len(M) = e - h /\ IsCutting(M, split) /\ OfFem(M, parts[h][1].fem)
    /\ IsWhole(parts, split) => EndsWhole(M, split)
    /\ \A n \in 1 .. Len(M) : M[n] = parts[h + n]

\* They are a sub time frame.
LEMMA SourceIs ==
  ASSUME NEW parts, IsFrame(parts), NEW split, IsCut(parts, split), NEW h \in StfHeaders(parts),
         NEW e \in h .. Len(parts), MessagesOf(parts, h) = h + 1 .. e, IsLast(parts, e),
         NEW M, M = SubSeq(parts, h + 1, e)
  PROVE  IsSource(M, parts, split, h, e)
<1>1. parts \in Seq(Seq(Unit)) /\ Len(parts) \in Nat /\ h \in 2 .. Len(parts) /\ h \in Nat /\ e \in Nat
      /\ h <= e /\ e <= Len(parts)
  BY FrameFacts
<1>2. M \in Seq(Seq(Unit)) /\ Len(M) = e - h /\ \A n \in 1 .. Len(M) : M[n] = parts[h + n]
  <2> PICK V : V = Seq(Unit)
    OBVIOUS
  <2>1. parts \in Seq(V) /\ h \in Nat /\ e \in Nat /\ h <= e /\ e <= Len(parts)
    BY <1>1
  <2>2. M \in Seq(V) /\ Len(M) = e - h
    BY ONLY <2>1, M = SubSeq(parts, h + 1, e)
  <2>3. \A n \in 1 .. e - h : M[n] = parts[h + n]
    BY ONLY <2>1, M = SubSeq(parts, h + 1, e)
  <2> QED BY <2>2, <2>3
<1>3. \A n \in 1 .. Len(M) : /\ h + n \in 2 .. Len(parts) /\ h + n \in h + 1 .. e
                             /\ (n < Len(M) => n + 1 \in 1 .. Len(M) /\ h + (n + 1) = (h + n) + 1)
                             /\ (n = Len(M) <=> h + n = e) /\ (n < Len(M) <=> h + n # e)
  <2> PICK l : l = Len(M)
    OBVIOUS
  <2> PICK N : N = Len(parts)
    OBVIOUS
  <2>1. l = e - h /\ h \in 2 .. N /\ e \in Nat /\ h <= e /\ e <= N /\ N \in Nat
    BY <1>1, <1>2
  <2>2. \A n \in 1 .. l : /\ h + n \in 2 .. N /\ h + n \in h + 1 .. e
                          /\ (n < l => n + 1 \in 1 .. l /\ h + (n + 1) = (h + n) + 1)
                          /\ (n = l <=> h + n = e) /\ (n < l <=> h + n # e)
    BY ONLY <2>1
  <2> QED BY ONLY <2>2, l = Len(M), N = Len(parts)
<1>4. \A i \in h + 1 .. e : ~IsStf(parts[i])
  <2> TAKE i \in h + 1 .. e
  <2>1. i \in MessagesOf(parts, h) /\ i \in h + 1 .. i
    BY <1>1
  <2> QED BY <2>1, MessageOf
<1>5. \A i \in h + 1 .. e : IsLast(parts, i) <=> i = e
  <2> TAKE i \in h + 1 .. e
  <2>1. CASE i = e
    BY <2>1
  <2>2. CASE i # e
    <3>1. i + 1 \in h + 1 .. e /\ i # Len(parts)
      BY <1>1, <2>2
    <3> QED BY <1>4, <2>2, <3>1 DEF IsLast
  <2> QED BY <2>1, <2>2
<1>6. IsCutting(M, split)
  <2> SUFFICES ASSUME NEW n \in 1 .. Len(M)
               PROVE  /\ M[n] \in Seq(DataUnit) /\ Heads(M[n]) \in Forms(split)
                      /\ split = 0 /\ ~IsHartBeat(M[n]) => n < Len(M) /\ IsHartBeat(M[n + 1])
                      /\ split = 1 /\ Heads(M[n]) = <<"T">> /\ n < Len(M) => Heads(M[n + 1]) # <<"T">>
                      /\ split = 1 /\ Heads(M[n]) = <<"SE">> =>
                            n < Len(M) /\ Heads(M[n + 1]) = <<"HB", "HB">> /\ n + 1 = Len(M)
                      /\ split = 2 /\ Heads(M[n]) = <<"HB">> => n = Len(M)
    BY DEF IsCutting
  <2> PICK i : i = h + n
    OBVIOUS
  <2>1. /\ i \in 2 .. Len(parts) /\ i \in h + 1 .. e /\ ~IsStf(parts[i]) /\ M[n] = parts[i]
        /\ (IsLast(parts, i) <=> n = Len(M)) /\ (n < Len(M) <=> ~IsLast(parts, i))
    BY <1>2, <1>3, <1>4, <1>5
  <2>2. n < Len(M) => M[n + 1] = parts[i + 1] /\ (IsLast(parts, i + 1) <=> n + 1 = Len(M))
    <3> SUFFICES ASSUME n < Len(M) PROVE M[n + 1] = parts[i + 1] /\ (IsLast(parts, i + 1) <=> n + 1 = Len(M))
      OBVIOUS
    <3>1. n + 1 \in 1 .. Len(M) /\ h + (n + 1) = i + 1
      BY <1>3
    <3>2. M[n + 1] = parts[i + 1] /\ i + 1 \in h + 1 .. e /\ (n + 1 = Len(M) <=> i + 1 = e)
      BY <1>2, <1>3, <3>1
    <3> QED BY <1>5, <3>2
  <2>3. /\ Heads(parts[i]) \in Forms(split)
        /\ split = 0 /\ ~IsHartBeat(parts[i]) => ~IsLast(parts, i) /\ IsHartBeat(parts[i + 1])
        /\ split = 1 /\ Heads(parts[i]) = <<"T">> /\ ~IsLast(parts, i) => Heads(parts[i + 1]) # <<"T">>
        /\ split = 1 /\ Heads(parts[i]) = <<"SE">> =>
                ~IsLast(parts, i) /\ Heads(parts[i + 1]) = <<"HB", "HB">> /\ IsLast(parts, i + 1)
        /\ split = 2 /\ Heads(parts[i]) = <<"HB">> => IsLast(parts, i)
    BY <2>1 DEF IsCut
  <2>4. M[n] \in Seq(DataUnit)
    BY <2>1, FrameFacts, ZenonT(40)
  <2> QED BY ONLY <2>1, <2>2, <2>3, <2>4, Zenon
<1>7. OfFem(M, parts[h][1].fem)
  <2> SUFFICES ASSUME NEW n \in 1 .. Len(M) PROVE \A k \in DOMAIN M[n] : M[n][k].fem = parts[h][1].fem
    BY DEF OfFem
  <2> PICK i : i = h + n
    OBVIOUS
  <2>1. i \in 2 .. Len(parts) /\ i \in h + 1 .. e /\ ~IsStf(parts[i]) /\ M[n] = parts[i]
    BY <1>2, <1>3, <1>4
  <2>2. PICK g \in StfHeaders(parts) :
            /\ i \in MessagesOf(parts, g) /\ g < i
            /\ \A k \in DOMAIN parts[i] : parts[i][k].fem = parts[g][1].fem
    BY <2>1, MessageHeader
  <2>3. g \in 2 .. Len(parts) /\ IsStf(parts[g]) /\ IsStf(parts[h])
    BY FrameFacts
  <2>4. ~(h < g)
    <3>1. g \in h + 1 .. e <=> h < g /\ g <= e
      BY <1>1, <2>3
    <3>2. i <= e /\ i \in Nat
      BY <1>1, <2>1
    <3>3. g <= e
      BY <1>1, <2>2, <2>3, <3>2
    <3> QED BY <1>4, <2>3, <3>1, <3>3
  <2>5. ~(g < h)
    <3> SUFFICES ASSUME g < h PROVE FALSE
      OBVIOUS
    <3>1. h \in g + 1 .. i
      BY <1>1, <2>1, <2>3
    <3>2. \A k \in g + 1 .. i : ~IsStf(parts[k])
      BY <2>2, MessageOf
    <3> QED BY <2>3, <3>1, <3>2
  <2>6. g = h
    BY <1>1, <2>3, <2>4, <2>5
  <2> QED BY <2>1, <2>2, <2>6
<1>8. ASSUME IsWhole(parts, split) PROVE EndsWhole(M, split)
  <2> SUFFICES ASSUME split \in {0, 1}, Len(M) > 0, ~IsHartBeat(M[Len(M)]) PROVE FALSE
    BY DEF EndsWhole
  <2> PICK n : n = Len(M)
    OBVIOUS
  <2>1. n \in 1 .. Len(M)
    BY <1>1, <1>2
  <2> PICK i : i = h + n
    OBVIOUS
  <2>2. i \in 2 .. Len(parts) /\ ~IsStf(parts[i]) /\ M[n] = parts[i] /\ IsLast(parts, i)
    BY <1>2, <1>3, <1>4, <1>5, <2>1
  <2> QED BY <1>8, <2>2 DEF IsWhole
<1> QED BY <1>2, <1>6, <1>7, <1>8 DEF IsSource

-----------------------------------------------------------------------------
(* How TFBFilePlayer makes the messages of a time frame again. *)

\* A stretch of a stretch.
LEMMA SubOfSub ==
  ASSUME NEW U \in Seq(Unit), NEW a \in Nat \ {0}, NEW b \in Nat, a <= b + 1, b < Len(U)
  PROVE  SubSeq(SubSeq(U, 2, Len(U)), a, b) = SubSeq(U, a + 1, b + 1)
<1> PICK L : L = Len(U)
  OBVIOUS
<1> PICK t : t = SubSeq(U, 2, L)
  OBVIOUS
<1>1. L \in Nat /\ L >= 1
  OBVIOUS
<1>2. t \in Seq(Unit) /\ Len(t) = L - 1
  BY ONLY <1>1, t = SubSeq(U, 2, L), L = Len(U), U \in Seq(Unit)
<1>3. \A q \in 1 .. L - 1 : t[q] = U[q + 1]
  BY ONLY <1>1, t = SubSeq(U, 2, L), L = Len(U), U \in Seq(Unit)
<1> PICK x : x = SubSeq(t, a, b)
  OBVIOUS
<1> PICK y : y = SubSeq(U, a + 1, b + 1)
  OBVIOUS
<1>4. x \in Seq(Unit) /\ Len(x) = b - a + 1
  BY ONLY <1>1, <1>2, x = SubSeq(t, a, b), a \in Nat \ {0}, b \in Nat, a <= b + 1, b < Len(U), L = Len(U)
<1>5. \A k \in 1 .. b - a + 1 : x[k] = t[a + k - 1]
  BY ONLY <1>1, <1>2, x = SubSeq(t, a, b), a \in Nat \ {0}, b \in Nat, a <= b + 1, b < Len(U), L = Len(U)
<1>6. y \in Seq(Unit) /\ Len(y) = b - a + 1
  BY ONLY <1>1, U \in Seq(Unit), y = SubSeq(U, a + 1, b + 1), a \in Nat \ {0}, b \in Nat, a <= b + 1,
     b < Len(U), L = Len(U)
<1>7. \A k \in 1 .. b - a + 1 : y[k] = U[a + k]
  BY ONLY <1>1, U \in Seq(Unit), y = SubSeq(U, a + 1, b + 1), a \in Nat \ {0}, b \in Nat, a <= b + 1,
     b < Len(U), L = Len(U)
<1>8. \A k \in 1 .. b - a + 1 : a + k - 1 \in 1 .. L - 1 /\ (a + k - 1) + 1 = a + k
  BY ONLY <1>1, a \in Nat \ {0}, b \in Nat, b < Len(U), L = Len(U)
<1>9. \A k \in 1 .. Len(x) : x[k] = y[k]
  BY <1>3, <1>4, <1>5, <1>7, <1>8
<1>10. x = y
  BY ONLY <1>4, <1>6, <1>9, SeqEqual
<1> QED BY <1>10

\* The player has made the messages up to m, which is the last of a sub time frame.
Played(acc, parts, P, split, m) ==
    /\ m \in 1 .. Len(parts) /\ IsLast(parts, m)
    /\ acc.inside = TRUE /\ acc.pos = P[m]
    /\ IsFrame(acc.parts) /\ IsCut(acc.parts, split) /\ IsWhole(acc.parts, split)
    /\ acc.parts[1] = parts[1] /\ (m > 1 => Len(acc.parts) > 1)
    /\ IsWhole(parts, split) => acc.parts = SubSeq(parts, 1, m)

\* The places of the next sub time frame.
LEMMA NextPlaces ==
  ASSUME NEW parts, IsFrame(parts), AreLong(parts), NEW U \in Seq(Unit), NEW P, Lies(U, parts, P),
         NEW m \in 1 .. Len(parts), IsLast(parts, m), m < Len(parts)
  PROVE  \E e \in m + 1 .. Len(parts) :
            /\ m + 1 \in StfHeaders(parts) /\ MessagesOf(parts, m + 1) = m + 2 .. e /\ IsLast(parts, e)
            /\ P[m] \in Nat \ {0} /\ P[e] \in Nat /\ P[e] <= Len(U) /\ P[m + 1] = P[m] + 1 /\ P[m + 1] <= P[e]
            /\ P[m] + parts[m + 1][1].length = P[e] /\ U[P[m] + 1] = parts[m + 1][1]
<1>1. Len(parts) \in Nat /\ parts \in Seq(Seq(Unit)) /\ Len(parts[1]) = 1
  BY FrameFacts
<1> PICK h : h = m + 1
  OBVIOUS
<1>2. h \in 2 .. Len(parts) /\ h \in 1 .. Len(parts) /\ h - 1 = m /\ IsStf(parts[h]) /\ h \in Nat /\ h + 1 = m + 2
  BY <1>1 DEF IsLast
<1>3. h \in StfHeaders(parts) /\ Len(parts[h]) = 1 /\ parts[h][1] \in StfUnit
  BY <1>2, FrameFacts
<1>4. PICK e \in h .. Len(parts) : MessagesOf(parts, h) = h + 1 .. e /\ IsLast(parts, e)
  BY <1>3, MessagesAre
<1>5. e \in 0 .. Len(parts) /\ h \in 0 .. Len(parts) /\ m \in 0 .. Len(parts) /\ 1 \in 0 .. Len(parts)
      /\ 0 \in 0 .. Len(parts) /\ 1 <= m /\ h <= e /\ e <= Len(parts) /\ Len(parts) \in 0 .. Len(parts)
      /\ 1 \in 1 .. Len(parts)
  BY <1>1, <1>2, <1>4
<1>6. \A i, j \in 0 .. Len(parts) : i <= j => P[i] <= P[j]
  BY <1>1, PlacesGrow
<1>7. P[m] \in Nat /\ P[e] \in Nat /\ P[h] \in Nat /\ P[h] = P[m] + 1 /\ P[1] = 1 /\ Len(U) = P[Len(parts)]
      /\ U[P[m] + 1] = parts[h][1]
  <2>1. P[0] = 0 /\ P[1] = P[1 - 1] + Len(parts[1])
    BY <1>5 DEF Lies
  <2>2. P[h] = P[h - 1] + Len(parts[h])
    BY <1>2 DEF Lies
  <2>3. U[P[h - 1] + 1] = parts[h][1]
    <3>1. 1 \in 1 .. Len(parts[h])
      BY <1>3
    <3> QED BY <1>2, <3>1 DEF Lies
  <2>4. P[m] \in Nat /\ P[e] \in Nat /\ P[h] \in Nat /\ Len(U) = P[Len(parts)]
    BY <1>5 DEF Lies
  <2>5. h - 1 = m
    BY <1>2
  <2>6. P[1] = 1
    <3>1. 1 - 1 = 0 /\ 0 + 1 = 1
      OBVIOUS
    <3> QED BY <1>1, <2>1, <3>1
  <2>7. P[h] = P[m] + 1
    BY <1>3, <2>2, <2>5
  <2>8. U[P[m] + 1] = parts[h][1]
    BY <2>3, <2>5
  <2> QED BY <2>4, <2>6, <2>7, <2>8
<1>8. P[m] # 0 /\ P[e] <= Len(U) /\ P[h] <= P[e]
  <2>1. P[1] <= P[m] /\ P[e] <= P[Len(parts)] /\ P[h] <= P[e]
    BY ONLY <1>5, <1>6
  <2> QED BY <1>7, <2>1
<1>9. parts[h][1].length = 1 + (P[e] - P[h])
  <2>1. parts[h][1].length = 1 + Size(parts, h + 1 .. e)
    BY <1>3, <1>4 DEF AreLong
  <2>2. Size(parts, h + 1 .. e) = P[e] - P[h]
    <3>1. h \in 0 .. Len(parts) /\ e \in h .. Len(parts)
      BY <1>5, <1>4
    <3> QED BY <1>1, <3>1, SizeRange
  <2> QED BY <2>1, <2>2
<1>10. P[m] + parts[h][1].length = P[e]
  <2> PICK l : l = parts[h][1].length
    OBVIOUS
  <2> PICK x, y, z : x = P[m] /\ y = P[h] /\ z = P[e]
    OBVIOUS
  <2>1. x \in Nat /\ y = x + 1 /\ z \in Nat /\ l = 1 + (z - y)
    BY <1>7, <1>9
  <2>2. x + l = z
    BY ONLY <2>1
  <2> QED BY <2>2
<1>11. /\ h \in StfHeaders(parts) /\ MessagesOf(parts, h) = m + 2 .. e /\ IsLast(parts, e)
       /\ P[m] \in Nat \ {0} /\ P[e] \in Nat /\ P[e] <= Len(U) /\ P[h] = P[m] + 1 /\ P[h] <= P[e]
       /\ P[m] + parts[h][1].length = P[e] /\ U[P[m] + 1] = parts[h][1]
  BY <1>2, <1>3, <1>4, <1>7, <1>8, <1>10
<1> QED BY <1>4, <1>11

\* The player goes on with the next sub time frame.
LEMMA PlayNext ==
  ASSUME NEW split \in 0 .. 2, NEW parts, IsFrame(parts), IsCut(parts, split), AreLong(parts),
         NEW U \in Seq(Unit), NEW P, Lies(U, parts, P), NEW acc, NEW m,
         Played(acc, parts, P, split, m), m < Len(parts)
  PROVE  \E e \in m + 1 .. Len(parts) :
            /\ Played(NextSource(split, SubSeq(U, 2, Len(U)), acc), parts, P, split, e)
            /\ m + 1 \in StfHeaders(parts) /\ MessagesOf(parts, m + 1) = m + 2 .. e
<1>1. /\ m \in 1 .. Len(parts) /\ IsLast(parts, m) /\ acc.inside = TRUE /\ acc.pos = P[m]
      /\ IsFrame(acc.parts) /\ IsCut(acc.parts, split) /\ IsWhole(acc.parts, split)
      /\ acc.parts[1] = parts[1]
      /\ IsWhole(parts, split) => acc.parts = SubSeq(parts, 1, m)
  BY DEF Played
<1>2. PICK e \in m + 1 .. Len(parts) :
            /\ m + 1 \in StfHeaders(parts) /\ MessagesOf(parts, m + 1) = m + 2 .. e /\ IsLast(parts, e)
            /\ P[m] \in Nat \ {0} /\ P[e] \in Nat /\ P[e] <= Len(U) /\ P[m + 1] = P[m] + 1 /\ P[m + 1] <= P[e]
            /\ P[m] + parts[m + 1][1].length = P[e] /\ U[P[m] + 1] = parts[m + 1][1]
  BY <1>1, NextPlaces
<1>3. Len(parts) \in Nat /\ m \in Nat /\ e \in Nat /\ parts \in Seq(Seq(Unit)) /\ m + 1 <= e /\ e <= Len(parts)
      /\ (m + 1) + 1 = m + 2 /\ Len(U) \in Nat /\ m >= 1
  BY <1>1, FrameFacts
<1> PICK h : h = m + 1
  OBVIOUS
<1>4. /\ h \in StfHeaders(parts) /\ h \in 2 .. Len(parts) /\ parts[h][1] \in StfUnit /\ parts[h] = <<parts[h][1]>>
      /\ MessagesOf(parts, h) = h + 1 .. e /\ e \in h .. Len(parts) /\ IsLast(parts, e)
  BY <1>2, <1>3, FrameFacts
<1> PICK stf \in StfUnit : stf = parts[h][1]
  BY <1>4
<1> PICK a : a = acc.parts
  OBVIOUS
<1> PICK pos : pos = P[m]
  OBVIOUS
<1> PICK end : end = P[e]
  OBVIOUS
<1>5. pos \in Nat \ {0} /\ end \in Nat /\ end <= Len(U) /\ P[h] = pos + 1 /\ P[h] <= end
      /\ pos + stf.length = end /\ U[pos + 1] = stf
  BY <1>2
<1> PICK l : l = Len(U)
  OBVIOUS
<1> PICK len : len = stf.length
  OBVIOUS
<1> PICK second : second = P[h]
  OBVIOUS
<1>a. l \in Nat /\ len \in Nat /\ pos \in Nat \ {0} /\ end \in Nat /\ end <= l /\ second = pos + 1
      /\ second <= end /\ pos + len = end
  BY <1>3, <1>5, Units
<1>b. /\ pos \in 1 .. l - 1 /\ pos + len - 1 = end - 1 /\ end - 1 \in Nat /\ end - 1 < l
      /\ pos + 1 \in Nat \ {0} /\ pos + 1 <= (end - 1) + 1 /\ (end - 1) + 1 = end /\ l >= 1
      /\ ~(pos > l - 1) /\ ~(pos + len > (l - 1) + 1)
  BY ONLY <1>a
<1> PICK buf : buf = SubSeq(U, 2, Len(U))
  OBVIOUS
<1>6. Len(buf) = Len(U) - 1 /\ \A q \in 1 .. Len(U) - 1 : buf[q] = U[q + 1]
  <2>1. l \in Nat /\ l >= 1
    BY <1>a, <1>b
  <2>2. buf \in Seq(Unit) /\ Len(buf) = l - 1
    BY ONLY <2>1, buf = SubSeq(U, 2, Len(U)), l = Len(U), U \in Seq(Unit)
  <2>3. \A q \in 1 .. l - 1 : buf[q] = U[q + 1]
    BY ONLY <2>1, buf = SubSeq(U, 2, Len(U)), l = Len(U), U \in Seq(Unit)
  <2> QED BY <2>2, <2>3
<1>7. pos <= Len(U) - 1 /\ buf[pos] = stf
  <2>1. pos \in 1 .. Len(U) - 1
    BY <1>b
  <2> QED BY <1>5, <1>6, <1>b, <2>1
<1> PICK words : words = SubSeq(buf, pos + 1, pos + stf.length - 1)
  OBVIOUS
<1>8. words = SubSeq(U, P[h] + 1, P[e])
  <2>1. pos + stf.length - 1 = end - 1 /\ end - 1 \in Nat /\ end - 1 < Len(U) /\ pos + 1 \in Nat \ {0}
        /\ pos + 1 <= (end - 1) + 1 /\ (end - 1) + 1 = end
    BY ONLY <1>b, l = Len(U), len = stf.length
  <2>2. words = SubSeq(buf, pos + 1, end - 1)
    BY <2>1
  <2> PICK c : c = end - 1
    OBVIOUS
  <2> PICK d : d = pos + 1
    OBVIOUS
  <2>3. SubSeq(SubSeq(U, 2, Len(U)), d, c) = SubSeq(U, d + 1, c + 1)
    BY <2>1, SubOfSub
  <2> QED BY <1>5, <2>1, <2>2, <2>3
<1> PICK M : M = SubSeq(parts, h + 1, e)
  OBVIOUS
<1>9. words \in Seq(Unit) /\ M \in Seq(Seq(Unit)) /\ Spells(words, M)
  <2>1. h \in 0 .. Len(parts) /\ e \in h .. Len(parts)
    BY <1>3, <1>4
  <2>2. SubSeq(U, P[h] + 1, P[e]) \in Seq(Unit) /\ SubSeq(parts, h + 1, e) \in Seq(Seq(Unit))
        /\ Spells(SubSeq(U, P[h] + 1, P[e]), SubSeq(parts, h + 1, e))
    BY <1>3, <2>1, LiesSub
  <2> QED BY <1>8, <2>2
<1>10. /\ Len(M) = e - h /\ IsCutting(M, split) /\ OfFem(M, stf.fem)
       /\ IsWhole(parts, split) => EndsWhole(M, split)
       /\ \A n \in 1 .. Len(M) : M[n] = parts[h + n]
  <2>1. IsSource(M, parts, split, h, e)
    <3>1. h \in StfHeaders(parts) /\ e \in h .. Len(parts) /\ MessagesOf(parts, h) = h + 1 .. e /\ IsLast(parts, e)
      BY <1>4
    <3> QED BY ONLY <3>1, IsFrame(parts), IsCut(parts, split), M = SubSeq(parts, h + 1, e), SourceIs
  <2> QED BY <2>1 DEF IsSource
<1> PICK T : T = Trimmed(M, split)
  OBVIOUS
<1>11. TFBCut(words, split) = T
  <2>1. IsMethod("TFB", split)
    BY DEF IsMethod
  <2>2. Cut("TFB", split, words) = Trimmed(M, split)
    BY <1>9, <1>10, <2>1, Recut, ZenonT(40)
  <2> QED BY <2>2 DEF TFBCut
<1>12. /\ T \in Seq(Seq(Unit)) /\ IsCutting(T, split) /\ EndsWhole(T, split) /\ OfFem(T, stf.fem)
       /\ EndsWhole(M, split) => T = M
  BY <1>9, <1>10, TrimmedIs
<1> PICK b : b = a \o <<<<stf>>>> \o T
  OBVIOUS
<1>13. IsAppended(b, a, stf, T)
  <2>1. a \in Seq(Seq(Unit)) /\ stf \in Unit
    BY <1>1, FrameFacts DEF Unit
  <2> QED BY <1>12, <2>1, AppendIs
<1>14. IsFrame(b) /\ Len(b) > 1 /\ b[1] = a[1]
  <2>1. IsFrame(a)
    BY <1>1
  <2>2. T \in Seq(Seq(Unit)) /\ IsCutting(T, split) /\ OfFem(T, stf.fem)
    BY <1>12
  <2> QED BY ONLY <1>13, <2>1, <2>2, stf \in StfUnit, AppendedIsFrame
<1>15. IsCut(b, split) /\ IsWhole(b, split)
  <2>1. IsFrame(a) /\ IsCut(a, split) /\ IsWhole(a, split)
    BY <1>1
  <2> QED BY <1>12, <1>13, <2>1, AppendedIsCut
<1>16. ASSUME IsWhole(parts, split) PROVE b = SubSeq(parts, 1, e)
  <2>1. T = M /\ a = SubSeq(parts, 1, m)
    BY <1>1, <1>10, <1>12, <1>16
  <2> PICK V : V = Seq(Unit)
    OBVIOUS
  <2> PICK s : s = SubSeq(parts, 1, e)
    OBVIOUS
  <2>2. s \in Seq(V) /\ Len(s) = e
    BY ONLY <1>3, V = Seq(Unit), s = SubSeq(parts, 1, e)
  <2>3. \A i \in 1 .. e : s[i] = parts[i]
    BY ONLY <1>3, V = Seq(Unit), s = SubSeq(parts, 1, e)
  <2>4. Len(a) = m
    BY ONLY <1>3, <2>1
  <2>5. \A i \in 1 .. m : a[i] = parts[i]
    BY ONLY <1>3, <2>1, SMTT(30)
  <2>6. b \in Seq(V) /\ Len(b) = m + 1 + Len(M) /\ b[m + 1] = <<stf>> /\ \A i \in 1 .. m : b[i] = a[i]
    BY <1>13, <2>1, <2>4 DEF IsAppended
  <2>7. \A n \in 1 .. Len(M) : b[m + 1 + n] = M[n]
    BY <1>13, <2>1, <2>4, ZenonT(40) DEF IsAppended
  <2>8. Len(b) = e
    <3> PICK q : q = Len(M)
      OBVIOUS
    <3>1. q = e - h /\ Len(b) = m + 1 + q /\ h = m + 1 /\ e \in Nat /\ m \in Nat
      BY <1>3, <1>10, <2>6
    <3> QED BY ONLY <3>1
  <2>9. ASSUME NEW i \in 1 .. e PROVE b[i] = parts[i]
    <3>1. CASE i \in 1 .. m
      BY <2>5, <2>6, <3>1
    <3>2. CASE i = h
      BY <1>4, <2>6, <3>2
    <3>3. CASE i \in h + 1 .. e
      <4> PICK n : n = i - h
        OBVIOUS
      <4>1. n \in 1 .. Len(M) /\ i = h + n /\ i = m + 1 + n
        <5> PICK q : q = Len(M)
          OBVIOUS
        <5>1. q = e - h /\ h = m + 1 /\ e \in Nat /\ m \in Nat /\ i \in h + 1 .. e
          BY <1>3, <1>10, <3>3
        <5>2. n \in 1 .. q /\ i = h + n /\ i = m + 1 + n
          BY ONLY <5>1, n = i - h
        <5> QED BY <5>2
      <4>2. b[m + 1 + n] = M[n] /\ M[n] = parts[h + n]
        BY <1>10, <2>7, <4>1
      <4> QED BY <4>1, <4>2
    <3>4. i \in 1 .. m \/ i = h \/ i \in h + 1 .. e
      BY <1>3
    <3> QED BY <3>1, <3>2, <3>3, <3>4
  <2>10. b \in Seq(V) /\ s \in Seq(V) /\ Len(b) = Len(s) /\ \A i \in 1 .. Len(b) : b[i] = s[i]
    <3>1. Len(b) = Len(s) /\ \A i \in 1 .. Len(b) : b[i] = s[i]
      BY ONLY <2>2, <2>3, <2>8, <2>9
    <3> QED BY <2>2, <2>6, <3>1
  <2>11. b = s
    BY ONLY <2>10, SeqEqual
  <2> QED BY <2>11
<1> PICK next : next = NextSource(split, buf, acc)
  OBVIOUS
<1>17. next = [parts |-> b, pos |-> end, inside |-> TRUE]
  <2>1. acc.inside = TRUE /\ acc.pos = pos /\ ~(pos > Len(buf)) /\ buf[pos] = stf /\ stf.head = "STF"
        /\ ~(pos + stf.length > Len(buf) + 1)
    <3>1. Len(buf) = l - 1 /\ buf[pos] = stf
      BY <1>6, <1>7
    <3>2. ~(pos > Len(buf)) /\ ~(pos + stf.length > Len(buf) + 1)
      BY ONLY <1>b, <3>1, len = stf.length
    <3> QED BY <1>1, <3>1, <3>2, Units
  <2>2. ~(~acc.inside \/ acc.pos > Len(buf) \/ buf[acc.pos].head # "STF"
            \/ acc.pos + buf[acc.pos].length > Len(buf) + 1)
    BY ONLY <2>1, Zenon
  <2>3. next = [parts |-> a \o <<<<stf>>>> \o TFBCut(words, split), pos |-> pos + stf.length, inside |-> TRUE]
    BY <2>1, <2>2, Zenon DEF NextSource
  <2> QED BY <1>5, <1>11, <2>3
<1>18. Played(next, parts, P, split, e)
  <2>1. next.parts = b /\ next.pos = P[e] /\ next.inside = TRUE
    <3> PICK record : record = [parts |-> b, pos |-> end, inside |-> TRUE]
      OBVIOUS
    <3>1. record.parts = b /\ record.pos = end /\ record.inside = TRUE
      BY ONLY record = [parts |-> b, pos |-> end, inside |-> TRUE]
    <3> QED BY <1>17, <3>1
  <2>2. e \in 1 .. Len(parts) /\ IsLast(parts, e)
    BY <1>3, <1>4
  <2>3. b[1] = parts[1]
    BY <1>1, <1>14
  <2> QED BY ONLY <1>14, <1>15, <1>16, <2>1, <2>2, <2>3, Zenon DEF Played
<1> QED BY <1>2, <1>18

\* What the loop of TFBFilePlayer goes through for the time frame U.
Accs == [parts : Seq(Seq(Unit)), pos : Nat \ {0}, inside : BOOLEAN]
Plays(c, split, U, N) ==
    /\ c[0] = [parts |-> <<<<U[1]>>>>, pos |-> 1, inside |-> TRUE]
    /\ \A i \in 1 .. N : c[i] = NextSource(split, SubSeq(U, 2, Len(U)), c[i - 1])

\* One turn of the loop.
LEMMA NextSourceIs ==
  ASSUME NEW split \in 0 .. 2, NEW buf \in Seq(Unit), NEW acc \in Accs
  PROVE  NextSource(split, buf, acc) \in Accs
<1>0. acc.parts \in Seq(Seq(Unit)) /\ acc.pos \in Nat \ {0} /\ acc.inside \in BOOLEAN
  BY DEF Accs
<1> DEFINE Out == ~acc.inside \/ acc.pos > Len(buf) \/ buf[acc.pos].head # "STF"
                    \/ acc.pos + buf[acc.pos].length > Len(buf) + 1
<1>1. CASE Out
  <2>1. NextSource(split, buf, acc) = [acc EXCEPT !.inside = FALSE]
    BY <1>1, Zenon DEF NextSource
  <2> QED BY <1>0, <2>1 DEF Accs
<1>2. CASE ~Out
  <2> PICK pos : pos = acc.pos
    OBVIOUS
  <2> PICK stf : stf = buf[pos]
    OBVIOUS
  <2>1. pos \in 1 .. Len(buf) /\ stf.head = "STF"
    BY <1>0, <1>2
  <2>2. stf \in Unit
    BY <2>1
  <2>3. stf \in StfUnit
    BY <2>1, <2>2, Units DEF Unit
  <2>4. stf.length \in Nat
    BY <2>3, Units
  <2> PICK words : words = SubSeq(buf, pos + 1, pos + stf.length - 1)
    OBVIOUS
  <2>5. words \in Seq(Unit)
    <3>1. pos + stf.length <= Len(buf) + 1
      BY <1>0, <1>2, <2>1, <2>4
    <3> PICK e : e = pos + stf.length - 1
      OBVIOUS
    <3> PICK l : l = Len(buf)
      OBVIOUS
    <3> PICK n : n = stf.length
      OBVIOUS
    <3>a. l \in Nat /\ n \in Nat /\ pos \in 1 .. l /\ pos + n <= l + 1 /\ e = pos + n - 1
      BY <2>1, <2>4, <3>1
    <3>b. e \in Nat /\ e <= l /\ pos + 1 \in Nat /\ pos + 1 >= 1
      BY ONLY <3>a
    <3>2. e \in Nat /\ e <= Len(buf) /\ pos + 1 \in Nat /\ pos + 1 >= 1
      BY <3>b
    <3> QED BY <3>2
  <2>6. TFBCut(words, split) \in Seq(Seq(Unit))
    <3>1. IsMethod("TFB", split)
      BY DEF IsMethod
    <3>2. PICK c : Cuts(c, "TFB", split, words)
      BY <2>5, <3>1, CutCuts
    <3> PICK n : n = Len(words)
      OBVIOUS
    <3>3. n \in 0 .. n
      BY <2>5, SMTT(30)
    <3>4. c[n] \in [messages : Seq(Seq(Unit)), begin : 1 .. n + 1, next : Nat]
      BY <3>2, <3>3 DEF Cuts
    <3>5. Cut("TFB", split, words) = c[n].messages
      BY <3>2 DEF Cuts
    <3>6. Cut("TFB", split, words) \in Seq(Seq(Unit))
      BY <3>4, <3>5
    <3> QED BY <3>6 DEF TFBCut
  <2> PICK b : b = acc.parts \o <<<<stf>>>> \o TFBCut(words, split)
    OBVIOUS
  <2>7. b \in Seq(Seq(Unit))
    <3> PICK a : a = acc.parts
      OBVIOUS
    <3> PICK M : M = TFBCut(words, split)
      OBVIOUS
    <3>1. IsAppended(a \o <<<<stf>>>> \o M, a, stf, M)
      BY <1>0, <2>2, <2>6, AppendIs
    <3> QED BY <3>1 DEF IsAppended
  <2>8. NextSource(split, buf, acc) = [parts |-> b, pos |-> pos + stf.length, inside |-> TRUE]
    BY <1>2, Zenon DEF NextSource
  <2>9. pos + stf.length \in Nat \ {0}
    BY ONLY <2>1, <2>4
  <2> QED BY <2>7, <2>8, <2>9 DEF Accs
<1> QED BY <1>1, <1>2

\* Replay is the last of them.
LEMMA ReplayPlays ==
  ASSUME NEW split \in 0 .. 2, NEW U \in Seq(Unit), U # <<>>, U[1] \in TfUnit, U[1].length = Len(U),
         NEW words, Unfiltered(words) = U
  PROVE  \E c : Plays(c, split, U, U[1].numSource) /\ Replay(words, split) = c[U[1].numSource]
<1> PICK tf \in TfUnit : tf = U[1]
  OBVIOUS
<1> PICK N : N = tf.numSource
  OBVIOUS
<1> PICK buf : buf = SubSeq(U, 2, Len(U))
  OBVIOUS
<1> DEFINE b0 == [parts |-> <<<<tf>>>>, pos |-> 1, inside |-> TRUE]
           G == [x \in Accs \X (1 .. N) |-> NextSource(split, buf, x[1])]
           tf0 == Head(Unfiltered(words))
           buf0 == SubSeq(Unfiltered(words), 2, Min({tf0.length, Len(Unfiltered(words))}))
           Fits(f) == f = [i \in 0 .. tf0.numSource |->
                IF i = 0 THEN [parts |-> <<<<tf0>>>>, pos |-> 1, inside |-> TRUE]
                         ELSE NextSource(split, buf0, f[i - 1])]
<1>1. N \in Nat /\ b0 \in Accs /\ buf \in Seq(Unit) /\ Len(U) \in Nat /\ Len(U) >= 1
  <2>1. N \in Nat
    BY Units
  <2>2. tf \in Unit
    BY DEF Unit
  <2>3. b0 \in Accs
    BY <2>2 DEF Accs
  <2>4. Len(U) \in Nat /\ Len(U) >= 1
    BY U \in Seq(Unit), U # <<>>
  <2>5. buf \in Seq(Unit)
    BY <2>4
  <2> QED BY <2>1, <2>3, <2>4, <2>5
<1>3. G \in [Accs \X (1 .. N) -> Accs] /\ \A a \in Accs, n \in 1 .. N : G[<<a, n>>] = NextSource(split, buf, a)
  <2> HIDE DEF Accs
  <2>1. \A a \in Accs, n \in 1 .. N : <<a, n>> \in Accs \X (1 .. N) /\ <<a, n>>[1] = a /\ <<a, n>>[2] = n
    OBVIOUS
  <2>2. \A x \in Accs \X (1 .. N) : x[1] \in Accs
    OBVIOUS
  <2>3. \A a \in Accs : NextSource(split, buf, a) \in Accs
    BY <1>1, NextSourceIs
  <2> QED BY <2>1, <2>2, <2>3
<1> HIDE DEF G
<1>4. PICK h : IsTrace(h, Accs, G, b0, N)
  BY <1>1, <1>3, TraceExists
<1>0. tf0 = tf /\ buf0 = buf
  <2>1. Head(U) = tf
    BY U # <<>>
  <2>2. {tf.length, Len(U)} = {Len(U)}
    OBVIOUS
  <2>3. Min({Len(U)}) = Len(U)
    BY <1>1 DEF Min
  <2> QED BY <2>1, <2>2, <2>3
<1> DEFINE g == CHOOSE f : Fits(f)
<1>7. Replay(words, split) = g[tf0.numSource]
  BY DEF Replay
<1> HIDE DEF tf0, buf0
<1>5. Fits(h)
  <2>1. h = [n \in 0 .. N |-> h[n]]
    BY <1>4 DEF IsTrace
  <2>2. ASSUME NEW n \in 0 .. N
        PROVE  h[n] = IF n = 0 THEN b0 ELSE NextSource(split, buf, h[n - 1])
    <3>1. CASE n = 0
      BY <3>1, <1>4 DEF IsTrace
    <3>2. CASE n # 0
      <4>1. n \in 1 .. N /\ n - 1 \in 0 .. N
        BY <3>2, <1>1
      <4>2. h[n] = G[<<h[n - 1], n>>] /\ h[n - 1] \in Accs
        BY <1>4, <4>1 DEF IsTrace
      <4>3. h[n] = NextSource(split, buf, h[n - 1])
        BY <1>3, <4>1, <4>2
      <4> QED BY <3>2, <4>3
    <3> QED BY <3>1, <3>2
  <2>3. tf0.numSource = N
    BY <1>0
  <2>4. ASSUME NEW n \in 0 .. tf0.numSource
        PROVE  h[n] = IF n = 0 THEN [parts |-> <<<<tf0>>>>, pos |-> 1, inside |-> TRUE]
                               ELSE NextSource(split, buf0, h[n - 1])
    BY <1>0, <2>2, <2>3
  <2>5. h = [n \in 0 .. tf0.numSource |-> h[n]]
    BY <2>1, <2>3
  <2> QED BY <2>4, <2>5
<1>6. Fits(g)
  BY <1>5
<1> HIDE DEF g
<1>8. g[0] = b0
  <2>1. 0 \in 0 .. tf0.numSource
    BY <1>0, <1>1
  <2>2. g[0] = [parts |-> <<<<tf0>>>>, pos |-> 1, inside |-> TRUE]
    BY <1>6, <2>1
  <2> QED BY <1>0, <2>2
<1>9. ASSUME NEW i \in 1 .. N PROVE g[i] = NextSource(split, buf, g[i - 1])
  <2>1. i \in 0 .. tf0.numSource /\ i # 0
    BY <1>0, <1>1
  <2>2. g[i] = NextSource(split, buf0, g[i - 1])
    BY <1>6, <2>1
  <2> QED BY <1>0, <2>2
<1>10. Plays(g, split, U, N)
  BY <1>8, <1>9 DEF Plays
<1> QED BY <1>0, <1>7, <1>10

HeadersUpto(parts, m) == {h \in StfHeaders(parts) : h <= m}

\* There are as many headers as one can count.
LEMMA HeadersFinite ==
  ASSUME NEW parts, IsFrame(parts)
  PROVE  /\ IsFiniteSet(StfHeaders(parts))
         /\ \A m : /\ IsFiniteSet(HeadersUpto(parts, m)) /\ HeadersUpto(parts, m) \subseteq StfHeaders(parts)
                   /\ Cardinality(HeadersUpto(parts, m)) \in Nat
<1>1. StfHeaders(parts) \subseteq 1 .. Len(parts) /\ Len(parts) \in Nat
  BY FrameFacts
<1>2. IsFiniteSet(1 .. Len(parts))
  BY <1>1, FS_Interval
<1>3. IsFiniteSet(StfHeaders(parts))
  BY <1>1, <1>2, FS_Subset
<1>4. \A m : HeadersUpto(parts, m) \subseteq StfHeaders(parts)
  BY DEF HeadersUpto
<1>5. \A m : IsFiniteSet(HeadersUpto(parts, m))
  BY <1>3, <1>4, FS_Subset
<1> QED BY <1>3, <1>4, <1>5, FS_CardinalityType

\* Where the player is after i sources.
At(c, parts, P, split, i, m) ==
    Played(c[i], parts, P, split, m) /\ Cardinality(HeadersUpto(parts, m)) = i

\* From one sub time frame to the next.
LEMMA AtNext ==
  ASSUME NEW split \in 0 .. 2, NEW parts, IsFrame(parts), IsCut(parts, split), AreLong(parts),
         NEW U \in Seq(Unit), NEW P, Lies(U, parts, P), NEW N \in Nat, NEW c, Plays(c, split, U, N),
         NEW i \in 0 .. N - 1, NEW m, At(c, parts, P, split, i, m), m < Len(parts)
  PROVE  \E e : At(c, parts, P, split, i + 1, e)
<1>1. m \in 1 .. Len(parts) /\ Len(parts) \in Nat /\ m \in Nat
  BY FrameFacts DEF At, Played
<1>2. PICK e \in m + 1 .. Len(parts) :
            /\ Played(NextSource(split, SubSeq(U, 2, Len(U)), c[i]), parts, P, split, e)
            /\ m + 1 \in StfHeaders(parts) /\ MessagesOf(parts, m + 1) = m + 2 .. e
  BY PlayNext DEF At
<1>3. c[i + 1] = NextSource(split, SubSeq(U, 2, Len(U)), c[i])
  <2>1. i + 1 \in 1 .. N /\ (i + 1) - 1 = i
    OBVIOUS
  <2> QED BY <2>1 DEF Plays
<1>4. HeadersUpto(parts, e) = HeadersUpto(parts, m) \union {m + 1}
  <2>1. \A h \in m + 2 .. e : h \notin StfHeaders(parts)
    <3> SUFFICES ASSUME NEW h \in m + 2 .. e, h \in StfHeaders(parts) PROVE FALSE
      OBVIOUS
    <3>1. h \in MessagesOf(parts, m + 1) /\ h \in (m + 1) + 1 .. h
      BY <1>1, <1>2
    <3>2. \A k \in (m + 1) + 1 .. h : ~IsStf(parts[k])
      BY <1>2, <3>1, MessageOf
    <3> QED BY <3>1, <3>2, FrameFacts
  <2>2. \A h \in StfHeaders(parts) : h \in Nat
    BY FrameFacts
  <2>3. \A h \in Nat : h <= e <=> h <= m \/ h = m + 1 \/ h \in m + 2 .. e
    BY <1>1
  <2> QED BY <1>2, <2>1, <2>2, <2>3 DEF HeadersUpto
<1>5. Cardinality(HeadersUpto(parts, e)) = i + 1
  <2> PICK S : S = HeadersUpto(parts, m)
    OBVIOUS
  <2>1. IsFiniteSet(S)
    BY HeadersFinite
  <2>2. m + 1 \notin S
    BY <1>1 DEF HeadersUpto
  <2>3. Cardinality(S \union {m + 1}) = Cardinality(S) + 1
    BY <2>1, <2>2, FS_AddElement
  <2>4. Cardinality(S) = i
    BY DEF At
  <2> QED BY <1>4, <2>3, <2>4
<1>6. At(c, parts, P, split, i + 1, e)
  BY <1>2, <1>3, <1>5 DEF At
<1> QED BY <1>6

\* Before the first one.
LEMMA PlayStarts ==
  ASSUME NEW split \in 0 .. 2, NEW parts, IsFrame(parts), NEW U \in Seq(Unit), NEW P, Lies(U, parts, P),
         NEW N \in Nat, NEW c, Plays(c, split, U, N)
  PROVE  At(c, parts, P, split, 0, 1) /\ c[0] \in Accs /\ U[1] = parts[1][1] /\ P[1] = 1
<1>1. Len(parts) \in Nat /\ Len(parts) >= 1 /\ Len(parts[1]) = 1 /\ parts[1][1] \in TfUnit
      /\ parts[1] = <<parts[1][1]>> /\ parts \in Seq(Seq(Unit))
  BY FrameFacts
<1> PICK tf \in TfUnit : tf = parts[1][1]
  BY <1>1
<1>2. P[1] = 1 /\ U[1] = tf
  <2>1. 1 \in 1 .. Len(parts) /\ 1 \in 1 .. Len(parts[1]) /\ 1 - 1 = 0
    BY <1>1
  <2>2. P[0] = 0 /\ P[1] = P[0] + Len(parts[1]) /\ U[P[0] + 1] = parts[1][1]
    BY <2>1 DEF Lies
  <2> QED BY <1>1, <2>2
<1>3. c[0] = [parts |-> <<<<tf>>>>, pos |-> 1, inside |-> TRUE]
  BY <1>2 DEF Plays
<1> PICK a : a = <<<<tf>>>>
  OBVIOUS
<1>4. a \in Seq(Seq(Unit)) /\ Len(a) = 1 /\ a[1] = <<tf>> /\ a # <<>>
  <2>1. tf \in Unit
    BY DEF Unit
  <2> QED BY <2>1
<1>5. IsFrame(a)
  <2>1. \A i : i \notin 2 .. Len(a)
    BY <1>4
  <2> QED BY <1>4, <2>1 DEF IsFrame
<1>6. IsCut(a, split) /\ IsWhole(a, split)
  <2>1. \A i : i \notin 2 .. Len(a)
    BY <1>4
  <2> QED BY <2>1 DEF IsCut, IsWhole
<1>7. c[0].parts = a /\ c[0].pos = 1 /\ c[0].inside = TRUE /\ c[0] \in Accs
  <2> PICK x : x = [parts |-> a, pos |-> 1, inside |-> TRUE]
    OBVIOUS
  <2>1. x.parts = a /\ x.pos = 1 /\ x.inside = TRUE /\ x \in [parts : Seq(Seq(Unit)), pos : Nat \ {0}, inside : BOOLEAN]
    BY <1>4
  <2> QED BY <1>3, <2>1 DEF Accs
<1>8. IsLast(parts, 1)
  <2>1. CASE Len(parts) = 1
    BY <2>1 DEF IsLast
  <2>2. CASE Len(parts) # 1
    <3>1. Len(parts) > 1
      BY <1>1, <2>2
    <3>2. IsStf(parts[1 + 1])
      BY <3>1 DEF IsFrame
    <3> QED BY <3>2 DEF IsLast
  <2> QED BY <2>1, <2>2
<1>9. a = SubSeq(parts, 1, 1)
  <2> PICK V : V = Seq(Unit)
    OBVIOUS
  <2> PICK x : x = <<tf>>
    OBVIOUS
  <2>1. parts \in Seq(V) /\ Len(parts) >= 1 /\ parts[1] = x
    BY <1>1
  <2> PICK s : s = SubSeq(parts, 1, 1)
    OBVIOUS
  <2>2. s \in Seq(V) /\ Len(s) = 1
    BY ONLY <2>1, s = SubSeq(parts, 1, 1)
  <2>3. s[1] = parts[1]
    BY ONLY <2>1, s = SubSeq(parts, 1, 1)
  <2>4. x \in V
    BY ONLY <2>1
  <2>5. s = <<x>>
    BY ONLY <2>1, <2>2, <2>3, <2>4
  <2> QED BY <2>5
<1>10. Cardinality(HeadersUpto(parts, 1)) = 0
  <2>1. HeadersUpto(parts, 1) = {}
    <3>1. \A h \in StfHeaders(parts) : ~(h <= 1)
      BY FrameFacts
    <3> QED BY <3>1 DEF HeadersUpto
  <2> QED BY <2>1, FS_EmptySet
<1>11. Played(c[0], parts, P, split, 1)
  <2>1. 1 \in 1 .. Len(parts) /\ ~(1 > 1)
    BY <1>1
  <2>2. c[0].parts[1] = parts[1]
    BY <1>1, <1>4, <1>7
  <2> QED BY <1>2, <1>5, <1>6, <1>7, <1>8, <1>9, <2>1, <2>2 DEF Played
<1> QED BY <1>2, <1>7, <1>10, <1>11 DEF At

\* If the player has not left what it has read, it has a frame cut anew; it does
\* not leave it if the number of sources is that of the headers.
LEMMA Replayed ==
  ASSUME NEW split \in 0 .. 2, NEW parts, IsFrame(parts), IsCut(parts, split), AreLong(parts),
         NEW U \in Seq(Unit), Spells(U, parts), NEW words, Unfiltered(words) = U,
         NEW r, r = Replay(words, split)
  PROVE  /\ r.inside \in BOOLEAN
         /\ r.inside => /\ IsFrame(r.parts) /\ Len(r.parts) > 1 /\ IsCut(r.parts, split)
                        /\ IsWhole(r.parts, split) /\ r.parts[1] = parts[1]
         /\ IsWhole(parts, split) /\ Cardinality(StfHeaders(parts)) = parts[1][1].numSource =>
                r.inside /\ r.parts = parts
<1> PICK P : Lies(U, parts, P)
  BY DEF Spells
<1>1. Len(parts) \in Nat /\ Len(parts) >= 1 /\ Len(parts[1]) = 1 /\ parts[1][1] \in TfUnit
      /\ parts \in Seq(Seq(Unit)) /\ DOMAIN parts = 1 .. Len(parts)
  BY FrameFacts
<1> PICK tf \in TfUnit : tf = parts[1][1]
  BY <1>1
<1> PICK N : N = tf.numSource
  OBVIOUS
<1>2. N \in Nat \ {0}
  BY Units
<1>3. tf.length = Len(U) /\ Len(U) \in Nat
  <2>1. tf.length = Size(parts, 1 .. Len(parts))
    BY <1>1 DEF AreLong
  <2>2. 0 \in 0 .. Len(parts) /\ Len(parts) \in 0 .. Len(parts) /\ 0 + 1 = 1
    BY <1>1
  <2>3. Size(parts, 0 + 1 .. Len(parts)) = P[Len(parts)] - P[0]
    BY <1>1, <2>2, SizeRange
  <2>4. P[0] = 0 /\ Len(U) = P[Len(parts)] /\ P[Len(parts)] \in Nat
    BY <2>2 DEF Lies
  <2> QED BY <2>1, <2>2, <2>3, <2>4
<1>4. U[1] = tf /\ U # <<>>
  <2>1. 1 \in 1 .. Len(parts) /\ 1 \in 1 .. Len(parts[1]) /\ 1 - 1 = 0 /\ Len(parts) \in 0 .. Len(parts)
        /\ 1 \in 0 .. Len(parts) /\ 1 <= Len(parts)
    BY <1>1
  <2>2. P[0] = 0 /\ P[1] = P[0] + Len(parts[1]) /\ U[P[0] + 1] = parts[1][1] /\ Len(U) = P[Len(parts)]
    BY <2>1 DEF Lies
  <2>3. \A i, j \in 0 .. Len(parts) : i <= j => P[i] <= P[j]
    BY <1>1, PlacesGrow
  <2>4. P[1] <= P[Len(parts)]
    BY ONLY <2>1, <2>3
  <2>5. Len(U) >= 1
    BY <1>1, <2>2, <2>4
  <2> QED BY <1>1, <2>2, <2>5
<1>5. PICK c : Plays(c, split, U, N) /\ r = c[N]
  <2>1. U[1] \in TfUnit /\ U[1].length = Len(U) /\ U[1].numSource = N
    BY <1>3, <1>4
  <2>2. \E c : Plays(c, split, U, U[1].numSource) /\ Replay(words, split) = c[U[1].numSource]
    BY <1>4, <2>1, ReplayPlays
  <2> QED BY <2>1, <2>2
<1> DEFINE H == Cardinality(StfHeaders(parts))
           Over(i) == c[i].inside = FALSE /\ i > H
           Holds(i) == c[i] \in Accs /\ ((\E m : At(c, parts, P, split, i, m)) \/ Over(i))
           S == {i \in Nat : i <= N => Holds(i)}
<1>6. H \in Nat
  BY HeadersFinite, FS_CardinalityType
<1>7. 0 \in S
  <2>1. N \in Nat
    BY <1>2
  <2>2. At(c, parts, P, split, 0, 1) /\ c[0] \in Accs
    BY <1>5, <2>1, PlayStarts
  <2> QED BY <2>2
<1>8. ASSUME NEW i \in Nat, i \in S PROVE i + 1 \in S
  <2> SUFFICES ASSUME i + 1 <= N PROVE Holds(i + 1)
    <3> HIDE DEF Holds
    <3> QED OBVIOUS
  <2>1. i \in 0 .. N - 1 /\ i + 1 \in 1 .. N /\ (i + 1) - 1 = i /\ N \in Nat
    BY <1>2
  <2>2. c[i] \in Accs /\ ((\E m : At(c, parts, P, split, i, m)) \/ Over(i))
    BY <1>2, <1>8, <2>1
  <2> PICK buf : buf = SubSeq(U, 2, Len(U))
    OBVIOUS
  <2>3. c[i + 1] = NextSource(split, buf, c[i])
    BY <1>5, <2>1 DEF Plays
  <2>4. buf \in Seq(Unit)
    <3>1. Len(U) >= 1
      BY <1>3, <1>4
    <3> QED BY <1>3, <3>1
  <2>5. c[i + 1] \in Accs
    BY <2>2, <2>3, <2>4, NextSourceIs
  <2>6. CASE Over(i)
    <3>1. NextSource(split, buf, c[i]) = [c[i] EXCEPT !.inside = FALSE]
      BY <2>6, Zenon DEF NextSource
    <3>2. c[i + 1].inside = FALSE
      BY <2>2, <2>3, <3>1 DEF Accs
    <3>3. Over(i + 1)
      BY <1>6, <2>6, <3>2
    <3> QED BY <2>5, <3>3
  <2>7. CASE \E m : At(c, parts, P, split, i, m)
    <3> PICK m : At(c, parts, P, split, i, m)
      BY <2>7
    <3>1. m \in 1 .. Len(parts)
      BY DEF At, Played
    <3>2. CASE m < Len(parts)
      <4>1. \E e : At(c, parts, P, split, i + 1, e)
        BY <1>5, <2>1, <3>2, AtNext
      <4> QED BY <2>5, <4>1
    <3>3. CASE m = Len(parts)
      <4>1. c[i].pos = P[m] /\ P[m] = Len(U)
        <5>1. c[i].pos = P[m]
          BY DEF At, Played
        <5> QED BY <3>3, <5>1 DEF Lies
      <4>2. Len(buf) = Len(U) - 1
        <5> PICK l : l = Len(U)
          OBVIOUS
        <5>1. l \in Nat /\ l >= 1
          BY <1>3, <1>4
        <5>2. Len(buf) = l - 1
          BY ONLY <5>1, l = Len(U), U \in Seq(Unit), buf = SubSeq(U, 2, Len(U))
        <5> QED BY <5>2
      <4>3. c[i].pos > Len(buf)
        BY <1>3, <4>1, <4>2
      <4>4. NextSource(split, buf, c[i]) = [c[i] EXCEPT !.inside = FALSE]
        BY <4>3, Zenon DEF NextSource
      <4>5. c[i + 1].inside = FALSE
        BY <2>2, <2>3, <4>4 DEF Accs
      <4>6. H = i
        <5>1. HeadersUpto(parts, m) = StfHeaders(parts)
          BY <1>1, <3>3, FrameFacts DEF HeadersUpto
        <5> QED BY <5>1 DEF At
      <4>7. Over(i + 1)
        BY <1>6, <4>5, <4>6
      <4> QED BY <2>5, <4>7
    <3>4. m < Len(parts) \/ m = Len(parts)
      <4> PICK l : l = Len(parts)
        OBVIOUS
      <4>1. l \in Nat /\ m \in 1 .. l
        BY <1>1, <3>1
      <4>2. m < l \/ m = l
        BY ONLY <4>1
      <4> QED BY <4>2
    <3> QED BY <3>2, <3>3, <3>4
  <2> QED BY <2>2, <2>6, <2>7
<1>9. Nat \subseteq S
  <2> HIDE DEF S
  <2> QED BY <1>7, <1>8, Induction
<1>10. c[N] \in Accs /\ ((\E m : At(c, parts, P, split, N, m)) \/ Over(N))
  <2>1. N \in Nat /\ N <= N
    BY <1>2
  <2>2. N \in S
    BY <1>9, <2>1
  <2> QED BY <2>1, <2>2
<1>11. r.inside \in BOOLEAN
  BY <1>5, <1>10 DEF Accs
<1>12. ASSUME NEW m, At(c, parts, P, split, N, m)
       PROVE  /\ r.inside /\ IsFrame(r.parts) /\ Len(r.parts) > 1 /\ IsCut(r.parts, split)
              /\ IsWhole(r.parts, split) /\ r.parts[1] = parts[1]
              /\ IsWhole(parts, split) /\ H = N => r.parts = parts
  <2>1. /\ m \in 1 .. Len(parts) /\ IsLast(parts, m) /\ r.inside = TRUE /\ IsFrame(r.parts)
        /\ IsCut(r.parts, split) /\ IsWhole(r.parts, split) /\ r.parts[1] = parts[1]
        /\ (m > 1 => Len(r.parts) > 1) /\ (IsWhole(parts, split) => r.parts = SubSeq(parts, 1, m))
    BY <1>5, <1>12, Zenon DEF At, Played
  <2>2. Cardinality(HeadersUpto(parts, m)) = N
    BY <1>12 DEF At
  <2>3. m > 1
    <3> SUFFICES ASSUME ~(m > 1) PROVE FALSE
      OBVIOUS
    <3>1. m = 1
      BY <1>1, <2>1
    <3>2. HeadersUpto(parts, m) = {}
      <4>1. \A h \in StfHeaders(parts) : ~(h <= 1)
        BY FrameFacts
      <4> QED BY <3>1, <4>1 DEF HeadersUpto
    <3> QED BY <1>2, <2>2, <3>2, FS_EmptySet
  <2>4. ASSUME IsWhole(parts, split), H = N PROVE r.parts = parts
    <3>1. HeadersUpto(parts, m) = StfHeaders(parts)
      <4> PICK A : A = StfHeaders(parts)
        OBVIOUS
      <4> PICK B : B = HeadersUpto(parts, m)
        OBVIOUS
      <4>1. IsFiniteSet(A) /\ B \in SUBSET A
        BY HeadersFinite
      <4>2. Cardinality(A) = Cardinality(B)
        BY <2>2, <2>4
      <4>3. A = B
        BY ONLY <4>1, <4>2, FS_Subset
      <4> QED BY <4>3
    <3>2. m = Len(parts)
      <4> SUFFICES ASSUME m # Len(parts) PROVE FALSE
        OBVIOUS
      <4>1. m + 1 \in 1 .. Len(parts) /\ ~(m + 1 <= m)
        <5> PICK l : l = Len(parts)
          OBVIOUS
        <5>1. l \in Nat
          BY FrameFacts
        <5>2. m \in 1 .. l
          BY <2>1
        <5> QED BY ONLY <5>1, <5>2, m # Len(parts), l = Len(parts)
      <4>2. IsStf(parts[m + 1])
        BY <2>1 DEF IsLast
      <4>3. m + 1 \in StfHeaders(parts)
        BY <4>1, <4>2, FrameFacts
      <4> QED BY <3>1, <4>1, <4>3 DEF HeadersUpto
    <3>3. SubSeq(parts, 1, Len(parts)) = parts
      <4> PICK V : V = Seq(Unit)
        OBVIOUS
      <4>1. parts \in Seq(V)
        BY <1>1
      <4> QED BY ONLY <4>1
    <3> QED BY <2>1, <2>4, <3>2, <3>3
  <2> QED BY <2>1, <2>3, <2>4
<1>13. ASSUME Over(N) PROVE ~r.inside /\ H # N
  BY <1>2, <1>5, <1>6, <1>13
<1> QED BY <1>10, <1>11, <1>12, <1>13

-----------------------------------------------------------------------------
(* What a file is made of. *)

\* One message.
LEMMA SpellsMessage ==
  ASSUME NEW V, NEW m \in Seq(V)
  PROVE  Lies(m, <<m>>, [n \in 0 .. 1 |-> IF n = 0 THEN 0 ELSE Len(m)])
<1> PICK P : P = [n \in 0 .. 1 |-> IF n = 0 THEN 0 ELSE Len(m)]
  OBVIOUS
<1> PICK M : M = <<m>>
  OBVIOUS
<1>1. Len(M) = 1 /\ M[1] = m /\ Len(m) \in Nat
  OBVIOUS
<1>2. P \in [0 .. 1 -> Nat] /\ P[0] = 0 /\ P[1] = Len(m)
  BY <1>1
<1>3. \A n \in 1 .. 1 : n = 1 /\ n - 1 = 0
  OBVIOUS
<1>4. \A k \in 1 .. Len(m) : 0 + k = k
  OBVIOUS
<1>5. Lies(m, M, P)
  <2>1. P \in [0 .. Len(M) -> Nat] /\ P[0] = 0 /\ Len(m) = P[Len(M)]
    BY <1>1, <1>2
  <2>2. \A n \in 1 .. Len(M) : P[n] = P[n - 1] + Len(M[n])
    BY <1>1, <1>2, <1>3
  <2>3. \A n \in 1 .. Len(M) : \A k \in 1 .. Len(M[n]) : m[P[n - 1] + k] = M[n][k]
    BY <1>1, <1>2, <1>3, <1>4
  <2> QED BY <2>1, <2>2, <2>3 DEF Lies
<1> QED BY <1>5

\* One sequence of messages behind another.
IsBehind(R, P, Q, l, n) ==
    /\ \A i \in 0 .. l : R[i] = P[i]
    /\ \A i \in 0 .. n : R[l + i] = P[l] + Q[i]

\* The places of the one, then those of the other.
LEMMA LiesConcat ==
  ASSUME NEW V, NEW w \in Seq(V), NEW v \in Seq(V), NEW M \in Seq(Seq(V)), NEW L \in Seq(Seq(V)),
         NEW P, Lies(w, M, P), NEW Q, Lies(v, L, Q)
  PROVE  \E R : Lies(w \o v, M \o L, R) /\ IsBehind(R, P, Q, Len(M), Len(L))
<1> PICK l : l = Len(M)
  OBVIOUS
<1> PICK n : n = Len(L)
  OBVIOUS
<1> PICK x : x = w \o v
  OBVIOUS
<1> PICK N : N = M \o L
  OBVIOUS
<1>1. l \in Nat /\ n \in Nat
  OBVIOUS
<1>2. /\ P \in [0 .. l -> Nat] /\ P[0] = 0 /\ Len(w) = P[l]
      /\ Q \in [0 .. n -> Nat] /\ Q[0] = 0 /\ Len(v) = Q[n]
  BY DEF Lies
<1>3. x \in Seq(V) /\ Len(x) = Len(w) + Len(v)
  BY ConcatProperties
<1>4. \A i \in 1 .. Len(w) : x[i] = w[i]
  BY ONLY x = w \o v, w \in Seq(V), v \in Seq(V)
<1>5. \A i \in 1 .. Len(v) : x[Len(w) + i] = v[i]
  BY ONLY x = w \o v, w \in Seq(V), v \in Seq(V)
<1> PICK W : W = Seq(V)
  OBVIOUS
<1>w. M \in Seq(W) /\ L \in Seq(W)
  OBVIOUS
<1>6. Len(N) = l + n
  BY ONLY <1>w, N = M \o L, l = Len(M), n = Len(L)
<1>7. \A i \in 1 .. l : N[i] = M[i]
  BY ONLY <1>w, N = M \o L, l = Len(M), n = Len(L)
<1>8. \A i \in 1 .. n : N[l + i] = L[i]
  BY ONLY <1>w, N = M \o L, l = Len(M), n = Len(L)
<1> DEFINE R == [i \in 0 .. l + n |-> IF i <= l THEN P[i] ELSE P[l] + Q[i - l]]
<1>9. \A i \in 0 .. l : R[i] = P[i] /\ R[i] \in Nat
  <2> TAKE i \in 0 .. l
  <2>1. i \in 0 .. l + n /\ i <= l
    BY <1>1
  <2> QED BY <1>2, <2>1
<1>10. \A i \in 0 .. n : R[l + i] = P[l] + Q[i] /\ R[l + i] \in Nat
  <2> TAKE i \in 0 .. n
  <2>a. l + i \in 0 .. l + n /\ (l + i) - l = i /\ (l + i <= l => i = 0)
    BY ONLY <1>1, i \in 0 .. n
  <2>b. P[l] \in Nat /\ Q[i] \in Nat
    <3>1. l \in 0 .. l
      BY <1>1
    <3> QED BY <1>2, <3>1
  <2>1. l + i \in 0 .. l + n /\ (l + i) - l = i /\ P[l] \in Nat /\ Q[i] \in Nat /\ (l + i <= l => i = 0)
    BY <2>a, <2>b
  <2>2. CASE i = 0
    <3>1. l + i = l /\ l \in 0 .. l
      BY <1>1, <2>2
    <3>2. R[l] = P[l] /\ P[l] + Q[0] = P[l]
      BY <1>2, <1>9, <2>1, <3>1
    <3> QED BY <2>1, <2>2, <3>1, <3>2
  <2>3. CASE i # 0
    <3>1. R[l + i] = P[l] + Q[i]
      BY <2>1, <2>3
    <3> QED BY ONLY <2>1, <3>1
  <2> QED BY <2>2, <2>3
<1>11. R \in [0 .. l + n -> Nat]
  <2>1. ASSUME NEW i \in 0 .. l + n PROVE (IF i <= l THEN P[i] ELSE P[l] + Q[i - l]) \in Nat
    <3>1. CASE i <= l
      <4>1. i \in 0 .. l
        BY <1>1, <3>1
      <4> QED BY <1>2, <3>1, <4>1
    <3>2. CASE ~(i <= l)
      <4>1. i - l \in 0 .. n /\ l \in 0 .. l
        BY <1>1, <3>2
      <4>2. P[l] \in Nat /\ Q[i - l] \in Nat
        BY <1>2, <4>1
      <4> QED BY ONLY <3>2, <4>2
    <3> QED BY <3>1, <3>2
  <2> QED BY <2>1
<1> HIDE DEF R
<1>12. \A i \in 1 .. l + n : i \in 1 .. l \/ i - l \in 1 .. n
  BY <1>1
<1>13. ASSUME NEW i \in 1 .. l
       PROVE  R[i] = R[i - 1] + Len(N[i]) /\ \A k \in 1 .. Len(N[i]) : x[R[i - 1] + k] = N[i][k]
  <2>1. i \in 0 .. l /\ i - 1 \in 0 .. l
    BY <1>1
  <2>2. R[i] = P[i] /\ R[i - 1] = P[i - 1] /\ N[i] = M[i]
    BY <1>7, <1>9, <2>1
  <2>3. M[i] \in Seq(V)
    OBVIOUS
  <2> PICK a : a = P[i - 1]
    OBVIOUS
  <2> PICK m : m = M[i]
    OBVIOUS
  <2>4. P[i] = a + Len(m) /\ a \in Nat /\ P[i] <= Len(w) /\ \A k \in 1 .. Len(m) : w[a + k] = m[k]
    <3>1. i \in 1 .. Len(M)
      OBVIOUS
    <3>2. P[i] = P[i - 1] + Len(M[i]) /\ P[i - 1] \in Nat /\ P[i] <= Len(w)
      BY ONLY <3>1, M \in Seq(Seq(V)), w \in Seq(V), Lies(w, M, P), PieceIs
    <3>3. \A k \in 1 .. Len(M[i]) : w[P[i - 1] + k] = M[i][k]
      BY ONLY <3>1, M \in Seq(Seq(V)), w \in Seq(V), Lies(w, M, P), PieceIs
    <3> QED BY <3>2, <3>3
  <2>5. \A k \in 1 .. Len(m) : a + k \in 1 .. Len(w)
    <3> PICK q : q = Len(m)
      OBVIOUS
    <3> PICK p : p = Len(w)
      OBVIOUS
    <3>1. q \in Nat /\ p \in Nat /\ a \in Nat /\ a + q <= p
      BY <2>3, <2>4
    <3>2. \A k \in 1 .. q : a + k \in 1 .. p
      BY ONLY <3>1
    <3> QED BY <3>2
  <2> QED BY <1>4, <2>2, <2>4, <2>5
<1>14. ASSUME NEW i \in 1 .. n
       PROVE  R[l + i] = R[(l + i) - 1] + Len(N[l + i])
              /\ \A k \in 1 .. Len(N[l + i]) : x[R[(l + i) - 1] + k] = N[l + i][k]
  <2>1. i \in 0 .. n /\ i - 1 \in 0 .. n /\ (l + i) - 1 = l + (i - 1) /\ l \in 0 .. l
    BY <1>1
  <2>2. R[l + i] = P[l] + Q[i] /\ R[(l + i) - 1] = P[l] + Q[i - 1] /\ N[l + i] = L[i] /\ P[l] \in Nat
    BY <1>2, <1>8, <1>10, <2>1
  <2> PICK b : b = Q[i - 1]
    OBVIOUS
  <2> PICK m : m = L[i]
    OBVIOUS
  <2> PICK p : p = P[l]
    OBVIOUS
  <2>3. Q[i] = b + Len(m) /\ b \in Nat /\ Q[i] <= Len(v) /\ m \in Seq(V) /\ \A k \in 1 .. Len(m) : v[b + k] = m[k]
    <3>1. i \in 1 .. Len(L)
      OBVIOUS
    <3>2. Q[i] = Q[i - 1] + Len(L[i]) /\ Q[i - 1] \in Nat /\ Q[i] <= Len(v) /\ L[i] \in Seq(V)
      BY ONLY <3>1, L \in Seq(Seq(V)), v \in Seq(V), Lies(v, L, Q), PieceIs
    <3>3. \A k \in 1 .. Len(L[i]) : v[Q[i - 1] + k] = L[i][k]
      BY ONLY <3>1, L \in Seq(Seq(V)), v \in Seq(V), Lies(v, L, Q), PieceIs
    <3> QED BY <3>2, <3>3
  <2>4. \A k \in 1 .. Len(m) : b + k \in 1 .. Len(v) /\ (p + b) + k = p + (b + k)
    <3> PICK q : q = Len(m)
      OBVIOUS
    <3> PICK o : o = Len(v)
      OBVIOUS
    <3>1. q \in Nat /\ o \in Nat /\ b \in Nat /\ b + q <= o /\ p \in Nat
      BY <2>2, <2>3
    <3>2. \A k \in 1 .. q : b + k \in 1 .. o /\ (p + b) + k = p + (b + k)
      BY ONLY <3>1
    <3> QED BY <3>2
  <2>5. p + (b + Len(m)) = (p + b) + Len(m)
    <3>1. Len(m) \in Nat
      BY <2>3
    <3> QED BY <2>2, <2>3, <3>1, SMTT(30)
  <2>6. \A k \in 1 .. Len(m) : x[(p + b) + k] = m[k]
    <3> TAKE k \in 1 .. Len(m)
    <3>1. b + k \in 1 .. Len(v) /\ (p + b) + k = p + (b + k) /\ v[b + k] = m[k]
      BY <2>3, <2>4
    <3>2. x[p + (b + k)] = v[b + k]
      BY <1>2, <1>5, <3>1
    <3> QED BY <3>1, <3>2
  <2>7. N[l + i] = m /\ R[(l + i) - 1] = p + b /\ R[l + i] = p + (b + Len(m))
    BY <2>2, <2>3
  <2>8. R[l + i] = R[(l + i) - 1] + Len(N[l + i])
    BY <2>5, <2>7
  <2>9. \A k \in 1 .. Len(N[l + i]) : x[R[(l + i) - 1] + k] = N[l + i][k]
    BY ONLY <2>6, <2>7
  <2> QED BY <2>8, <2>9
<1>15. Lies(x, N, R)
  <2>1. R \in [0 .. Len(N) -> Nat]
    BY <1>6, <1>11
  <2>2. R[0] = 0 /\ Len(x) = R[Len(N)]
    <3>1. 0 \in 0 .. l /\ n \in 0 .. n
      BY <1>1
    <3> QED BY <1>2, <1>3, <1>6, <1>9, <1>10, <3>1
  <2>3. ASSUME NEW i \in 1 .. Len(N)
        PROVE  R[i] = R[i - 1] + Len(N[i]) /\ \A k \in 1 .. Len(N[i]) : x[R[i - 1] + k] = N[i][k]
    <3>1. i \in 1 .. l \/ i - l \in 1 .. n
      BY <1>6, <1>12
    <3>2. CASE i \in 1 .. l
      BY <1>13, <3>2
    <3>3. CASE i - l \in 1 .. n
      <4> PICK j : j = i - l
        OBVIOUS
      <4>1. i = l + j /\ j \in 1 .. n
        <5>1. i \in Nat
          BY <1>1, <1>6
        <5> QED BY ONLY <5>1, <1>1, <3>3, j = i - l
      <4>2. /\ R[l + j] = R[(l + j) - 1] + Len(N[l + j])
            /\ \A k \in 1 .. Len(N[l + j]) : x[R[(l + j) - 1] + k] = N[l + j][k]
        BY <1>14, <4>1
      <4> QED BY <4>1, <4>2, ZenonT(40)
    <3> QED BY <3>1, <3>2, <3>3
  <2> QED BY <2>1, <2>2, <2>3 DEF Lies
<1>16. IsBehind(R, P, Q, l, n)
  BY <1>9, <1>10 DEF IsBehind
<1> QED BY <1>15, <1>16

\* Wherever they are.
LEMMA SpellsConcat ==
  ASSUME NEW V, NEW w \in Seq(V), NEW v \in Seq(V), NEW M \in Seq(Seq(V)), NEW L \in Seq(Seq(V)),
         Spells(w, M), Spells(v, L)
  PROVE  Spells(w \o v, M \o L)
BY LiesConcat DEF Spells

\* The messages of the heartbeats of a run, before the end of a spill.
Open(M, split) ==
    /\ IsCutting(M, split) /\ EndsWhole(M, split)
    /\ \A n \in 1 .. Len(M) : Heads(M[n]) # <<"SE">> /\ (split = 2 => Heads(M[n]) # <<"HB">>)

IsJoined(N, M, L) ==
    /\ N \in Seq(Seq(Unit)) /\ Len(N) = Len(M) + Len(L)
    /\ \A n \in 1 .. Len(M) : N[n] = M[n]
    /\ \A n \in 1 .. Len(L) : N[Len(M) + n] = L[n]

\* The messages of one heartbeat more.
LEMMA Joined ==
  ASSUME NEW M \in Seq(Seq(Unit)), NEW L \in Seq(Seq(Unit))
  PROVE  IsJoined(M \o L, M, L)
<1> PICK V : V = Seq(Unit)
  OBVIOUS
<1>w. M \in Seq(V) /\ L \in Seq(V)
  OBVIOUS
<1> PICK N : N = M \o L
  OBVIOUS
<1>1. N \in Seq(V) /\ Len(N) = Len(M) + Len(L)
  BY ONLY <1>w, N = M \o L
<1>2. \A i \in 1 .. Len(M) : N[i] = M[i]
  BY ONLY <1>w, N = M \o L
<1>3. \A i \in 1 .. Len(L) : N[Len(M) + i] = L[i]
  BY ONLY <1>w, N = M \o L
<1> QED BY <1>1, <1>2, <1>3 DEF IsJoined

\* They are cut as both were.
LEMMA JoinedCutting ==
  ASSUME NEW split \in 0 .. 2, NEW M \in Seq(Seq(Unit)), NEW L \in Seq(Seq(Unit)), Open(M, split),
         IsCutting(L, split), EndsWhole(L, split), NEW N, IsJoined(N, M, L)
  PROVE  /\ IsCutting(N, split) /\ EndsWhole(N, split) /\ (Open(L, split) => Open(N, split))
         /\ \A fem : OfFem(M, fem) /\ OfFem(L, fem) => OfFem(N, fem)
<1> PICK m : m = Len(M)
  OBVIOUS
<1> PICK l : l = Len(L)
  OBVIOUS
<1>1. m \in Nat /\ l \in Nat /\ Len(N) = m + l
  BY DEF IsJoined
<1>2. \A n \in 1 .. m : N[n] = M[n]
  BY DEF IsJoined
<1>3. \A n \in 1 .. l : N[m + n] = L[n]
  BY DEF IsJoined
<1>4. \A i \in 1 .. Len(N) : i \in 1 .. m \/ \E n \in 1 .. l : i = m + n
  <2> TAKE i \in 1 .. Len(N)
  <2> SUFFICES ASSUME i \notin 1 .. m PROVE \E n \in 1 .. l : i = m + n
    OBVIOUS
  <2>1. i - m \in 1 .. l /\ i = m + (i - m)
    BY <1>1
  <2> QED BY <2>1
<1> DEFINE Is(X, n) ==
        /\ X[n] \in Seq(DataUnit) /\ Heads(X[n]) \in Forms(split)
        /\ split = 0 /\ ~IsHartBeat(X[n]) => n < Len(X) /\ IsHartBeat(X[n + 1])
        /\ split = 1 /\ Heads(X[n]) = <<"T">> /\ n < Len(X) => Heads(X[n + 1]) # <<"T">>
        /\ split = 1 /\ Heads(X[n]) = <<"SE">> =>
                n < Len(X) /\ Heads(X[n + 1]) = <<"HB", "HB">> /\ n + 1 = Len(X)
        /\ split = 2 /\ Heads(X[n]) = <<"HB">> => n = Len(X)
<1>5. ASSUME NEW n \in 1 .. m PROVE Is(N, n)
  <2>1. Is(M, n) /\ Heads(M[n]) # <<"SE">> /\ (split = 2 => Heads(M[n]) # <<"HB">>)
    BY DEF Open, IsCutting
  <2>2. N[n] = M[n]
    BY <1>2
  <2>3. CASE n < m
    <3>1. n + 1 \in 1 .. m
      BY <1>1, <2>3
    <3>2. N[n + 1] = M[n + 1] /\ n < Len(N)
      BY <1>1, <1>2, <2>3, <3>1
    <3> QED BY ONLY <2>1, <2>2, <2>3, <3>2, m = Len(M), Zenon
  <2>4. CASE n = m
    <3>1. ~(n < Len(M)) /\ m > 0
      BY <1>1, <2>4
    <3>2. split # 0 \/ IsHartBeat(M[n])
      BY <2>1, <3>1
    <3>3. split = 1 => Heads(M[n]) # <<"T">>
      <4> SUFFICES ASSUME split = 1, Heads(M[n]) = <<"T">> PROVE FALSE
        OBVIOUS
      <4>1. M[n] \in Seq(DataUnit)
        BY <2>1
      <4>2. M[n][1].head = "T"
        BY <4>1, HeadsAre
      <4>3. IsHartBeat(M[n])
        BY <2>4, <3>1 DEF Open, EndsWhole
      <4> QED BY <4>2, <4>3 DEF IsHartBeat
    <3> QED BY ONLY <2>1, <2>2, <3>2, <3>3, Zenon
  <2> QED BY <1>1, <2>3, <2>4
<1>6. ASSUME NEW n \in 1 .. l PROVE Is(N, m + n)
  <2>1. Is(L, n)
    BY DEF IsCutting
  <2>2. N[m + n] = L[n] /\ (m + n < Len(N) <=> n < Len(L)) /\ (m + n = Len(N) <=> n = Len(L))
        /\ ((m + n) + 1 = Len(N) <=> n + 1 = Len(L))
    <3>1. N[m + n] = L[n]
      BY <1>3
    <3> PICK z : z = Len(N)
      OBVIOUS
    <3>2. z = m + l /\ m \in Nat /\ l \in Nat
      BY <1>1
    <3>3. (m + n < z <=> n < l) /\ (m + n = z <=> n = l) /\ ((m + n) + 1 = z <=> n + 1 = l)
      BY ONLY <3>2, n \in 1 .. l
    <3> QED BY <3>1, <3>3
  <2>3. n < Len(L) => N[(m + n) + 1] = L[n + 1]
    <3> SUFFICES ASSUME n < Len(L) PROVE N[(m + n) + 1] = L[n + 1]
      OBVIOUS
    <3>1. n + 1 \in 1 .. l /\ (m + n) + 1 = m + (n + 1)
      BY <1>1
    <3> QED BY <1>3, <3>1
  <2> PICK i : i = m + n
    OBVIOUS
  <2>4. Is(N, i)
    BY ONLY <2>1, <2>2, <2>3, i = m + n, Zenon
  <2> QED BY <2>4
<1>7. IsCutting(N, split)
  <2>1. \A i \in 1 .. Len(N) : Is(N, i)
    <3> HIDE DEF Is
    <3> QED BY <1>4, <1>5, <1>6
  <2> QED BY <2>1 DEF IsCutting
<1>8. EndsWhole(N, split)
  <2> SUFFICES ASSUME split \in {0, 1}, Len(N) > 0 PROVE IsHartBeat(N[Len(N)])
    BY DEF EndsWhole
  <2>1. CASE l = 0
    <3>1. Len(N) = m /\ m \in 1 .. m /\ Len(M) > 0
      BY <1>1, <2>1
    <3> QED BY <1>2, <3>1 DEF Open, EndsWhole
  <2>2. CASE l # 0
    <3>1. l \in 1 .. l /\ Len(L) > 0
      BY <1>1, <2>2
    <3> QED BY <1>1, <1>3, <3>1 DEF EndsWhole
  <2> QED BY <2>1, <2>2
<1>9. ASSUME Open(L, split) PROVE Open(N, split)
  <2>1. ASSUME NEW i \in 1 .. Len(N) PROVE Heads(N[i]) # <<"SE">> /\ (split = 2 => Heads(N[i]) # <<"HB">>)
    <3>1. CASE i \in 1 .. m
      BY <1>2, <3>1 DEF Open
    <3>2. ASSUME NEW n \in 1 .. l, i = m + n
          PROVE  Heads(N[i]) # <<"SE">> /\ (split = 2 => Heads(N[i]) # <<"HB">>)
      BY <1>3, <1>9, <3>2 DEF Open
    <3> QED BY <1>4, <3>1, <3>2
  <2> QED BY <1>7, <1>8, <2>1 DEF Open
<1>10. ASSUME NEW fem, OfFem(M, fem), OfFem(L, fem) PROVE OfFem(N, fem)
  <2> SUFFICES ASSUME NEW i \in 1 .. Len(N) PROVE \A k \in DOMAIN N[i] : N[i][k].fem = fem
    BY DEF OfFem
  <2>1. CASE i \in 1 .. m
    BY <1>2, <1>10, <2>1 DEF OfFem
  <2>2. ASSUME NEW n \in 1 .. l, i = m + n PROVE \A k \in DOMAIN N[i] : N[i][k].fem = fem
    <3>1. N[i] = L[n] /\ n \in 1 .. Len(L)
      BY <1>3, <2>2
    <3>2. \A k \in DOMAIN L[n] : L[n][k].fem = fem
      BY <1>10, <3>1 DEF OfFem
    <3> QED BY <3>1, <3>2
  <2> QED BY <1>4, <2>1, <2>2
<1> QED BY <1>7, <1>8, <1>9, <1>10

\* The heads of a message, by unit.
LEMMA HeadsOf ==
  /\ \A a : Heads(<<a>>) = <<a.head>>
  /\ \A a, b : Heads(<<a, b>>) = <<a.head, b.head>>
  /\ \A a, b, c : Heads(<<a, b, c>>) = <<a.head, b.head, c.head>>
<1>1. ASSUME NEW a PROVE Heads(<<a>>) = <<a.head>>
  BY DEF Heads
<1>2. ASSUME NEW a, NEW b PROVE Heads(<<a, b>>) = <<a.head, b.head>>
  BY DEF Heads
<1>3. ASSUME NEW a, NEW b, NEW c PROVE Heads(<<a, b, c>>) = <<a.head, b.head, c.head>>
  BY DEF Heads
<1> QED BY <1>1, <1>2, <1>3

\* Sequences of a few units.
LEMMA Pair ==
  ASSUME NEW V, NEW a \in V, NEW b \in V
  PROVE  <<a>> \o <<b>> = <<a, b>>
<1> PICK x : x = <<a>>
  OBVIOUS
<1> PICK y : y = <<b>>
  OBVIOUS
<1> PICK z : z = x \o y
  OBVIOUS
<1>1. x \in Seq(V) /\ y \in Seq(V) /\ Len(x) = 1 /\ Len(y) = 1
      /\ x[1] = a
      /\ y[1] = b
  OBVIOUS
<1>2. z \in Seq(V) /\ Len(z) = 2 /\ \A i \in 1 .. 2 : z[i] = IF i <= 1 THEN x[i] ELSE y[i - 1]
  BY <1>1, ConcatProperties
<1>3. z[1] = a /\ z[2] = b
  BY <1>1, <1>2
<1>4. z = <<a, b>>
  BY ONLY <1>2, <1>3, a \in V, b \in V
<1> QED BY <1>4

\* Two units, then one.
LEMMA PairAndOne ==
  ASSUME NEW V, NEW a \in V, NEW b \in V, NEW c \in V
  PROVE  <<a, b>> \o <<c>> = <<a, b, c>>
<1> PICK x : x = <<a, b>>
  OBVIOUS
<1> PICK y : y = <<c>>
  OBVIOUS
<1> PICK z : z = x \o y
  OBVIOUS
<1>1. x \in Seq(V) /\ y \in Seq(V) /\ Len(x) = 2 /\ Len(y) = 1
      /\ x[1] = a /\ x[2] = b
      /\ y[1] = c
  OBVIOUS
<1>2. z \in Seq(V) /\ Len(z) = 3 /\ \A i \in 1 .. 3 : z[i] = IF i <= 2 THEN x[i] ELSE y[i - 2]
  BY <1>1, ConcatProperties
<1>3. z[1] = a /\ z[2] = b /\ z[3] = c
  BY <1>1, <1>2
<1>4. z = <<a, b, c>>
  BY ONLY <1>2, <1>3, a \in V, b \in V, c \in V
<1> QED BY <1>4

\* Three units.
LEMMA Triple ==
  ASSUME NEW V, NEW a \in V, NEW b \in V, NEW c \in V
  PROVE  <<a>> \o <<b, c>> = <<a, b, c>>
<1> PICK x : x = <<a>>
  OBVIOUS
<1> PICK y : y = <<b, c>>
  OBVIOUS
<1> PICK z : z = x \o y
  OBVIOUS
<1>1. x \in Seq(V) /\ y \in Seq(V) /\ Len(x) = 1 /\ Len(y) = 2
      /\ x[1] = a
      /\ y[1] = b /\ y[2] = c
  OBVIOUS
<1>2. z \in Seq(V) /\ Len(z) = 3 /\ \A i \in 1 .. 3 : z[i] = IF i <= 1 THEN x[i] ELSE y[i - 1]
  BY <1>1, ConcatProperties
<1>3. z[1] = a /\ z[2] = b /\ z[3] = c
  BY <1>1, <1>2
<1>4. z = <<a, b, c>>
  BY ONLY <1>2, <1>3, a \in V, b \in V, c \in V
<1> QED BY <1>4

\* Three units, then one.
LEMMA TripleAndOne ==
  ASSUME NEW V, NEW a \in V, NEW b \in V, NEW c \in V, NEW d \in V
  PROVE  <<a, b, c>> \o <<d>> = <<a, b, c, d>>
<1> PICK x : x = <<a, b, c>>
  OBVIOUS
<1> PICK y : y = <<d>>
  OBVIOUS
<1> PICK z : z = x \o y
  OBVIOUS
<1>1. x \in Seq(V) /\ y \in Seq(V) /\ Len(x) = 3 /\ Len(y) = 1
      /\ x[1] = a /\ x[2] = b /\ x[3] = c
      /\ y[1] = d
  OBVIOUS
<1>2. z \in Seq(V) /\ Len(z) = 4 /\ \A i \in 1 .. 4 : z[i] = IF i <= 3 THEN x[i] ELSE y[i - 3]
  BY <1>1, ConcatProperties
<1>3. z[1] = a /\ z[2] = b /\ z[3] = c /\ z[4] = d
  BY <1>1, <1>2
<1>4. z = <<a, b, c, d>>
  BY ONLY <1>2, <1>3, a \in V, b \in V, c \in V, d \in V
<1> QED BY <1>4

\* Four units.
LEMMA Quadruple ==
  ASSUME NEW V, NEW a \in V, NEW b \in V, NEW c \in V, NEW d \in V
  PROVE  <<a, b>> \o <<c, d>> = <<a, b, c, d>>
<1> PICK x : x = <<a, b>>
  OBVIOUS
<1> PICK y : y = <<c, d>>
  OBVIOUS
<1> PICK z : z = x \o y
  OBVIOUS
<1>1. x \in Seq(V) /\ y \in Seq(V) /\ Len(x) = 2 /\ Len(y) = 2
      /\ x[1] = a /\ x[2] = b
      /\ y[1] = c /\ y[2] = d
  OBVIOUS
<1>2. z \in Seq(V) /\ Len(z) = 4 /\ \A i \in 1 .. 4 : z[i] = IF i <= 2 THEN x[i] ELSE y[i - 2]
  BY <1>1, ConcatProperties
<1>3. z[1] = a /\ z[2] = b /\ z[3] = c /\ z[4] = d
  BY <1>1, <1>2
<1>4. z = <<a, b, c, d>>
  BY ONLY <1>2, <1>3, a \in V, b \in V, c \in V, d \in V
<1> QED BY <1>4

\* A message of its own.
LEMMA OneMessage ==
  ASSUME NEW m \in Seq(Unit)
  PROVE  <<m>> \in Seq(Seq(Unit)) /\ Spells(m, <<m>>)
<1>1. Spells(m, <<m>>)
  BY SpellsMessage DEF Spells
<1>2. <<m>> \in Seq(Seq(Unit))
  <2> PICK V : V = Seq(Unit)
    OBVIOUS
  <2>1. m \in V
    OBVIOUS
  <2> QED BY <2>1
<1> QED BY <1>1, <1>2

\* Two and three messages.
LEMMA TwoMessages ==
  ASSUME NEW a \in Seq(Unit), NEW b \in Seq(Unit)
  PROVE  <<a, b>> \in Seq(Seq(Unit)) /\ Spells(a \o b, <<a, b>>)
<1>1. <<a>> \in Seq(Seq(Unit)) /\ <<b>> \in Seq(Seq(Unit)) /\ Spells(a, <<a>>) /\ Spells(b, <<b>>)
  BY OneMessage
<1>2. Spells(a \o b, <<a>> \o <<b>>)
  BY <1>1, SpellsConcat
<1>3. <<a>> \o <<b>> = <<a, b>>
  BY Pair, PairAndOne, Triple, TripleAndOne, Quadruple
<1>4. <<a, b>> \in Seq(Seq(Unit))
  <2> PICK V : V = Seq(Unit)
    OBVIOUS
  <2>1. a \in V /\ b \in V
    OBVIOUS
  <2> QED BY <2>1
<1> QED BY <1>2, <1>3, <1>4

\* Three messages.
LEMMA ThreeMessages ==
  ASSUME NEW a \in Seq(Unit), NEW b \in Seq(Unit), NEW c \in Seq(Unit)
  PROVE  <<a, b, c>> \in Seq(Seq(Unit)) /\ Spells((a \o b) \o c, <<a, b, c>>)
<1>1. <<a, b>> \in Seq(Seq(Unit)) /\ <<c>> \in Seq(Seq(Unit)) /\ Spells(a \o b, <<a, b>>) /\ Spells(c, <<c>>)
  BY OneMessage, TwoMessages
<1>2. a \o b \in Seq(Unit)
  BY ConcatProperties
<1>3. Spells((a \o b) \o c, <<a, b>> \o <<c>>)
  BY <1>1, <1>2, SpellsConcat
<1>4. <<a, b>> \o <<c>> = <<a, b, c>>
  BY Pair, PairAndOne, Triple, TripleAndOne, Quadruple
<1>5. <<a, b, c>> \in Seq(Seq(Unit))
  <2> PICK V : V = Seq(Unit)
    OBVIOUS
  <2>1. a \in V /\ b \in V /\ c \in V
    OBVIOUS
  <2> QED BY <2>1
<1> QED BY <1>3, <1>4, <1>5

\* A heartbeat, in messages: words is what there is of it in the file.
IsBeat(words, split, fem, ends) ==
    \E L \in Seq(Seq(Unit)) :
        /\ Spells(words, L) /\ IsCutting(L, split) /\ EndsWhole(L, split) /\ OfFem(L, fem)
        /\ ~ends => Open(L, split)

\* Data units by what they are.
IsA(u, head, fem) == u \in DataUnit /\ u.head = head /\ u.fem = fem

\* No hit and no end of a spill.
LEMMA BeatAlone ==
  ASSUME NEW split \in 0 .. 2, NEW fem, NEW h, IsA(h, "HB", fem), NEW w, w = <<h, h>>
  PROVE  IsBeat(w, split, fem, FALSE)
<1>0. h \in DataUnit /\ h \in Unit /\ h.head = "HB" /\ h.fem = fem
  BY DEF IsA, Unit
<1>1. CASE split = 0
  <2> PICK a : a = <<h>>
    OBVIOUS
  <2>1. a \in Seq(Unit) /\ a \in Seq(DataUnit) /\ Heads(a) = <<"HB">> /\ a[1] = h /\ Len(a) = 1
    BY <1>0, HeadsOf
  <2> PICK L : L = <<a, a>>
    OBVIOUS
  <2>2. L \in Seq(Seq(Unit)) /\ Spells(w, L)
    <3>1. w = a \o a
      OBVIOUS
    <3> QED BY <2>1, <3>1, TwoMessages
  <2>3. Len(L) = 2 /\ \A n \in 1 .. Len(L) : L[n] = a
    OBVIOUS
  <2>4. IsHartBeat(a) /\ Heads(a) \in Forms(0) /\ Heads(a) # <<"SE">>
    BY <1>0, <2>1 DEF IsHartBeat, Forms
  <2>5. IsCutting(L, split) /\ EndsWhole(L, split)
    BY <1>1, <2>1, <2>3, <2>4 DEF IsCutting, EndsWhole
  <2>6. OfFem(L, fem)
    BY <1>0, <2>1, <2>3 DEF OfFem
  <2>7. Open(L, split)
    BY <1>1, <2>3, <2>4, <2>5 DEF Open
  <2> QED BY <2>2, <2>5, <2>6, <2>7 DEF IsBeat
<1>2. CASE split # 0
  <2>1. w \in Seq(Unit) /\ w \in Seq(DataUnit) /\ Heads(w) = <<"HB", "HB">> /\ w[1] = h /\ w[2] = h /\ Len(w) = 2
    BY <1>0, HeadsOf
  <2> PICK L : L = <<w>>
    OBVIOUS
  <2>2. L \in Seq(Seq(Unit)) /\ Spells(w, L)
    BY <2>1, OneMessage
  <2>3. Len(L) = 1 /\ \A n \in 1 .. Len(L) : L[n] = w
    OBVIOUS
  <2>4. IsHartBeat(w) /\ Heads(w) \in Forms(split) /\ Heads(w) # <<"SE">> /\ Heads(w) # <<"T">> /\ Heads(w) # <<"HB">>
    BY <1>0, <1>2, <2>1 DEF IsHartBeat, Forms
  <2>5. IsCutting(L, split) /\ EndsWhole(L, split)
    BY <1>2, <2>1, <2>3, <2>4 DEF IsCutting, EndsWhole
  <2>6. OfFem(L, fem)
    BY <1>0, <2>1, <2>3 DEF OfFem
  <2>7. Open(L, split)
    BY <1>2, <2>3, <2>4, <2>5 DEF Open
  <2> QED BY <2>2, <2>5, <2>6, <2>7 DEF IsBeat
<1> QED BY <1>1, <1>2

\* Cut in two, and in three.
LEMMA BeatOfTwo ==
  ASSUME NEW split \in 0 .. 2, NEW fem, NEW ends \in BOOLEAN, NEW a \in Seq(DataUnit), NEW b \in Seq(DataUnit),
         Heads(a) \in Forms(split), Heads(b) \in Forms(split), IsHartBeat(b),
         split = 1 => Heads(b) = <<"HB", "HB">>,
         split = 2 => Heads(a) # <<"HB">>,
         ~ends => split # 2 /\ Heads(a) # <<"SE">>,
         OfFem(<<a, b>>, fem), NEW w, w = a \o b
  PROVE  IsBeat(w, split, fem, ends)
<1> PICK L : L = <<a, b>>
  OBVIOUS
<1>1. L \in Seq(Seq(Unit)) /\ Spells(w, L)
  <2>1. a \in Seq(Unit) /\ b \in Seq(Unit)
    BY DEF Unit
  <2> QED BY <2>1, TwoMessages
<1>2. Len(L) = 2 /\ L[1] = a /\ L[2] = b /\ \A n \in 1 .. 2 : n = 1 \/ n = 2
  OBVIOUS
<1>3. Heads(b) # <<"T">> /\ Heads(b) # <<"SE">>
  <2>1. b[1].head = "HB"
    BY DEF IsHartBeat
  <2> QED BY <2>1, HeadsAre
<1>4. IsCutting(L, split) /\ EndsWhole(L, split)
  BY <1>2, <1>3 DEF IsCutting, EndsWhole
<1>5. ~ends => Open(L, split)
  BY <1>2, <1>3, <1>4 DEF Open
<1> QED BY <1>1, <1>4, <1>5 DEF IsBeat

\* In three messages.
LEMMA BeatOfThree ==
  ASSUME NEW split \in 0 .. 1, NEW fem, NEW a \in Seq(DataUnit), NEW b \in Seq(DataUnit), NEW c \in Seq(DataUnit),
         Heads(a) \in Forms(split), Heads(b) \in Forms(split), Heads(c) \in Forms(split), IsHartBeat(c),
         split = 0 => IsHartBeat(b),
         split = 1 => Heads(a) = <<"T">> /\ Heads(b) = <<"SE">> /\ Heads(c) = <<"HB", "HB">>,
         OfFem(<<a, b, c>>, fem), NEW w, w = (a \o b) \o c
  PROVE  IsBeat(w, split, fem, TRUE)
<1> PICK L : L = <<a, b, c>>
  OBVIOUS
<1>1. L \in Seq(Seq(Unit)) /\ Spells(w, L)
  <2>1. a \in Seq(Unit) /\ b \in Seq(Unit) /\ c \in Seq(Unit)
    BY DEF Unit
  <2> QED BY <2>1, ThreeMessages
<1>2. Len(L) = 3 /\ L[1] = a /\ L[2] = b /\ L[3] = c /\ \A n \in 1 .. 3 : n = 1 \/ n = 2 \/ n = 3
  OBVIOUS
<1>3. Heads(c) # <<"T">> /\ Heads(c) # <<"SE">>
  <2>1. c[1].head = "HB"
    BY DEF IsHartBeat
  <2> QED BY <2>1, HeadsAre
<1>4. IsCutting(L, split) /\ EndsWhole(L, split)
  BY <1>2, <1>3 DEF IsCutting, EndsWhole
<1> QED BY <1>1, <1>4 DEF IsBeat

\* A hit and no end of a spill.
LEMMA BeatWithHit ==
  ASSUME NEW split \in 0 .. 2, NEW fem, NEW h, IsA(h, "HB", fem), NEW t, IsA(t, "T", fem), NEW w, w = <<t, h, h>>
  PROVE  IsBeat(w, split, fem, FALSE)
<1>0. h \in DataUnit /\ h.head = "HB" /\ h.fem = fem /\ t \in DataUnit /\ t.head = "T" /\ t.fem = fem
  BY DEF IsA
<1>1. CASE split = 0
  <2> PICK a : a = <<t, h>>
    OBVIOUS
  <2> PICK b : b = <<h>>
    OBVIOUS
  <2>1. a \in Seq(DataUnit) /\ b \in Seq(DataUnit) /\ Heads(a) = <<"T", "HB">> /\ Heads(b) = <<"HB">> /\ IsHartBeat(b)
    BY <1>0, HeadsOf DEF IsHartBeat
  <2>2. OfFem(<<a, b>>, fem)
    BY <1>0 DEF OfFem
  <2>3. Heads(a) \in Forms(split) /\ Heads(b) \in Forms(split) /\ Heads(a) # <<"SE">>
    BY <1>1, <2>1 DEF Forms
  <2>4. w = a \o b
    BY <1>0, Pair, PairAndOne, Triple, TripleAndOne, Quadruple
  <2>5. /\ split = 1 => Heads(b) = <<"HB", "HB">>
        /\ split = 2 => Heads(a) # <<"HB">>
        /\ ~FALSE => split # 2 /\ Heads(a) # <<"SE">>
    BY <1>1, <2>1, <2>3
  <2>6. FALSE \in BOOLEAN
    OBVIOUS
  <2> QED BY ONLY split \in 0 .. 2, <2>1, <2>2, <2>3, <2>4, <2>5, <2>6, BeatOfTwo
<1>2. CASE split = 1
  <2> PICK a : a = <<t>>
    OBVIOUS
  <2> PICK b : b = <<h, h>>
    OBVIOUS
  <2>1. a \in Seq(DataUnit) /\ b \in Seq(DataUnit) /\ Heads(a) = <<"T">> /\ Heads(b) = <<"HB", "HB">> /\ IsHartBeat(b)
    BY <1>0, HeadsOf DEF IsHartBeat
  <2>2. OfFem(<<a, b>>, fem)
    BY <1>0 DEF OfFem
  <2>3. Heads(a) \in Forms(split) /\ Heads(b) \in Forms(split) /\ Heads(a) # <<"SE">>
    BY <1>2, <2>1 DEF Forms
  <2>4. w = a \o b
    BY <1>0, Pair, PairAndOne, Triple, TripleAndOne, Quadruple
  <2>5. /\ split = 1 => Heads(b) = <<"HB", "HB">>
        /\ split = 2 => Heads(a) # <<"HB">>
        /\ ~FALSE => split # 2 /\ Heads(a) # <<"SE">>
    BY <1>2, <2>1, <2>3
  <2>6. FALSE \in BOOLEAN
    OBVIOUS
  <2> QED BY ONLY split \in 0 .. 2, <2>1, <2>2, <2>3, <2>4, <2>5, <2>6, BeatOfTwo
<1>3. CASE split = 2
  <2>1. w \in Seq(DataUnit) /\ Heads(w) = <<"T", "HB", "HB">> /\ w \in Seq(Unit)
    BY <1>0, HeadsOf DEF Unit
  <2> PICK L : L = <<w>>
    OBVIOUS
  <2>2. L \in Seq(Seq(Unit)) /\ Spells(w, L)
    BY <2>1, OneMessage
  <2>3. Len(L) = 1 /\ \A n \in 1 .. Len(L) : L[n] = w
    OBVIOUS
  <2>4. Heads(w) \in Forms(split) /\ Heads(w) # <<"SE">> /\ Heads(w) # <<"HB">>
    BY <1>3, <2>1 DEF Forms
  <2>5. IsCutting(L, split) /\ EndsWhole(L, split)
    <3>1. EndsWhole(L, split)
      BY <1>3 DEF EndsWhole
    <3>2. \A n \in 1 .. Len(L) : L[n] \in Seq(DataUnit) /\ Heads(L[n]) \in Forms(split) /\ Heads(L[n]) # <<"HB">>
      BY <2>1, <2>3, <2>4
    <3>3. IsCutting(L, split)
      BY ONLY <1>3, <3>2 DEF IsCutting
    <3> QED BY <3>1, <3>3
  <2>6. OfFem(L, fem)
    BY <1>0, <2>1, <2>3 DEF OfFem
  <2>7. Open(L, split)
    BY <2>3, <2>4, <2>5 DEF Open
  <2> QED BY <2>2, <2>5, <2>6, <2>7 DEF IsBeat
<1>4. split = 0 \/ split = 1 \/ split = 2
  OBVIOUS
<1> QED BY <1>1, <1>2, <1>3, <1>4

\* The end of a spill, without and with a hit.
LEMMA BeatWithEnd ==
  ASSUME NEW split \in 0 .. 2, NEW fem, NEW h, IsA(h, "HB", fem), NEW s, IsA(s, "SE", fem), NEW w, w = <<s, h, h>>
  PROVE  IsBeat(w, split, fem, TRUE)
<1>0. h \in DataUnit /\ h.head = "HB" /\ h.fem = fem /\ s \in DataUnit /\ s.head = "SE" /\ s.fem = fem
  BY DEF IsA
<1>1. CASE split = 0
  <2> PICK a : a = <<s>>
    OBVIOUS
  <2> PICK b : b = <<h>>
    OBVIOUS
  <2> PICK c : c = <<h>>
    OBVIOUS
  <2>1. /\ a \in Seq(DataUnit) /\ b \in Seq(DataUnit) /\ c \in Seq(DataUnit)
        /\ Heads(a) = <<"SE">> /\ Heads(b) = <<"HB">> /\ Heads(c) = <<"HB">> /\ IsHartBeat(c)
    BY <1>0, HeadsOf DEF IsHartBeat
  <2>2. OfFem(<<a, b, c>>, fem)
    BY <1>0 DEF OfFem
  <2>3. Heads(a) \in Forms(split) /\ Heads(b) \in Forms(split) /\ Heads(c) \in Forms(split) /\ split \in 0 .. 1
    BY <1>1, <2>1 DEF Forms
  <2>4. w = (a \o b) \o c
    BY <1>0, Pair, PairAndOne, Triple, TripleAndOne, Quadruple
  <2>5. /\ split = 0 => IsHartBeat(b)
        /\ split = 1 => Heads(a) = <<"T">> /\ Heads(b) = <<"SE">> /\ Heads(c) = <<"HB", "HB">>
    BY <1>0, <1>1, <2>1 DEF IsHartBeat
  <2> QED BY ONLY <2>1, <2>2, <2>3, <2>4, <2>5, BeatOfThree
<1>2. CASE split = 1
  <2> PICK a : a = <<s>>
    OBVIOUS
  <2> PICK b : b = <<h, h>>
    OBVIOUS
  <2>1. a \in Seq(DataUnit) /\ b \in Seq(DataUnit) /\ Heads(a) = <<"SE">> /\ Heads(b) = <<"HB", "HB">>
        /\ IsHartBeat(b)
    BY <1>0, HeadsOf DEF IsHartBeat
  <2>2. OfFem(<<a, b>>, fem)
    BY <1>0 DEF OfFem
  <2>3. Heads(a) \in Forms(split) /\ Heads(b) \in Forms(split)
    BY <1>2, <2>1 DEF Forms
  <2>4. w = a \o b
    BY <1>0, Pair, PairAndOne, Triple, TripleAndOne, Quadruple
  <2>5. /\ split = 1 => Heads(b) = <<"HB", "HB">>
        /\ split = 2 => Heads(a) # <<"HB">>
        /\ ~TRUE => split # 2 /\ Heads(a) # <<"SE">>
    BY <1>2, <2>1, <2>3
  <2>6. TRUE \in BOOLEAN
    OBVIOUS
  <2> QED BY ONLY split \in 0 .. 2, <2>1, <2>2, <2>3, <2>4, <2>5, <2>6, BeatOfTwo
<1>3. CASE split = 2
  <2> PICK a : a = <<s, h>>
    OBVIOUS
  <2> PICK b : b = <<h>>
    OBVIOUS
  <2>1. a \in Seq(DataUnit) /\ b \in Seq(DataUnit) /\ Heads(a) = <<"SE", "HB">> /\ Heads(b) = <<"HB">>
        /\ IsHartBeat(b)
    BY <1>0, HeadsOf DEF IsHartBeat
  <2>2. OfFem(<<a, b>>, fem)
    BY <1>0 DEF OfFem
  <2>3. Heads(a) \in Forms(split) /\ Heads(b) \in Forms(split)
    BY <1>3, <2>1 DEF Forms
  <2>4. w = a \o b
    BY <1>0, Pair, PairAndOne, Triple, TripleAndOne, Quadruple
  <2>5. /\ split = 1 => Heads(b) = <<"HB", "HB">>
        /\ split = 2 => Heads(a) # <<"HB">>
        /\ ~TRUE => split # 2 /\ Heads(a) # <<"SE">>
    BY <1>3, <2>1, <2>3
  <2>6. TRUE \in BOOLEAN
    OBVIOUS
  <2> QED BY ONLY split \in 0 .. 2, <2>1, <2>2, <2>3, <2>4, <2>5, <2>6, BeatOfTwo
<1>4. split = 0 \/ split = 1 \/ split = 2
  OBVIOUS
<1> QED BY <1>1, <1>2, <1>3, <1>4

\* The end of a spill, with a hit.
LEMMA BeatWithBoth ==
  ASSUME NEW split \in 0 .. 2, NEW fem, NEW h, IsA(h, "HB", fem), NEW t, IsA(t, "T", fem),
         NEW s, IsA(s, "SE", fem), NEW w, w = <<t, s, h, h>>
  PROVE  IsBeat(w, split, fem, TRUE)
<1>0. /\ h \in DataUnit /\ h.head = "HB" /\ h.fem = fem /\ s \in DataUnit /\ s.head = "SE" /\ s.fem = fem
      /\ t \in DataUnit /\ t.head = "T" /\ t.fem = fem
  BY DEF IsA
<1>1. CASE split = 0
  <2> PICK a : a = <<t, s>>
    OBVIOUS
  <2> PICK b : b = <<h>>
    OBVIOUS
  <2> PICK c : c = <<h>>
    OBVIOUS
  <2>1. /\ a \in Seq(DataUnit) /\ b \in Seq(DataUnit) /\ c \in Seq(DataUnit)
        /\ Heads(a) = <<"T", "SE">> /\ Heads(b) = <<"HB">> /\ Heads(c) = <<"HB">> /\ IsHartBeat(c)
    BY <1>0, HeadsOf DEF IsHartBeat
  <2>2. OfFem(<<a, b, c>>, fem)
    BY <1>0 DEF OfFem
  <2>3. Heads(a) \in Forms(split) /\ Heads(b) \in Forms(split) /\ Heads(c) \in Forms(split) /\ split \in 0 .. 1
    BY <1>1, <2>1 DEF Forms
  <2>4. w = (a \o b) \o c
    BY <1>0, Pair, PairAndOne, Triple, TripleAndOne, Quadruple
  <2>5. /\ split = 0 => IsHartBeat(b)
        /\ split = 1 => Heads(a) = <<"T">> /\ Heads(b) = <<"SE">> /\ Heads(c) = <<"HB", "HB">>
    BY <1>0, <1>1, <2>1 DEF IsHartBeat
  <2> QED BY ONLY <2>1, <2>2, <2>3, <2>4, <2>5, BeatOfThree
<1>2. CASE split = 1
  <2> PICK a : a = <<t>>
    OBVIOUS
  <2> PICK b : b = <<s>>
    OBVIOUS
  <2> PICK c : c = <<h, h>>
    OBVIOUS
  <2>1. /\ a \in Seq(DataUnit) /\ b \in Seq(DataUnit) /\ c \in Seq(DataUnit)
        /\ Heads(a) = <<"T">> /\ Heads(b) = <<"SE">> /\ Heads(c) = <<"HB", "HB">> /\ IsHartBeat(c)
    BY <1>0, HeadsOf DEF IsHartBeat
  <2>2. OfFem(<<a, b, c>>, fem)
    BY <1>0 DEF OfFem
  <2>3. Heads(a) \in Forms(split) /\ Heads(b) \in Forms(split) /\ Heads(c) \in Forms(split) /\ split \in 0 .. 1
    BY <1>2, <2>1 DEF Forms
  <2>4. w = (a \o b) \o c
    BY <1>0, Pair, PairAndOne, Triple, TripleAndOne, Quadruple
  <2>5. /\ split = 0 => IsHartBeat(b)
        /\ split = 1 => Heads(a) = <<"T">> /\ Heads(b) = <<"SE">> /\ Heads(c) = <<"HB", "HB">>
    BY <1>0, <1>2, <2>1 DEF IsHartBeat
  <2> QED BY ONLY <2>1, <2>2, <2>3, <2>4, <2>5, BeatOfThree
<1>3. CASE split = 2
  <2> PICK a : a = <<t, s, h>>
    OBVIOUS
  <2> PICK b : b = <<h>>
    OBVIOUS
  <2>1. a \in Seq(DataUnit) /\ b \in Seq(DataUnit) /\ Heads(a) = <<"T", "SE", "HB">> /\ Heads(b) = <<"HB">>
        /\ IsHartBeat(b)
    BY <1>0, HeadsOf DEF IsHartBeat
  <2>2. OfFem(<<a, b>>, fem)
    BY <1>0 DEF OfFem
  <2>3. Heads(a) \in Forms(split) /\ Heads(b) \in Forms(split)
    BY <1>3, <2>1 DEF Forms
  <2>4. w = a \o b
    BY <1>0, Pair, PairAndOne, Triple, TripleAndOne, Quadruple
  <2>5. /\ split = 1 => Heads(b) = <<"HB", "HB">>
        /\ split = 2 => Heads(a) # <<"HB">>
        /\ ~TRUE => split # 2 /\ Heads(a) # <<"SE">>
    BY <1>3, <2>1, <2>3
  <2>6. TRUE \in BOOLEAN
    OBVIOUS
  <2> QED BY ONLY split \in 0 .. 2, <2>1, <2>2, <2>3, <2>4, <2>5, <2>6, BeatOfTwo
<1>4. split = 0 \/ split = 1 \/ split = 2
  OBVIOUS
<1> QED BY <1>1, <1>2, <1>3, <1>4

\* What there is in a file for a heartbeat.
WordOf(head, fem, n, sig) == [head |-> head, fem |-> fem, hb |-> n, sig |-> sig]
BeatOf(frame, fem, n) ==
    (IF frame.contents[fem][n] = "none" THEN <<>>
        ELSE <<WordOf("T", fem, n, frame.contents[fem][n] = "trigger")>>)
    \o (IF frame.spill /\ n = Len(frame.contents[fem]) THEN <<WordOf("SE", fem, n, FALSE)>> ELSE <<>>)
    \o <<WordOf("HB", fem, n, FALSE), WordOf("HB", fem, n, FALSE)>>

\* The words of a front end are those of its heartbeats.
LEMMA WordsAre ==
  ASSUME NEW frame, NEW fem
  PROVE  Words(frame, fem) = FlattenSeq([n \in DOMAIN frame.contents[fem] |-> BeatOf(frame, fem, n)])
BY DEF Words, BeatOf, WordOf

\* They are data units.
LEMMA WordIs ==
  ASSUME NEW fem \in FemSet, NEW n \in Nat
  PROVE  /\ \A sig \in BOOLEAN : IsA(WordOf("T", fem, n, sig), "T", fem)
         /\ IsA(WordOf("SE", fem, n, FALSE), "SE", fem) /\ IsA(WordOf("HB", fem, n, FALSE), "HB", fem)
BY DEF WordOf, IsA, DataUnit

\* Every heartbeat can be cut, with every split method.
LEMMA BeatIs ==
  ASSUME NEW frame \in TimeFrames, NEW fem \in FemSet, NEW n \in DOMAIN frame.contents[fem], NEW split \in 0 .. 2
  PROVE  /\ BeatOf(frame, fem, n) \in Seq(Unit)
         /\ IsBeat(BeatOf(frame, fem, n), split, fem, frame.spill /\ n = Len(frame.contents[fem]))
<1>1. frame.contents[fem] \in Seq({"none", "hit", "trigger"}) /\ frame.spill \in BOOLEAN
  BY ReplayAssumption
<1> PICK contents : contents = frame.contents[fem]
  OBVIOUS
<1>2. n \in Nat
  BY <1>1
<1> PICK ends : ends = (frame.spill /\ n = Len(contents))
  OBVIOUS
<1>3. ends \in BOOLEAN
  OBVIOUS
<1> PICK t : t = WordOf("T", fem, n, contents[n] = "trigger")
  OBVIOUS
<1> PICK s : s = WordOf("SE", fem, n, FALSE)
  OBVIOUS
<1> PICK h : h = WordOf("HB", fem, n, FALSE)
  OBVIOUS
<1>4. IsA(t, "T", fem) /\ IsA(s, "SE", fem) /\ IsA(h, "HB", fem)
  <2>1. (contents[n] = "trigger") \in BOOLEAN
    OBVIOUS
  <2> QED BY <1>2, <2>1, WordIs
<1>5. t \in Unit /\ s \in Unit /\ h \in Unit
  BY <1>4 DEF IsA, Unit
<1> PICK a : a = (IF contents[n] = "none" THEN <<>> ELSE <<t>>)
  OBVIOUS
<1> PICK b : b = (IF ends THEN <<s>> ELSE <<>>)
  OBVIOUS
<1> PICK c : c = <<h, h>>
  OBVIOUS
<1> PICK w : w = a \o b \o c
  BY ZenonT(40)
<1>6. BeatOf(frame, fem, n) = w
  <2>1. b = (IF frame.spill /\ n = Len(contents) THEN <<s>> ELSE <<>>)
    OBVIOUS
  <2> QED BY <2>1, ZenonT(40) DEF BeatOf
<1>7. a \in Seq(Unit) /\ b \in Seq(Unit) /\ c \in Seq(Unit)
  <2>1. <<>> \in Seq(Unit) /\ <<t>> \in Seq(Unit) /\ <<s>> \in Seq(Unit) /\ c \in Seq(Unit)
    BY ONLY <1>5, c = <<h, h>>
  <2> QED BY <2>1
<1>8. w \in Seq(Unit)
  <2>1. a \o b \in Seq(Unit)
    BY <1>7, ConcatProperties
  <2> QED BY <1>7, <2>1, ConcatProperties, ZenonT(40)
<1>9. CASE a = <<>> /\ b = <<>> /\ ends = FALSE
  <2>1. w = <<h, h>>
    <3>1. a \o b = <<>>
      BY <1>9
    <3>2. <<>> \o c = c
      BY <1>7, ConcatEmptySeq, SMTT(30)
    <3> QED BY <3>1, <3>2
  <2> QED BY <1>4, <1>6, <1>8, <1>9, <2>1, BeatAlone
<1>10. CASE a = <<t>> /\ b = <<>> /\ ends = FALSE
  <2>1. w = <<t, h, h>>
    <3>1. a \o b = <<t>>
      BY <1>7, <1>10, ConcatEmptySeq
    <3>2. <<t>> \o <<h, h>> = <<t, h, h>>
      BY ONLY <1>5, Pair, PairAndOne, Triple, TripleAndOne
    <3> QED BY ONLY <3>1, <3>2, w = a \o b \o c, c = <<h, h>>
  <2>2. IsBeat(w, split, fem, ends)
    BY ONLY <1>4, <1>10, <2>1, split \in 0 .. 2, BeatWithHit
  <2> QED BY <1>6, <1>8, <2>2
<1>11. CASE a = <<>> /\ b = <<s>> /\ ends = TRUE
  <2>1. w = <<s, h, h>>
    <3>1. a \o b = <<s>>
      BY <1>7, <1>11, ConcatEmptySeq
    <3>2. <<s>> \o <<h, h>> = <<s, h, h>>
      BY ONLY <1>5, Triple
    <3> QED BY ONLY <3>1, <3>2, w = a \o b \o c, c = <<h, h>>
  <2> QED BY <1>4, <1>6, <1>8, <1>11, <2>1, BeatWithEnd
<1>12. CASE a = <<t>> /\ b = <<s>> /\ ends = TRUE
  <2>1. w = <<t, s, h, h>>
    <3>1. a \o b = <<t, s>>
      <4>1. <<t>> \o <<s>> = <<t, s>>
        BY ONLY <1>5, Pair, PairAndOne, Triple, TripleAndOne
      <4> QED BY <1>12, <4>1
    <3>2. <<t, s>> \o <<h, h>> = <<t, s, h, h>>
      BY ONLY <1>5, Quadruple
    <3> QED BY ONLY <3>1, <3>2, w = a \o b \o c, c = <<h, h>>
  <2>2. IsBeat(w, split, fem, ends)
    BY ONLY <1>4, <1>12, <2>1, split \in 0 .. 2, BeatWithBoth
  <2> QED BY <1>6, <1>8, <2>2
<1> QED BY <1>3, <1>9, <1>10, <1>11, <1>12

\* A sub time frame, in messages.
IsSourceOf(M, frame, fem, split) ==
    /\ M \in Seq(Seq(Unit)) /\ Spells(Words(frame, fem), M)
    /\ IsCutting(M, split) /\ EndsWhole(M, split) /\ OfFem(M, fem)
    /\ ~frame.spill => \A n \in 1 .. Len(M) : Heads(M[n]) # <<"SE">>

\* No heartbeat, no message.
LEMMA EmptySource ==
  ASSUME NEW split
  PROVE  <<>> \in Seq(Seq(Unit)) /\ Spells(<<>>, <<>>) /\ Open(<<>>, split) /\ \A fem : OfFem(<<>>, fem)
<1> PICK P : P = [n \in 0 .. 0 |-> 0]
  OBVIOUS
<1> PICK M : M = <<>>
  OBVIOUS
<1>1. M \in Seq(Seq(Unit)) /\ Len(M) = 0 /\ \A n : n \notin 1 .. Len(M)
  OBVIOUS
<1>2. P \in [0 .. 0 -> Nat] /\ P[0] = 0
  OBVIOUS
<1>3. Lies(M, M, P)
  BY <1>1, <1>2 DEF Lies
<1>4. IsCutting(M, split) /\ EndsWhole(M, split)
  BY <1>1 DEF IsCutting, EndsWhole
<1>5. Open(M, split)
  BY <1>1, <1>4 DEF Open
<1>6. \A fem : OfFem(M, fem)
  BY <1>1 DEF OfFem
<1> QED BY <1>1, <1>3, <1>5, <1>6 DEF Spells

\* Every front end can.
LEMMA SourceExists ==
  ASSUME NEW frame \in TimeFrames, NEW fem \in FemSet, NEW split \in 0 .. 2
  PROVE  Words(frame, fem) \in Seq(Unit) /\ \E M : IsSourceOf(M, frame, fem, split)
<1> PICK contents : contents = frame.contents[fem]
  OBVIOUS
<1> PICK N : N = Len(contents)
  OBVIOUS
<1>1. contents \in Seq({"none", "hit", "trigger"}) /\ frame.spill \in BOOLEAN
  BY ReplayAssumption
<1>2. DOMAIN contents = 1 .. N /\ N \in Nat
  BY <1>1
<1> PICK s : s = [n \in DOMAIN contents |-> BeatOf(frame, fem, n)]
  OBVIOUS
<1>3. s \in Seq(Seq(Unit)) /\ Len(s) = N /\ \A n \in 1 .. N : s[n] = BeatOf(frame, fem, n)
  <2>1. \A n \in 1 .. N : BeatOf(frame, fem, n) \in Seq(Unit)
    BY <1>2, BeatIs
  <2> PICK V : V = Seq(Unit)
    OBVIOUS
  <2>2. s = [n \in 1 .. N |-> BeatOf(frame, fem, n)]
    BY <1>2
  <2>3. s \in [1 .. N -> V]
    BY <2>1, <2>2
  <2>4. s \in Seq(V) /\ Len(s) = N
    BY ONLY <1>2, <2>3
  <2> QED BY <2>2, <2>4
<1>4. PICK F : /\ F \in [0 .. N -> Seq(Unit)] /\ F[0] = <<>>
               /\ \A n \in 1 .. N : F[n] = F[n - 1] \o s[n]
               /\ FlattenSeq(s) = F[N]
  <2>1. \E F : /\ F \in [0 .. Len(s) -> Seq(Unit)] /\ F[0] = <<>>
               /\ \A n \in 1 .. Len(s) : F[n] = F[n - 1] \o s[n]
               /\ FlattenSeq(s) = F[Len(s)]
    BY <1>3, FlatTrace
  <2> QED BY <1>3, <2>1
<1>5. Words(frame, fem) = F[N]
  BY <1>4, WordsAre
<1> DEFINE Ends(n) == frame.spill /\ n = N
           Has(n) == \E M \in Seq(Seq(Unit)) :
                /\ Spells(F[n], M) /\ IsCutting(M, split) /\ EndsWhole(M, split) /\ OfFem(M, fem)
                /\ ~Ends(n) => Open(M, split)
           S == {n \in Nat : n <= N => n = 0 \/ Has(n)}
<1>6. ASSUME NEW n \in 1 .. N, NEW M \in Seq(Seq(Unit)), Spells(F[n - 1], M), Open(M, split), OfFem(M, fem)
      PROVE  Has(n)
  <2>1. n - 1 \in 0 .. N /\ F[n - 1] \in Seq(Unit) /\ F[n] = F[n - 1] \o s[n] /\ n \in DOMAIN contents
    <3>1. n - 1 \in 0 .. N /\ n \in DOMAIN contents
      BY <1>2
    <3>2. F[n] = F[n - 1] \o s[n]
      BY <1>4
    <3>3. F[n - 1] \in Seq(Unit)
      BY <1>4, <3>1
    <3> QED BY <3>1, <3>2, <3>3
  <2>2. s[n] \in Seq(Unit) /\ IsBeat(s[n], split, fem, Ends(n))
    BY <1>3, <2>1, BeatIs
  <2>3. PICK L \in Seq(Seq(Unit)) :
            /\ Spells(s[n], L) /\ IsCutting(L, split) /\ EndsWhole(L, split) /\ OfFem(L, fem)
            /\ ~Ends(n) => Open(L, split)
    BY <2>2 DEF IsBeat
  <2> PICK O : O = M \o L
    OBVIOUS
  <2>4. Spells(F[n], O)
    BY <1>6, <2>1, <2>2, <2>3, SpellsConcat
  <2>5. IsJoined(O, M, L)
    BY Joined
  <2>6. O \in Seq(Seq(Unit))
    BY <2>5 DEF IsJoined
  <2>7. /\ IsCutting(O, split) /\ EndsWhole(O, split) /\ (Open(L, split) => Open(O, split))
        /\ \A f : OfFem(M, f) /\ OfFem(L, f) => OfFem(O, f)
    BY <1>6, <2>3, <2>5, JoinedCutting
  <2> QED BY <1>6, <2>3, <2>4, <2>6, <2>7
<1>7. 0 \in S
  OBVIOUS
<1>8. ASSUME NEW n \in Nat, n \in S PROVE n + 1 \in S
  <2> SUFFICES ASSUME n + 1 <= N PROVE Has(n + 1)
    OBVIOUS
  <2>1. n + 1 \in 1 .. N /\ (n + 1) - 1 = n /\ n <= N /\ ~Ends(n)
    BY <1>2
  <2>2. CASE n = 0
    <3> HIDE DEF Has
    <3>1. F[0] = <<>> /\ <<>> \in Seq(Seq(Unit)) /\ Spells(<<>>, <<>>) /\ Open(<<>>, split) /\ OfFem(<<>>, fem)
      BY <1>4, EmptySource
    <3> QED BY <1>6, <2>1, <2>2, <3>1
  <2>3. CASE n # 0
    <3>1. Has(n)
      BY <1>8, <2>1, <2>3
    <3>2. PICK M \in Seq(Seq(Unit)) : Spells(F[n], M) /\ Open(M, split) /\ OfFem(M, fem)
      BY <2>1, <3>1
    <3> HIDE DEF Has
    <3> QED BY <1>6, <2>1, <3>2
  <2> QED BY <2>2, <2>3
<1>9. Nat \subseteq S
  <2> HIDE DEF S
  <2> QED BY <1>7, <1>8, Induction
<1>10. N = 0 \/ Has(N)
  <2> HIDE DEF Has
  <2>1. N \in S /\ N <= N
    BY <1>2, <1>9
  <2> QED BY <2>1
<1>11. F[N] \in Seq(Unit)
  <2>1. N \in 0 .. N
    BY <1>2
  <2> QED BY <1>4, <2>1
<1>12. CASE N = 0
  <2> PICK M : M = <<>>
    OBVIOUS
  <2>1. F[N] = <<>> /\ M \in Seq(Seq(Unit)) /\ Spells(<<>>, M) /\ Open(M, split) /\ OfFem(M, fem)
    BY <1>4, <1>12, EmptySource
  <2>2. IsSourceOf(M, frame, fem, split)
    BY <1>5, <2>1 DEF IsSourceOf, Open
  <2> QED BY <1>5, <1>11, <2>2
<1>13. CASE Has(N)
  <2>1. PICK M \in Seq(Seq(Unit)) :
                /\ Spells(F[N], M) /\ IsCutting(M, split) /\ EndsWhole(M, split) /\ OfFem(M, fem)
                /\ ~Ends(N) => Open(M, split)
    BY <1>13
  <2>2. ~frame.spill => \A n \in 1 .. Len(M) : Heads(M[n]) # <<"SE">>
    BY <2>1 DEF Open
  <2>3. IsSourceOf(M, frame, fem, split)
    BY <1>5, <2>1, <2>2 DEF IsSourceOf
  <2> QED BY <1>5, <1>11, <2>3
<1> QED BY <1>10, <1>12, <1>13

-----------------------------------------------------------------------------
(* The frame a player makes of an original file. *)

\* A frame that is still being put together: k sub time frames, their words W.
Built(a, W, P, k, split, spill) ==
    /\ IsFrame(a) /\ IsCut(a, split) /\ IsWhole(a, split) /\ (k > 0 => Len(a) > 1)
    /\ W \in Seq(Unit) /\ Lies(W, a, P) /\ Cardinality(StfHeaders(a)) = k
    /\ \A h \in StfHeaders(a) : \E e \in h .. Len(a) :
        MessagesOf(a, h) = h + 1 .. e /\ a[h][1].length = 1 + (P[e] - P[h])
    /\ ~spill => \A i \in 2 .. Len(a) : Heads(a[i]) # <<"SE">>

\* The headers of a frame with one more sub time frame.
LEMMA AppendedHeaders ==
  ASSUME NEW a, IsFrame(a), NEW stf, NEW M, NEW b, IsFrame(b), NEW L, L = Len(a) + 1,
         ArePlaces(b, a, stf, M, L)
  PROVE  /\ StfHeaders(b) = StfHeaders(a) \union {L} /\ L \notin StfHeaders(a)
         /\ MessagesOf(b, L) = L + 1 .. Len(b)
         /\ \A h \in StfHeaders(a) : MessagesOf(b, h) = MessagesOf(a, h)
<1>1. /\ L \in Nat /\ L >= 2 /\ Len(b) = L + Len(M) /\ Len(b) \in Nat /\ Len(M) \in Nat /\ IsStf(b[L])
      /\ \A i \in 1 .. L - 1 : b[i] = a[i]
      /\ \A n \in 1 .. Len(M) : b[L + n] = M[n] /\ ~IsStf(M[n])
  BY DEF ArePlaces
<1>2. Len(a) = L - 1
  <2>1. Len(a) \in Nat
    BY FrameFacts
  <2> QED BY <2>1
<1>3. \A i \in 1 .. Len(b) : i \in 1 .. L - 1 \/ i = L \/ i \in L + 1 .. Len(b)
  BY ONLY <1>1
<1>4. \A i \in L + 1 .. Len(b) : ~IsStf(b[i])
  <2> TAKE i \in L + 1 .. Len(b)
  <2>1. PICK n \in 1 .. Len(M) : i = L + n
    <3>1. i - L \in 1 .. Len(M) /\ i = L + (i - L)
      BY ONLY <1>1, i \in L + 1 .. Len(b)
    <3> QED BY <3>1
  <2> QED BY <1>1, <2>1
<1>5. /\ \A i : i \in StfHeaders(a) <=> i \in 1 .. L - 1 /\ IsStf(a[i])
      /\ \A i : i \in StfHeaders(b) <=> i \in 1 .. Len(b) /\ IsStf(b[i])
  <2>1. \A p : \A i : IsFrame(p) => (i \in StfHeaders(p) <=> i \in 1 .. Len(p) /\ IsStf(p[i]))
    <3> TAKE p
    <3> TAKE i
    <3> SUFFICES ASSUME IsFrame(p) PROVE i \in StfHeaders(p) <=> i \in 1 .. Len(p) /\ IsStf(p[i])
      OBVIOUS
    <3>1. DOMAIN p = 1 .. Len(p)
      BY FrameFacts
    <3> QED BY <3>1 DEF StfHeaders, IsStf
  <2> QED BY <1>2, <2>1
<1>6. StfHeaders(b) = StfHeaders(a) \union {L} /\ L \notin StfHeaders(a)
  <2>1. L \in 1 .. Len(b) /\ L \notin 1 .. L - 1 /\ \A i \in 1 .. L - 1 : i \in 1 .. Len(b)
    BY ONLY <1>1
  <2> QED BY <1>1, <1>3, <1>4, <1>5, <2>1
<1>7. L \in StfHeaders(b)
  BY <1>6
<1>8. MessagesOf(b, L) = L + 1 .. Len(b)
  <2>1. \A i \in L + 1 .. Len(b) : \A k \in L + 1 .. i : k \in L + 1 .. Len(b)
    BY ONLY <1>1
  <2> QED BY <1>4, <1>7, <2>1, MessageOf
<1>9. ASSUME NEW h \in StfHeaders(a) PROVE MessagesOf(b, h) = MessagesOf(a, h)
  <2>1. h \in StfHeaders(b) /\ h \in 1 .. L - 1
    BY <1>5, <1>6
  <2>2. ASSUME NEW i PROVE i \in MessagesOf(b, h) <=> i \in MessagesOf(a, h)
    <3>1. i \in MessagesOf(b, h) <=> i \in h + 1 .. Len(b) /\ \A k \in h + 1 .. i : ~IsStf(b[k])
      BY <2>1, MessageOf
    <3>2. i \in MessagesOf(a, h) <=> i \in h + 1 .. L - 1 /\ \A k \in h + 1 .. i : ~IsStf(a[k])
      BY <1>2, MessageOf
    <3>3. CASE i \in h + 1 .. L - 1
      <4>1. i \in h + 1 .. Len(b) /\ \A k \in h + 1 .. i : k \in 1 .. L - 1
        BY ONLY <1>1, <2>1, <3>3
      <4> QED BY <1>1, <3>1, <3>2, <3>3, <4>1
    <3>4. CASE i \notin h + 1 .. L - 1
      <4>1. i \in h + 1 .. Len(b) => L \in h + 1 .. i
        BY ONLY <1>1, <2>1, <3>4
      <4> QED BY <1>1, <3>1, <3>2, <3>4, <4>1
    <3> QED BY <3>3, <3>4
  <2> QED BY <2>2
<1> QED BY <1>6, <1>8, <1>9
\* The places in a frame with one more sub time frame.
AreLaid(R, x, b, P, a, n) ==
    /\ Lies(x, b, R) /\ \A i \in 0 .. Len(a) : R[i] = P[i]
    /\ R[Len(b)] - R[Len(a) + 1] = n

\* The messages behind are found behind the others.
LEMMA AppendedLies ==
  ASSUME NEW a \in Seq(Seq(Unit)), NEW W \in Seq(Unit), NEW P, Lies(W, a, P), NEW stf \in Unit,
         NEW words \in Seq(Unit), NEW M \in Seq(Seq(Unit)), Spells(words, M),
         NEW b, b = a \o <<<<stf>>>> \o M, NEW x, x = W \o (<<stf>> \o words)
  PROVE  /\ x \in Seq(Unit)
         /\ \E R : AreLaid(R, x, b, P, a, Len(words))
<1> PICK u : u = <<stf>>
  OBVIOUS
<1>1. u \in Seq(Unit) /\ Len(u) = 1
  OBVIOUS
<1>2. <<u>> \in Seq(Seq(Unit)) /\ Spells(u, <<u>>)
  BY <1>1, OneMessage
<1> PICK c : c = <<u>>
  OBVIOUS
<1>3. c \in Seq(Seq(Unit)) /\ Len(c) = 1 /\ c[1] = u
  BY <1>2
<1> PICK Q : Lies(u, c, Q)
  BY <1>2 DEF Spells
<1>4. Q[0] = 0 /\ Q[1] = 1
  <2>1. 1 \in 1 .. 1 /\ 1 - 1 = 0
    OBVIOUS
  <2>2. Q[0] = 0 /\ Q[1] = Q[0] + Len(c[1])
    BY <1>3, <2>1 DEF Lies
  <2> QED BY <1>1, <1>3, <2>2
<1> PICK l : l = Len(a)
  OBVIOUS
<1>5. l \in Nat /\ P \in [0 .. l -> Nat] /\ Len(W) = P[l]
  BY DEF Lies
<1>6. PICK R1 : Lies(W \o u, a \o c, R1) /\ IsBehind(R1, P, Q, Len(a), Len(c))
  BY <1>1, <1>3, LiesConcat, ZenonT(40)
<1>7. W \o u \in Seq(Unit)
  BY <1>1, ConcatProperties
<1> PICK y : y = W \o u
  OBVIOUS
<1> PICK d : d = a \o c
  OBVIOUS
<1>8. d \in Seq(Seq(Unit)) /\ Len(d) = l + 1
  <2> PICK V : V = Seq(Unit)
    OBVIOUS
  <2>1. a \in Seq(V) /\ c \in Seq(V)
    BY <1>3
  <2>2. d \in Seq(V) /\ Len(d) = Len(a) + Len(c)
    BY ONLY <2>1, d = a \o c
  <2> QED BY <1>3, <2>2
<1>9. PICK T : Lies(words, M, T)
  BY DEF Spells
<1>10. PICK R : Lies(y \o words, d \o M, R) /\ IsBehind(R, R1, T, Len(d), Len(M))
  BY <1>6, <1>7, <1>8, <1>9, LiesConcat
<1>11. y \o words = x
  <2>1. (W \o u) \o words = W \o (u \o words)
    BY <1>1, ConcatAssociative, SMTT(30)
  <2> QED BY <2>1
<1>12. x \in Seq(Unit)
  BY <1>7, <1>11, ConcatProperties
<1>13. Lies(x, b, R)
  BY <1>10, <1>11
<1>14. ASSUME NEW i \in 0 .. l PROVE R[i] = P[i]
  <2>1. i \in 0 .. Len(d) /\ i \in 0 .. Len(a)
    BY <1>5, <1>8
  <2> QED BY <1>6, <1>10, <2>1 DEF IsBehind
<1>15. R[l + 1] = P[l] + 1
  <2>1. l + 1 \in 0 .. Len(d) /\ 1 \in 0 .. Len(c)
    BY <1>3, <1>5, <1>8
  <2>2. R[l + 1] = R1[l + 1]
    BY <1>10, <2>1 DEF IsBehind
  <2>3. R1[l + 1] = P[l] + Q[1]
    BY <1>6, <2>1 DEF IsBehind
  <2> QED BY <1>4, <2>2, <2>3
<1>16. Len(M) \in Nat /\ T[Len(M)] = Len(words) /\ Len(words) \in Nat
  BY <1>9 DEF Lies
<1>17. R[Len(d) + Len(M)] = R1[Len(d)] + T[Len(M)]
  <2>1. Len(M) \in 0 .. Len(M)
    BY <1>16
  <2> QED BY <1>10, <2>1 DEF IsBehind
<1>18. Len(b) = Len(d) + Len(M)
  <2> PICK V : V = Seq(Unit)
    OBVIOUS
  <2>1. d \in Seq(V) /\ M \in Seq(V)
    BY <1>8
  <2>2. Len(d \o M) = Len(d) + Len(M)
    BY ONLY <2>1
  <2> QED BY <2>2
<1>19. R1[l + 1] = P[l] + 1
  <2>1. 1 \in 0 .. Len(c)
    BY <1>3
  <2>2. R1[l + 1] = P[l] + Q[1]
    BY <1>6, <2>1 DEF IsBehind
  <2> QED BY <1>4, <2>2
<1>20. R[Len(b)] = (P[l] + 1) + Len(words)
  BY <1>8, <1>16, <1>17, <1>18, <1>19
<1>21. P[l] \in Nat
  <2>1. l \in 0 .. l
    BY <1>5
  <2> QED BY <1>5, <2>1
<1>22. R[Len(b)] - R[Len(a) + 1] = Len(words)
  BY <1>15, <1>16, <1>20, <1>21, SMTT(30)
<1>23. AreLaid(R, x, b, P, a, Len(words))
  BY <1>13, <1>14, <1>22 DEF AreLaid
<1> QED BY <1>12, <1>23

\* Wherever its messages are.
Building(a, W, k, split, spill) == \E P : Built(a, W, P, k, split, spill)
IsStep(b, x, a, W, stf, words, M) ==
    b = a \o <<<<stf>>>> \o M /\ x = W \o (<<stf>> \o words)
HasEnd(M, spill) == spill \/ \A n \in 1 .. Len(M) : Heads(M[n]) # <<"SE">>

\* One more sub time frame.
LEMMA BuiltNext ==
  ASSUME NEW split \in 0 .. 2, NEW spill, NEW k \in Nat, NEW a, NEW W, Building(a, W, k, split, spill),
         NEW stf \in StfUnit, NEW words \in Seq(Unit), stf.length = Len(words) + 1,
         NEW M \in Seq(Seq(Unit)), Spells(words, M), IsCutting(M, split), EndsWhole(M, split),
         OfFem(M, stf.fem), HasEnd(M, spill),
         NEW b, NEW x, IsStep(b, x, a, W, stf, words, M)
  PROVE  b[1] = a[1] /\ Building(b, x, k + 1, split, spill)
<1> PICK P : Built(a, W, P, k, split, spill)
  BY DEF Building
<1>0. stf \in Unit /\ IsFrame(a) /\ a \in Seq(Seq(Unit)) /\ W \in Seq(Unit) /\ Lies(W, a, P)
  BY FrameFacts DEF Unit, Built
<1>s. b = a \o <<<<stf>>>> \o M /\ x = W \o (<<stf>> \o words)
  BY DEF IsStep
<1>1. IsAppended(b, a, stf, M)
  BY <1>0, <1>s, AppendIs
<1> PICK L : L = Len(a) + 1
  OBVIOUS
<1>2. ArePlaces(b, a, stf, M, L)
  BY <1>0, <1>1, AppendedPlaces
<1>3. IsFrame(b) /\ Len(b) > 1 /\ b[1] = a[1]
  BY <1>0, <1>1, AppendedIsFrame
<1>4. IsCut(b, split) /\ IsWhole(b, split)
  BY <1>0, <1>1, AppendedIsCut DEF Built
<1>5. /\ StfHeaders(b) = StfHeaders(a) \union {L} /\ L \notin StfHeaders(a)
      /\ MessagesOf(b, L) = L + 1 .. Len(b)
      /\ \A h \in StfHeaders(a) : MessagesOf(b, h) = MessagesOf(a, h)
  BY ONLY <1>0, <1>2, <1>3, L = Len(a) + 1, AppendedHeaders
<1>6. x \in Seq(Unit)
  BY <1>0, <1>s, AppendedLies
<1> PICK R : AreLaid(R, x, b, P, a, Len(words))
  BY <1>0, <1>s, AppendedLies
<1>7. /\ Lies(x, b, R) /\ \A i \in 0 .. Len(a) : R[i] = P[i]
      /\ R[Len(b)] - R[Len(a) + 1] = Len(words)
  BY DEF AreLaid
<1>8. Cardinality(StfHeaders(b)) = k + 1
  <2> PICK H : H = StfHeaders(a)
    OBVIOUS
  <2>1. IsFiniteSet(H) /\ L \notin H /\ Cardinality(H) = k
    BY <1>0, <1>5, HeadersFinite DEF Built
  <2>2. Cardinality(H \union {L}) = Cardinality(H) + 1
    BY <2>1, FS_AddElement
  <2> QED BY <1>5, <2>1, <2>2
<1>9. /\ L \in Nat /\ L >= 2 /\ Len(b) = L + Len(M) /\ Len(b) \in Nat /\ Len(M) \in Nat /\ b[L] = <<stf>>
      /\ \A i \in 1 .. L - 1 : b[i] = a[i]
      /\ \A n \in 1 .. Len(M) : b[L + n] = M[n]
      /\ \A i \in 2 .. Len(b) : i \in 2 .. L - 1 \/ i = L \/ i - L \in 1 .. Len(M)
  BY <1>2 DEF ArePlaces
<1>10. Len(a) = L - 1 /\ Len(a) \in Nat
  <2>1. Len(a) \in Nat
    BY <1>0, FrameFacts
  <2> QED BY <2>1
<1>11. ASSUME NEW h \in StfHeaders(b)
       PROVE  \E e \in h .. Len(b) : MessagesOf(b, h) = h + 1 .. e /\ b[h][1].length = 1 + (R[e] - R[h])
  <2>1. CASE h = L
    <3>1. b[h][1].length = 1 + Len(words)
      <4>1. b[h][1].length = Len(words) + 1 /\ Len(words) \in Nat
        BY <1>9, <2>1
      <4> QED BY ONLY <4>1
    <3>2. Len(b) \in h .. Len(b)
      BY <1>9, <2>1
    <3>3. R[Len(b)] - R[h] = Len(words)
      BY <1>7, <2>1
    <3> QED BY <1>5, <2>1, <3>1, <3>2, <3>3
  <2>2. CASE h # L
    <3>1. h \in StfHeaders(a)
      BY <1>5, <2>2
    <3>2. PICK e \in h .. Len(a) : MessagesOf(a, h) = h + 1 .. e /\ a[h][1].length = 1 + (P[e] - P[h])
      BY <3>1 DEF Built
    <3>3. h \in 2 .. Len(a)
      BY <1>0, <3>1, FrameFacts
    <3>4. e \in h .. Len(b) /\ e \in 0 .. Len(a) /\ h \in 0 .. Len(a) /\ h \in 1 .. L - 1
      BY <1>9, <1>10, <3>3
    <3>5. b[h] = a[h] /\ R[e] = P[e] /\ R[h] = P[h]
      BY <1>7, <1>9, <3>4
    <3> QED BY <1>5, <3>1, <3>2, <3>4, <3>5
  <2> QED BY <2>1, <2>2
<1>12. ASSUME ~spill, NEW i \in 2 .. Len(b) PROVE Heads(b[i]) # <<"SE">>
  <2>1. CASE i \in 2 .. L - 1
    <3>1. i \in 2 .. Len(a) /\ i \in 1 .. L - 1
      BY <1>9, <1>10, <2>1
    <3> QED BY <1>9, <1>12, <3>1 DEF Built
  <2>2. CASE i = L
    <3>1. b[i] = <<stf>> /\ stf.head = "STF"
      BY <1>9, <2>2, Units
    <3>2. Heads(b[i]) = <<"STF">>
      BY <3>1, HeadsOf
    <3>3. <<"STF">>[1] # <<"SE">>[1]
      OBVIOUS
    <3> QED BY <3>2, <3>3
  <2>3. CASE i - L \in 1 .. Len(M)
    <3> PICK n : n = i - L
      OBVIOUS
    <3>1. n \in 1 .. Len(M) /\ i = L + n
      <4>1. i \in Nat
        BY <1>9
      <4> QED BY ONLY <1>9, <2>3, <4>1, n = i - L
    <3>2. \A m \in 1 .. Len(M) : Heads(M[m]) # <<"SE">>
      BY <1>12, Zenon DEF HasEnd
    <3>3. b[i] = M[n]
      BY <1>9, <3>1
    <3> QED BY <3>1, <3>2, <3>3
  <2> QED BY <1>9, <2>1, <2>2, <2>3
<1>13. Built(b, x, R, k + 1, split, spill)
  BY <1>3, <1>4, <1>6, <1>7, <1>8, <1>11, <1>12 DEF Built
<1> QED BY <1>3, <1>13 DEF Building

Source(frame, fem, split) == CHOOSE M : IsSourceOf(M, frame, fem, split)
Parts(frame, split) ==
    <<<<Head(FileOf(frame))>>>> \o FlattenSeq([k \in DOMAIN Fems |->
        <<<<StfOf(frame, Fems[k])>>>> \o Source(frame, Fems[k], split)])

\* Between two sub time frames.
LEMMA BuiltStart ==
  ASSUME NEW split, NEW spill, NEW tf \in TfUnit
  PROVE  \E P : Built(<<<<tf>>>>, <<tf>>, P, 0, split, spill)
<1> PICK a : a = <<<<tf>>>>
  OBVIOUS
<1> PICK u : u = <<tf>>
  OBVIOUS
<1>1. tf \in Unit /\ u \in Seq(Unit) /\ u # <<>> /\ u[1] = tf
  BY DEF Unit
<1>2. a \in Seq(Seq(Unit)) /\ Len(a) = 1 /\ a[1] = u /\ a # <<>>
  BY <1>1
<1>3. \A i : i \notin 2 .. Len(a)
  BY <1>2
<1>4. IsFrame(a) /\ IsCut(a, split) /\ IsWhole(a, split)
  BY <1>2, <1>3 DEF IsFrame, IsCut, IsWhole
<1>5. PICK P : Lies(u, a, P)
  BY <1>1, OneMessage DEF Spells
<1>6. StfHeaders(a) = {}
  BY <1>3, <1>4, FrameFacts
<1>7. Cardinality(StfHeaders(a)) = 0
  BY <1>6, FS_EmptySet
<1> QED BY <1>1, <1>3, <1>4, <1>5, <1>6, <1>7 DEF Built

\* The header of a sub time frame says how long it is.
LEMMA StfIs ==
  ASSUME NEW frame \in TimeFrames, NEW k \in DOMAIN Fems, NEW split \in 0 .. 2
  PROVE  /\ StfOf(frame, Fems[k]) \in StfUnit /\ StfOf(frame, Fems[k]).fem = Fems[k]
         /\ StfOf(frame, Fems[k]).length = Len(Words(frame, Fems[k])) + 1
         /\ Words(frame, Fems[k]) \in Seq(Unit)
         /\ Source(frame, Fems[k], split) \in Seq(Seq(Unit))
         /\ IsSourceOf(Source(frame, Fems[k], split), frame, Fems[k], split)
<1>1. Fems[k] \in FemSet
  BY DEF FemSet
<1>2. Words(frame, Fems[k]) \in Seq(Unit) /\ \E M : IsSourceOf(M, frame, Fems[k], split)
  BY <1>1, SourceExists
<1>3. IsSourceOf(Source(frame, Fems[k], split), frame, Fems[k], split)
  BY <1>2 DEF Source
<1>4. Source(frame, Fems[k], split) \in Seq(Seq(Unit))
  BY <1>3 DEF IsSourceOf
<1>5. Len(Words(frame, Fems[k])) + 1 \in Nat
  BY <1>2
<1>6. StfOf(frame, Fems[k]) = [head |-> "STF", fem |-> Fems[k], length |-> Len(Words(frame, Fems[k])) + 1,
                               numMessages |-> 0]
  BY DEF StfOf
<1>7. StfOf(frame, Fems[k]) \in StfUnit
  BY <1>1, <1>5, <1>6 DEF StfUnit
<1> QED BY <1>2, <1>3, <1>4, <1>6, <1>7

\* What the filter gets the first time.
IsOriginal(parts, words, split, spill) ==
    /\ IsFrame(parts) /\ Len(parts) > 1 /\ IsCut(parts, split) /\ IsWhole(parts, split) /\ AreLong(parts)
    /\ words \in Seq(Unit) /\ words # <<>> /\ words[1] = parts[1][1] /\ Spells(words, parts)
    /\ parts[1][1].numSource = Len(Fems) /\ Cardinality(StfHeaders(parts)) = Len(Fems)
    /\ ~spill => \A i \in 2 .. Len(parts) : Heads(parts[i]) # <<"SE">>

\* The lengths of a frame follow from the places.
LEMMA BuiltIsLong ==
  ASSUME NEW a, NEW W, NEW P, NEW k, NEW split, NEW spill, Built(a, W, P, k, split, spill),
         a[1][1].length = Len(W)
  PROVE  AreLong(a)
<1>1. IsFrame(a) /\ Lies(W, a, P)
  BY DEF Built
<1>2. a \in Seq(Seq(Unit)) /\ Len(a) \in Nat /\ DOMAIN a = 1 .. Len(a)
  BY <1>1, FrameFacts
<1>3. P[0] = 0 /\ Len(W) = P[Len(a)] /\ \A n \in 0 .. Len(a) : P[n] \in Nat
  BY <1>1 DEF Lies
<1>4. Size(a, DOMAIN a) = Len(W)
  <2>1. 0 \in 0 .. Len(a) /\ Len(a) \in 0 .. Len(a)
    BY <1>2
  <2>2. Size(a, 0 + 1 .. Len(a)) = P[Len(a)] - P[0]
    BY <1>1, <1>2, <2>1, SizeRange
  <2>3. 0 + 1 .. Len(a) = DOMAIN a
    BY <1>2
  <2>4. P[Len(a)] - P[0] = P[Len(a)]
    BY <1>3, <2>1
  <2> QED BY <1>3, <2>2, <2>3, <2>4
<1>5. ASSUME NEW h \in StfHeaders(a) PROVE a[h][1].length = 1 + Size(a, MessagesOf(a, h))
  <2>1. PICK e \in h .. Len(a) : MessagesOf(a, h) = h + 1 .. e /\ a[h][1].length = 1 + (P[e] - P[h])
    BY DEF Built
  <2>2. h \in 0 .. Len(a)
    <3>1. h \in 2 .. Len(a)
      BY <1>1, FrameFacts
    <3> QED BY <1>2, <3>1
  <2>3. Size(a, h + 1 .. e) = P[e] - P[h]
    BY <1>1, <1>2, <2>1, <2>2, SizeRange
  <2> QED BY <2>1, <2>3
<1> QED BY <1>4, <1>5 DEF AreLong

\* One unit before others.
LEMMA HeadConcat ==
  ASSUME NEW V, NEW u \in Seq(V), Len(u) = 1, NEW y \in Seq(V), NEW x, x = u \o y
  PROVE  x \in Seq(V) /\ Len(x) = Len(y) + 1 /\ x[1] = u[1] /\ x # <<>> /\ Head(x) = u[1]
<1>1. x \in Seq(V) /\ Len(x) = Len(u) + Len(y) /\ \A i \in 1 .. Len(u) + Len(y) :
        x[i] = IF i <= Len(u) THEN u[i] ELSE y[i - Len(u)]
  BY ConcatProperties
<1>2. Len(y) \in Nat
  OBVIOUS
<1>3. Len(x) = Len(y) + 1 /\ x[1] = u[1]
  BY <1>1, <1>2
<1>4. x # <<>>
  BY <1>1, <1>2, <1>3
<1>5. Head(x) = x[1]
  BY ONLY <1>1, <1>4
<1> QED BY <1>1, <1>3, <1>4, <1>5

\* The header of a time frame.
TfOf(frame) ==
    LET stfs == FlattenSeq([k \in DOMAIN Fems |-> <<StfOf(frame, Fems[k])>> \o Words(frame, Fems[k])])
    IN  [head |-> "TF", numSource |-> Len(Fems), length |-> Len(stfs) + 1]

\* What a player should make of the file of an original.
LEMMA PartsAre ==
  ASSUME NEW frame \in TimeFrames, NEW split \in 0 .. 2
  PROVE  IsOriginal(Parts(frame, split), FileOf(frame), split, frame.spill)
<1> PICK N : N = Len(Fems)
  OBVIOUS
<1>1. N \in Nat \ {0} /\ DOMAIN Fems = 1 .. N
  <2>1. Fems \in Seq(FemSet) /\ Fems # <<>>
    BY ReplayAssumption
  <2>2. Len(Fems) \in Nat /\ DOMAIN Fems = 1 .. Len(Fems) /\ Len(Fems) # 0
    BY ONLY <2>1
  <2> QED BY <2>2
<1> DEFINE Stf(k) == StfOf(frame, Fems[k])
           Wd(k) == Words(frame, Fems[k])
           Src(k) == Source(frame, Fems[k], split)
<1>2. ASSUME NEW k \in 1 .. N
      PROVE  /\ Stf(k) \in StfUnit /\ Stf(k).fem = Fems[k] /\ Stf(k).length = Len(Wd(k)) + 1
             /\ Wd(k) \in Seq(Unit) /\ Src(k) \in Seq(Seq(Unit)) /\ IsSourceOf(Src(k), frame, Fems[k], split)
             /\ Stf(k) \in Unit
  <2>1. k \in DOMAIN Fems
    BY <1>1
  <2>2. StfUnit \subseteq Unit
    BY DEF Unit
  <2> QED BY <2>1, <2>2, StfIs
<1> PICK sW : sW = [k \in 1 .. N |-> <<Stf(k)>> \o Wd(k)]
  OBVIOUS
<1> PICK sM : sM = [k \in 1 .. N |-> <<<<Stf(k)>>>> \o Src(k)]
  OBVIOUS
<1>3. sW \in Seq(Seq(Unit)) /\ Len(sW) = N /\ \A k \in 1 .. N : sW[k] = <<Stf(k)>> \o Wd(k) /\ sW[k] \in Seq(Unit)
  <2>1. ASSUME NEW k \in 1 .. N PROVE <<Stf(k)>> \o Wd(k) \in Seq(Unit)
    <3>1. <<Stf(k)>> \in Seq(Unit) /\ Wd(k) \in Seq(Unit)
      BY <1>2
    <3> HIDE DEF Stf, Wd
    <3> QED BY <3>1, ConcatProperties
  <2> PICK V : V = Seq(Unit)
    OBVIOUS
  <2> HIDE DEF Stf, Wd
  <2>2. \A k \in 1 .. N : sW[k] = <<Stf(k)>> \o Wd(k) /\ sW[k] \in V
    BY <2>1
  <2>3. sW \in [1 .. N -> V]
    BY <2>2
  <2>4. sW \in Seq(V) /\ Len(sW) = N
    BY ONLY <1>1, <2>3
  <2> QED BY <2>2, <2>4
<1>4. sM \in Seq(Seq(Seq(Unit))) /\ Len(sM) = N
      /\ \A k \in 1 .. N : sM[k] = <<<<Stf(k)>>>> \o Src(k) /\ sM[k] \in Seq(Seq(Unit))
  <2>1. ASSUME NEW k \in 1 .. N PROVE <<<<Stf(k)>>>> \o Src(k) \in Seq(Seq(Unit))
    <3>1. <<<<Stf(k)>>>> \in Seq(Seq(Unit)) /\ Src(k) \in Seq(Seq(Unit))
      <4>1. Stf(k) \in Unit /\ Src(k) \in Seq(Seq(Unit))
        BY <1>2
      <4> HIDE DEF Stf, Src
      <4>2. <<Stf(k)>> \in Seq(Unit)
        BY <4>1
      <4> QED BY <4>1, <4>2, OneMessage
    <3> PICK V : V = Seq(Unit)
      OBVIOUS
    <3> HIDE DEF Stf, Src
    <3>2. <<<<Stf(k)>>>> \in Seq(V) /\ Src(k) \in Seq(V)
      BY <3>1
    <3>3. <<<<Stf(k)>>>> \o Src(k) \in Seq(V)
      BY ONLY <3>2
    <3> QED BY <3>3
  <2> PICK V : V = Seq(Seq(Unit))
    OBVIOUS
  <2> HIDE DEF Stf, Src
  <2>2. \A k \in 1 .. N : sM[k] = <<<<Stf(k)>>>> \o Src(k) /\ sM[k] \in V
    BY <2>1
  <2>3. sM \in [1 .. N -> V]
    BY <2>2
  <2>4. sM \in Seq(V) /\ Len(sM) = N
    BY ONLY <1>1, <2>3
  <2> QED BY <2>2, <2>4
<1>5. PICK F : /\ F \in [0 .. N -> Seq(Unit)] /\ F[0] = <<>>
               /\ \A n \in 1 .. N : F[n] = F[n - 1] \o sW[n]
               /\ FlattenSeq(sW) = F[N]
  <2>1. \E F : /\ F \in [0 .. Len(sW) -> Seq(Unit)] /\ F[0] = <<>>
               /\ \A n \in 1 .. Len(sW) : F[n] = F[n - 1] \o sW[n]
               /\ FlattenSeq(sW) = F[Len(sW)]
    BY <1>3, FlatTrace
  <2> QED BY <1>3, <2>1
<1>6. PICK G : /\ G \in [0 .. N -> Seq(Seq(Unit))] /\ G[0] = <<>>
               /\ \A n \in 1 .. N : G[n] = G[n - 1] \o sM[n]
               /\ FlattenSeq(sM) = G[N]
  <2> PICK V : V = Seq(Unit)
    OBVIOUS
  <2>1. sM \in Seq(Seq(V))
    BY <1>4
  <2>2. \E G : /\ G \in [0 .. Len(sM) -> Seq(V)] /\ G[0] = <<>>
               /\ \A n \in 1 .. Len(sM) : G[n] = G[n - 1] \o sM[n]
               /\ FlattenSeq(sM) = G[Len(sM)]
    BY ONLY <2>1, FlatTrace
  <2> QED BY <1>4, <2>2
<1> PICK tf : tf = TfOf(frame)
  OBVIOUS
<1>7. tf = [head |-> "TF", numSource |-> N, length |-> Len(F[N]) + 1] /\ F[N] \in Seq(Unit)
  <2>1. FlattenSeq(sW) = FlattenSeq([k \in DOMAIN Fems |-> <<StfOf(frame, Fems[k])>> \o Words(frame, Fems[k])])
    BY <1>1
  <2>2. N \in 0 .. N
    BY <1>1
  <2> QED BY <1>5, <2>1, <2>2 DEF TfOf
<1>8. tf \in TfUnit /\ tf \in Unit
  <2>1. Len(F[N]) + 1 \in Nat
    BY <1>7
  <2> QED BY <1>1, <1>7, <2>1 DEF TfUnit, Unit
<1>9. FileOf(frame) = <<tf>> \o F[N]
  <2>1. FlattenSeq(sW) = FlattenSeq([k \in DOMAIN Fems |-> <<StfOf(frame, Fems[k])>> \o Words(frame, Fems[k])])
    BY <1>1
  <2> QED BY <1>5, <1>7, <2>1 DEF FileOf
<1> PICK u : u = <<tf>>
  OBVIOUS
<1> PICK a0 : a0 = <<u>>
  OBVIOUS
<1>10. u \in Seq(Unit) /\ Len(u) = 1 /\ u[1] = tf /\ a0 \in Seq(Seq(Unit)) /\ Len(a0) = 1 /\ a0[1] = u
  <2>1. u \in Seq(Unit) /\ Len(u) = 1 /\ u[1] = tf
    BY <1>8
  <2>2. a0 \in Seq(Seq(Unit))
    BY <2>1, OneMessage
  <2> QED BY <2>1, <2>2
<1>11. Parts(frame, split) = a0 \o G[N]
  <2>1. Head(FileOf(frame)) = tf
    <3>1. F[N] \in Seq(Unit)
      BY <1>7
    <3> QED BY <1>9, <1>10, <3>1, HeadConcat
  <2>2. FlattenSeq(sM) = FlattenSeq([k \in DOMAIN Fems |-> <<<<StfOf(frame, Fems[k])>>>> \o Source(frame, Fems[k], split)])
    BY <1>1
  <2> QED BY <1>6, <2>1, <2>2 DEF Parts
<1> DEFINE A(k) == a0 \o G[k]
           W(k) == u \o F[k]
           Has(k) == A(k)[1] = u /\ \E P : Built(A(k), W(k), P, k, split, frame.spill)
           S == {k \in Nat : k <= N => Has(k)}
<1>12. 0 \in S
  <2>1. A(0) = a0 /\ W(0) = u
    <3>1. G[0] = <<>> /\ F[0] = <<>>
      BY <1>5, <1>6
    <3>2. u \o <<>> = u /\ a0 \o <<>> = a0
      BY <1>10, ConcatEmptySeq
    <3> QED BY <3>1, <3>2
  <2>2. \E P : Built(a0, u, P, 0, split, frame.spill)
    BY <1>8, BuiltStart
  <2> HIDE DEF A, W
  <2> QED BY <1>10, <2>1, <2>2
<1>13. ASSUME NEW k \in Nat, k \in S PROVE k + 1 \in S
  <2> SUFFICES ASSUME k + 1 <= N PROVE Has(k + 1)
    <3> HIDE DEF Has
    <3> QED OBVIOUS
  <2> PICK n : n = k + 1
    OBVIOUS
  <2>1. n \in 1 .. N /\ n - 1 = k /\ k \in 0 .. N /\ k <= N
    BY <1>1
  <2>2. Has(k)
    BY <1>13, <2>1
  <2>3. F[n] = F[k] \o sW[n] /\ G[n] = G[k] \o sM[n] /\ F[k] \in Seq(Unit) /\ G[k] \in Seq(Seq(Unit))
    BY <1>5, <1>6, <2>1
  <2> PICK stf : stf = Stf(n)
    OBVIOUS
  <2> PICK words : words = Wd(n)
    OBVIOUS
  <2> PICK M : M = Src(n)
    OBVIOUS
  <2>4. /\ stf \in StfUnit /\ stf.fem = Fems[n] /\ stf.length = Len(words) + 1
        /\ words \in Seq(Unit) /\ M \in Seq(Seq(Unit)) /\ IsSourceOf(M, frame, Fems[n], split)
        /\ stf \in Unit /\ sW[n] = <<stf>> \o words /\ sM[n] = <<<<stf>>>> \o M
        /\ sW[n] \in Seq(Unit) /\ sM[n] \in Seq(Seq(Unit)) /\ words = Words(frame, Fems[n])
    BY <1>2, <1>3, <1>4, <2>1
  <2>5. W(n) = W(k) \o (<<stf>> \o words)
    <3> PICK f : f = F[k]
      OBVIOUS
    <3> PICK s : s = sW[n]
      OBVIOUS
    <3>1. f \in Seq(Unit) /\ s \in Seq(Unit)
      BY <2>3, <2>4
    <3>2. (u \o f) \o s = u \o (f \o s)
      BY ONLY <1>10, <3>1, ConcatAssociative, SMTT(30)
    <3>3. W(k) = u \o f /\ W(n) = u \o (f \o s) /\ s = <<stf>> \o words
      BY <2>3, <2>4
    <3> QED BY ONLY <3>2, <3>3
  <2>6. A(n) = A(k) \o <<<<stf>>>> \o M
    <3> PICK V : V = Seq(Unit)
      OBVIOUS
    <3> PICK g : g = G[k]
      BY SMTT(30)
    <3> PICK c : c = <<<<stf>>>>
      OBVIOUS
    <3>1. a0 \in Seq(V) /\ g \in Seq(V) /\ c \in Seq(V) /\ M \in Seq(V)
      <4>1. <<stf>> \in Seq(Unit)
        BY <2>4
      <4>2. c \in Seq(Seq(Unit))
        BY <4>1, OneMessage
      <4> QED BY <1>10, <2>3, <2>4, <4>2
    <3> PICK d : d = c \o M
      OBVIOUS
    <3> PICK e : e = a0 \o g
      OBVIOUS
    <3>2. d \in Seq(V) /\ e \in Seq(V)
      BY <3>1, ConcatProperties
    <3>3. (a0 \o g) \o d = a0 \o (g \o d)
      <4>1. a0 \in Seq(V) /\ g \in Seq(V) /\ d \in Seq(V)
        BY <3>1, <3>2
      <4> QED BY ONLY <4>1, ConcatAssociative
    <3>4. (e \o c) \o M = e \o (c \o M)
      <4>1. e \in Seq(V) /\ c \in Seq(V) /\ M \in Seq(V)
        BY <3>1, <3>2
      <4> QED BY ONLY <4>1, ConcatAssociative, SMTT(30)
    <3>5. A(k) = e /\ A(n) = a0 \o (g \o d)
      BY <2>3, <2>4, ZenonT(40)
    <3>6. a0 \o (g \o d) = e \o d
      BY ONLY <3>3, e = a0 \o g
    <3>7. e \o d = (e \o c) \o M
      BY ONLY <3>4, d = c \o M
    <3> QED BY ONLY <3>5, <3>6, <3>7, c = <<<<stf>>>>
  <2> PICK a : a = A(k)
    OBVIOUS
  <2> PICK b : b = A(n)
    OBVIOUS
  <2> PICK v : v = W(k)
    OBVIOUS
  <2> PICK x : x = W(n)
    OBVIOUS
  <2> HIDE DEF A, W, Stf, Wd, Src
  <2>7. PICK P : Built(a, v, P, k, split, frame.spill)
    BY <2>2
  <2>8. /\ Spells(words, M) /\ IsCutting(M, split) /\ EndsWhole(M, split) /\ OfFem(M, stf.fem)
        /\ ~frame.spill => \A i \in 1 .. Len(M) : Heads(M[i]) # <<"SE">>
    BY <2>4 DEF IsSourceOf
  <2> PICK spill : spill = frame.spill
    OBVIOUS
  <2>s. stf \in StfUnit /\ words \in Seq(Unit) /\ M \in Seq(Seq(Unit))
    BY <2>4
  <2>9. b = a \o <<<<stf>>>> \o M /\ x = v \o (<<stf>> \o words)
    BY <2>5, <2>6
  <2>10. b[1] = a[1] /\ Building(b, x, k + 1, split, spill)
    <3>1. stf.length = Len(words) + 1
      BY <2>4
    <3>2. Building(a, v, k, split, spill)
      BY <2>7 DEF Building
    <3>3. /\ Spells(words, M) /\ IsCutting(M, split) /\ EndsWhole(M, split) /\ OfFem(M, stf.fem)
          /\ HasEnd(M, spill)
      BY <2>8 DEF HasEnd
    <3>4. IsStep(b, x, a, v, stf, words, M)
      BY <2>9 DEF IsStep
    <3> QED BY ONLY split \in 0 .. 2, k \in Nat, <2>s,
          <3>1, <3>2, <3>3, <3>4, BuiltNext
  <2>11. a[1] = u
    BY <2>2
  <2> QED BY <2>10, <2>11 DEF Building
<1>14. Has(N)
  <2> HIDE DEF S, Has
  <2>1. Nat \subseteq S
    BY <1>12, <1>13, Induction
  <2>2. N \in S /\ N <= N
    BY <1>1, <2>1
  <2> USE DEF S
  <2> QED BY <2>2
<1> PICK a : a = Parts(frame, split)
  OBVIOUS
<1> PICK w : w = FileOf(frame)
  OBVIOUS
<1>15. PICK P : Built(a, w, P, N, split, frame.spill)
  <2>1. A(N) = a /\ W(N) = w
    BY <1>9, <1>11
  <2> HIDE DEF A, W
  <2> QED BY <1>14, <2>1
<1>16. a[1] = u
  <2>1. A(N) = a
    BY <1>11
  <2> HIDE DEF A, W
  <2> QED BY <1>14, <2>1
<1>17. a[1][1].length = Len(w) /\ w # <<>> /\ w[1] = tf
  <2> PICK y : y = F[N]
    OBVIOUS
  <2>1. y \in Seq(Unit) /\ w = u \o y /\ u \in Seq(Unit) /\ Len(u) = 1 /\ u[1] = tf
    BY <1>7, <1>9, <1>10
  <2>2. Len(w) = Len(y) + 1 /\ w[1] = u[1] /\ w # <<>>
    BY <2>1, HeadConcat
  <2>3. tf.length = Len(y) + 1
    BY <1>7
  <2>4. Len(y) \in Nat
    BY <2>1
  <2> QED BY <1>10, <1>16, <2>2, <2>3, <2>4
<1>18. AreLong(a)
  <2> PICK spill : spill = frame.spill
    OBVIOUS
  <2>1. Built(a, w, P, N, split, spill)
    BY <1>15
  <2>2. a[1][1].length = Len(w)
    BY <1>17
  <2> QED BY ONLY <2>1, <2>2, BuiltIsLong
<1>19. a[1][1] = tf /\ tf.numSource = N
  <2>1. tf.numSource = N
    BY <1>7
  <2> QED BY <1>10, <1>16, <2>1
<1>20. IsOriginal(a, w, split, frame.spill)
  BY <1>1, <1>15, <1>17, <1>18, <1>19 DEF IsOriginal, Built, Spells
<1> QED BY <1>20

-----------------------------------------------------------------------------
(* What the players make of a file. *)

\* The messages of a file, one behind the other.
LEMMA FlatIs ==
  ASSUME NEW V, NEW M \in Seq(Seq(V)), NEW w \in Seq(V), Spells(w, M)
  PROVE  FlattenSeq(M) = w
<1> PICK f : f = FlattenSeq(M)
  OBVIOUS
<1>1. f \in Seq(V) /\ Spells(f, M)
  BY LiesFlat
<1>2. PICK P : Lies(w, M, P)
  BY DEF Spells
<1>3. PICK Q : Lies(f, M, Q)
  BY <1>1 DEF Spells
<1>4. Q = P
  BY <1>2, <1>3, PlacesAreOne
<1>5. Lies(f, M, P)
  BY <1>3, <1>4
<1>6. f = w
  BY ONLY <1>1, <1>2, <1>5, w \in Seq(V), M \in Seq(Seq(V)), SpellsOne
<1> QED BY <1>6

\* The file of an original is that of one time frame, without the header of a filter.
LEMMA OriginalUnfiltered ==
  ASSUME NEW parts, NEW words, NEW split, NEW spill, IsOriginal(parts, words, split, spill)
  PROVE  Unfiltered(FlattenSeq(<<words>>)) = words
<1>1. words \in Seq(Unit) /\ words # <<>> /\ words[1] = parts[1][1] /\ parts[1][1] \in TfUnit
  <2>1. IsFrame(parts)
    BY DEF IsOriginal
  <2> QED BY <2>1, FrameFacts DEF IsOriginal
<1>2. FlattenSeq(<<words>>) = words
  <2>1. <<words>> \in Seq(Seq(Unit)) /\ Spells(words, <<words>>)
    BY <1>1, OneMessage
  <2> QED BY <1>1, <2>1, FlatIs
<1>3. Head(words) = words[1]
  BY ONLY <1>1
<1>4. Head(words).head # "FLT"
  BY <1>1, <1>3, Units
<1> QED BY <1>2, <1>4 DEF Unfiltered

\* What comes after it.
LEMMA TailConcat ==
  ASSUME NEW V, NEW u \in Seq(V), Len(u) = 1, NEW y \in Seq(V), NEW x, x = u \o y
  PROVE  Tail(x) = y
<1>1. x \in Seq(V) /\ Len(x) = Len(y) + 1 /\ x # <<>>
  BY HeadConcat, SMTT(30)
<1>2. Len(y) \in Nat
  OBVIOUS
<1>3. \A i \in 1 .. Len(y) : x[i + 1] = y[i]
  <2> TAKE i \in 1 .. Len(y)
  <2>1. i + 1 \in 1 .. Len(u) + Len(y) /\ ~(i + 1 <= Len(u)) /\ (i + 1) - Len(u) = i
    BY <1>2
  <2>2. \A j \in 1 .. Len(u) + Len(y) : x[j] = IF j <= Len(u) THEN u[j] ELSE y[j - Len(u)]
    BY ConcatProperties
  <2> QED BY <2>1, <2>2
<1> PICK z : z = Tail(x)
  OBVIOUS
<1>4. z \in Seq(V) /\ Len(z) = Len(x) - 1 /\ \A i \in 1 .. Len(z) : z[i] = x[i + 1]
  BY <1>1, HeadTailProperties
<1>5. Len(z) = Len(y)
  BY <1>1, <1>2, <1>4
<1>6. \A i \in 1 .. Len(z) : z[i] = y[i]
  BY <1>3, <1>4, <1>5
<1>7. z = y
  BY ONLY <1>4, <1>5, <1>6, y \in Seq(V), SeqEqual
<1> QED BY <1>7

\* That of a frame the filter had sent, without its header.
LEMMA SentUnfiltered ==
  ASSUME NEW left, IsFrame(left), NEW x \in FltUnit, NEW sent, sent = <<<<x>>>> \o left
  PROVE  /\ Unfiltered(FlattenSeq(sent)) = FlattenSeq(left)
         /\ FlattenSeq(left) \in Seq(Unit) /\ Spells(FlattenSeq(left), left)
<1> PICK u : u = <<x>>
  OBVIOUS
<1> PICK w : w = FlattenSeq(left)
  OBVIOUS
<1>1. left \in Seq(Seq(Unit)) /\ x \in Unit /\ u \in Seq(Unit) /\ Len(u) = 1 /\ u[1] = x
  BY FrameFacts DEF Unit
<1>2. w \in Seq(Unit) /\ Spells(w, left)
  BY <1>1, LiesFlat
<1>3. <<u>> \in Seq(Seq(Unit)) /\ Spells(u, <<u>>)
  BY <1>1, OneMessage
<1> PICK f : f = u \o w
  OBVIOUS
<1>4. f \in Seq(Unit) /\ f # <<>> /\ Head(f) = x
  BY <1>1, <1>2, HeadConcat
<1>5. Spells(f, sent)
  BY <1>1, <1>2, <1>3, SpellsConcat
<1>6. sent \in Seq(Seq(Unit))
  <2>1. IsBefore(x, left, sent)
    BY <1>1, Before
  <2> QED BY <2>1 DEF IsBefore
<1>7. FlattenSeq(sent) = f
  BY <1>4, <1>5, <1>6, FlatIs, Zenon
<1>8. Tail(f) = w
  BY <1>1, <1>2, TailConcat
<1>9. Unfiltered(f) = w
  <2>1. x.head = "FLT"
    BY Units
  <2> QED BY <1>4, <1>8, <2>1, Zenon DEF Unfiltered
<1> QED BY <1>2, <1>7, <1>9

\* STFBFilePlayer makes the messages of an original.
LEMMA StfbPlays ==
  ASSUME NEW frame \in TimeFrames, NEW split \in {0, 1}
  PROVE  <<<<Head(FileOf(frame))>>>> \o FlattenSeq([k \in DOMAIN Fems |->
            <<<<StfOf(frame, Fems[k])>>>> \o STFBCut(Words(frame, Fems[k]), split)]) = Parts(frame, split)
<1>1. ASSUME NEW k \in DOMAIN Fems PROVE STFBCut(Words(frame, Fems[k]), split) = Source(frame, Fems[k], split)
  <2> PICK w : w = Words(frame, Fems[k])
    OBVIOUS
  <2> PICK M : M = Source(frame, Fems[k], split)
    OBVIOUS
  <2>1. w \in Seq(Unit) /\ M \in Seq(Seq(Unit)) /\ IsSourceOf(M, frame, Fems[k], split)
    BY StfIs
  <2>2. Spells(w, M) /\ IsCutting(M, split) /\ EndsWhole(M, split)
    BY <2>1 DEF IsSourceOf
  <2>3. IsMethod("STFB", split)
    BY DEF IsMethod
  <2>4. Cut("STFB", split, w) = Trimmed(M, split)
    BY <2>1, <2>2, <2>3, Recut
  <2>5. Trimmed(M, split) = M
    BY <2>1, <2>2, TrimmedIs
  <2> QED BY <2>4, <2>5 DEF STFBCut
<1>2. [k \in DOMAIN Fems |-> <<<<StfOf(frame, Fems[k])>>>> \o STFBCut(Words(frame, Fems[k]), split)]
        = [k \in DOMAIN Fems |-> <<<<StfOf(frame, Fems[k])>>>> \o Source(frame, Fems[k], split)]
  BY <1>1
<1>3. Parts(frame, split) = <<<<Head(FileOf(frame))>>>> \o FlattenSeq([k \in DOMAIN Fems |->
        <<<<StfOf(frame, Fems[k])>>>> \o Source(frame, Fems[k], split)])
  BY DEF Parts
<1> QED BY ONLY <1>2, <1>3

\* TFBFilePlayer makes the messages of an original.
LEMMA TfbPlays ==
  ASSUME NEW frame \in TimeFrames, NEW split \in 0 .. 2, NEW r, r = Replay(FlattenSeq(<<FileOf(frame)>>), split)
  PROVE  r.inside \in BOOLEAN /\ r.inside /\ r.parts = Parts(frame, split)
<1> PICK parts : parts = Parts(frame, split)
  OBVIOUS
<1> PICK words : words = FileOf(frame)
  OBVIOUS
<1>1. IsOriginal(parts, words, split, frame.spill)
  BY PartsAre
<1>2. Unfiltered(FlattenSeq(<<words>>)) = words
  BY <1>1, OriginalUnfiltered
<1>3. /\ IsFrame(parts) /\ IsCut(parts, split) /\ IsWhole(parts, split) /\ AreLong(parts)
      /\ words \in Seq(Unit) /\ Spells(words, parts)
      /\ Cardinality(StfHeaders(parts)) = parts[1][1].numSource
  BY <1>1 DEF IsOriginal
<1>4. r.inside \in BOOLEAN /\ r.inside /\ r.parts = parts
  BY <1>2, <1>3, Replayed
<1> QED BY <1>4

-----------------------------------------------------------------------------
(* Along a behaviour. *)

\* A frame on its way to the filter: the first time, one of an original.
IsArrived(parts, split, spill, n) ==
    /\ IsFrame(parts) /\ Len(parts) > 1 /\ IsCut(parts, split) /\ IsWhole(parts, split)
    /\ parts[1][1].numSource = Len(Fems)
    /\ n = 1 => AreLong(parts) /\ (~spill => \A i \in 2 .. Len(parts) : Heads(parts[i]) # <<"SE">>)

\* A frame from the filter: what is written of it the first time can be played.
IsSent(sent, split, suppress, spill, n) ==
    \E left : \E x \in FltUnit :
        /\ sent = <<<<x>>>> \o left /\ IsFrame(left) /\ IsCut(left, split)
        /\ left[1][1].numSource = Len(Fems)
        /\ suppress => HeadersAgreeIn(sent)
        /\ n = 1 => AreLong(left) /\ (~spill => IsWhole(left, split))

FileInv == file # <<>> =>
    IF pass = 1 THEN file = <<FileOf(original)>>
                ELSE IsSent(file, option.split, option.suppress, original.spill, 1)
InInv == inParts # <<>> =>
    \E parts : inParts = <<parts>> /\ IsArrived(parts, option.split, original.spill, pass)
OutInv ==
    /\ pc # "Receive" => outParts # <<>>
    /\ outParts # <<>> => \E sent : outParts = <<sent>>
            /\ IsSent(sent, option.split, option.suppress, original.spill, pass)
WrittenInv == pass = 1 /\ written # <<>> =>
    IsSent(written, option.split, option.suppress, original.spill, 1)

IInv ==
    /\ option \in Options /\ original \in TimeFrames /\ pass \in {1, 2}
    /\ FileInv /\ InInv /\ OutInv /\ WrittenInv

\* The first time a player makes the messages of the original.
LEMMA OriginalArrives ==
  ASSUME NEW frame \in TimeFrames, NEW split \in 0 .. 2
  PROVE  IsArrived(Parts(frame, split), split, frame.spill, 1)
<1> PICK parts : parts = Parts(frame, split)
  OBVIOUS
<1>1. IsOriginal(parts, FileOf(frame), split, frame.spill)
  BY PartsAre
<1>2. IsArrived(parts, split, frame.spill, 1)
  BY <1>1 DEF IsOriginal, IsArrived
<1> QED BY <1>2

\* From file to filter, in a replay.
LEMMA SentArrives ==
  ASSUME NEW split \in 0 .. 2, NEW suppress, NEW spill, NEW sent, IsSent(sent, split, suppress, spill, 1),
         NEW r, r = Replay(FlattenSeq(sent), split)
  PROVE  /\ r.inside \in BOOLEAN
         /\ r.inside => IsArrived(r.parts, split, spill, 2)
         /\ ~spill /\ Cardinality(StfHeaders(sent)) = Len(Fems) => r.inside /\ r.parts = Tail(sent)
<1>1. PICK left : \E x \in FltUnit :
        /\ sent = <<<<x>>>> \o left /\ IsFrame(left) /\ IsCut(left, split)
        /\ left[1][1].numSource = Len(Fems)
        /\ AreLong(left) /\ (~spill => IsWhole(left, split))
  BY DEF IsSent
<1>2. PICK x \in FltUnit : sent = <<<<x>>>> \o left
  BY <1>1
<1>3. /\ IsFrame(left) /\ IsCut(left, split) /\ left[1][1].numSource = Len(Fems)
      /\ AreLong(left) /\ (~spill => IsWhole(left, split))
  BY <1>1
<1> PICK U : U = FlattenSeq(left)
  OBVIOUS
<1>4. Unfiltered(FlattenSeq(sent)) = U /\ U \in Seq(Unit) /\ Spells(U, left)
  BY <1>2, <1>3, SentUnfiltered
<1>5. /\ r.inside \in BOOLEAN
      /\ r.inside => /\ IsFrame(r.parts) /\ Len(r.parts) > 1 /\ IsCut(r.parts, split)
                     /\ IsWhole(r.parts, split) /\ r.parts[1] = left[1]
      /\ IsWhole(left, split) /\ Cardinality(StfHeaders(left)) = left[1][1].numSource =>
             r.inside /\ r.parts = left
  BY <1>3, <1>4, Replayed
<1>6. r.inside => IsArrived(r.parts, split, spill, 2)
  BY <1>3, <1>5 DEF IsArrived
<1>7. IsBefore(x, left, sent) /\ Tail(sent) = left
  <2>1. x \in Unit
    BY DEF Unit
  <2> QED BY <1>2, <1>3, <2>1, Before
<1>8. Cardinality(StfHeaders(sent)) = Cardinality(StfHeaders(left))
  <2> PICK S : S = StfHeaders(left)
    OBVIOUS
  <2> PICK T : T = StfHeaders(sent)
    OBVIOUS
  <2>1. S \subseteq 2 .. Len(left) /\ Len(left) \in Nat /\ IsFiniteSet(S) /\ Len(sent) = Len(left) + 1
    BY <1>3, <1>7, FrameFacts, HeadersFinite DEF IsBefore
  <2>2. \A h : h \in T <=> h - 1 \in S /\ h \in 2 .. Len(sent)
    <3>1. x.head # "STF"
      BY Units
    <3> QED BY <1>3, <1>7, <3>1, HeadersBefore
  <2> DEFINE f == [h \in S |-> h + 1]
  <2>3. \A h \in S : h + 1 \in T
    BY <2>1, <2>2
  <2>4. f \in Bijection(S, T)
    <3>1. f \in [S -> T]
      BY <2>3
    <3>2. \A g, h \in S : f[g] = f[h] => g = h
      BY <2>1
    <3>3. \A t \in T : \E h \in S : f[h] = t
      <4> TAKE t \in T
      <4>1. t - 1 \in S /\ t \in 2 .. Len(sent)
        BY <2>2
      <4>2. f[t - 1] = t
        BY <2>1, <4>1
      <4> QED BY <4>1, <4>2
    <3> HIDE DEF f
    <3> QED BY <3>1, <3>2, <3>3 DEF Bijection, Injection, Surjection, IsInjective
  <2>5. Cardinality(S) = Cardinality(T)
    <3> HIDE DEF f
    <3>1. ExistsBijection(S, T)
      BY <2>4 DEF ExistsBijection
    <3> QED BY <2>1, <3>1, FS_Bijection
  <2> QED BY <2>5
<1>9. ~spill /\ Cardinality(StfHeaders(sent)) = Len(Fems) => r.inside /\ r.parts = Tail(sent)
  BY <1>3, <1>5, <1>7, <1>8
<1> QED BY <1>5, <1>6, <1>9

\* From the filter.
LEMMA FilterSends ==
  ASSUME NEW split, NEW suppress \in BOOLEAN, NEW removeHB, NEW spill, NEW n,
         NEW parts, IsArrived(parts, split, spill, n)
  PROVE  IsSent(Filtered(parts, split, suppress, removeHB, FemSet), split, suppress, spill, n)
<1>1. IsFrame(parts) /\ Len(parts) > 1 /\ IsCut(parts, split) /\ IsWhole(parts, split)
      /\ parts[1][1].numSource = Len(Fems)
      /\ (n = 1 => AreLong(parts) /\ (~spill => \A i \in 2 .. Len(parts) : Heads(parts[i]) # <<"SE">>))
  BY DEF IsArrived
<1> PICK sent : sent = Filtered(parts, split, suppress, removeHB, FemSet)
  OBVIOUS
<1>2. PICK left : \E x \in FltUnit :
        sent = <<<<x>>>> \o left /\ x.length = left[1][1].length + 1 /\ IsFiltered(parts, split, suppress, left)
  <2>1. IsOutput(sent, parts, split, suppress)
    BY <1>1, FilteredFrame
  <2> QED BY <2>1 DEF IsOutput
<1>3. PICK x \in FltUnit : sent = <<<<x>>>> \o left /\ x.length = left[1][1].length + 1
  BY <1>2
<1>4. IsFiltered(parts, split, suppress, left)
  BY <1>2
<1>5. IsFrame(left) /\ IsCut(left, split) /\ left[1][1].numSource = Len(Fems)
  BY <1>1, <1>4 DEF IsFiltered
<1>6. ASSUME suppress PROVE HeadersAgreeIn(sent)
  <2>1. x \in Unit
    BY DEF Unit
  <2>2. IsBefore(x, left, sent)
    BY <1>3, <1>5, <2>1, Before
  <2>3. AreLong(left) /\ \A h \in StfHeaders(left) : left[h][1].numMessages = Cardinality(MessagesOf(left, h))
    BY <1>4, <1>6 DEF IsFiltered
  <2> QED BY <1>3, <1>5, <2>2, <2>3, LongAgrees
<1>7. ASSUME n = 1 PROVE AreLong(left) /\ (~spill => IsWhole(left, split))
  <2>1. CASE suppress
    <3>1. AreLong(left)
      BY <1>4, <2>1 DEF IsFiltered
    <3>2. ~spill => IsWhole(left, split)
      BY <1>1, <1>4, <1>7, <2>1 DEF IsFiltered
    <3> QED BY <3>1, <3>2
  <2>2. CASE ~suppress
    <3>1. left = parts
      BY <1>4, <2>2 DEF IsFiltered
    <3> QED BY <1>1, <1>7, <3>1
  <2> QED BY <2>1, <2>2
<1>8. IsSent(sent, split, suppress, spill, n)
  BY <1>3, <1>5, <1>6, <1>7 DEF IsSent
<1> QED BY <1>8

\* How a run is started.
LEMMA OptionsAre ==
  ASSUME option \in Options
  PROVE  /\ option.split \in 0 .. 2 /\ option.suppress \in BOOLEAN
         /\ option.player = "STFB" => option.split \in {0, 1}
<1>1. /\ option.player \in {"STFB", "TFB"} /\ option.split \in 0 .. 2
      /\ option.suppress \in BOOLEAN /\ (option.split = 2 => option.player = "TFB")
  BY ReplayAssumption
<1> QED BY <1>1

LEMMA InitIInv == Init => IInv
<1> SUFFICES ASSUME Init PROVE IInv
  OBVIOUS
<1>1. file # <<>> => file = <<FileOf(original)>>
  BY DEF Init
<1> QED BY <1>1 DEF Init, IInv, FileInv, InInv, OutInv, WrittenInv

LEMMA PlaySubTimeFramesInv == IInv /\ PlaySubTimeFrames => IInv'
<1> SUFFICES ASSUME IInv, PlaySubTimeFrames PROVE IInv'
  OBVIOUS
<1>1. /\ option.split \in 0 .. 2 /\ option.split \in {0, 1}
      /\ pass = 1 /\ original \in TimeFrames
  BY OptionsAre DEF PlaySubTimeFrames, IInv
<1>2. inParts' = <<Parts(original, option.split)>>
  <2>1. <<<<Head(FileOf(original))>>>> \o FlattenSeq([k \in DOMAIN Fems |->
            <<<<StfOf(original, Fems[k])>>>> \o STFBCut(Words(original, Fems[k]), option.split)])
        = Parts(original, option.split)
    BY <1>1, StfbPlays
  <2> QED BY <2>1 DEF PlaySubTimeFrames
<1>3. IsArrived(Parts(original, option.split), option.split, original.spill, 1)
  BY <1>1, OriginalArrives
<1>4. UNCHANGED <<option, original, pass, outParts, pc, written>> /\ file' = <<>>
  BY DEF PlaySubTimeFrames
<1>5. InInv'
  <2> PICK parts : parts = Parts(original, option.split)
    OBVIOUS
  <2>1. inParts' = <<parts>> /\ IsArrived(parts, option'.split, original'.spill, pass')
    BY <1>1, <1>2, <1>3, <1>4
  <2> QED BY <2>1 DEF InInv
<1>6. FileInv' /\ OutInv' /\ WrittenInv'
  BY <1>4 DEF IInv, FileInv, OutInv, WrittenInv
<1> QED BY <1>4, <1>5, <1>6 DEF IInv

LEMMA PlayTimeFrameInv == IInv /\ PlayTimeFrame => IInv'
<1> SUFFICES ASSUME IInv, PlayTimeFrame PROVE IInv'
  OBVIOUS
<1>1. option.split \in 0 .. 2 /\ pass \in {1, 2} /\ original \in TimeFrames /\ file # <<>>
  BY OptionsAre DEF PlayTimeFrame, IInv
<1> PICK r : r = Replay(FlattenSeq(file), option.split)
  OBVIOUS
<1>2. inParts' = IF r.inside THEN <<r.parts>> ELSE <<>>
  BY DEF PlayTimeFrame
<1>3. r.inside \in BOOLEAN /\ (r.inside => IsArrived(r.parts, option.split, original.spill, pass))
  <2>1. CASE pass = 1
    <3>1. file = <<FileOf(original)>>
      BY <1>1, <2>1 DEF IInv, FileInv
    <3>2. r.inside \in BOOLEAN /\ r.inside /\ r.parts = Parts(original, option.split)
      BY <1>1, <3>1, TfbPlays
    <3>4. IsArrived(r.parts, option.split, original.spill, 1)
      BY <1>1, <3>2, OriginalArrives
    <3> QED BY <2>1, <3>2, <3>4
  <2>2. CASE pass = 2
    <3>1. IsSent(file, option.split, option.suppress, original.spill, 1)
      BY <1>1, <2>2 DEF IInv, FileInv
    <3>2. r.inside \in BOOLEAN /\ (r.inside => IsArrived(r.parts, option.split, original.spill, 2))
      BY <1>1, <3>1, SentArrives
    <3> QED BY <2>2, <3>2
  <2> QED BY <1>1, <2>1, <2>2
<1>4. UNCHANGED <<option, original, pass, outParts, pc, written>> /\ file' = <<>>
  BY DEF PlayTimeFrame
<1>5. InInv'
  <2> SUFFICES ASSUME inParts' # <<>>
               PROVE  \E parts : inParts' = <<parts>> /\ IsArrived(parts, option'.split, original'.spill, pass')
    BY DEF InInv
  <2>1. r.inside /\ inParts' = <<r.parts>>
    BY <1>2, <1>3
  <2>2. IsArrived(r.parts, option'.split, original'.spill, pass')
    BY <1>3, <1>4, <2>1
  <2> QED BY <2>1, <2>2
<1>6. FileInv' /\ OutInv' /\ WrittenInv'
  BY <1>4 DEF IInv, FileInv, OutInv, WrittenInv
<1> QED BY <1>4, <1>5, <1>6 DEF IInv

LEMMA FilterInv == IInv /\ Filter => IInv'
<1> SUFFICES ASSUME IInv, Filter PROVE IInv'
  OBVIOUS
<1>1. option.split \in 0 .. 2 /\ option.suppress \in BOOLEAN
  BY OptionsAre DEF IInv
<1>2. PICK parts : inParts = <<parts>> /\ IsArrived(parts, option.split, original.spill, pass)
  BY DEF IInv, InInv, Filter
<1> PICK sent : sent = Filtered(parts, option.split, option.suppress, option.removeHB, FemSet)
  OBVIOUS
<1>3. outParts' = <<sent>>
  <2>1. Head(inParts) = parts
    BY <1>2
  <2> QED BY <2>1 DEF Filter
<1>4. IsSent(sent, option.split, option.suppress, original.spill, pass)
  BY <1>1, <1>2, FilterSends
<1>5. UNCHANGED <<option, original, file, pass, written>> /\ inParts' = <<>>
  BY DEF Filter
<1>6. OutInv'
  <2>1. outParts' = <<sent>> /\ IsSent(sent, option'.split, option'.suppress, original'.spill, pass')
    BY <1>3, <1>4, <1>5
  <2>2. <<sent>> # <<>>
    OBVIOUS
  <2> QED BY <2>1, <2>2 DEF OutInv
<1>7. FileInv' /\ InInv' /\ WrittenInv'
  BY <1>5 DEF IInv, FileInv, InInv, WrittenInv
<1> QED BY <1>5, <1>6, <1>7 DEF IInv

LEMMA OutputSendInv == IInv /\ OutputSend => IInv'
<1> SUFFICES ASSUME IInv, OutputSend PROVE IInv'
  OBVIOUS
<1>1. UNCHANGED <<option, original, file, pass, inParts>> /\ pc = "Output"
  BY DEF OutputSend
<1>2. FileInv' /\ InInv'
  BY <1>1 DEF IInv, FileInv, InInv
<1>3. PICK sent : outParts = <<sent>> /\ IsSent(sent, option.split, option.suppress, original.spill, pass)
  BY <1>1 DEF IInv, OutInv
<1>4. CASE written' = Head(outParts) /\ outParts' = <<>> /\ pc' = "Receive"
  <2>1. written' = sent
    BY <1>3, <1>4
  <2>2. WrittenInv'
    <3> SUFFICES ASSUME pass' = 1
                 PROVE  IsSent(written', option'.split, option'.suppress, original'.spill, 1)
      BY DEF WrittenInv
    <3> QED BY <1>1, <1>3, <2>1
  <2>3. OutInv'
    BY <1>4 DEF OutInv
  <2> QED BY <1>1, <1>2, <2>2, <2>3 DEF IInv
<1>5. CASE UNCHANGED <<written, outParts, pc>>
  <2>1. OutInv' /\ WrittenInv'
    BY <1>1, <1>5 DEF IInv, OutInv, WrittenInv
  <2> QED BY <1>1, <1>2, <2>1 DEF IInv
<1> QED BY <1>4, <1>5 DEF OutputSend

LEMMA StartReplayInv == IInv /\ StartReplay => IInv'
<1> SUFFICES ASSUME IInv, StartReplay PROVE IInv'
  OBVIOUS
<1>1. /\ pass = 1 /\ written # <<>> /\ pass' = 2 /\ file' = written /\ written' = <<>>
      /\ UNCHANGED <<option, original, inParts, outParts, pc>>
  BY DEF StartReplay, channels
<1>2. FileInv'
  <2>1. IsSent(written, option.split, option.suppress, original.spill, 1)
    BY <1>1 DEF IInv, WrittenInv
  <2>2. IsSent(file', option'.split, option'.suppress, original'.spill, 1) /\ pass' # 1
    BY <1>1, <2>1
  <2> QED BY <2>2 DEF FileInv
<1>4. InInv'
  <2> SUFFICES ASSUME inParts # <<>>
               PROVE  \E parts : inParts' = <<parts>> /\ IsArrived(parts, option'.split, original'.spill, pass')
    BY <1>1 DEF InInv
  <2>1. PICK parts : inParts = <<parts>> /\ IsArrived(parts, option.split, original.spill, 1)
    BY <1>1 DEF IInv, InInv
  <2>2. IsArrived(parts, option.split, original.spill, 2)
    BY <2>1 DEF IsArrived
  <2> QED BY <1>1, <2>1, <2>2
<1>5. OutInv'
  <2>1. pc' # "Receive" => outParts' # <<>>
    BY <1>1 DEF IInv, OutInv
  <2> SUFFICES ASSUME outParts # <<>>
               PROVE  \E sent : outParts' = <<sent>>
                        /\ IsSent(sent, option'.split, option'.suppress, original'.spill, pass')
    BY <1>1, <2>1 DEF OutInv
  <2>2. PICK sent : outParts = <<sent>> /\ IsSent(sent, option.split, option.suppress, original.spill, 1)
    BY <1>1 DEF IInv, OutInv
  <2>3. IsSent(sent, option.split, option.suppress, original.spill, 2)
    BY <2>2 DEF IsSent
  <2> QED BY <1>1, <2>2, <2>3
<1>6. WrittenInv'
  BY <1>1 DEF WrittenInv
<1> QED BY <1>1, <1>2, <1>4, <1>5, <1>6 DEF IInv

LEMMA NextIInv == IInv /\ [Next]_vars => IInv'
<1> SUFFICES ASSUME IInv, [Next]_vars PROVE IInv'
  OBVIOUS
<1>1. CASE UNCHANGED <<option, original, file, pass, inParts, outParts, pc, written>>
  BY <1>1 DEF IInv, FileInv, InInv, OutInv, WrittenInv
<1>2. CASE DqmSend
  <2>1. UNCHANGED <<option, original, file, pass, inParts, outParts, written>> /\ pc = "Dqm"
    BY <1>2 DEF DqmSend, channels
  <2> QED BY <2>1 DEF IInv, FileInv, InInv, OutInv, WrittenInv
<1>3. CASE OutputStop
  <2>1. UNCHANGED <<option, original, file, pass, inParts, written>> /\ outParts' = <<>> /\ pc' = "Receive"
    BY <1>3 DEF OutputStop
  <2> QED BY <2>1 DEF IInv, FileInv, InInv, OutInv, WrittenInv
<1>4. CASE StopRequest
  BY <1>1, <1>4 DEF StopRequest, channels
<1>5. CASE UNCHANGED vars
  BY <1>1, <1>5 DEF vars, channels
<1> QED
  BY <1>2, <1>3, <1>4, <1>5, PlaySubTimeFramesInv, PlayTimeFrameInv, FilterInv, OutputSendInv,
     StartReplayInv
  DEF Next

\* What flttrig sends with suppression says of itself what it is: the lengths of the

\* filter's header, of the time frame and of the sub time frames, and the numbers of
\* messages, are those of what was left after the data without a trigger were
\* dropped, and every message comes after the header of its front end.
THEOREM HeadersAlwaysAgree == Spec => []HeadersAgree
<1>1. IInv => HeadersAgree
  <2> SUFFICES ASSUME IInv, outParts # <<>>, option.suppress PROVE HeadersAgreeIn(Head(outParts))
    BY HeadersAgreeInIs
  <2>1. PICK sent : outParts = <<sent>> /\ IsSent(sent, option.split, option.suppress, original.spill, pass)
    BY DEF IInv, OutInv
  <2>2. HeadersAgreeIn(sent)
    BY <2>1 DEF IsSent
  <2> QED BY <2>1, <2>2
<1> QED BY <1>1, InitIInv, NextIInv, PTL DEF Spec

\* TFBFilePlayer, which trusts the lengths and the number of sources it reads, never

\* leaves a file the filter has written and makes the messages of it again that the
\* filter had sent, with every split method and with or without suppression, if no
\* sub time frame lost its header and no spill ended.
THEOREM WhatWasWrittenIsReplayed == Spec => ReplayIsWhatWasWritten
<1>1. IInv /\ [Next]_vars => [(PlayTimeFrame /\ pass = 2 /\ ~original.spill
            /\ Cardinality(StfHeaders(file)) = Len(Fems))
        => (~undefined' /\ Head(inParts') = Tail(file))]_vars
  <2> SUFFICES ASSUME IInv, PlayTimeFrame, pass = 2, ~original.spill, Cardinality(StfHeaders(file)) = Len(Fems)
               PROVE  ~undefined' /\ Head(inParts') = Tail(file)
    OBVIOUS
  <2> PICK r : r = Replay(FlattenSeq(file), option.split)
    OBVIOUS
  <2>1. undefined' = ~r.inside /\ inParts' = (IF r.inside THEN <<r.parts>> ELSE <<>>) /\ file # <<>>
    BY DEF PlayTimeFrame
  <2>2. option.split \in 0 .. 2
    BY OptionsAre DEF IInv
  <2>3. IsSent(file, option.split, option.suppress, original.spill, 1)
    BY <2>1 DEF IInv, FileInv
  <2>4. r.inside \in BOOLEAN /\ r.inside /\ r.parts = Tail(file)
    BY <2>2, <2>3, SentArrives
  <2>5. ~undefined'
    <3>1. undefined' = ~r.inside /\ r.inside = TRUE
      BY <2>1, <2>4
    <3> QED BY <3>1
  <2>6. inParts' = <<r.parts>>
    BY <2>1, <2>4
  <2> QED BY <2>4, <2>5, <2>6
<1> QED BY <1>1, InitIInv, NextIInv, PTL DEF Spec, ReplayIsWhatWasWritten
=============================================================================
