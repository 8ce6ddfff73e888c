--------------------------- MODULE SequenceFacts ----------------------------
(***************************************************************************)
(* What the proofs share: what appending to a sequence, taking its head    *)
(* and joining two do to their elements, and induction on the naturals,    *)
(* stated of a set of numbers so that a proof can name the set it needs.   *)
(***************************************************************************)
EXTENDS Sequences, Naturals, SequenceTheorems, WellFoundedInduction, TLAPS

\* Among any numbers there is a smallest.
LEMMA SmallestOf ==
    ASSUME NEW T \in SUBSET Nat, T # {}
    PROVE  \E m \in T : \A n \in T : m <= n
<1> DEFINE R == OpToRel(<, Nat)
<1>1. IsWellFoundedOn(R, Nat)
  BY NatLessThanWellFounded
<1>2. \A m, n \in Nat : <<m, n>> \in R <=> m < n
  BY DEF OpToRel
<1> HIDE DEF R
<1>3. PICK m \in T : \A n \in T : ~(<<n, m>> \in R)
  BY <1>1, WFMin
<1>4. ASSUME NEW n \in T PROVE m <= n
  <2>1. m \in Nat /\ n \in Nat /\ ~(n < m)
    BY <1>2, <1>3
  <2> QED
    BY <2>1
<1> QED
  BY <1>4

\* A set of numbers with 0 and the successor of each of its members has them all.
LEMMA AllNumbers ==
    ASSUME NEW S \in SUBSET Nat, 0 \in S, \A n \in Nat : n \in S => n + 1 \in S
    PROVE  S = Nat
<1> SUFFICES ASSUME Nat \ S # {} PROVE FALSE
  OBVIOUS
<1>1. PICK m \in Nat \ S : \A n \in Nat \ S : m <= n
  BY SmallestOf
<1>2. m - 1 \in Nat /\ m - 1 \in S /\ m - 1 + 1 = m
  BY <1>1
<1> QED
  BY <1>1, <1>2

\* Whatever is computed from one number to the next can be written down as a function.
IsRun(g, X, x, N, G) ==
    g \in [0 .. N -> X] /\ g[0] = x /\ \A k \in 1 .. N : g[k] = G[<<k, g[k - 1]>>]

LEMMA RunExists ==
    ASSUME NEW X, NEW x \in X, NEW N \in Nat, NEW G \in [(1 .. N) \X X -> X]
    PROVE  \E g : IsRun(g, X, x, N, G)
<1> DEFINE Runs(m) == \E g \in [0 .. m -> X] : g[0] = x /\ \A k \in 1 .. m : g[k] = G[<<k, g[k - 1]>>]
           S == {m \in Nat : m <= N => Runs(m)}
<1>1. 0 \in S
  <2> DEFINE h == [k \in 0 .. 0 |-> x]
  <2>1. h \in [0 .. 0 -> X] /\ h[0] = x
    OBVIOUS
  <2> HIDE DEF h
  <2>2. Runs(0)
    BY <2>1
  <2> QED
    BY <2>2
<1>2. ASSUME NEW m \in Nat, m \in S PROVE m + 1 \in S
  <2> SUFFICES ASSUME m + 1 <= N PROVE Runs(m + 1)
    BY <1>2
  <2>1. Runs(m)
    BY <1>2
  <2>2. PICK g \in [0 .. m -> X] : g[0] = x /\ \A k \in 1 .. m : g[k] = G[<<k, g[k - 1]>>]
    BY <2>1
  <2> DEFINE y == G[<<m + 1, g[m]>>]
             h == [k \in 0 .. m + 1 |-> IF k = m + 1 THEN y ELSE g[k]]
  <2>3. m + 1 \in 1 .. N /\ g[m] \in X
    OBVIOUS
  <2>4. y \in X
    BY <2>3
  <2>5. h \in [0 .. m + 1 -> X]
    BY <2>4
  <2>6. /\ h[m + 1] = y /\ \A k \in 0 .. m : h[k] = g[k]
    OBVIOUS
  <2> HIDE DEF h
  <2>7. \A k \in 1 .. m + 1 : h[k] = G[<<k, h[k - 1]>>]
    <3> SUFFICES ASSUME NEW k \in 1 .. m + 1 PROVE h[k] = G[<<k, h[k - 1]>>]
      OBVIOUS
    <3>1. CASE k = m + 1
      <4>1. k - 1 = m /\ m \in 0 .. m
        BY <3>1
      <4> QED
        BY <2>6, <3>1, <4>1
    <3>2. CASE k # m + 1
      <4>1. k \in 1 .. m /\ k \in 0 .. m /\ k - 1 \in 0 .. m
        BY <3>2
      <4> QED
        BY <2>2, <2>6, <4>1
    <3> QED
      BY <3>1, <3>2
  <2>8. h[0] = x
    BY <2>2, <2>6
  <2> QED
    BY <2>5, <2>7, <2>8
<1> HIDE DEF Runs
<1>3. S = Nat
  <2>1. S \in SUBSET Nat
    OBVIOUS
  <2> HIDE DEF S
  <2> QED
    BY <1>1, <1>2, <2>1, AllNumbers
<1>4. Runs(N)
  BY <1>3
<1> QED
  BY <1>4 DEF Runs, IsRun

\* Two that start alike and go on alike are alike.
GoAlike(f, g, N) == f[0] = g[0] /\ \A k \in 1 .. N : f[k - 1] = g[k - 1] => f[k] = g[k]
Alike(f, g, N)   == \A k \in 0 .. N : f[k] = g[k]

LEMMA RunsAgree ==
    ASSUME NEW N \in Nat, NEW f, NEW g, GoAlike(f, g, N)
    PROVE  Alike(f, g, N)
<1> USE DEF GoAlike, Alike
<1> DEFINE S == {m \in Nat : m <= N => f[m] = g[m]}
<1>1. S \in SUBSET Nat /\ 0 \in S
  OBVIOUS
<1>2. ASSUME NEW m \in Nat, m \in S PROVE m + 1 \in S
  <2> SUFFICES ASSUME m + 1 <= N PROVE f[m + 1] = g[m + 1]
    OBVIOUS
  <2>1. m + 1 \in 1 .. N /\ m + 1 - 1 = m /\ f[m] = g[m]
    BY <1>2
  <2> QED
    BY <2>1
<1>3. S = Nat
  <2> HIDE DEF S
  <2> QED
    BY <1>1, <1>2, AllNumbers
<1> QED
  BY <1>3

\* What a sequence holds, and that it holds nothing twice.
Elems(s)    == {s[i] : i \in DOMAIN s}
NoRepeat(s) == \A i, j \in DOMAIN s : s[i] = s[j] => i = j

\* Appending adds the element, and repeats nothing unless it was there.
LEMMA ElemsOfAppend ==
    ASSUME NEW S, NEW s \in Seq(S), NEW x \in S
    PROVE  /\ Append(s, x) \in Seq(S)
           /\ Elems(Append(s, x)) = Elems(s) \cup {x}
           /\ NoRepeat(s) /\ x \notin Elems(s) => NoRepeat(Append(s, x))
<1>1. /\ Append(s, x) \in Seq(S) /\ DOMAIN s = 1 .. Len(s) /\ Len(s) \in Nat
      /\ DOMAIN Append(s, x) = 1 .. (Len(s) + 1)
      /\ \A i \in 1 .. Len(s) : Append(s, x)[i] = s[i]
      /\ Append(s, x)[Len(s) + 1] = x
  BY AppendProperties, LenProperties
<1>2. DOMAIN Append(s, x) = DOMAIN s \cup {Len(s) + 1} /\ Len(s) + 1 \notin DOMAIN s
  BY <1>1
<1>3. Elems(Append(s, x)) = Elems(s) \cup {x}
  BY <1>1, <1>2 DEF Elems
<1>4. ASSUME NoRepeat(s), x \notin Elems(s)
      PROVE  NoRepeat(Append(s, x))
  BY <1>1, <1>2, <1>4 DEF NoRepeat, Elems
<1> QED
  BY <1>1, <1>3, <1>4

\* Taking the head leaves the others, and them alone when nothing is repeated.
LEMMA ElemsOfTail ==
    ASSUME NEW S, NEW s \in Seq(S), s # <<>>
    PROVE  /\ Head(s) \in S /\ Tail(s) \in Seq(S) /\ Head(s) \in Elems(s)
           /\ Elems(Tail(s)) \subseteq Elems(s)
           /\ NoRepeat(s) => NoRepeat(Tail(s)) /\ Elems(Tail(s)) = Elems(s) \ {Head(s)}
<1>1. /\ Head(s) \in S /\ Tail(s) \in Seq(S) /\ Head(s) = s[1]
      /\ Len(s) \in Nat \ {0} /\ DOMAIN s = 1 .. Len(s)
      /\ Len(Tail(s)) = Len(s) - 1 /\ DOMAIN Tail(s) = 1 .. (Len(s) - 1)
      /\ \A i \in 1 .. Len(Tail(s)) : Tail(s)[i] = s[i + 1]
  BY HeadTailProperties, LenProperties
<1>2. Head(s) \in Elems(s)
  BY <1>1 DEF Elems
<1>3. Elems(Tail(s)) \subseteq Elems(s)
  BY <1>1 DEF Elems
<1>4. ASSUME NoRepeat(s)
      PROVE  NoRepeat(Tail(s)) /\ Elems(Tail(s)) = Elems(s) \ {Head(s)}
  <2>1. NoRepeat(Tail(s))
    BY <1>1, <1>4 DEF NoRepeat
  <2>2. Elems(s) \ {Head(s)} \subseteq Elems(Tail(s))
    <3> SUFFICES ASSUME NEW x \in Elems(s), x # s[1] PROVE x \in Elems(Tail(s))
      BY <1>1
    <3>1. PICK i \in 1 .. Len(s) : x = s[i]
      BY <1>1 DEF Elems
    <3>2. i # 1 /\ i \in Nat /\ i >= 1 /\ i <= Len(s) /\ Len(s) \in Nat
      BY <1>1, <3>1
    <3>3. i - 1 \in 1 .. (Len(s) - 1) /\ (i - 1) + 1 = i
      BY <3>2
    <3>4. Tail(s)[i - 1] = s[(i - 1) + 1]
      BY <1>1, <3>3
    <3> QED
      BY <1>1, <3>1, <3>3, <3>4 DEF Elems
  <2>3. Head(s) \notin Elems(Tail(s))
    BY <1>1, <1>4 DEF Elems, NoRepeat
  <2> QED
    BY <1>3, <2>1, <2>2, <2>3
<1> QED
  BY <1>1, <1>2, <1>3, <1>4

\* The empty sequence holds nothing.
LEMMA ElemsOfEmpty == Elems(<<>>) = {} /\ NoRepeat(<<>>)
BY DEF Elems, NoRepeat

\* A sequence over a set holds its members only.
LEMMA ElemsAreOf ==
    ASSUME NEW S, NEW s \in Seq(S)
    PROVE  Elems(s) \subseteq S
BY DEF Elems

\* Joining two sequences adds nothing.
LEMMA ElemsOfConcat ==
    ASSUME NEW S, NEW s \in Seq(S), NEW t \in Seq(S)
    PROVE  s \o t \in Seq(S) /\ Elems(s \o t) = Elems(s) \cup Elems(t)
<1>1. /\ s \o t \in Seq(S) /\ DOMAIN (s \o t) = 1 .. (Len(s) + Len(t))
      /\ Len(s) \in Nat /\ Len(t) \in Nat /\ DOMAIN s = 1 .. Len(s) /\ DOMAIN t = 1 .. Len(t)
      /\ \A i \in 1 .. Len(s) + Len(t) : (s \o t)[i] = IF i <= Len(s) THEN s[i] ELSE t[i - Len(s)]
  BY ConcatProperties, LenProperties
<1>2. ASSUME NEW x \in Elems(s \o t)
      PROVE  x \in Elems(s) \cup Elems(t)
  <2>1. PICK i \in 1 .. Len(s) + Len(t) : x = (s \o t)[i]
    BY <1>1, <1>2 DEF Elems
  <2>2. CASE i <= Len(s)
    BY <1>1, <2>1, <2>2 DEF Elems
  <2>3. CASE ~(i <= Len(s))
    <3>1. i - Len(s) \in 1 .. Len(t) /\ x = t[i - Len(s)]
      BY <1>1, <2>1, <2>3
    <3> QED
      BY <1>1, <3>1 DEF Elems
  <2> QED
    BY <2>2, <2>3
<1>3. ASSUME NEW x \in Elems(s)
      PROVE  x \in Elems(s \o t)
  <2>1. PICK i \in 1 .. Len(s) : x = s[i]
    BY <1>1, <1>3 DEF Elems
  <2>2. i \in 1 .. Len(s) + Len(t) /\ (s \o t)[i] = x
    BY <1>1, <2>1
  <2> QED
    BY <1>1, <2>2 DEF Elems
<1>4. ASSUME NEW x \in Elems(t)
      PROVE  x \in Elems(s \o t)
  <2>1. PICK i \in 1 .. Len(t) : x = t[i]
    BY <1>1, <1>4 DEF Elems
  <2>2. /\ i + Len(s) \in 1 .. Len(s) + Len(t) /\ ~(i + Len(s) <= Len(s)) /\ (i + Len(s)) - Len(s) = i
    BY <1>1, <2>1
  <2>3. (s \o t)[i + Len(s)] = x
    BY <1>1, <2>1, <2>2
  <2> QED
    BY <1>1, <2>2, <2>3 DEF Elems
<1> QED
  BY <1>1, <1>2, <1>3, <1>4

\* A sequence of one.
LEMMA ElemsOfOne ==
    ASSUME NEW S, NEW x \in S
    PROVE  <<x>> \in Seq(S) /\ Elems(<<x>>) = {x}
BY DEF Elems

(* Prefixes.                                                                *)

\* What holds of 0 and goes on from each number to the next holds of all up to N.
LEMMA AllUpTo ==
    ASSUME NEW N \in Nat, NEW T, 0 \in T, \A n \in 1 .. N : n - 1 \in T => n \in T
    PROVE  \A n \in 0 .. N : n \in T
<1> DEFINE S == {m \in Nat : m <= N => m \in T}
<1>1. S \in SUBSET Nat /\ 0 \in S
  OBVIOUS
<1>2. ASSUME NEW m \in Nat, m \in S PROVE m + 1 \in S
  <2> SUFFICES ASSUME m + 1 <= N PROVE m + 1 \in T
    OBVIOUS
  <2>1. m + 1 \in 1 .. N /\ m + 1 - 1 = m /\ m \in T
    BY <1>2
  <2> QED
    BY <2>1
<1>3. S = Nat
  <2> HIDE DEF S
  <2> QED
    BY <1>1, <1>2, AllNumbers
<1> QED
  BY <1>3

\* The first n of a sequence.
LEMMA PrefixIs ==
    ASSUME NEW S, NEW s \in Seq(S), NEW n \in 0 .. Len(s)
    PROVE  /\ SubSeq(s, 1, n) \in Seq(S) /\ Len(SubSeq(s, 1, n)) = n
           /\ \A i \in 1 .. n : SubSeq(s, 1, n)[i] = s[i]
<1>1. Len(s) \in Nat /\ n \in Int /\ 1 \in Int /\ n - 1 + 1 = n
  BY LenProperties
<1>2. \A i \in 1 .. n : s[i] \in S
  BY <1>1, LenProperties
<1>3. /\ SubSeq(s, 1, n) \in Seq(S) /\ Len(SubSeq(s, 1, n)) = IF 1 <= n THEN n - 1 + 1 ELSE 0
      /\ \A i \in 1 .. n - 1 + 1 : SubSeq(s, 1, n)[i] = s[1 + i - 1]
  BY ONLY <1>1, <1>2, SubSeqProperties
<1>4. Len(SubSeq(s, 1, n)) = n
  BY <1>1, <1>3
<1>5. \A i \in 1 .. n : SubSeq(s, 1, n)[i] = s[i]
  <2> SUFFICES ASSUME NEW i \in 1 .. n PROVE SubSeq(s, 1, n)[i] = s[i]
    OBVIOUS
  <2>1. i \in 1 .. n - 1 + 1 /\ 1 + i - 1 = i
    BY <1>1
  <2> QED
    BY <1>3, <2>1
<1> QED
  BY <1>3, <1>4, <1>5

\* A prefix is not changed by what is appended.
LEMMA PrefixOfAppend ==
    ASSUME NEW S, NEW s \in Seq(S), NEW e \in S
    PROVE  /\ SubSeq(Append(s, e), 1, Len(s) + 1) = Append(s, e)
           /\ \A n \in 0 .. Len(s) : SubSeq(Append(s, e), 1, n) = SubSeq(s, 1, n)
<1> DEFINE t == Append(s, e)
<1>1. /\ t \in Seq(S) /\ Len(t) = Len(s) + 1 /\ Len(s) \in Nat
      /\ \A k \in 1 .. Len(s) : t[k] = s[k]
  BY AppendProperties, LenProperties
<1> HIDE DEF t
<1>2. SubSeq(t, 1, Len(s) + 1) = t
  <2>1. Len(s) + 1 \in 0 .. Len(t)
    BY <1>1
  <2> DEFINE q == SubSeq(t, 1, Len(s) + 1)
  <2>2. q \in Seq(S) /\ Len(q) = Len(s) + 1 /\ \A i \in 1 .. Len(s) + 1 : q[i] = t[i]
    BY <1>1, <2>1, PrefixIs
  <2> HIDE DEF q
  <2>3. q = t
    BY <1>1, <2>2, SeqEqual
  <2> QED
    BY <2>3 DEF q
<1>3. ASSUME NEW n \in 0 .. Len(s) PROVE SubSeq(t, 1, n) = SubSeq(s, 1, n)
  <2> DEFINE q == SubSeq(t, 1, n)
             r == SubSeq(s, 1, n)
  <2>1. n \in 0 .. Len(t)
    BY <1>1
  <2>2. q \in Seq(S) /\ Len(q) = n /\ \A i \in 1 .. n : q[i] = t[i]
    BY <1>1, <2>1, PrefixIs
  <2>3. r \in Seq(S) /\ Len(r) = n /\ \A i \in 1 .. n : r[i] = s[i]
    BY PrefixIs
  <2>4. \A i \in 1 .. n : i \in 1 .. Len(s)
    BY <1>1
  <2> HIDE DEF q, r
  <2>5. \A i \in 1 .. Len(q) : q[i] = r[i]
    BY <1>1, <2>2, <2>3, <2>4
  <2>6. q = r
    BY <2>2, <2>3, <2>5, SeqEqual
  <2> QED
    BY <2>6 DEF q, r
<1> QED
  BY <1>2, <1>3 DEF t

\* One more of a sequence.
LEMMA PrefixGrows ==
    ASSUME NEW S, NEW s \in Seq(S), NEW n \in 1 .. Len(s)
    PROVE  SubSeq(s, 1, n) = Append(SubSeq(s, 1, n - 1), s[n])
<1> DEFINE p == SubSeq(s, 1, n - 1)
           q == SubSeq(s, 1, n)
<1>0. Len(s) \in Nat /\ n \in 0 .. Len(s) /\ n - 1 \in 0 .. Len(s) /\ s[n] \in S
  BY LenProperties
<1>1. /\ p \in Seq(S) /\ Len(p) = n - 1 /\ \A i \in 1 .. n - 1 : p[i] = s[i]
      /\ q \in Seq(S) /\ Len(q) = n /\ \A i \in 1 .. n : q[i] = s[i]
  BY <1>0, PrefixIs
<1> HIDE DEF p, q
<1> DEFINE t == Append(p, s[n])
<1>2. t \in Seq(S) /\ Len(t) = n /\ \A i \in 1 .. n - 1 : t[i] = p[i]
  BY <1>0, <1>1, AppendProperties
<1>3. t[n] = s[n]
  <2>1. Len(p) + 1 = n
    BY <1>0, <1>1
  <2>2. t[Len(p) + 1] = s[n]
    BY <1>0, <1>1, AppendProperties
  <2> QED
    BY <2>1, <2>2
<1> HIDE DEF t
<1>4. \A i \in 1 .. n : t[i] = q[i]
  <2> SUFFICES ASSUME NEW i \in 1 .. n PROVE t[i] = q[i]
    OBVIOUS
  <2>1. i = n \/ i \in 1 .. n - 1
    BY <1>0
  <2> QED
    BY <1>0, <1>1, <1>2, <1>3, <2>1
<1>5. t = q
  BY <1>0, <1>1, <1>2, <1>4, SeqEqual
<1> QED
  BY <1>5 DEF t, p, q

\* All of a sequence.
LEMMA WholeIs ==
    ASSUME NEW S, NEW s \in Seq(S)
    PROVE  SubSeq(s, 1, Len(s)) = s
<1>1. Len(s) \in 0 .. Len(s)
  BY LenProperties
<1> DEFINE q == SubSeq(s, 1, Len(s))
<1>2. q \in Seq(S) /\ Len(q) = Len(s) /\ \A i \in 1 .. Len(s) : q[i] = s[i]
  BY <1>1, PrefixIs
<1> HIDE DEF q
<1>3. q = s
  BY <1>2, SeqEqual
<1> QED
  BY <1>3 DEF q
=============================================================================
