--------------------------- MODULE ContentProofs ---------------------------
(***************************************************************************)
(* Proofs about Sitemap, JiraClient and DigestRun: what the search by      *)
(* label returns, what edits make of a row, which posts a run takes, how   *)
(* often one is filed, and that what is filed reads as it was meant.       *)
(*                                                                         *)
(* The provers take no induction over data; the induction over the length  *)
(* of a sequence that Kept, FlattenSeq, AdfInline and AdfDoc need is one   *)
(* over a set of naturals here (NatInductionSet, SeqInductionSet), from    *)
(* the well-founded order of the finite sets.                              *)
(***************************************************************************)
EXTENDS DigestRun, FiniteSetTheorems, SequenceTheorems, TLAPS

-----------------------------------------------------------------------------
(* Naturals and sequences. *)

\* A set of naturals has a least element.
LEMMA LeastNat ==
  ASSUME NEW T \in SUBSET Nat, T # {}
  PROVE  \E m \in T : \A n \in T : m <= n
<1> DEFINE U == {0..n : n \in T}
<1>1. IsWellFoundedOn(StrictSubsetOrdering(Nat), FiniteSubsetsOf(Nat))
  BY FS_StrictSubsetOrderingWellFounded
<1>2. U \subseteq FiniteSubsetsOf(Nat)
  <2> SUFFICES ASSUME NEW n \in T PROVE 0..n \in FiniteSubsetsOf(Nat)
    OBVIOUS
  <2>1. IsFiniteSet(0..n)
    BY FS_Interval
  <2> QED BY <2>1 DEF FiniteSubsetsOf
<1>3. U # {}
  OBVIOUS
<1>4. PICK x \in U : \A y \in U : <<y, x>> \notin StrictSubsetOrdering(Nat)
  BY <1>1, <1>2, <1>3, WFMin
<1>5. PICK m \in T : x = 0..m
  OBVIOUS
<1>6. ASSUME NEW n \in T, n < m PROVE FALSE
  <2>1. 0..n \in U /\ 0..n \subseteq 0..m /\ 0..n # 0..m
    BY <1>6
  <2>2. <<0..n, 0..m>> \in StrictSubsetOrdering(Nat)
    BY <2>1 DEF StrictSubsetOrdering
  <2> QED BY <1>4, <1>5, <2>1, <2>2
<1>7. \A n \in T : m <= n
  BY <1>6
<1> QED BY <1>7

\* A bounded set of naturals has a greatest element, and Max is it.
LEMMA GreatestNat ==
  ASSUME NEW n \in Nat, NEW T \in SUBSET 0..n, T # {}
  PROVE  Max(T) \in T /\ \A x \in T : Max(T) >= x
<1> DEFINE U == {n - x : x \in T}
<1>1. U \subseteq Nat /\ U # {}
  <2>1. \A x \in T : n - x \in Nat
    OBVIOUS
  <2> QED BY <2>1
<1>2. PICK m \in U : \A y \in U : m <= y
  BY <1>1, LeastNat
<1>3. PICK x \in T : m = n - x
  BY <1>2
<1>4. \A y \in T : x >= y
  <2> SUFFICES ASSUME NEW y \in T PROVE x >= y
    OBVIOUS
  <2>1. n - y \in U /\ n - x <= n - y
    BY <1>2, <1>3
  <2> QED BY <2>1
<1> QED BY <1>4 DEF Max

\* Induction over the naturals, for a set and not for a predicate.
LEMMA NatInductionSet ==
  ASSUME NEW T, 0 \in T, \A n \in Nat : n \in T => n + 1 \in T
  PROVE  Nat \subseteq T
<1> SUFFICES ASSUME Nat \ T # {} PROVE FALSE
  OBVIOUS
<1>1. PICK m \in Nat \ T : \A n \in Nat \ T : m <= n
  BY LeastNat
<1>2. m - 1 \in Nat /\ m - 1 \notin Nat \ T
  BY <1>1
<1> QED BY <1>1, <1>2

\* A sequence over a set is one over a larger set.
LEMMA SeqMono ==
  ASSUME NEW A, NEW B, A \subseteq B, NEW s \in Seq(A)
  PROVE  s \in Seq(B)
<1>1. /\ Len(s) \in Nat /\ \A i \in 1..Len(s) : s[i] \in B
      /\ s = [i \in 1..Len(s) |-> s[i]]
  OBVIOUS
<1> QED BY <1>1

\* The rest of a queue.
LEMMA TailFacts ==
  ASSUME NEW X, NEW q \in Seq(X), q # <<>>
  PROVE  /\ Tail(q) \in Seq(X) /\ Len(Tail(q)) = Len(q) - 1 /\ Len(q) \in Nat \ {0}
         /\ \A k \in 1..Len(Tail(q)) : k + 1 \in 2..Len(q) /\ Tail(q)[k] = q[k + 1]
<1>1. Len(q) \in Nat \ {0}
  OBVIOUS
<1>2. Tail(q) \in Seq(X) /\ Len(Tail(q)) = Len(q) - 1
  OBVIOUS
<1>3. \A k \in 1..(Len(q) - 1) : k + 1 \in 2..Len(q) /\ Tail(q)[k] = q[k + 1]
  BY <1>1
<1> QED BY <1>1, <1>2, <1>3

\* The two parts of a list of posts.
LEMMA CutFacts ==
  ASSUME NEW X, NEW s \in Seq(X), NEW cap \in 1..Len(s)
  PROVE  /\ SubSeq(s, 1, cap) \in Seq(X) /\ Len(SubSeq(s, 1, cap)) = cap
         /\ SubSeq(s, 1, cap) # <<>>
         /\ \A k \in 1..cap : SubSeq(s, 1, cap)[k] = s[k]
         /\ \A x : x \in ToSet(SubSeq(s, 1, cap)) <=> \E k \in 1..cap : x = s[k]
         /\ \A x : x \in ToSet(SubSeq(s, cap + 1, Len(s)))
                    <=> \E k \in (cap + 1)..Len(s) : x = s[k]
<1> DEFINE a == SubSeq(s, 1, cap)
           b == SubSeq(s, cap + 1, Len(s))
<1>1. Len(s) \in Nat /\ cap \in Nat \ {0} /\ cap <= Len(s)
  OBVIOUS
<1>2. a \in Seq(X) /\ Len(a) = cap /\ \A k \in 1..cap : a[k] = s[k]
  BY <1>1
<1>3. b \in Seq(X) /\ Len(b) = Len(s) - cap /\ \A k \in 1..(Len(s) - cap) : b[k] = s[cap + k]
  <2>1. CASE cap = Len(s)
    <3>1. b = <<>>
      BY <1>1, <2>1
    <3> QED BY <1>1, <2>1, <3>1
  <2>2. CASE cap < Len(s)
    <3>1. Len(b) = Len(s) - (cap + 1) + 1 /\ b \in Seq(X)
      BY <1>1, <2>2
    <3>2. Len(s) - (cap + 1) + 1 = Len(s) - cap
      BY <1>1
    <3>3. ASSUME NEW k \in 1..(Len(s) - cap) PROVE b[k] = s[cap + k]
      <4>1. b[k] = s[(cap + 1) + k - 1] /\ (cap + 1) + k - 1 = cap + k
        BY <1>1, <2>2
      <4> QED BY <4>1
    <3> QED BY <3>1, <3>2, <3>3
  <2> QED BY <1>1, <2>1, <2>2
<1> HIDE DEF a, b
<1>4. \A x : x \in ToSet(a) <=> \E k \in 1..cap : x = s[k]
  BY <1>2 DEF ToSet
<1>5. \A x : x \in ToSet(b) <=> \E k \in (cap + 1)..Len(s) : x = s[k]
  <2>1. DOMAIN b = 1..(Len(s) - cap)
    BY <1>3
  <2>2. ASSUME NEW k \in (cap + 1)..Len(s) PROVE k - cap \in DOMAIN b /\ b[k - cap] = s[k]
    BY <1>1, <1>3, <2>1
  <2>3. ASSUME NEW k \in DOMAIN b PROVE cap + k \in (cap + 1)..Len(s) /\ b[k] = s[cap + k]
    BY <1>1, <1>3, <2>1
  <2> QED BY <2>2, <2>3 DEF ToSet
<1>6. a # <<>>
  BY <1>1, <1>2
<1> QED BY <1>2, <1>4, <1>5, <1>6 DEF a, b

\* What follows a sequence ends it.
LEMMA LastConcat ==
  ASSUME NEW X, NEW s \in Seq(X), NEW t \in Seq(X), t # <<>>
  PROVE  Last(s \o t) = Last(t)
<1>1. /\ Len(s) \in Nat /\ Len(t) \in Nat \ {0} /\ Len(s \o t) = Len(s) + Len(t)
      /\ \A i \in 1..Len(s) + Len(t) :
           (s \o t)[i] = IF i <= Len(s) THEN s[i] ELSE t[i - Len(s)]
  BY ConcatProperties
<1>2. (s \o t)[Len(s) + Len(t)] = t[Len(t)]
  BY <1>1
<1> QED BY <1>1, <1>2 DEF Last

\* A sequence that four more are appended to ends with the fourth.
LEMMA LastOfFour ==
  ASSUME NEW X, NEW s \in Seq(X), NEW a, NEW b, NEW c, NEW d
  PROVE  Last(s \o <<a, b, c, d>>) = d
<1> DEFINE t == <<a, b, c, d>>
<1>1. PICK Y : Y = X \cup {a, b, c, d}
  OBVIOUS
<1>2. s \in Seq(Y) /\ t \in Seq(Y) /\ t # <<>> /\ Last(t) = d
  BY <1>1, SeqMono DEF Last
<1> QED BY <1>2, LastConcat

-----------------------------------------------------------------------------
(* Discovery. *)

\* The recursion of Kept has a solution.
LEMMA KeptDefined ==
  ASSUME NEW X, NEW s \in Seq(X), NEW S
  PROVE  \E f : /\ f = [n \in 0..Len(s) |->
                          IF n = 0 THEN <<>>
                          ELSE IF s[n] \in S THEN Append(f[n - 1], s[n]) ELSE f[n - 1]]
                /\ Kept(s, S) = f[Len(s)]
<1> DEFINE Step(f, n) == IF n = 0 THEN <<>>
                         ELSE IF s[n] \in S THEN Append(f[n - 1], s[n]) ELSE f[n - 1]
           T == {m \in Nat : \E f : f = [n \in 0..m |-> Step(f, n)]}
<1>1. 0 \in T
  <2> DEFINE f == [n \in 0..0 |-> <<>>]
  <2>1. f = [n \in 0..0 |-> Step(f, n)]
    OBVIOUS
  <2> QED BY <2>1
<1>2. ASSUME NEW m \in Nat, m \in T PROVE m + 1 \in T
  <2>1. PICK f : f = [n \in 0..m |-> Step(f, n)]
    BY <1>2
  <2> DEFINE g == [n \in 0..(m + 1) |-> IF n <= m THEN f[n] ELSE Step(f, n)]
  <2>a. \A n \in 0..m : f[n] = Step(f, n)
    BY <2>1
  <2>2. \A n \in 0..(m + 1) : g[n] = Step(g, n)
    <3> SUFFICES ASSUME NEW n \in 0..(m + 1) PROVE g[n] = Step(g, n)
      OBVIOUS
    <3>1. n = 0 \/ (n - 1 \in 0..m /\ g[n - 1] = f[n - 1])
      OBVIOUS
    <3>2. Step(g, n) = Step(f, n)
      BY <3>1
    <3>3. n <= m => f[n] = Step(f, n)
      BY <2>a
    <3> QED BY <3>2, <3>3
  <2>3. g = [n \in 0..(m + 1) |-> Step(g, n)]
    BY <2>2
  <2> HIDE DEF g
  <2> QED BY <2>3
<1>3. Len(s) \in T
  <2> HIDE DEF T
  <2> QED BY <1>1, <1>2, NatInductionSet
<1>4. \E f : f = [n \in 0..Len(s) |-> Step(f, n)]
  BY <1>3
<1> DEFINE h == CHOOSE f : f = [n \in 0..Len(s) |-> Step(f, n)]
<1>5. h = [n \in 0..Len(s) |-> Step(h, n)]
  BY <1>4
<1>6. Kept(s, S) = h[Len(s)]
  BY DEF Kept
<1> QED BY <1>5, <1>6

\* t is what s has in S: its elements are those at the places g, in order.
Picks(g, t, s, S) ==
  /\ g \in [1..Len(t) -> 1..Len(s)]
  /\ \A i \in 1..Len(t) : t[i] = s[g[i]]
  /\ \A i, j \in 1..Len(t) : i < j => g[i] < g[j]
  /\ \A k \in 1..Len(s) : s[k] \in S <=> \E i \in 1..Len(t) : g[i] = k

\* Kept returns the subsequence at the places whose element is in S.
LEMMA KeptPicks ==
  ASSUME NEW X, NEW s \in Seq(X), NEW S
  PROVE  Kept(s, S) \in Seq(X) /\ \E g : Picks(g, Kept(s, S), s, S)
<1>1. PICK f : /\ f = [n \in 0..Len(s) |->
                          IF n = 0 THEN <<>>
                          ELSE IF s[n] \in S THEN Append(f[n - 1], s[n]) ELSE f[n - 1]]
               /\ Kept(s, S) = f[Len(s)]
  BY KeptDefined
<1> DEFINE Good(n, t, g) ==
             /\ t \in Seq(X)
             /\ g \in [1..Len(t) -> 1..n]
             /\ \A i \in 1..Len(t) : t[i] = s[g[i]]
             /\ \A i, j \in 1..Len(t) : i < j => g[i] < g[j]
             /\ \A k \in 1..n : s[k] \in S <=> \E i \in 1..Len(t) : g[i] = k
           T == {n \in Nat : n <= Len(s) => \E g : Good(n, f[n], g)}
<1>a. \A n \in 0..Len(s) : f[n] = IF n = 0 THEN <<>>
                                 ELSE IF s[n] \in S THEN Append(f[n - 1], s[n]) ELSE f[n - 1]
  BY <1>1
<1>2. 0 \in T
  <2>1. f[0] = <<>>
    BY <1>a
  <2>2. Good(0, <<>>, <<>>)
    OBVIOUS
  <2>3. Good(0, f[0], <<>>)
    BY <2>1, <2>2
  <2> HIDE DEF Good
  <2> QED BY <2>3
<1>3. ASSUME NEW n \in Nat, n \in T PROVE n + 1 \in T
  <2> SUFFICES ASSUME n + 1 <= Len(s) PROVE \E g : Good(n + 1, f[n + 1], g)
    OBVIOUS
  <2>1. PICK g : Good(n, f[n], g)
    BY <1>3
  <2>2. n + 1 \in 1..Len(s) /\ s[n + 1] \in X
    OBVIOUS
  <2>3. f[n + 1] = IF s[n + 1] \in S THEN Append(f[n], s[n + 1]) ELSE f[n]
    <3>1. n + 1 \in 0..Len(s) /\ n + 1 # 0 /\ (n + 1) - 1 = n
      BY <2>2
    <3> HIDE DEF T, Good
    <3> QED BY <1>a, <3>1
  <2> DEFINE t == f[n]
  <2>4. t \in Seq(X) /\ Len(t) \in Nat
    BY <2>1
  <2> HIDE DEF t
  <2>5. CASE s[n + 1] \in S
    <3> DEFINE u == Append(t, s[n + 1])
               h == [i \in 1..(Len(t) + 1) |-> IF i <= Len(t) THEN g[i] ELSE n + 1]
    <3>1. /\ u \in Seq(X) /\ Len(u) = Len(t) + 1
          /\ \A i \in 1..Len(t) : u[i] = t[i]
          /\ u[Len(t) + 1] = s[n + 1]
      BY <2>2, <2>4
    <3>2. h \in [1..Len(u) -> 1..(n + 1)]
      BY <2>1, <2>4, <3>1 DEF t
    <3>3. \A i \in 1..Len(u) : u[i] = s[h[i]]
      BY <2>1, <2>4, <3>1 DEF t
    <3>4. \A i, j \in 1..Len(u) : i < j => h[i] < h[j]
      <4> SUFFICES ASSUME NEW i \in 1..Len(u), NEW j \in 1..Len(u), i < j PROVE h[i] < h[j]
        OBVIOUS
      <4>1. i \in 1..Len(t) /\ h[i] = g[i] /\ g[i] \in 1..n
        <5>1. i \in 1..Len(t)
          BY <2>4, <3>1
        <5>2. h[i] = g[i]
          BY <2>4, <3>1, <5>1
        <5>3. g[i] \in 1..n
          BY <2>1, <5>1 DEF t
        <5> QED BY <5>1, <5>2, <5>3
      <4>2. CASE j \in 1..Len(t)
        <5>1. h[j] = g[j] /\ g[i] < g[j]
          BY <2>1, <4>1, <4>2 DEF t
        <5> QED BY <4>1, <5>1
      <4>3. CASE j = Len(t) + 1
        <5>1. h[j] = n + 1
          BY <2>4, <3>1, <4>3
        <5> QED BY <4>1, <5>1
      <4> QED BY <2>4, <3>1, <4>2, <4>3
    <3>5. \A k \in 1..(n + 1) : s[k] \in S <=> \E i \in 1..Len(u) : h[i] = k
      <4> SUFFICES ASSUME NEW k \in 1..(n + 1) PROVE s[k] \in S <=> \E i \in 1..Len(u) : h[i] = k
        OBVIOUS
      <4>1. CASE k = n + 1
        <5>1. h[Len(t) + 1] = n + 1 /\ Len(t) + 1 \in 1..Len(u)
          BY <2>4, <3>1
        <5> QED BY <2>5, <4>1, <5>1
      <4>2. CASE k \in 1..n
        <5>1. \A i \in 1..Len(t) : h[i] = g[i] /\ i \in 1..Len(u)
          BY <2>4, <3>1
        <5>2. \A i \in 1..Len(u) : h[i] = k => i \in 1..Len(t)
          BY <2>4, <3>1, <4>2
        <5>3. s[k] \in S <=> \E i \in 1..Len(t) : g[i] = k
          BY <2>1, <4>2 DEF t
        <5> QED BY <5>1, <5>2, <5>3
      <4> QED BY <4>1, <4>2
    <3> HIDE DEF u, h
    <3>6. Good(n + 1, u, h)
      BY <3>1, <3>2, <3>3, <3>4, <3>5
    <3>7. f[n + 1] = u
      BY <2>3, <2>5 DEF t, u
    <3> QED BY <3>6, <3>7
  <2>6. CASE s[n + 1] \notin S
    <3>1. Good(n + 1, t, g)
      <4>1. g \in [1..Len(t) -> 1..(n + 1)]
        BY <2>1 DEF t
      <4>2. \A k \in 1..(n + 1) : s[k] \in S <=> \E i \in 1..Len(t) : g[i] = k
        <5> SUFFICES ASSUME NEW k \in 1..(n + 1)
                     PROVE  s[k] \in S <=> \E i \in 1..Len(t) : g[i] = k
          OBVIOUS
        <5>1. CASE k = n + 1
          BY <2>1, <2>6, <5>1 DEF t
        <5>2. CASE k \in 1..n
          BY <2>1, <5>2 DEF t
        <5> QED BY <5>1, <5>2
      <4> QED BY <2>1, <4>1, <4>2 DEF t
    <3> QED BY <2>3, <2>6, <3>1 DEF t
  <2> QED BY <2>5, <2>6
<1>4. Len(s) \in T
  <2> HIDE DEF T
  <2>1. Nat \subseteq T
    BY <1>2, <1>3, NatInductionSet
  <2> QED BY <2>1
<1>5. PICK g : Good(Len(s), Kept(s, S), g)
  <2>1. \E g : Good(Len(s), f[Len(s)], g)
    <3>1. Len(s) \in Nat /\ Len(s) <= Len(s)
      OBVIOUS
    <3> HIDE DEF Good
    <3> QED BY <1>4, <3>1
  <2>2. Kept(s, S) = f[Len(s)]
    BY <1>1
  <2> HIDE DEF Good, T
  <2> QED BY <2>1, <2>2
<1> QED BY <1>5 DEF Picks

\* The recursion of FlattenSeq has a solution.
LEMMA FlattenDefined ==
  ASSUME NEW X, NEW ss \in Seq(Seq(X)), Len(ss) # 0
  PROVE  \E f : /\ f = [n \in 1..Len(ss) |-> IF n = 1 THEN ss[n] ELSE f[n - 1] \o ss[n]]
                /\ FlattenSeq(ss) = f[Len(ss)]
<1> DEFINE Step(f, n) == IF n = 1 THEN ss[n] ELSE f[n - 1] \o ss[n]
           T == {m \in Nat : \E f : f = [n \in 1..m |-> Step(f, n)]}
<1>1. 0 \in T
  <2>1. <<>> = [n \in 1..0 |-> Step(<<>>, n)]
    OBVIOUS
  <2> HIDE DEF Step
  <2> QED BY <2>1
<1>2. ASSUME NEW m \in Nat, m \in T PROVE m + 1 \in T
  <2>1. PICK f : f = [n \in 1..m |-> Step(f, n)]
    BY <1>2
  <2> DEFINE g == [n \in 1..(m + 1) |-> IF n <= m THEN f[n] ELSE Step(f, n)]
  <2>2. \A n \in 1..m : f[n] = Step(f, n)
    BY <2>1
  <2>3. \A n \in 1..(m + 1) : g[n] = Step(g, n)
    <3> SUFFICES ASSUME NEW n \in 1..(m + 1) PROVE g[n] = Step(g, n)
      OBVIOUS
    <3>1. n = 1 \/ (n - 1 \in 1..m /\ g[n - 1] = f[n - 1])
      OBVIOUS
    <3>2. Step(g, n) = Step(f, n)
      BY <3>1
    <3>3. n <= m => f[n] = Step(f, n)
      BY <2>2
    <3> QED BY <3>2, <3>3
  <2>4. g = [n \in 1..(m + 1) |-> Step(g, n)]
    BY <2>3
  <2> HIDE DEF g, Step
  <2> QED BY <2>4
<1>3. Len(ss) \in T
  <2> HIDE DEF T
  <2> QED BY <1>1, <1>2, NatInductionSet
<1>4. \E f : f = [n \in 1..Len(ss) |-> Step(f, n)]
  BY <1>3
<1> DEFINE h == CHOOSE f : f = [n \in 1..Len(ss) |-> Step(f, n)]
<1>5. h = [n \in 1..Len(ss) |-> Step(h, n)]
  BY <1>4
<1>6. FlattenSeq(ss) = h[Len(ss)]
  BY DEF FlattenSeq
<1> QED BY <1>5, <1>6

\* t is the first n sequences of ss, one after the other: its i-th element is the
\* o[i]-th of the b[i]-th.
Joins(b, o, t, ss, n) ==
  /\ b \in [1..Len(t) -> 1..n] /\ o \in [1..Len(t) -> Nat]
  /\ \A i \in 1..Len(t) : o[i] \in 1..Len(ss[b[i]]) /\ t[i] = ss[b[i]][o[i]]
  /\ \A i, j \in 1..Len(t) : i < j => b[i] < b[j] \/ (b[i] = b[j] /\ o[i] < o[j])
  /\ \A m \in 1..n : \A k \in 1..Len(ss[m]) : \E i \in 1..Len(t) : b[i] = m /\ o[i] = k

\* One more sequence.
LEMMA JoinsStep ==
  ASSUME NEW X, NEW ss \in Seq(Seq(X)), NEW n \in Nat, n + 1 \in 1..Len(ss),
         NEW t \in Seq(X), NEW b, NEW o, Joins(b, o, t, ss, n)
  PROVE  \E c, p : Joins(c, p, t \o ss[n + 1], ss, n + 1)
<1> DEFINE s == ss[n + 1]
           u == t \o s
<1>1. s \in Seq(X)
  OBVIOUS
<1> HIDE DEF s
<1>2. /\ Len(t) \in Nat /\ Len(s) \in Nat
      /\ u \in Seq(X) /\ Len(u) = Len(t) + Len(s)
      /\ \A i \in 1..Len(t) : u[i] = t[i]
      /\ \A i \in 1..Len(u) : i \notin 1..Len(t) => i - Len(t) \in 1..Len(s) /\ u[i] = s[i - Len(t)]
  BY <1>1
<1> DEFINE c == [i \in 1..Len(u) |-> IF i <= Len(t) THEN b[i] ELSE n + 1]
           p == [i \in 1..Len(u) |-> IF i <= Len(t) THEN o[i] ELSE i - Len(t)]
<1> HIDE DEF u
<1>3. \A i \in 1..Len(t) : i \in 1..Len(u) /\ c[i] = b[i] /\ p[i] = o[i]
  BY <1>2
<1>4. \A i \in 1..Len(u) : i \notin 1..Len(t) => c[i] = n + 1 /\ p[i] = i - Len(t)
  BY <1>2
<1>5. /\ b \in [1..Len(t) -> 1..n] /\ o \in [1..Len(t) -> Nat]
      /\ \A i \in 1..Len(t) : o[i] \in 1..Len(ss[b[i]]) /\ t[i] = ss[b[i]][o[i]]
      /\ \A i, j \in 1..Len(t) : i < j => b[i] < b[j] \/ (b[i] = b[j] /\ o[i] < o[j])
  BY DEF Joins
<1>6. \A i \in 1..Len(t) : b[i] \in 1..n /\ o[i] \in Nat
  BY <1>5
<1>7. c \in [1..Len(u) -> 1..(n + 1)] /\ p \in [1..Len(u) -> Nat]
  <2>1. \A i \in 1..Len(u) : c[i] \in 1..(n + 1) /\ p[i] \in Nat
    <3> SUFFICES ASSUME NEW i \in 1..Len(u) PROVE c[i] \in 1..(n + 1) /\ p[i] \in Nat
      OBVIOUS
    <3>1. CASE i \in 1..Len(t)
      BY <1>3, <1>6, <3>1
    <3>2. CASE i \notin 1..Len(t)
      BY <1>2, <1>4, <3>2
    <3> QED BY <3>1, <3>2
  <2> QED BY <2>1
<1>8. DOMAIN c = 1..Len(u) /\ DOMAIN p = 1..Len(u)
  OBVIOUS
<1> HIDE DEF c, p
<1>9. \A i \in 1..Len(u) : p[i] \in 1..Len(ss[c[i]]) /\ u[i] = ss[c[i]][p[i]]
  <2> SUFFICES ASSUME NEW i \in 1..Len(u)
               PROVE  p[i] \in 1..Len(ss[c[i]]) /\ u[i] = ss[c[i]][p[i]]
    OBVIOUS
  <2>1. CASE i \in 1..Len(t)
    BY <1>2, <1>3, <1>5, <2>1
  <2>2. CASE i \notin 1..Len(t)
    BY <1>2, <1>4, <2>2 DEF s
  <2> QED BY <2>1, <2>2
<1>10. \A i, j \in 1..Len(u) : i < j => c[i] < c[j] \/ (c[i] = c[j] /\ p[i] < p[j])
  <2> SUFFICES ASSUME NEW i \in 1..Len(u), NEW j \in 1..Len(u), i < j
               PROVE  c[i] < c[j] \/ (c[i] = c[j] /\ p[i] < p[j])
    OBVIOUS
  <2>1. CASE j \in 1..Len(t)
    <3>1. i \in 1..Len(t)
      BY <1>2, <2>1
    <3> QED BY <1>3, <1>5, <2>1, <3>1
  <2>2. CASE i \in 1..Len(t) /\ j \notin 1..Len(t)
    <3>1. c[i] = b[i] /\ b[i] \in 1..n
      BY <1>3, <1>6, <2>2
    <3>2. c[j] = n + 1
      BY <1>4, <2>2
    <3> QED BY <3>1, <3>2
  <2>3. CASE i \notin 1..Len(t)
    <3>1. j \notin 1..Len(t)
      BY <1>2, <2>3
    <3> QED BY <1>2, <1>4, <2>3, <3>1
  <2> QED BY <1>2, <2>1, <2>2, <2>3
<1>11. \A m \in 1..(n + 1) : \A k \in 1..Len(ss[m]) :
         \E i \in 1..Len(u) : c[i] = m /\ p[i] = k
  <2> SUFFICES ASSUME NEW m \in 1..(n + 1), NEW k \in 1..Len(ss[m])
               PROVE  \E i \in 1..Len(u) : c[i] = m /\ p[i] = k
    OBVIOUS
  <2>1. CASE m \in 1..n
    <3>1. PICK i \in 1..Len(t) : b[i] = m /\ o[i] = k
      BY <2>1 DEF Joins
    <3> QED BY <1>3, <3>1
  <2>2. CASE m = n + 1
    <3>1. k \in 1..Len(s)
      BY <2>2 DEF s
    <3>2. Len(t) + k \in 1..Len(u) /\ Len(t) + k \notin 1..Len(t) /\ (Len(t) + k) - Len(t) = k
      BY <1>2, <3>1
    <3> QED BY <1>4, <2>2, <3>2
  <2> QED BY <2>1, <2>2
<1>12. Joins(c, p, u, ss, n + 1)
  BY <1>7, <1>9, <1>10, <1>11 DEF Joins
<1> QED BY <1>12 DEF u, s

\* FlattenSeq is the sequences one after the other.
LEMMA FlattenJoins ==
  ASSUME NEW X, NEW ss \in Seq(Seq(X))
  PROVE  /\ FlattenSeq(ss) \in Seq(X)
         /\ \E b, o : Joins(b, o, FlattenSeq(ss), ss, Len(ss))
<1>1. CASE Len(ss) = 0
  <2>1. FlattenSeq(ss) = <<>> /\ ss = <<>>
    BY <1>1 DEF FlattenSeq
  <2>2. Joins(<<>>, <<>>, <<>>, ss, 0)
    BY DEF Joins
  <2> QED BY <1>1, <2>1, <2>2
<1>2. CASE Len(ss) # 0
  <2>1. PICK f : /\ f = [n \in 1..Len(ss) |-> IF n = 1 THEN ss[n] ELSE f[n - 1] \o ss[n]]
                 /\ FlattenSeq(ss) = f[Len(ss)]
    BY <1>2, FlattenDefined
  <2>2. \A n \in 1..Len(ss) : f[n] = IF n = 1 THEN ss[n] ELSE f[n - 1] \o ss[n]
    BY <2>1
  <2> DEFINE Good(n, t) == t \in Seq(X) /\ \E b, o : Joins(b, o, t, ss, n)
             T == {n \in Nat : n + 1 <= Len(ss) => Good(n + 1, f[n + 1])}
  <2>3. 0 \in T
    <3>1. f[1] = ss[1] /\ ss[1] \in Seq(X)
      BY <1>2, <2>2
    <3> DEFINE b == [i \in 1..Len(ss[1]) |-> 1]
               o == [i \in 1..Len(ss[1]) |-> i]
    <3>2. Len(ss[1]) \in Nat
      BY <3>1
    <3>5. /\ b \in [1..Len(ss[1]) -> 1..1] /\ o \in [1..Len(ss[1]) -> Nat]
          /\ \A i \in 1..Len(ss[1]) : b[i] = 1 /\ o[i] = i
      BY <3>2
    <3> HIDE DEF b, o
    <3>3. Joins(b, o, ss[1], ss, 1)
      <4>1. \A m \in 1..1 : \A k \in 1..Len(ss[m]) :
              \E i \in 1..Len(ss[1]) : b[i] = m /\ o[i] = k
        BY <3>2, <3>5
      <4> QED BY <3>2, <3>5, <4>1 DEF Joins
    <3>4. Good(1, f[1])
      BY <3>1, <3>3
    <3> HIDE DEF Good
    <3> QED BY <3>4
  <2>4. ASSUME NEW n \in Nat, n \in T PROVE n + 1 \in T
    <3> SUFFICES ASSUME (n + 1) + 1 <= Len(ss) PROVE Good((n + 1) + 1, f[(n + 1) + 1])
      <4> HIDE DEF Good
      <4> QED OBVIOUS
    <3>1. f[n + 1] \in Seq(X)
      BY <2>4
    <3>2. PICK b, o : Joins(b, o, f[n + 1], ss, n + 1)
      BY <2>4
    <3>3. (n + 1) + 1 \in 1..Len(ss) /\ ss[(n + 1) + 1] \in Seq(X)
      OBVIOUS
    <3>4. f[(n + 1) + 1] = f[n + 1] \o ss[(n + 1) + 1]
      <4>1. (n + 1) + 1 # 1 /\ ((n + 1) + 1) - 1 = n + 1
        OBVIOUS
      <4> HIDE DEF T
      <4> QED BY <2>2, <3>3, <4>1
    <3>5. n + 1 \in Nat
      OBVIOUS
    <3>6. \E c, p : Joins(c, p, f[n + 1] \o ss[(n + 1) + 1], ss, (n + 1) + 1)
      <4> HIDE DEF T
      <4> QED BY <3>1, <3>2, <3>3, <3>5, JoinsStep
    <3>7. f[n + 1] \o ss[(n + 1) + 1] \in Seq(X)
      BY <3>1, <3>3
    <3> HIDE DEF T
    <3> QED BY <3>4, <3>6, <3>7
  <2>5. Len(ss) - 1 \in T
    <3>1. Nat \subseteq T
      <4> HIDE DEF T
      <4> QED BY <2>3, <2>4, NatInductionSet
    <3>2. Len(ss) - 1 \in Nat
      BY <1>2
    <3> QED BY <3>1, <3>2
  <2>6. Good(Len(ss), f[Len(ss)])
    <3>1. Len(ss) - 1 \in Nat /\ (Len(ss) - 1) + 1 = Len(ss)
      BY <1>2
    <3> HIDE DEF Good
    <3> QED BY <2>5, <3>1
  <2> QED BY <2>1, <2>6
<1> QED BY <1>1, <1>2

\* The elements of t are elements of s at places of their own, g.
Embeds(g, t, s) ==
  /\ g \in [1..Len(t) -> 1..Len(s)]
  /\ \A i \in 1..Len(t) : t[i] = s[g[i]]
  /\ \A i, j \in 1..Len(t) : g[i] = g[j] => i = j

\* One embedding after another is one.
LEMMA EmbedsTrans ==
  ASSUME NEW X, NEW r \in Seq(X), NEW s \in Seq(X), NEW t \in Seq(X),
         NEW g, NEW h, Embeds(g, t, s), Embeds(h, s, r)
  PROVE  \E k : Embeds(k, t, r)
<1> DEFINE k == [i \in 1..Len(t) |-> h[g[i]]]
<1>1. \A i \in 1..Len(t) : g[i] \in 1..Len(s) /\ t[i] = s[g[i]]
  BY DEF Embeds
<1>2. \A i \in 1..Len(s) : h[i] \in 1..Len(r) /\ s[i] = r[h[i]]
  BY DEF Embeds
<1>3. \A i \in 1..Len(t) : k[i] \in 1..Len(r) /\ t[i] = r[k[i]]
  BY <1>1, <1>2
<1>4. \A i, j \in 1..Len(t) : k[i] = k[j] => i = j
  BY <1>1 DEF Embeds
<1>5. k \in [1..Len(t) -> 1..Len(r)]
  BY <1>3
<1> HIDE DEF k
<1>6. Embeds(k, t, r)
  BY <1>3, <1>4, <1>5 DEF Embeds
<1> QED BY <1>6

\* The order of the sort: newest first.
Falling(t) == \A i, j \in 1..Len(t) : i < j => t[i].lastmod >= t[j].lastmod

\* The sort returns what it is given, newest first.
LEMMA SortFacts ==
  ASSUME NEW s \in Seq(Listed)
  PROVE  /\ NewestFirst(s) \in Seq(Listed) /\ Falling(NewestFirst(s))
         /\ \E h : Embeds(h, NewestFirst(s), s)
<1>0. MaxMod \in Nat
  BY SitemapAssumption
<1> DEFINE Of(k) == {e \in ToSet(s) : e.lastmod = MaxMod + 1 - k}
           ss == [k \in 1..(MaxMod + 1) |-> Kept(s, Of(k))]
           t == FlattenSeq(ss)
<1>1. NewestFirst(s) = t
  BY DEF NewestFirst, Dated
<1>2. \A k \in 1..(MaxMod + 1) : Kept(s, Of(k)) \in Seq(Listed) /\ \E g : Picks(g, Kept(s, Of(k)), s, Of(k))
  <2> HIDE DEF Of
  <2> QED BY KeptPicks
<1>3. ss \in Seq(Seq(Listed)) /\ Len(ss) = MaxMod + 1
  <2>1. \A k \in 1..(MaxMod + 1) : Kept(s, Of(k)) \in Seq(Listed)
    BY <1>2
  <2> HIDE DEF Of
  <2> QED BY <1>0, <2>1
<1>4. \A k \in 1..(MaxMod + 1) : ss[k] = Kept(s, Of(k)) /\ \E g : Picks(g, ss[k], s, Of(k))
  BY <1>2
<1> DEFINE G == [k \in 1..(MaxMod + 1) |-> CHOOSE g : Picks(g, ss[k], s, Of(k))]
<1>5. \A k \in 1..(MaxMod + 1) : Picks(G[k], ss[k], s, Of(k))
  <2> HIDE DEF Of, ss
  <2> QED BY <1>4
<1> HIDE DEF ss, G, t
<1>6. t \in Seq(Listed) /\ \E b, o : Joins(b, o, t, ss, MaxMod + 1)
  BY <1>3, FlattenJoins DEF t
<1>7. PICK b, o : Joins(b, o, t, ss, MaxMod + 1)
  BY <1>6
<1>8. \A i \in 1..Len(t) : /\ b[i] \in 1..(MaxMod + 1) /\ o[i] \in 1..Len(ss[b[i]])
                           /\ t[i] = ss[b[i]][o[i]]
  BY <1>7 DEF Joins
<1>9. \A k \in 1..(MaxMod + 1) : \A m \in 1..Len(ss[k]) :
        /\ G[k][m] \in 1..Len(s) /\ ss[k][m] = s[G[k][m]]
        /\ ss[k][m].lastmod = MaxMod + 1 - k
  <2> SUFFICES ASSUME NEW k \in 1..(MaxMod + 1), NEW m \in 1..Len(ss[k])
               PROVE  /\ G[k][m] \in 1..Len(s) /\ ss[k][m] = s[G[k][m]]
                      /\ ss[k][m].lastmod = MaxMod + 1 - k
    OBVIOUS
  <2>1. G[k][m] \in 1..Len(s) /\ ss[k][m] = s[G[k][m]]
    BY <1>5 DEF Picks
  <2>2. s[G[k][m]] \in Of(k)
    <3> HIDE DEF Of
    <3> QED BY <1>5, <2>1 DEF Picks
  <2> QED BY <2>1, <2>2
<1> DEFINE h == [i \in 1..Len(t) |-> G[b[i]][o[i]]]
<1>10. \A i \in 1..Len(t) : /\ h[i] = G[b[i]][o[i]] /\ h[i] \in 1..Len(s) /\ t[i] = s[h[i]]
                            /\ t[i].lastmod = MaxMod + 1 - b[i]
  <2> SUFFICES ASSUME NEW i \in 1..Len(t)
               PROVE  /\ h[i] = G[b[i]][o[i]] /\ h[i] \in 1..Len(s) /\ t[i] = s[h[i]]
                      /\ t[i].lastmod = MaxMod + 1 - b[i]
    OBVIOUS
  <2>1. h[i] = G[b[i]][o[i]]
    OBVIOUS
  <2>2. b[i] \in 1..(MaxMod + 1) /\ o[i] \in 1..Len(ss[b[i]]) /\ t[i] = ss[b[i]][o[i]]
    BY <1>8
  <2>3. /\ G[b[i]][o[i]] \in 1..Len(s) /\ ss[b[i]][o[i]] = s[G[b[i]][o[i]]]
        /\ ss[b[i]][o[i]].lastmod = MaxMod + 1 - b[i]
    BY <1>9, <2>2
  <2> HIDE DEF h, Of
  <2> QED BY <2>1, <2>2, <2>3
<1>11. h \in [1..Len(t) -> 1..Len(s)]
  <2>1. \A i \in 1..Len(t) : h[i] \in 1..Len(s)
    BY <1>10
  <2> QED BY <2>1
<1> HIDE DEF h, Of
<1>12. \A i, j \in 1..Len(t) : h[i] = h[j] => i = j
  <2> SUFFICES ASSUME NEW i \in 1..Len(t), NEW j \in 1..Len(t), h[i] = h[j], i < j
               PROVE  FALSE
    <3>1. Len(t) \in Nat
      BY <1>6
    <3> QED BY <3>1
  <2>1. t[i] = t[j]
    BY <1>10
  <2>2. MaxMod + 1 - b[i] = MaxMod + 1 - b[j]
    BY <1>10, <2>1
  <2>3. b[i] \in 1..(MaxMod + 1) /\ b[j] \in 1..(MaxMod + 1)
    BY <1>8
  <2>4. b[i] = b[j]
    BY <1>0, <2>2, <2>3
  <2>5. o[i] < o[j]
    <3>1. b[i] < b[j] \/ (b[i] = b[j] /\ o[i] < o[j])
      BY <1>7 DEF Joins
    <3> QED BY <2>3, <2>4, <3>1
  <2>6. o[i] \in 1..Len(ss[b[i]]) /\ o[j] \in 1..Len(ss[b[i]])
    BY <1>8, <2>4
  <2>7. G[b[i]][o[i]] < G[b[i]][o[j]]
    BY <1>5, <2>3, <2>5, <2>6 DEF Picks
  <2>8. G[b[i]][o[i]] = G[b[i]][o[j]] /\ G[b[i]][o[i]] \in 1..Len(s)
    BY <1>10, <2>4
  <2> QED BY <2>7, <2>8
<1>13. Falling(t)
  <2> SUFFICES ASSUME NEW i \in 1..Len(t), NEW j \in 1..Len(t), i < j
               PROVE  t[i].lastmod >= t[j].lastmod
    BY DEF Falling
  <2>1. b[i] \in 1..(MaxMod + 1) /\ b[j] \in 1..(MaxMod + 1)
    BY <1>8
  <2>2. b[i] <= b[j]
    <3>1. b[i] < b[j] \/ (b[i] = b[j] /\ o[i] < o[j])
      BY <1>7 DEF Joins
    <3> QED BY <2>1, <3>1
  <2>3. t[i].lastmod = MaxMod + 1 - b[i] /\ t[j].lastmod = MaxMod + 1 - b[j]
    BY <1>10
  <2> QED BY <1>0, <2>1, <2>2, <2>3
<1>14. Embeds(h, t, s)
  BY <1>10, <1>11, <1>12 DEF Embeds
<1> QED BY <1>1, <1>6, <1>13, <1>14 DEF t

\* An index read while files are missing lists no more than one read whole.
LEMMA EntriesFacts ==
  ASSUME NEW w, IsWeb(w), NEW host \in DOMAIN w, NEW up \in SUBSET DOMAIN w
  PROVE  /\ Entries(w, host, up) \in Seq(Listed)
         /\ \E h : Embeds(h, Entries(w, host, up), Entries(w, host, DOMAIN w))
         /\ \A i \in 1..Len(Entries(w, host, up)) :
              \E file \in DOMAIN w : Entries(w, host, up)[i] \in ToSet(w[file].urls)
<1>1. /\ \A file \in DOMAIN w : w[file].urls \in Seq(Listed)
      /\ w[host].sitemaps \in Seq(STRING)
  BY DEF IsWeb
<1>2. CASE w[host].sitemaps = <<>>
  <2> DEFINE t == w[host].urls
  <2>1. \A some : Entries(w, host, some) = t
    BY <1>2 DEF Entries
  <2>2. t \in Seq(Listed) /\ DOMAIN t = 1..Len(t)
    BY <1>1
  <2> HIDE DEF t
  <2>3. Embeds([i \in 1..Len(t) |-> i], t, t)
    BY DEF Embeds
  <2>4. \A i \in 1..Len(t) : t[i] \in ToSet(w[host].urls)
    BY <2>2 DEF ToSet, t
  <2> QED BY <2>1, <2>2, <2>3, <2>4
<1>3. CASE w[host].sitemaps # <<>>
  <2> DEFINE s == w[host].sitemaps
             Files(some) == Kept(s, some)
             Docs(some) == [i \in DOMAIN Files(some) |-> w[Files(some)[i]].urls]
  <2>1. s \in Seq(STRING)
    BY <1>1
  <2>2. \A some : Entries(w, host, some) = FlattenSeq(Docs(some))
    BY <1>3 DEF Entries
  <2> HIDE DEF s
  <2>3. ASSUME NEW some \in SUBSET DOMAIN w
        PROVE  /\ Files(some) \in Seq(STRING)
               /\ \E g : Picks(g, Files(some), s, some)
               /\ \A i \in 1..Len(Files(some)) : Files(some)[i] \in some
               /\ Docs(some) \in Seq(Seq(Listed)) /\ Len(Docs(some)) = Len(Files(some))
               /\ \A i \in 1..Len(Files(some)) : Docs(some)[i] = w[Files(some)[i]].urls
    <3> DEFINE t == Files(some)
    <3>1. t \in Seq(STRING)
      BY <2>1, KeptPicks
    <3>2. PICK g : Picks(g, t, s, some)
      BY <2>1, KeptPicks
    <3> HIDE DEF t
    <3>3. \A i \in 1..Len(t) : t[i] \in some
      BY <3>2 DEF Picks
    <3>4. DOMAIN t = 1..Len(t) /\ Len(t) \in Nat
      BY <3>1
    <3>5. \A i \in 1..Len(t) : w[t[i]].urls \in Seq(Listed)
      BY <1>1, <3>3
    <3>6. [i \in DOMAIN t |-> w[t[i]].urls] \in Seq(Seq(Listed))
      BY <3>4, <3>5
    <3>7. Len([i \in DOMAIN t |-> w[t[i]].urls]) = Len(t)
      BY <3>4
    <3>8. \A i \in 1..Len(t) : [k \in DOMAIN t |-> w[t[k]].urls][i] = w[t[i]].urls
      BY <3>4
    <3> QED BY <3>1, <3>2, <3>3, <3>6, <3>7, <3>8 DEF t
  <2> HIDE DEF Files, Docs
  <2> DEFINE ff == Files(up)
             gg == Files(DOMAIN w)
             t == FlattenSeq(Docs(up))
             r == FlattenSeq(Docs(DOMAIN w))
  <2>4. PICK f : Picks(f, ff, s, up)
    BY <2>3
  <2>5. PICK g : Picks(g, gg, s, DOMAIN w)
    BY <2>3
  <2>6. t \in Seq(Listed) /\ \E b, o : Joins(b, o, t, Docs(up), Len(ff))
    <3>1. Docs(up) \in Seq(Seq(Listed)) /\ Len(Docs(up)) = Len(ff)
      BY <2>3
    <3> QED BY <3>1, FlattenJoins
  <2>7. r \in Seq(Listed) /\ \E b, o : Joins(b, o, r, Docs(DOMAIN w), Len(gg))
    <3>1. Docs(DOMAIN w) \in Seq(Seq(Listed)) /\ Len(Docs(DOMAIN w)) = Len(gg)
      BY <2>3
    <3> QED BY <3>1, FlattenJoins
  <2>8. PICK b, o : Joins(b, o, t, Docs(up), Len(ff))
    BY <2>6
  <2>9. PICK c, p : Joins(c, p, r, Docs(DOMAIN w), Len(gg))
    BY <2>7
  <2>10. /\ Len(s) \in Nat /\ Len(ff) \in Nat /\ Len(gg) \in Nat
         /\ Len(t) \in Nat /\ Len(r) \in Nat
    BY <2>1, <2>3, <2>6, <2>7
  <2>11. /\ \A i \in 1..Len(ff) : Docs(up)[i] = w[ff[i]].urls /\ ff[i] \in up
         /\ \A i \in 1..Len(gg) : Docs(DOMAIN w)[i] = w[gg[i]].urls
    BY <2>3
  <2> HIDE DEF ff, gg, t, r
  \* Every file that is up is a file.
  <2>12. \A i \in 1..Len(ff) : \E k \in 1..Len(gg) : g[k] = f[i] /\ gg[k] = ff[i]
    <3> SUFFICES ASSUME NEW i \in 1..Len(ff)
                 PROVE  \E k \in 1..Len(gg) : g[k] = f[i] /\ gg[k] = ff[i]
      OBVIOUS
    <3>1. f[i] \in 1..Len(s) /\ ff[i] = s[f[i]] /\ s[f[i]] \in DOMAIN w
      BY <2>4, <2>11 DEF Picks
    <3>2. PICK k \in 1..Len(gg) : g[k] = f[i]
      BY <2>5, <3>1 DEF Picks
    <3> QED BY <2>5, <3>1, <3>2 DEF Picks
  <2>13. \A i \in 1..Len(t) :
           /\ b[i] \in 1..Len(ff) /\ o[i] \in 1..Len(w[ff[b[i]]].urls)
           /\ t[i] = w[ff[b[i]]].urls[o[i]]
    BY <2>8, <2>11 DEF Joins
  <2>14. \A i \in 1..Len(t) : \E k \in 1..Len(r) :
           g[c[k]] = f[b[i]] /\ p[k] = o[i] /\ r[k] = t[i]
    <3> SUFFICES ASSUME NEW i \in 1..Len(t)
                 PROVE  \E k \in 1..Len(r) : g[c[k]] = f[b[i]] /\ p[k] = o[i] /\ r[k] = t[i]
      OBVIOUS
    <3>1. PICK m \in 1..Len(gg) : g[m] = f[b[i]] /\ gg[m] = ff[b[i]]
      BY <2>12, <2>13
    <3>2. Docs(DOMAIN w)[m] = w[ff[b[i]]].urls /\ o[i] \in 1..Len(Docs(DOMAIN w)[m])
      BY <2>11, <2>13, <3>1
    <3>3. PICK k \in 1..Len(r) : c[k] = m /\ p[k] = o[i]
      BY <2>9, <3>2 DEF Joins
    <3>4. r[k] = Docs(DOMAIN w)[m][o[i]]
      BY <2>9, <3>3 DEF Joins
    <3> QED BY <2>13, <3>1, <3>2, <3>3, <3>4
  <2> DEFINE h == [i \in 1..Len(t) |->
                     CHOOSE k \in 1..Len(r) : g[c[k]] = f[b[i]] /\ p[k] = o[i] /\ r[k] = t[i]]
  <2>15. \A i \in 1..Len(t) : /\ h[i] \in 1..Len(r) /\ g[c[h[i]]] = f[b[i]]
                              /\ p[h[i]] = o[i] /\ r[h[i]] = t[i]
    BY <2>14
  <2>16. h \in [1..Len(t) -> 1..Len(r)]
    <3>1. \A i \in 1..Len(t) : h[i] \in 1..Len(r)
      BY <2>15
    <3> QED BY <3>1
  <2> HIDE DEF h
  <2>17. \A i, j \in 1..Len(t) : h[i] = h[j] => i = j
    <3> SUFFICES ASSUME NEW i \in 1..Len(t), NEW j \in 1..Len(t), h[i] = h[j], i < j
                 PROVE  FALSE
      BY <2>10
    <3>1. f[b[i]] = f[b[j]] /\ o[i] = o[j]
      BY <2>15
    <3>2. b[i] \in 1..Len(ff) /\ b[j] \in 1..Len(ff) /\ o[i] \in Nat /\ o[j] \in Nat
      BY <2>8 DEF Joins
    <3>3. b[i] < b[j] \/ (b[i] = b[j] /\ o[i] < o[j])
      BY <2>8 DEF Joins
    <3>4. b[i] < b[j]
      BY <3>1, <3>2, <3>3
    <3>5. f[b[i]] < f[b[j]] /\ f[b[i]] \in 1..Len(s)
      BY <2>4, <3>2, <3>4 DEF Picks
    <3> QED BY <2>10, <3>1, <3>5
  <2>18. Embeds(h, t, r)
    BY <2>15, <2>16, <2>17 DEF Embeds
  <2>19. \A i \in 1..Len(t) : \E file \in DOMAIN w : t[i] \in ToSet(w[file].urls)
    <3> SUFFICES ASSUME NEW i \in 1..Len(t)
                 PROVE  \E file \in DOMAIN w : t[i] \in ToSet(w[file].urls)
      OBVIOUS
    <3>1. ff[b[i]] \in DOMAIN w /\ w[ff[b[i]]].urls \in Seq(Listed)
      BY <1>1, <2>11, <2>13
    <3>2. DOMAIN w[ff[b[i]]].urls = 1..Len(w[ff[b[i]]].urls)
      BY <3>1
    <3> QED BY <2>13, <3>1, <3>2 DEF ToSet
  <2> QED BY <2>2, <2>6, <2>18, <2>19 DEF t, r
<1> QED BY <1>2, <1>3

\* What is under a site is on its host, and more than the host.
LEMMA UnderHead ==
  ASSUME NEW site, IsSite(site), NEW loc \in Seq(STRING), Under(site, loc)
  PROVE  Head(loc) = Head(site) /\ Len(loc) > 1
<1>1. site \in Seq(STRING) /\ Len(site) \in Nat /\ Len(site) # 0 /\ site[1] # "/"
      /\ Head(site) = site[1]
  BY DEF IsSite
<1> DEFINE N == {0} \cup {n \in DOMAIN site : site[n] # "/"}
           m == Max(N)
<1>2. N \in SUBSET (0..Len(site)) /\ 1 \in N
  BY <1>1
<1>3. m \in N /\ m >= 1
  <2> HIDE DEF N
  <2>1. \A x \in N : Max(N) >= x
    BY <1>1, <1>2, GreatestNat
  <2> QED BY <1>1, <1>2, <2>1, GreatestNat
<1>4. m \in 1..Len(site)
  <2>1. m \in 0..Len(site)
    BY <1>2, <1>3
  <2> QED BY <1>1, <1>3, <2>1
<1>5. Prefix(site) = SubSeq(site, 1, m)
  BY DEF Prefix
<1> HIDE DEF m
<1>6. Len(Prefix(site)) = m /\ Prefix(site)[1] = site[1] /\ Prefix(site) \in Seq(STRING)
  BY <1>1, <1>4, <1>5
<1>7. m <= Len(loc) /\ SubSeq(Prefix(site), 1, m) = SubSeq(loc, 1, m)
  BY <1>6 DEF Under, IsStrictPrefix, IsPrefix
<1>8. SubSeq(Prefix(site), 1, m)[1] = Prefix(site)[1]
  BY <1>4, <1>6
<1>9. SubSeq(loc, 1, m)[1] = loc[1] /\ Head(loc) = loc[1]
  <2>1. Len(loc) \in Nat /\ m \in 1..Len(loc)
    BY <1>1, <1>4, <1>7
  <2> QED BY <2>1
<1>10. Len(loc) > m
  <2>1. SubSeq(Prefix(site), 1, m) = Prefix(site)
    BY <1>6, SubSeqFull
  <2>2. Len(loc) = m => SubSeq(loc, 1, m) = loc
    BY SubSeqFull
  <2>3. Len(loc) # m
    BY <1>7, <2>1, <2>2 DEF Under, IsStrictPrefix
  <2>4. Len(loc) \in Nat /\ m \in Nat
    BY <1>1, <1>4
  <2> QED BY <1>7, <2>3, <2>4
<1>11. Len(loc) > 1
  BY <1>1, <1>4, <1>10
<1> QED BY <1>1, <1>6, <1>7, <1>8, <1>9, <1>11

\* The addresses Discover returns: those under the site, each as often as the
\* sitemaps list it at most, by dates that do not rise.
Discovered(d, w, site) ==
  /\ d \in Seq(Seq(STRING)) /\ (d # <<>> => Head(site) \in DOMAIN w)
  /\ \A i \in 1..Len(d) : Under(site, d[i])
  /\ \E h : /\ h \in [1..Len(d) -> 1..Len(Entries(w, Head(site), DOMAIN w))]
            /\ \A i \in 1..Len(d) : Entries(w, Head(site), DOMAIN w)[h[i]].loc = d[i]
            /\ \A i, j \in 1..Len(d) : h[i] = h[j] => i = j
  /\ \E e : /\ e \in [1..Len(d) -> Listed]
            /\ \A i \in 1..Len(d) :
                 e[i].loc = d[i] /\ \E file \in DOMAIN w : e[i] \in ToSet(w[file].urls)
            /\ \A i, j \in 1..Len(d) : i < j => e[i].lastmod >= e[j].lastmod

\* What Discover returns.
LEMMA DiscoverFacts ==
  ASSUME NEW w, IsWeb(w), NEW site, NEW up \in SUBSET DOMAIN w
  PROVE  Discovered(Discover(w, site, up), w, site)
<1> DEFINE host == Head(site)
           all == Entries(w, host, up)
           S == {e \in ToSet(all) : Under(site, e.loc)}
           posts == Kept(all, S)
           sorted == NewestFirst(posts)
           d == [i \in DOMAIN sorted |-> sorted[i].loc]
<1>1. CASE host \notin up
  <2>1. Discover(w, site, up) = <<>>
    BY <1>1 DEF Discover
  <2>2. Discovered(<<>>, w, site)
    <3>1. <<>> \in Seq(Seq(STRING)) /\ Len(<<>>) = 0
      OBVIOUS
    <3>2. <<>> \in [1..0 -> 1..Len(Entries(w, Head(site), DOMAIN w))] /\ <<>> \in [1..0 -> Listed]
      OBVIOUS
    <3>3. \A i \in 1..0 : FALSE
      OBVIOUS
    <3> QED BY <3>1, <3>2, <3>3 DEF Discovered
  <2> QED BY <2>1, <2>2
<1>2. CASE host \in up
  <2>1. Discover(w, site, up) = d
    BY <1>2 DEF Discover
  <2>2. /\ all \in Seq(Listed)
        /\ \E h : Embeds(h, all, Entries(w, host, DOMAIN w))
        /\ \A i \in 1..Len(all) : \E file \in DOMAIN w : all[i] \in ToSet(w[file].urls)
        /\ Entries(w, host, DOMAIN w) \in Seq(Listed)
    BY <1>2, EntriesFacts
  <2> DEFINE whole == Entries(w, host, DOMAIN w)
  <2> HIDE DEF all, whole
  <2>3. posts \in Seq(Listed) /\ \E g : Picks(g, posts, all, S)
    <3> HIDE DEF S
    <3> QED BY <2>2, KeptPicks DEF whole
  <2>4. PICK g : Picks(g, posts, all, S)
    BY <2>3
  <2> HIDE DEF posts
  <2>5. Embeds(g, posts, all)
    <3>1. /\ g \in [1..Len(posts) -> 1..Len(all)]
          /\ \A i \in 1..Len(posts) : posts[i] = all[g[i]]
          /\ \A i, j \in 1..Len(posts) : i < j => g[i] < g[j]
      BY <2>4 DEF Picks
    <3>2. Len(posts) \in Nat /\ Len(all) \in Nat
      BY <2>2, <2>3
    <3>3. \A i, j \in 1..Len(posts) : g[i] = g[j] => i = j
      <4> SUFFICES ASSUME NEW i \in 1..Len(posts), NEW j \in 1..Len(posts), g[i] = g[j], i # j
                   PROVE  FALSE
        OBVIOUS
      <4>1. g[i] \in 1..Len(all) /\ (g[i] < g[j] \/ g[j] < g[i])
        BY <3>1, <3>2
      <4> QED BY <3>2, <4>1
    <3> QED BY <3>1, <3>3 DEF Embeds
  <2>6. sorted \in Seq(Listed) /\ Falling(sorted) /\ \E h : Embeds(h, sorted, posts)
    BY <2>3, SortFacts
  <2> HIDE DEF sorted
  <2>7. PICK h : Embeds(h, sorted, posts)
    BY <2>6
  <2>8. PICK k : Embeds(k, sorted, all)
    BY <2>2, <2>3, <2>5, <2>6, <2>7, EmbedsTrans
  <2>9. PICK a : Embeds(a, all, whole)
    BY <2>2 DEF whole
  <2>10. PICK b : Embeds(b, sorted, whole)
    <3>1. whole \in Seq(Listed) /\ all \in Seq(Listed) /\ sorted \in Seq(Listed)
      BY <2>2, <2>6 DEF whole
    <3> QED BY <2>8, <2>9, <3>1, EmbedsTrans
  <2>11. /\ Len(sorted) \in Nat /\ DOMAIN sorted = 1..Len(sorted)
         /\ \A i \in 1..Len(sorted) : sorted[i] \in Listed /\ sorted[i].loc \in Seq(STRING)
    <3>1. \A e \in Listed : e.loc \in Seq(STRING)
      BY DEF Listed
    <3>2. Len(sorted) \in Nat /\ DOMAIN sorted = 1..Len(sorted)
          /\ \A i \in 1..Len(sorted) : sorted[i] \in Listed
      BY <2>6
    <3> QED BY <3>1, <3>2
  <2>12. /\ d \in Seq(Seq(STRING)) /\ Len(d) = Len(sorted)
         /\ \A i \in 1..Len(sorted) : d[i] = sorted[i].loc
    BY <2>11
  <2> HIDE DEF d
  <2>13. \A i \in 1..Len(sorted) : sorted[i] \in S
    <3> SUFFICES ASSUME NEW i \in 1..Len(sorted) PROVE sorted[i] \in S
      OBVIOUS
    <3>1. h[i] \in 1..Len(posts) /\ sorted[i] = posts[h[i]]
      BY <2>7 DEF Embeds
    <3> HIDE DEF S
    <3> QED BY <2>4, <3>1 DEF Picks
  <2>14. \A i \in 1..Len(d) : Under(site, d[i])
    BY <2>12, <2>13
  <2>15. /\ b \in [1..Len(d) -> 1..Len(whole)]
         /\ \A i \in 1..Len(d) : whole[b[i]].loc = d[i]
         /\ \A i, j \in 1..Len(d) : b[i] = b[j] => i = j
    BY <2>10, <2>12 DEF Embeds
  <2>16. /\ sorted \in [1..Len(d) -> Listed]
         /\ \A i \in 1..Len(d) :
              sorted[i].loc = d[i] /\ \E file \in DOMAIN w : sorted[i] \in ToSet(w[file].urls)
         /\ \A i, j \in 1..Len(d) : i < j => sorted[i].lastmod >= sorted[j].lastmod
    <3>1. sorted \in [1..Len(d) -> Listed]
      BY <2>6, <2>12
    <3>2. \A i \in 1..Len(sorted) : \E file \in DOMAIN w : sorted[i] \in ToSet(w[file].urls)
      BY <2>2, <2>8 DEF Embeds
    <3> QED BY <2>6, <2>12, <3>1, <3>2 DEF Falling
  <2>17. Discovered(d, w, site)
    BY <1>2, <2>12, <2>14, <2>15, <2>16 DEF Discovered, whole
  <2> QED BY <2>1, <2>17
<1> QED BY <1>1, <1>2

-----------------------------------------------------------------------------
(* The search. *)

\* What the search has read and has still to read.
SearchInv ==
  /\ \E X : issues \in Seq(X)
  /\ Len(issues) <= MaxIssues
  /\ labelled \subseteq 1..Len(issues) /\ since \subseteq labelled
  /\ pc \in {"idle", "paging", "done"}
  /\ got \in Seq(1..Len(issues)) /\ Len(got) < MaxTickets + PageSize
  /\ token \in {NoToken} \cup Ids
  /\ \A i, j \in 1..Len(got) : i < j => got[i] > got[j]
  /\ pc = "paging" =>
       /\ Len(got) < MaxTickets
       /\ IF token = NoToken THEN got = <<>> ELSE got # <<>> /\ token = got[Len(got)]
       /\ \A i \in since : token = NoToken \/ i < token \/ \E k \in 1..Len(got) : got[k] = i
  /\ pc = "done" =>
       \A i \in since : \/ \E k \in 1..Len(got) : got[k] = i
                        \/ Len(got) >= MaxTickets /\ \A k \in 1..Len(got) : got[k] > i

\* Facts on the pages that a set of issues may begin with.
LEMMA OpeningFacts ==
  ASSUME NEW S \in SUBSET Nat, NEW page \in Openings(S)
  PROVE  /\ page \in Seq(S) /\ Len(page) <= PageSize
         /\ \A j, k \in 1..Len(page) : j < k => page[j] > page[k]
         /\ \A i \in S : \/ \E k \in 1..Len(page) : page[k] = i
                         \/ \A k \in 1..Len(page) : i < page[k]
         /\ page = <<>> => S = {}
<1>0. PageSize \in Nat \ {0}
  BY JiraAssumption
<1>1. PICK n \in 0..PageSize : page \in [1..n -> S]
  BY DEF Openings
<1>2. page \in Seq(S) /\ Len(page) = n /\ DOMAIN page = 1..n
  BY <1>0, <1>1
<1>3. \A j, k \in DOMAIN page : j < k => page[j] > page[k]
  BY DEF Openings
<1>4. /\ \A i \in S \ ToSet(page), j \in ToSet(page) : i < j
      /\ S # {} => page # <<>>
  BY DEF Openings
<1>5. \A i \in S : \/ \E k \in 1..Len(page) : page[k] = i
                   \/ \A k \in 1..Len(page) : i < page[k]
  BY <1>2, <1>4 DEF ToSet
<1> QED BY <1>0, <1>2, <1>3, <1>4, <1>5

\* A page that is added leaves what was read in order, and nothing out.
LEMMA FetchStep ==
  ASSUME SearchInv, FetchPage
  PROVE  SearchInv'
<1>0. MaxIssues \in Nat /\ PageSize \in Nat \ {0} /\ MaxTickets \in Nat \ {0}
  BY JiraAssumption
<1>1. PICK page \in Pages :
        /\ got' = got \o page.issues
        /\ IF IsFinalPage(page) \/ Len(got \o page.issues) >= MaxTickets
           THEN pc' = "done" /\ UNCHANGED token
           ELSE UNCHANGED pc /\ token' = Last(page.issues)
  BY DEF FetchPage
<1>2. pc = "paging" /\ UNCHANGED <<issues, labelled, since>>
  BY DEF FetchPage, jira
<1> DEFINE p == page.issues
<1>3. p \in Openings(Ahead) /\ (page.isLast \/ ~page.more => ToSet(p) = Ahead)
  BY DEF Pages
<1>4. Len(issues) \in Nat /\ Ahead \in SUBSET Nat /\ Ahead \subseteq 1..Len(issues)
  <2>1. Len(issues) \in Nat
    BY DEF SearchInv
  <2>2. labelled \subseteq 1..Len(issues)
    BY DEF SearchInv
  <2>3. Ahead \subseteq labelled
    BY DEF Ahead
  <2> QED BY <2>1, <2>2, <2>3
<1>5. /\ p \in Seq(Ahead) /\ Len(p) <= PageSize
      /\ \A j, k \in 1..Len(p) : j < k => p[j] > p[k]
      /\ \A i \in Ahead : \/ \E k \in 1..Len(p) : p[k] = i
                          \/ \A k \in 1..Len(p) : i < p[k]
      /\ p = <<>> => Ahead = {}
  BY <1>3, <1>4, OpeningFacts
<1>6. IsFinalPage(page) => \A i \in Ahead : \E k \in 1..Len(p) : p[k] = i
  BY <1>3, <1>5 DEF IsFinalPage, ToSet
<1>7. ~IsFinalPage(page) => p # <<>>
  BY DEF IsFinalPage
<1> HIDE DEF p
<1>8. /\ got \in Seq(1..Len(issues)) /\ Len(got) \in Nat /\ Len(got) < MaxTickets
      /\ \A i, j \in 1..Len(got) : i < j => got[i] > got[j]
      /\ IF token = NoToken THEN got = <<>> ELSE got # <<>> /\ token = got[Len(got)]
      /\ \A i \in since : token = NoToken \/ i < token \/ \E k \in 1..Len(got) : got[k] = i
      /\ since \subseteq labelled /\ token \in Nat
  BY <1>0, <1>2 DEF SearchInv, NoToken, Ids
<1>9. /\ Len(p) \in Nat /\ Len(got \o p) = Len(got) + Len(p)
      /\ \A k \in 1..Len(got) : (got \o p)[k] = got[k]
      /\ \A k \in 1..Len(p) : (got \o p)[Len(got) + k] = p[k]
      /\ \A k \in 1..Len(p) : p[k] \in Ahead
      /\ \A k \in 1..Len(got) : got[k] \in 1..Len(issues)
  BY <1>4, <1>5, <1>8
<1>10. got \o p \in Seq(1..Len(issues))
  <2>1. p \in Seq(1..Len(issues))
    BY <1>4, <1>5, SeqMono
  <2> QED BY <1>8, <2>1
<1>11. \A k \in 1..Len(got), i \in Ahead : got[k] > i
  <2> SUFFICES ASSUME NEW k \in 1..Len(got), NEW i \in Ahead PROVE got[k] > i
    OBVIOUS
  <2>1. token # NoToken
    BY <1>8
  <2>2. i \in Nat /\ i < token
    BY <1>4, <2>1 DEF Ahead
  <2>3. got[k] \in Nat /\ Len(got) \in 1..Len(got) /\ token = got[Len(got)]
    BY <1>4, <1>8, <1>9, <2>1
  <2>4. k = Len(got) \/ got[k] > got[Len(got)]
    BY <1>8, <2>3
  <2> QED BY <1>8, <2>2, <2>3, <2>4
<1>12. \A i, j \in 1..Len(got \o p) : i < j => (got \o p)[i] > (got \o p)[j]
  <2> SUFFICES ASSUME NEW i \in 1..Len(got \o p), NEW j \in 1..Len(got \o p), i < j
               PROVE  (got \o p)[i] > (got \o p)[j]
    OBVIOUS
  <2>1. CASE j \in 1..Len(got)
    BY <1>8, <1>9, <2>1
  <2>2. CASE i \in 1..Len(got) /\ j \notin 1..Len(got)
    <3>1. j - Len(got) \in 1..Len(p) /\ j = Len(got) + (j - Len(got))
      BY <1>8, <1>9, <2>2
    <3>2. (got \o p)[j] = p[j - Len(got)] /\ p[j - Len(got)] \in Ahead
      BY <1>9, <3>1
    <3> QED BY <1>9, <1>11, <2>2, <3>2
  <2>3. CASE i \notin 1..Len(got)
    <3>1. /\ i - Len(got) \in 1..Len(p) /\ i = Len(got) + (i - Len(got))
          /\ j - Len(got) \in 1..Len(p) /\ j = Len(got) + (j - Len(got))
          /\ i - Len(got) < j - Len(got)
      BY <1>8, <1>9, <2>3
    <3>2. (got \o p)[i] = p[i - Len(got)] /\ (got \o p)[j] = p[j - Len(got)]
      BY <1>9, <3>1
    <3> QED BY <1>5, <3>1, <3>2
  <2> QED BY <1>8, <1>9, <2>1, <2>2, <2>3
<1>13. \A i \in since : \/ \E k \in 1..Len(got \o p) : (got \o p)[k] = i
                        \/ i \in Ahead /\ \A k \in 1..Len(p) : p[k] > i
  <2> SUFFICES ASSUME NEW i \in since PROVE \/ \E k \in 1..Len(got \o p) : (got \o p)[k] = i
                                            \/ i \in Ahead /\ \A k \in 1..Len(p) : p[k] > i
    OBVIOUS
  <2>1. CASE \E k \in 1..Len(got) : got[k] = i
    <3>1. PICK k \in 1..Len(got) : got[k] = i
      BY <2>1
    <3>2. k \in 1..Len(got \o p) /\ (got \o p)[k] = i
      BY <1>8, <1>9, <3>1
    <3> QED BY <3>2
  <2>2. CASE i \in Ahead
    <3>1. CASE \E k \in 1..Len(p) : p[k] = i
      <4>1. PICK k \in 1..Len(p) : p[k] = i
        BY <3>1
      <4>2. Len(got) + k \in 1..Len(got \o p) /\ (got \o p)[Len(got) + k] = i
        BY <1>8, <1>9, <4>1
      <4> QED BY <4>2
    <3>2. CASE \A k \in 1..Len(p) : i < p[k]
      <4>1. \A k \in 1..Len(p) : p[k] \in Nat /\ i \in Nat
        BY <1>4, <1>9, <2>2
      <4> QED BY <2>2, <3>2, <4>1
    <3> QED BY <1>5, <2>2, <3>1, <3>2
  <2> QED BY <1>8, <2>1, <2>2 DEF Ahead
<1>14. got' = got \o p
  BY <1>1 DEF p
<1>15. CASE IsFinalPage(page) \/ Len(got \o p) >= MaxTickets
  <2>1. pc' = "done" /\ token' = token
    BY <1>1, <1>15 DEF p
  <2>2. \A i \in since : \/ \E k \in 1..Len(got \o p) : (got \o p)[k] = i
                         \/ /\ Len(got \o p) >= MaxTickets
                            /\ \A k \in 1..Len(got \o p) : (got \o p)[k] > i
    <3> SUFFICES ASSUME NEW i \in since, ~\E k \in 1..Len(got \o p) : (got \o p)[k] = i
                 PROVE  /\ Len(got \o p) >= MaxTickets
                        /\ \A k \in 1..Len(got \o p) : (got \o p)[k] > i
      OBVIOUS
    <3>1. i \in Ahead /\ \A k \in 1..Len(p) : p[k] > i
      BY <1>13
    <3>2. \A k \in 1..Len(p) : p[k] # i
      <4>1. \A k \in 1..Len(p) : Len(got) + k \in 1..Len(got \o p)
        BY <1>8, <1>9
      <4> QED BY <1>9, <4>1
    <3>3. ~IsFinalPage(page)
      BY <1>6, <3>1, <3>2
    <3>4. ASSUME NEW k \in 1..Len(got \o p) PROVE (got \o p)[k] > i
      <4>1. CASE k \in 1..Len(got)
        BY <1>9, <1>11, <3>1, <4>1
      <4>2. CASE k \notin 1..Len(got)
        <5>1. k - Len(got) \in 1..Len(p) /\ k = Len(got) + (k - Len(got))
          BY <1>8, <1>9, <4>2
        <5>2. (got \o p)[k] = p[k - Len(got)]
          BY <1>9, <5>1
        <5> QED BY <3>1, <5>1, <5>2
      <4> QED BY <4>1, <4>2
    <3> QED BY <1>15, <3>3, <3>4
  <2>3. Len(got \o p) < MaxTickets + PageSize
    BY <1>0, <1>5, <1>8, <1>9
  <2> QED
    BY <1>2, <1>10, <1>12, <1>14, <2>1, <2>2, <2>3 DEF SearchInv
<1>16. CASE ~(IsFinalPage(page) \/ Len(got \o p) >= MaxTickets)
  <2>1. pc' = "paging" /\ token' = Last(p) /\ p # <<>>
    BY <1>1, <1>2, <1>7, <1>16 DEF p
  <2>2. Len(p) \in 1..Len(p) /\ Last(p) = p[Len(p)] /\ p[Len(p)] \in Ahead
    BY <1>5, <1>9, <2>1 DEF Last
  <2>3. Last(p) \in Ids /\ Last(p) # NoToken
    <3>1. Last(p) \in 1..Len(issues) /\ Len(issues) <= MaxIssues
      BY <1>4, <2>2 DEF SearchInv
    <3> QED BY <1>0, <1>4, <3>1 DEF Ids, NoToken
  <2>4. got \o p # <<>> /\ Last(p) = (got \o p)[Len(got \o p)]
    BY <1>8, <1>9, <2>2
  <2>5. \A i \in since : \/ i < Last(p)
                         \/ \E k \in 1..Len(got \o p) : (got \o p)[k] = i
    <3> SUFFICES ASSUME NEW i \in since, i \in Ahead, \A k \in 1..Len(p) : p[k] > i
                 PROVE  i < Last(p)
      BY <1>13
    <3>1. Last(p) > i /\ Last(p) \in Nat /\ i \in Nat
      BY <1>4, <2>2
    <3> QED BY <3>1
  <2>6. Len(got \o p) < MaxTickets /\ Len(got \o p) < MaxTickets + PageSize
    BY <1>0, <1>8, <1>9, <1>16
  <2> QED
    BY <1>2, <1>10, <1>12, <1>14, <2>1, <2>3, <2>4, <2>5, <2>6 DEF SearchInv
<1> QED BY <1>15, <1>16

\* A new issue is none that the search has read or has to read.
LEMMA PostStep ==
  ASSUME SearchInv, NEW payload, Post(payload), UNCHANGED search
  PROVE  SearchInv'
<1>0. UNCHANGED <<pc, got, token, since>>
  BY DEF search
<1>1. PICK X : issues \in Seq(X)
  BY DEF SearchInv
<1> DEFINE issue == [payload |-> payload, fields |-> Fields(payload)]
<1>2. issues' = Append(issues, issue) /\ Len(issues) < MaxIssues
      /\ labelled' = labelled \cup {Len(issues) + 1}
  BY DEF Post
<1> HIDE DEF issue
<1>3. issues \in Seq(X \cup {issue}) /\ issue \in X \cup {issue}
  BY <1>1
<1>4. issues' \in Seq(X \cup {issue}) /\ Len(issues') = Len(issues) + 1 /\ Len(issues) \in Nat
  BY <1>2, <1>3
<1>5. got \in Seq(1..Len(issues'))
  <2>1. got \in Seq(1..Len(issues)) /\ 1..Len(issues) \subseteq 1..Len(issues')
    <3>1. got \in Seq(1..Len(issues))
      BY DEF SearchInv
    <3> QED BY <1>4, <3>1
  <2> QED BY <2>1, SeqMono
<1>6. labelled' \subseteq 1..Len(issues') /\ since \subseteq labelled'
  <2>1. labelled \subseteq 1..Len(issues) /\ since \subseteq labelled
    BY DEF SearchInv
  <2>2. 1..Len(issues) \subseteq 1..Len(issues') /\ Len(issues) + 1 \in 1..Len(issues')
    BY <1>4
  <2> QED BY <1>2, <2>1, <2>2
<1>7. Len(issues') <= MaxIssues
  BY <1>2, <1>4, JiraAssumption
<1> QED BY <1>0, <1>4, <1>5, <1>6, <1>7 DEF SearchInv

\* SearchInv is inductive.
LEMMA SearchStep == SearchInv /\ [ContentNext]_contentVars => SearchInv'
<1> SUFFICES ASSUME SearchInv, [ContentNext]_contentVars PROVE SearchInv'
  OBVIOUS
<1>0. MaxIssues \in Nat /\ PageSize \in Nat \ {0} /\ MaxTickets \in Nat \ {0}
  BY JiraAssumption
<1>1. CASE UNCHANGED jiraVars
  BY <1>1 DEF SearchInv, jiraVars, jira, search
<1>2. CASE DigestNext /\ UNCHANGED search
  <2>1. CASE FilePost
    <3>1. PICK payload : Post(payload)
      BY <2>1 DEF FilePost
    <3> QED BY <1>2, <3>1, PostStep
  <2>2. CASE ~FilePost
    <3>1. UNCHANGED jira
      BY <1>2, <2>2 DEF DigestNext, CreateAutomation, ReadRow, WriteRow, DeleteRow, ClearSeen,
        Claim, DiscoverPosts, SkipPost, Disconnected, MarkPost, tickets
    <3> QED BY <1>1, <1>2, <3>1 DEF jiraVars
  <2> QED BY <2>1, <2>2
<1>3. CASE JiraNext
  <2>1. ASSUME NEW payload \in Payloads, CreateIssue(payload) PROVE SearchInv'
    BY <2>1, PostStep DEF CreateIssue
  <2>2. ASSUME NEW i \in Ids, Relabel(i) PROVE SearchInv'
    <3>1. UNCHANGED <<issues, pc, got, token>> /\ since' = since \ {i}
      BY <2>2 DEF Relabel
    <3>2. labelled' \subseteq 1..Len(issues) /\ since' \subseteq labelled'
      <4>1. i \in 1..Len(issues)
        BY <2>2 DEF Relabel, SearchInv
      <4>2. labelled \subseteq 1..Len(issues) /\ since \subseteq labelled
        BY DEF SearchInv
      <4>3. labelled' = IF i \in labelled THEN labelled \ {i} ELSE labelled \cup {i}
        BY <2>2 DEF Relabel
      <4> QED BY <3>1, <4>1, <4>2, <4>3
    <3> QED BY <3>1, <3>2 DEF SearchInv
  <2>3. CASE SearchByLabel
    <3>1. UNCHANGED <<issues, labelled>> /\ pc' = "paging" /\ got' = <<>> /\ token' = NoToken
          /\ since' = labelled
      BY <2>3 DEF SearchByLabel, jira
    <3> QED BY <1>0, <3>1 DEF SearchInv, NoToken
  <2>4. CASE FetchPage
    BY <2>4, FetchStep
  <2>5. CASE EndSearch
    <3>1. UNCHANGED <<issues, labelled>> /\ pc' = "idle" /\ got' = <<>> /\ token' = NoToken
          /\ since' = {}
      BY <2>5 DEF EndSearch, jira
    <3> QED BY <1>0, <3>1 DEF SearchInv, NoToken
  <2> QED BY <1>3, <2>1, <2>2, <2>3, <2>4, <2>5 DEF JiraNext, SearchNext
<1> QED BY <1>1, <1>2, <1>3 DEF ContentNext, contentVars, digestVars, tickets, jiraVars

\* SearchInv holds at first.
LEMMA SearchStart == ContentInit => SearchInv
<1> SUFFICES ASSUME ContentInit PROVE SearchInv
  OBVIOUS
<1>1. /\ issues = <<>> /\ labelled = {}
      /\ pc = "idle" /\ got = <<>> /\ token = NoToken /\ since = {}
  BY DEF ContentInit, JiraInit
<1>2. issues \in Seq({}) /\ Len(issues) = 0
  BY <1>1
<1> QED BY <1>1, <1>2, JiraAssumption DEF SearchInv, NoToken

\* The type of what the search keeps.
LEMMA SearchTyped == SearchInv => JiraTypeOK
<1> SUFFICES ASSUME SearchInv PROVE JiraTypeOK
  OBVIOUS
<1>1. DOMAIN issues = 1..Len(issues) /\ DOMAIN got = 1..Len(got)
  BY DEF SearchInv
<1>2. \A k \in 1..Len(got) : got[k] \in 1..Len(issues)
  BY DEF SearchInv
<1>3. ToSet(got) \subseteq DOMAIN issues
  BY <1>1, <1>2 DEF ToSet
<1> QED BY <1>1, <1>3 DEF SearchInv, JiraTypeOK

\* A search returns every issue that carries the label throughout, once, newest
\* first, or MaxTickets newer ones, however Jira cuts its pages.
THEOREM SearchComplete == ContentSpec => []NoneSkipped
<1>1. SearchInv => NoneSkipped
  <2> SUFFICES ASSUME SearchInv PROVE NoneSkipped
    OBVIOUS
  <2>1. DOMAIN got = 1..Len(got)
    BY DEF SearchInv
  <2>2. \A i : i \in ToSet(got) <=> \E k \in 1..Len(got) : got[k] = i
    BY <2>1 DEF ToSet
  <2> QED BY <2>1, <2>2 DEF SearchInv, NoneSkipped
<1> QED BY <1>1, SearchStart, SearchStep, PTL DEF ContentSpec

-----------------------------------------------------------------------------
(* The runs. *)

\* A row that somebody asked for.
RowOK(r) ==
  /\ r \in Rows /\ (r.interval >= MinInterval \/ r.interval = DefaultInterval)
  /\ Asked(r.site, r.project)

\* Rows, edits and the copy of a run.
RowsInv ==
  /\ web \in Webs /\ born \in BOOLEAN /\ clearing \in BOOLEAN
  /\ row # NoRow => RowOK(row)
  /\ edit \in [Editors -> {NoEdit} \cup Rows]
  /\ \A e \in Editors : edit[e] # NoEdit => RowOK(edit[e])
  /\ copy # NoRow => RowOK(copy)

\* The posts of a run.
RunInv ==
  /\ run \in {"idle", "discover", "post", "mark"}
  /\ run # "idle" => copy # NoRow
  /\ run \in {"idle", "discover"} => queue = <<>> /\ taken = {} /\ behind = {}
  /\ run \in {"post", "mark"} => queue # <<>> /\ Head(copy.site) \in DOMAIN web
  /\ queue \in Seq(Seq(STRING)) /\ \A k \in 1..Len(queue) : queue[k] \in taken
  /\ \A loc \in taken \cup behind : loc \in Seq(STRING) /\ Under(copy.site, loc)
  /\ \A loc \in taken, left \in behind :
       \E new \in Dates(loc), old \in Dates(left) : new >= old

\* The tickets of the runs.
TicketsInv ==
  /\ digests \subseteq 1..Len(issues)
  /\ \A i \in digests :
       /\ \E req \in Requests :
            Asked(req.site, issues[i].fields.project) /\ Under(req.site, PostOf(i))
       /\ PostOf(i) \in Seq(STRING) /\ Head(PostOf(i)) \in DOMAIN web

Filed(loc) == {i \in digests : PostOf(i) = loc}
Queued(loc) == {k \in 1..Len(queue) : queue[k] = loc}
Marking(loc) == run = "mark" /\ loc = Head(queue)

\* While the automation exists, what it has filed is in its seen set, and what it has
\* filed and is going to file is listed as often.
Counted ==
  /\ \A i \in digests : PostOf(i) \in seen \/ Marking(PostOf(i))
  /\ \A loc \in {PostOf(i) : i \in digests} \cup {queue[k] : k \in 1..Len(queue)} :
       Cardinality(Filed(loc)) + Cardinality(Queued(loc))
         <= Times(loc) + (IF Marking(loc) THEN 1 ELSE 0)

CountInv ==
  /\ ~born => row = NoRow /\ run = "idle" /\ digests = {}
  /\ clearing => born /\ row = NoRow
  /\ row # NoRow => Counted

DigestInv == RowsInv /\ RunInv /\ TicketsInv /\ CountInv

\* Issues stay what they are, and so does the web.
Grown ==
  /\ web' = web
  /\ \A i \in 1..Len(issues) : i \in 1..Len(issues') /\ issues'[i] = issues[i]

\* Every step leaves the issues there are, and the web, alone.
LEMMA GrownStep == SearchInv /\ [ContentNext]_contentVars => Grown
<1> SUFFICES ASSUME SearchInv, [ContentNext]_contentVars PROVE Grown
  OBVIOUS
<1>1. ASSUME NEW payload, Post(payload)
      PROVE  \A i \in 1..Len(issues) : i \in 1..Len(issues') /\ issues'[i] = issues[i]
  <2>1. PICK X : issues \in Seq(X)
    BY DEF SearchInv
  <2> DEFINE issue == [payload |-> payload, fields |-> Fields(payload)]
  <2>2. issues' = Append(issues, issue)
    BY <1>1 DEF Post
  <2> HIDE DEF issue
  <2>3. issues \in Seq(X \cup {issue})
    BY <2>1, SeqMono
  <2> QED BY <2>2, <2>3
<1>2. UNCHANGED issues => \A i \in 1..Len(issues) : i \in 1..Len(issues') /\ issues'[i] = issues[i]
  OBVIOUS
<1>3. web' = web
  BY DEF ContentNext, contentVars, digestVars, DigestNext, CreateAutomation, ReadRow, WriteRow,
    DeleteRow, ClearSeen, Claim, DiscoverPosts, FilePost, SkipPost, Disconnected, MarkPost
<1>4. UNCHANGED issues \/ \E payload : Post(payload)
  <2>1. CASE DigestNext
    BY <2>1 DEF DigestNext, CreateAutomation, ReadRow, WriteRow, DeleteRow, ClearSeen, Claim,
      DiscoverPosts, FilePost, SkipPost, Disconnected, MarkPost, tickets, jira
  <2>2. CASE JiraNext
    BY <2>2 DEF JiraNext, SearchNext, CreateIssue, Relabel, SearchByLabel, FetchPage, EndSearch,
      jira
  <2>3. CASE UNCHANGED contentVars
    BY <2>3 DEF contentVars, digestVars, tickets, jira
  <2> QED BY <2>1, <2>2, <2>3 DEF ContentNext
<1> QED BY <1>1, <1>2, <1>3, <1>4 DEF Grown

\* What is said of the web, and of the tickets, stays true.
LEMMA GrownFacts ==
  ASSUME TicketsInv, Grown
  PROVE  /\ \A loc : Dates(loc)' = Dates(loc) /\ Times(loc)' = Times(loc)
         /\ \A i \in digests : /\ i \in 1..Len(issues') /\ issues'[i] = issues[i]
                               /\ PostOf(i)' = PostOf(i)
<1>1. web' = web
  BY DEF Grown
<1>2. \A loc : Dates(loc)' = Dates(loc)
  BY <1>1 DEF Dates
<1>3. \A loc : Times(loc)' = Times(loc)
  BY <1>1 DEF Times
<1>4. \A i \in digests : i \in 1..Len(issues') /\ issues'[i] = issues[i]
  BY DEF TicketsInv, Grown
<1>5. \A i \in digests : PostOf(i)' = PostOf(i)
  BY <1>4 DEF PostOf
<1> QED BY <1>2, <1>3, <1>4, <1>5

\* Tickets that are filed stay as they are.
LEMMA TicketsKept ==
  ASSUME TicketsInv, Grown, UNCHANGED digests
  PROVE  TicketsInv'
<1>1. \A i \in digests : /\ i \in 1..Len(issues') /\ issues'[i] = issues[i]
                         /\ PostOf(i)' = PostOf(i)
  BY GrownFacts
<1>2. \A i \in digests :
        /\ \E req \in Requests :
             Asked(req.site, issues[i].fields.project) /\ Under(req.site, PostOf(i))
        /\ PostOf(i) \in Seq(STRING) /\ Head(PostOf(i)) \in DOMAIN web
  BY DEF TicketsInv
<1>3. \A i \in digests :
        /\ \E req \in Requests :
             Asked(req.site, issues'[i].fields.project) /\ Under(req.site, PostOf(i)')
        /\ PostOf(i)' \in Seq(STRING) /\ Head(PostOf(i)') \in DOMAIN web
  BY <1>1, <1>2
<1> QED BY <1>1, <1>3 DEF TicketsInv, Grown

\* Nothing but a run touches what runs have done.
LEMMA WorkerKept ==
  ASSUME RunInv, TicketsInv, Grown, UNCHANGED <<worker, digests>>
  PROVE  RunInv' /\ TicketsInv'
<1>1. UNCHANGED <<run, copy, queue, taken, behind, digests, web>>
  BY DEF worker, Grown
<1>2. RunInv'
  <2>1. \A loc : Dates(loc)' = Dates(loc)
    BY GrownFacts
  <2> QED BY <1>1, <2>1 DEF RunInv
<1>3. TicketsInv'
  BY <1>1, TicketsKept
<1> QED BY <1>2, <1>3

\* Nor the counts.
LEMMA CountedKept ==
  ASSUME Counted, TicketsInv, Grown, UNCHANGED <<queue, digests, seen>>,
         run = "mark" <=> run' = "mark"
  PROVE  Counted'
<1>1. UNCHANGED <<queue, digests, seen>> /\ (run = "mark" <=> run' = "mark")
  OBVIOUS
<1>2. \A loc : Times(loc)' = Times(loc)
  BY GrownFacts
<1>3. \A i \in digests : PostOf(i)' = PostOf(i)
  BY GrownFacts
<1>4. \A loc : /\ Filed(loc)' = Filed(loc) /\ Queued(loc)' = Queued(loc)
               /\ (Marking(loc)' <=> Marking(loc))
  BY <1>1, <1>3 DEF Filed, Queued, Marking
<1>5. \A i \in digests : PostOf(i)' \in seen' \/ Marking(PostOf(i))'
  <2> SUFFICES ASSUME NEW i \in digests PROVE PostOf(i)' \in seen' \/ Marking(PostOf(i))'
    OBVIOUS
  <2>1. PostOf(i) \in seen \/ Marking(PostOf(i))
    BY DEF Counted
  <2> QED BY <1>1, <1>3, <2>1 DEF Marking
<1>6. \A loc \in {PostOf(i) : i \in digests} \cup {queue[k] : k \in 1..Len(queue)} :
        Cardinality(Filed(loc)) + Cardinality(Queued(loc))
          <= Times(loc) + (IF Marking(loc) THEN 1 ELSE 0)
  BY DEF Counted
<1>7. ({PostOf(i) : i \in digests} \cup {queue[k] : k \in 1..Len(queue)})'
        = {PostOf(i) : i \in digests} \cup {queue[k] : k \in 1..Len(queue)}
  BY <1>1, <1>3
<1> QED BY <1>1, <1>2, <1>4, <1>5, <1>6, <1>7 DEF Counted

\* What an edit makes of a row.
LEMMA MergeFact ==
  ASSUME NEW req \in Requests, Valid(req), NEW old, RowOK(old)
  PROVE  RowOK(Merge(old, req))
<1>1. /\ req.interval \in Int /\ req.enabled \in BOOLEAN \cup {Omitted}
      /\ MinInterval \in Nat /\ DefaultInterval \in Int
  BY DigestAssumption
<1>2. old.enabled \in BOOLEAN /\ old.interval \in {r.interval : r \in Requests} \cup {DefaultInterval}
      /\ (old.interval >= MinInterval \/ old.interval = DefaultInterval)
  BY DEF RowOK, Rows
<1>3. Merge(old, req).enabled \in BOOLEAN /\ Merge(old, req) \in Rows
  BY <1>1, <1>2 DEF Merge, Rows
<1>4. Merge(old, req).interval >= MinInterval \/ Merge(old, req).interval = DefaultInterval
  BY <1>1, <1>2 DEF Merge, Valid
<1>5. Asked(Merge(old, req).site, Merge(old, req).project)
  BY DEF Merge, Asked
<1> QED BY <1>3, <1>4, <1>5 DEF RowOK

\* The rows stay rows that somebody asked for.
LEMMA RowsStep == RowsInv /\ [ContentNext]_contentVars => RowsInv'
<1> SUFFICES ASSUME RowsInv, [ContentNext]_contentVars PROVE RowsInv'
  OBVIOUS
<1>1. ASSUME UNCHANGED <<web, row, born, clearing, edit>>, copy' \in {row, copy, NoRow}
      PROVE  RowsInv'
  BY <1>1 DEF RowsInv
<1>2. ASSUME NEW req \in Requests, CreateAutomation(req) PROVE RowsInv'
  <2>1. /\ Valid(req) /\ born' = TRUE /\ UNCHANGED <<web, clearing, edit, copy>>
        /\ row' = [site |-> req.site, project |-> req.project,
                   interval |-> IF req.interval = 0 THEN DefaultInterval ELSE req.interval,
                   enabled |-> req.enabled # FALSE]
    BY <1>2 DEF CreateAutomation, worker
  <2>2. RowOK(row')
    <3>1. row' \in Rows
      BY <2>1 DEF Rows
    <3>2. row'.interval >= MinInterval \/ row'.interval = DefaultInterval
      BY <2>1 DEF Valid
    <3>3. Asked(row'.site, row'.project)
      BY <2>1 DEF Asked
    <3> QED BY <3>1, <3>2, <3>3 DEF RowOK
  <2> QED BY <2>1, <2>2 DEF RowsInv
<1>3. ASSUME NEW req \in Requests, NEW e \in Editors, ReadRow(e, req) PROVE RowsInv'
  <2>1. /\ edit' = [edit EXCEPT ![e] = Merge(row, req)] /\ Valid(req) /\ row # NoRow
        /\ UNCHANGED <<web, row, born, clearing, copy>>
    BY <1>3 DEF ReadRow, worker
  <2>2. RowOK(Merge(row, req)) /\ Merge(row, req) \in Rows
    BY <2>1, MergeFact DEF RowsInv, RowOK
  <2>3. /\ edit \in [Editors -> {NoEdit} \cup Rows]
        /\ \A f \in Editors : edit[f] # NoEdit => RowOK(edit[f])
    BY DEF RowsInv
  <2>4. edit' \in [Editors -> {NoEdit} \cup Rows]
    BY <2>1, <2>2, <2>3
  <2>5. \A f \in Editors : edit'[f] # NoEdit => RowOK(edit'[f])
    BY <2>1, <2>2, <2>3
  <2> QED BY <2>1, <2>4, <2>5 DEF RowsInv
<1>4. ASSUME NEW e \in Editors, WriteRow(e) PROVE RowsInv'
  <2>1. /\ edit[e] # NoEdit /\ edit' = [edit EXCEPT ![e] = NoEdit]
        /\ row' = IF row = NoRow THEN NoRow ELSE edit[e]
        /\ UNCHANGED <<web, born, clearing, copy>>
    BY <1>4 DEF WriteRow, worker
  <2>2. /\ edit \in [Editors -> {NoEdit} \cup Rows]
        /\ \A f \in Editors : edit[f] # NoEdit => RowOK(edit[f])
    BY DEF RowsInv
  <2>3. edit' \in [Editors -> {NoEdit} \cup Rows]
    BY <2>1, <2>2
  <2>4. \A f \in Editors : edit'[f] # NoEdit => RowOK(edit'[f])
    BY <2>1, <2>2
  <2>5. row' # NoRow => RowOK(row')
    BY <2>1, <2>2
  <2> QED BY <2>1, <2>3, <2>4, <2>5 DEF RowsInv
<1>5. CASE DeleteRow
  BY <1>5 DEF DeleteRow, RowsInv, worker
<1>6. CASE ClearSeen
  BY <1>6 DEF ClearSeen, RowsInv, worker
<1>7. CASE Claim \/ DiscoverPosts \/ FilePost \/ SkipPost \/ Disconnected \/ MarkPost
  BY <1>1, <1>7 DEF Claim, DiscoverPosts, FilePost, SkipPost, Disconnected, MarkPost, EndRun,
    NextPost, table
<1>8. CASE JiraNext /\ UNCHANGED <<web, table, seen, worker, digests>>
  BY <1>1, <1>8 DEF table, worker
<1>9. CASE UNCHANGED contentVars
  BY <1>1, <1>9 DEF contentVars, digestVars, table, worker
<1> QED BY <1>2, <1>3, <1>4, <1>5, <1>6, <1>7, <1>8, <1>9 DEF ContentNext, DigestNext

\* What runs have filed, and have still to file, are finitely many.
LEMMA CountTypes ==
  ASSUME TicketsInv, RunInv, Len(issues) \in Nat
  PROVE  \A loc : /\ IsFiniteSet(Filed(loc)) /\ Cardinality(Filed(loc)) \in Nat
                  /\ IsFiniteSet(Queued(loc)) /\ Cardinality(Queued(loc)) \in Nat
<1> SUFFICES ASSUME NEW loc
             PROVE  /\ IsFiniteSet(Filed(loc)) /\ Cardinality(Filed(loc)) \in Nat
                    /\ IsFiniteSet(Queued(loc)) /\ Cardinality(Queued(loc)) \in Nat
  OBVIOUS
<1>1. Filed(loc) \subseteq 1..Len(issues) /\ Queued(loc) \subseteq 1..Len(queue)
  BY DEF TicketsInv, Filed, Queued
<1>2. Len(queue) \in Nat
  BY DEF RunInv
<1>3. IsFiniteSet(1..Len(issues)) /\ IsFiniteSet(1..Len(queue))
  BY <1>2, FS_Interval
<1>4. IsFiniteSet(Filed(loc)) /\ IsFiniteSet(Queued(loc))
  BY <1>1, <1>3, FS_Subset
<1> QED BY <1>4, FS_CardinalityType

\* How often a host that is served lists an address is a number.
LEMMA TimesType ==
  ASSUME web \in Webs, NEW loc, Head(loc) \in DOMAIN web
  PROVE  /\ Times(loc) \in Nat
         /\ Times(loc) = Cardinality({k \in 1..Len(Entries(web, Head(loc), DOMAIN web)) :
                                        Entries(web, Head(loc), DOMAIN web)[k].loc = loc})
         /\ IsFiniteSet({k \in 1..Len(Entries(web, Head(loc), DOMAIN web)) :
                           Entries(web, Head(loc), DOMAIN web)[k].loc = loc})
<1> DEFINE all == Entries(web, Head(loc), DOMAIN web)
           S == {k \in 1..Len(all) : all[k].loc = loc}
<1>1. IsWeb(web)
  BY DigestAssumption
<1>2. all \in Seq(Listed)
  BY <1>1, EntriesFacts
<1>3. Times(loc) = Cardinality({k \in DOMAIN all : all[k].loc = loc})
  BY DEF Times
<1> HIDE DEF all
<1>4. DOMAIN all = 1..Len(all) /\ Len(all) \in Nat
  BY <1>2
<1>5. IsFiniteSet(1..Len(all))
  BY <1>4, FS_Interval
<1>6. IsFiniteSet(S)
  BY <1>5, FS_Subset
<1>7. Cardinality(S) \in Nat
  BY <1>6, FS_CardinalityType
<1> QED BY <1>3, <1>4, <1>6, <1>7 DEF all

\* How often the hosts list what was filed and what is queued are numbers.
LEMMA ListedPosts ==
  ASSUME RowsInv, RunInv, TicketsInv
  PROVE  \A loc \in {PostOf(i) : i \in digests} \cup {queue[k] : k \in 1..Len(queue)} :
           Times(loc) \in Nat
<1> SUFFICES ASSUME NEW loc \in {PostOf(i) : i \in digests} \cup {queue[k] : k \in 1..Len(queue)}
             PROVE  Times(loc) \in Nat
  OBVIOUS
<1>1. web \in Webs
  BY DEF RowsInv
<1>2. CASE loc \in {PostOf(i) : i \in digests}
  BY <1>1, <1>2, TimesType DEF TicketsInv
<1>3. CASE loc \in {queue[k] : k \in 1..Len(queue)}
  <2>1. queue # <<>>
    BY <1>3 DEF RunInv
  <2>2. loc \in taken /\ loc \in Seq(STRING) /\ Under(copy.site, loc)
        /\ Head(copy.site) \in DOMAIN web /\ copy # NoRow
    BY <1>3, <2>1 DEF RunInv
  <2>3. IsSite(copy.site)
    BY <2>2, DigestAssumption DEF RowsInv, RowOK, Asked
  <2>4. Head(loc) = Head(copy.site)
    BY <2>2, <2>3, UnderHead
  <2> QED BY <1>1, <2>2, <2>4, TimesType
<1> QED BY <1>2, <1>3

\* The end of a run leaves nothing queued.
LEMMA EndRunFacts ==
  ASSUME RunInv, TicketsInv, Grown, EndRun, UNCHANGED digests
  PROVE  RunInv' /\ TicketsInv'
<1>1. run' = "idle" /\ copy' = NoRow /\ queue' = <<>> /\ taken' = {} /\ behind' = {}
  BY DEF EndRun
<1>2. RunInv'
  BY <1>1 DEF RunInv
<1>3. TicketsInv'
  BY TicketsKept
<1> QED BY <1>2, <1>3

\* The next post is one of the run.
LEMMA NextPostFacts ==
  ASSUME RunInv, TicketsInv, Grown, NextPost, UNCHANGED digests, run \in {"post", "mark"}
  PROVE  RunInv' /\ TicketsInv'
<1>1. CASE Len(queue) = 1
  BY <1>1, EndRunFacts DEF NextPost
<1>2. CASE Len(queue) # 1
  <2>1. run' = "post" /\ queue' = Tail(queue) /\ UNCHANGED <<copy, taken, behind, digests, web>>
    BY <1>2 DEF NextPost, Grown
  <2>2. queue \in Seq(Seq(STRING)) /\ queue # <<>> /\ \A k \in 1..Len(queue) : queue[k] \in taken
    BY DEF RunInv
  <2>3. /\ queue' \in Seq(Seq(STRING)) /\ queue' # <<>>
        /\ \A k \in 1..Len(queue') : queue'[k] \in taken
    <3>1. /\ Tail(queue) \in Seq(Seq(STRING)) /\ Len(Tail(queue)) = Len(queue) - 1
          /\ Len(queue) \in Nat \ {0}
          /\ \A k \in 1..Len(Tail(queue)) :
               k + 1 \in 2..Len(queue) /\ Tail(queue)[k] = queue[k + 1]
      BY <2>2, TailFacts
    <3>2. Tail(queue) # <<>>
      <4>1. Len(queue) - 1 # 0 /\ Len(<<>>) = 0
        BY <1>2, <3>1
      <4> QED BY <3>1, <4>1
    <3>3. \A k \in 1..Len(Tail(queue)) : Tail(queue)[k] \in taken
      BY <2>2, <3>1
    <3> QED BY <2>1, <3>1, <3>2, <3>3
  <2>4. \A loc : Dates(loc)' = Dates(loc)
    BY GrownFacts
  <2>5. RunInv'
    BY <2>1, <2>3, <2>4 DEF RunInv
  <2>6. TicketsInv'
    BY TicketsKept
  <2> QED BY <2>5, <2>6
<1> QED BY <1>1, <1>2

\* A post that is marked, or skipped, is queued once less.
LEMMA NextPostCount ==
  ASSUME SearchInv, RowsInv, RunInv, TicketsInv, Counted, Grown, UNCHANGED digests,
         \/ run = "mark" /\ seen' = seen \cup {Head(queue)} /\ NextPost
         \/ run = "post" /\ seen' = seen /\ (NextPost \/ EndRun)
  PROVE  Counted'
<1>0. /\ queue \in Seq(Seq(STRING)) /\ Len(queue) \in Nat /\ queue # <<>>
      /\ Head(queue) = queue[1] /\ 1 \in 1..Len(queue)
  BY DEF RunInv
<1>1. \/ queue' = <<>>
      \/ queue' = Tail(queue)
  BY DEF NextPost, EndRun
<1>2. run' # "mark"
  BY DEF NextPost, EndRun
<1>3. \A loc : ~Marking(loc)'
  BY <1>2 DEF Marking
<1>4. \A i \in digests : PostOf(i)' = PostOf(i)
  BY GrownFacts
<1>5. \A loc : Times(loc)' = Times(loc) /\ Filed(loc)' = Filed(loc)
  BY <1>4, GrownFacts DEF Filed
<1>6. \A i \in digests : PostOf(i)' \in seen'
  <2> SUFFICES ASSUME NEW i \in digests PROVE PostOf(i) \in seen'
    BY <1>4
  <2>1. PostOf(i) \in seen \/ Marking(PostOf(i))
    BY DEF Counted
  <2> QED BY <2>1 DEF Marking
<1>7. Len(issues) \in Nat
  BY DEF SearchInv
<1>8. \A loc : /\ IsFiniteSet(Filed(loc)) /\ Cardinality(Filed(loc)) \in Nat
               /\ IsFiniteSet(Queued(loc)) /\ Cardinality(Queued(loc)) \in Nat
  BY <1>7, CountTypes
<1>9. /\ queue' \in Seq(Seq(STRING)) /\ Len(queue') \in Nat
      /\ \A k \in 1..Len(queue') : k + 1 \in 2..Len(queue) /\ queue'[k] = queue[k + 1]
  <2>1. /\ Tail(queue) \in Seq(Seq(STRING)) /\ Len(Tail(queue)) = Len(queue) - 1
        /\ \A k \in 1..Len(Tail(queue)) :
             k + 1 \in 2..Len(queue) /\ Tail(queue)[k] = queue[k + 1]
    BY <1>0, TailFacts
  <2>2. CASE queue' = <<>>
    BY <2>2
  <2>3. CASE queue' = Tail(queue)
    BY <1>0, <2>1, <2>3
  <2> QED BY <1>1, <2>2, <2>3
<1>10. \A loc : /\ Cardinality(Queued(loc)') \in Nat
                /\ Cardinality(Queued(loc)') <= Cardinality(Queued(loc) \ {1})
  <2> SUFFICES ASSUME NEW loc
               PROVE  /\ Cardinality(Queued(loc)') \in Nat
                      /\ Cardinality(Queued(loc)') <= Cardinality(Queued(loc) \ {1})
    OBVIOUS
  <2> DEFINE S == {k \in 1..Len(queue') : queue'[k] = loc}
             T == Queued(loc) \ {1}
             f == [k \in S |-> k + 1]
  <2>1. Queued(loc)' = S
    BY DEF Queued
  <2>2. IsFiniteSet(T)
    BY <1>8, FS_RemoveElement
  <2>3. \A k \in S : k + 1 \in T
    BY <1>0, <1>9 DEF Queued
  <2>4. f \in Injection(S, T)
    <3>1. f \in [S -> T]
      BY <2>3
    <3>2. \A j, k \in S : f[j] = f[k] => j = k
      BY <1>9
    <3> QED BY <3>1, <3>2 DEF Injection, IsInjective
  <2> HIDE DEF f, S, T
  <2>5. IsFiniteSet(S) /\ Cardinality(S) <= Cardinality(T)
    BY <2>2, <2>4, FS_Injection
  <2> QED BY <2>1, <2>5, FS_CardinalityType DEF T
<1>11. \A loc : Cardinality(Queued(loc) \ {1})
                  = IF loc = Head(queue) THEN Cardinality(Queued(loc)) - 1
                    ELSE Cardinality(Queued(loc))
  <2> SUFFICES ASSUME NEW loc
               PROVE  Cardinality(Queued(loc) \ {1})
                        = IF loc = Head(queue) THEN Cardinality(Queued(loc)) - 1
                          ELSE Cardinality(Queued(loc))
    OBVIOUS
  <2>1. 1 \in Queued(loc) <=> loc = Head(queue)
    BY <1>0 DEF Queued
  <2> QED BY <1>8, <2>1, FS_RemoveElement
<1> DEFINE Posts == {PostOf(i) : i \in digests} \cup {queue[k] : k \in 1..Len(queue)}
<1>12. ({PostOf(i) : i \in digests} \cup {queue[k] : k \in 1..Len(queue)})' \subseteq Posts
  <2>1. {queue'[k] : k \in 1..Len(queue')} \subseteq {queue[k] : k \in 1..Len(queue)}
    BY <1>0, <1>9
  <2> QED BY <1>4, <2>1
<1>13. \A loc \in Posts : Times(loc) \in Nat
  BY ListedPosts
<1>14. \A loc \in Posts : Cardinality(Filed(loc)) + Cardinality(Queued(loc)')
                           <= Times(loc)
  <2> SUFFICES ASSUME NEW loc \in Posts
               PROVE  Cardinality(Filed(loc)) + Cardinality(Queued(loc)') <= Times(loc)
    OBVIOUS
  <2>1. Cardinality(Filed(loc)) + Cardinality(Queued(loc))
          <= Times(loc) + (IF Marking(loc) THEN 1 ELSE 0)
    BY DEF Counted
  <2>2. /\ Cardinality(Filed(loc)) \in Nat /\ Cardinality(Queued(loc)) \in Nat
        /\ Times(loc) \in Nat /\ Cardinality(Queued(loc)') \in Nat
    BY <1>8, <1>10, <1>13
  <2>3. Cardinality(Queued(loc)') <= IF loc = Head(queue) THEN Cardinality(Queued(loc)) - 1
                                     ELSE Cardinality(Queued(loc))
    BY <1>10, <1>11
  <2>4. Marking(loc) => loc = Head(queue)
    BY DEF Marking
  <2> HIDE DEF Posts
  <2> QED BY <2>1, <2>2, <2>3, <2>4
<1> HIDE DEF Posts
<1>15. \A loc \in ({PostOf(i) : i \in digests} \cup {queue[k] : k \in 1..Len(queue)})' :
         Cardinality(Filed(loc)') + Cardinality(Queued(loc)')
           <= Times(loc)' + (IF Marking(loc)' THEN 1 ELSE 0)
  <2> SUFFICES ASSUME NEW loc \in Posts
               PROVE  Cardinality(Filed(loc)') + Cardinality(Queued(loc)')
                        <= Times(loc)' + (IF Marking(loc)' THEN 1 ELSE 0)
    BY <1>12
  <2>1. ~Marking(loc)' /\ Times(loc)' = Times(loc) /\ Filed(loc)' = Filed(loc) /\ Times(loc) \in Nat
    BY <1>3, <1>5, <1>13
  <2>2. Cardinality(Filed(loc)) + Cardinality(Queued(loc)') <= Times(loc)
    BY <1>14
  <2> QED BY <2>1, <2>2
<1>16. (\A i \in digests : PostOf(i) \in seen \/ Marking(PostOf(i)))'
  BY <1>6
<1> QED BY <1>15, <1>16 DEF Counted

\* The ticket of a post: its project, and the address it ends with.
LEMMA TicketFact ==
  ASSUME NEW answer \in Answers, JsonText(answer.summary) # <<>>, NEW pageTitle, NEW loc
  PROVE  LET payload == TicketFor(Summary(answer, pageTitle, loc), loc)
         IN  /\ Fields(payload).project = copy.project
             /\ Last(Last(payload.description)) = loc
<1> DEFINE sum == Summary(answer, pageTitle, loc)
           payload == TicketFor(sum, loc)
<1>1. answer.summary.string => answer.summary.text \in Seq(Seq(Seq(STRING)))
  BY DigestAssumption DEF IsText, Tokens
<1>2. sum.body = JsonText(answer.summary)
  BY DEF Summary
<1>3. sum.body \in Seq(Seq(Seq(STRING)))
  BY <1>1, <1>2 DEF JsonText
<1> HIDE DEF sum
<1>4. payload.description = sum.body \o << <<>>, <<Rule>>, SourceLine(sum), LinkLine(loc)>>
  BY DEF TicketFor, ComposeDescription
<1>5. Last(payload.description) = LinkLine(loc)
  BY <1>3, <1>4, LastOfFour
<1>6. Last(LinkLine(loc)) = loc
  BY DEF LinkLine, Last
<1>7. payload.project = copy.project
  BY DEF TicketFor
<1> HIDE DEF payload
<1>8. Fields(payload).project = payload.project
  BY DEF Fields
<1> QED BY <1>5, <1>6, <1>7, <1>8 DEF payload, sum

\* A filed post is one of the run, and its ticket the only new one.
LEMMA FilePostFacts ==
  ASSUME SearchInv, RowsInv, RunInv, TicketsInv, Grown, FilePost
  PROVE  /\ RunInv' /\ TicketsInv'
         /\ \E n : digests' = digests \cup {n} /\ n \notin digests /\ PostOf(n)' = Head(queue)
<1>0. PICK n : n = Len(issues) + 1
  OBVIOUS
<1>1. PICK answer \in Answers, pageTitle \in PageTitles :
        /\ JsonText(answer.summary) # <<>>
        /\ Post(TicketFor(Summary(answer, pageTitle, Head(queue)), Head(queue)))
  BY DEF FilePost
<1> DEFINE payload == TicketFor(Summary(answer, pageTitle, Head(queue)), Head(queue))
           issue == [payload |-> payload, fields |-> Fields(payload)]
<1>2. issues' = Append(issues, issue)
  BY <1>1 DEF Post
<1>3. Fields(payload).project = copy.project /\ Last(Last(payload.description)) = Head(queue)
  BY <1>1, TicketFact
<1> HIDE DEF payload
<1>4. issue.payload = payload /\ issue.fields = Fields(payload)
  OBVIOUS
<1> HIDE DEF issue
<1>5. Len(issues) \in Nat /\ Len(issues') = n /\ issues'[n] = issue
  <2>1. PICK X : issues \in Seq(X)
    BY DEF SearchInv
  <2>2. issues \in Seq(X \cup {issue})
    BY <2>1, SeqMono
  <2> QED BY <1>0, <1>2, <2>2
<1>6. /\ run = "post" /\ run' = "mark" /\ digests' = digests \cup {n}
      /\ UNCHANGED <<web, copy, queue, taken, behind>>
  BY <1>0 DEF FilePost
<1>7. n \notin digests
  <2>1. digests \subseteq 1..Len(issues)
    BY DEF TicketsInv
  <2> QED BY <1>0, <1>5, <2>1
<1>8. PostOf(n)' = Head(queue)
  <2>1. PostOf(n)' = Last(Last(issues'[n].payload.description))
    BY DEF PostOf, Last
  <2> QED BY <1>3, <1>4, <1>5, <2>1
<1>9. RunInv'
  <2>1. \A loc : Dates(loc)' = Dates(loc)
    BY GrownFacts
  <2> QED BY <1>6, <2>1 DEF RunInv
<1>10. /\ copy # NoRow /\ Head(queue) = queue[1] /\ queue[1] \in taken
       /\ Head(copy.site) \in DOMAIN web /\ queue[1] \in Seq(STRING) /\ Under(copy.site, queue[1])
  <2>1. queue \in Seq(Seq(STRING)) /\ queue # <<>> /\ \A k \in 1..Len(queue) : queue[k] \in taken
    BY <1>6 DEF RunInv
  <2>2. Head(queue) = queue[1] /\ 1 \in 1..Len(queue)
    BY <2>1
  <2> QED BY <1>6, <2>1, <2>2 DEF RunInv
<1>11. PICK req \in Requests : Valid(req) /\ req.site = copy.site /\ req.project = copy.project
  BY <1>10 DEF RowsInv, RowOK, Asked
<1>12. /\ Asked(req.site, issues'[n].fields.project) /\ Under(req.site, PostOf(n)')
       /\ PostOf(n)' \in Seq(STRING) /\ Head(PostOf(n)') \in DOMAIN web
  <2>1. Asked(req.site, issues'[n].fields.project)
    BY <1>3, <1>4, <1>5, <1>11 DEF Asked
  <2>2. IsSite(req.site)
    BY DigestAssumption
  <2>3. Head(queue[1]) = Head(copy.site)
    BY <1>10, <1>11, <2>2, UnderHead
  <2> QED BY <1>8, <1>10, <1>11, <2>1, <2>3
<1>13. TicketsInv'
  <2>1. \A i \in digests : /\ i \in 1..Len(issues') /\ issues'[i] = issues[i]
                           /\ PostOf(i)' = PostOf(i)
    BY GrownFacts
  <2>2. \A i \in digests :
          /\ \E r \in Requests :
               Asked(r.site, issues[i].fields.project) /\ Under(r.site, PostOf(i))
          /\ PostOf(i) \in Seq(STRING) /\ Head(PostOf(i)) \in DOMAIN web
    BY DEF TicketsInv
  <2>3. \A i \in digests \cup {n} :
          /\ \E r \in Requests :
               Asked(r.site, issues'[i].fields.project) /\ Under(r.site, PostOf(i)')
          /\ PostOf(i)' \in Seq(STRING) /\ Head(PostOf(i)') \in DOMAIN web
    BY <2>1, <2>2, <1>12
  <2>4. n \in 1..Len(issues')
    BY <1>0, <1>5
  <2> QED BY <1>6, <2>1, <2>3, <2>4 DEF TicketsInv
<1> QED BY <1>6, <1>7, <1>8, <1>9, <1>13

\* A post that is filed is listed, and counted until it is marked.
LEMMA FilePostCount ==
  ASSUME SearchInv, RowsInv, RunInv, TicketsInv, Counted, Grown, FilePost
  PROVE  Counted'
<1>1. PICK n : digests' = digests \cup {n} /\ n \notin digests /\ PostOf(n)' = Head(queue)
  BY FilePostFacts
<1>2. /\ run = "post" /\ run' = "mark" /\ digests' = digests \cup {n}
      /\ UNCHANGED <<web, queue, seen>>
  BY <1>1 DEF FilePost
<1>3. \A i \in digests : PostOf(i)' = PostOf(i)
  BY GrownFacts
<1>4. \A loc : Times(loc)' = Times(loc) /\ Queued(loc)' = Queued(loc)
  BY <1>2, GrownFacts DEF Queued
<1>5. \A loc : ~Marking(loc) /\ (Marking(loc)' <=> loc = Head(queue))
  BY <1>2 DEF Marking
<1>6. \A loc : Filed(loc)' = IF loc = Head(queue) THEN Filed(loc) \cup {n} ELSE Filed(loc)
  BY <1>1, <1>2, <1>3 DEF Filed
<1>7. Len(issues) \in Nat
  BY DEF SearchInv
<1>8. \A loc : IsFiniteSet(Filed(loc)) /\ Cardinality(Filed(loc)) \in Nat /\ n \notin Filed(loc)
               /\ Cardinality(Queued(loc)) \in Nat
  BY <1>1, <1>7, CountTypes DEF Filed
<1>9. \A loc : Cardinality(Filed(loc)')
                 = Cardinality(Filed(loc)) + (IF loc = Head(queue) THEN 1 ELSE 0)
  <2> SUFFICES ASSUME NEW loc
               PROVE  Cardinality(Filed(loc)')
                        = Cardinality(Filed(loc)) + (IF loc = Head(queue) THEN 1 ELSE 0)
    OBVIOUS
  <2>1. Cardinality(Filed(loc) \cup {n}) = Cardinality(Filed(loc)) + 1
    BY <1>8, FS_AddElement
  <2> QED BY <1>6, <1>8, <2>1
<1>10. Head(queue) \in {queue[k] : k \in 1..Len(queue)}
  <2>1. queue \in Seq(Seq(STRING)) /\ queue # <<>>
    BY <1>2 DEF RunInv
  <2> QED BY <2>1
<1> DEFINE Posts == {PostOf(i) : i \in digests} \cup {queue[k] : k \in 1..Len(queue)}
<1>11. ({PostOf(i) : i \in digests} \cup {queue[k] : k \in 1..Len(queue)})' = Posts
  <2>1. {PostOf(i)' : i \in digests'} = {PostOf(i) : i \in digests} \cup {Head(queue)}
    BY <1>1, <1>2, <1>3
  <2> QED BY <1>2, <1>10, <2>1
<1>12. \A loc \in Posts : Cardinality(Filed(loc)) + Cardinality(Queued(loc)) <= Times(loc)
  <2> SUFFICES ASSUME NEW loc \in Posts
               PROVE  Cardinality(Filed(loc)) + Cardinality(Queued(loc)) <= Times(loc)
    OBVIOUS
  <2>1. Cardinality(Filed(loc)) + Cardinality(Queued(loc))
          <= Times(loc) + (IF Marking(loc) THEN 1 ELSE 0)
    BY DEF Counted
  <2>2. ~Marking(loc)
    BY <1>5
  <2>3. Times(loc) \in Nat
    BY ListedPosts
  <2> HIDE DEF Posts
  <2> QED BY <2>1, <2>2, <2>3
<1>13. \A loc \in Posts : Cardinality(Filed(loc)') + Cardinality(Queued(loc)')
                            <= Times(loc)' + (IF Marking(loc)' THEN 1 ELSE 0)
  <2> SUFFICES ASSUME NEW loc \in Posts
               PROVE  Cardinality(Filed(loc)') + Cardinality(Queued(loc)')
                        <= Times(loc)' + (IF Marking(loc)' THEN 1 ELSE 0)
    OBVIOUS
  <2>1. Cardinality(Filed(loc)) + Cardinality(Queued(loc)) <= Times(loc)
    BY <1>12
  <2>2. /\ Cardinality(Filed(loc)') = Cardinality(Filed(loc)) + (IF loc = Head(queue) THEN 1 ELSE 0)
        /\ Queued(loc)' = Queued(loc) /\ Times(loc)' = Times(loc)
        /\ (Marking(loc)' <=> loc = Head(queue))
    BY <1>4, <1>5, <1>9
  <2>3. /\ Times(loc) \in Nat
        /\ Cardinality(Filed(loc)) \in Nat /\ Cardinality(Queued(loc)) \in Nat
    BY <1>8, ListedPosts
  <2> HIDE DEF Posts
  <2> QED BY <2>1, <2>2, <2>3
<1>14. \A i \in digests' : PostOf(i)' \in seen' \/ Marking(PostOf(i))'
  <2> SUFFICES ASSUME NEW i \in digests' PROVE PostOf(i)' \in seen' \/ PostOf(i)' = Head(queue)
    BY <1>2 DEF Marking
  <2>1. CASE i = n
    BY <1>1, <2>1
  <2>2. CASE i \in digests
    <3>1. PostOf(i) \in seen \/ Marking(PostOf(i))
      BY <2>2 DEF Counted
    <3> QED BY <1>2, <1>3, <1>5, <2>2, <3>1
  <2> QED BY <1>2, <2>1, <2>2
<1> HIDE DEF Posts
<1> QED BY <1>11, <1>13, <1>14 DEF Counted

\* What DiscoverPosts makes of the posts it has found.
LEMMA DiscoverRun ==
  ASSUME SearchInv, RowsInv, RunInv, TicketsInv, Grown, DiscoverPosts
  PROVE  /\ RunInv' /\ TicketsInv'
         /\ Counted => Counted'
<1>1. PICK up \in SUBSET DOMAIN web :
        LET found == Discover(web, copy.site, up)
            posts == Kept(found, ToSet(found) \ seen)
            cap == IF 0 < MaxPosts /\ MaxPosts < Len(posts) THEN MaxPosts ELSE Len(posts)
            now == SubSeq(posts, 1, cap)
            later == SubSeq(posts, cap + 1, Len(posts))
        IN  IF posts = <<>> THEN EndRun
            ELSE /\ run' = "post" /\ queue' = now /\ UNCHANGED copy
                 /\ taken' = ToSet(now) /\ behind' = ToSet(later)
  BY DEF DiscoverPosts
<1>2. run = "discover" /\ UNCHANGED <<web, seen, issues, digests>>
  BY DEF DiscoverPosts, tickets, jira
<1>3. copy # NoRow /\ queue = <<>> /\ IsWeb(web) /\ IsSite(copy.site)
  <2>1. copy # NoRow /\ queue = <<>>
    BY <1>2 DEF RunInv
  <2>2. Asked(copy.site, copy.project) /\ web \in Webs
    BY <2>1 DEF RowsInv, RowOK
  <2> QED BY <2>1, <2>2, DigestAssumption DEF Asked
<1>4. TicketsInv'
  BY <1>2, TicketsKept
<1> DEFINE found == Discover(web, copy.site, up)
           new == ToSet(found) \ seen
           posts == Kept(found, new)
           cap == IF 0 < MaxPosts /\ MaxPosts < Len(posts) THEN MaxPosts ELSE Len(posts)
<1>5. Discovered(found, web, copy.site)
  BY <1>3, DiscoverFacts
<1>6. CASE posts = <<>>
  <2>1. EndRun
    BY <1>1, <1>6
  <2>2. RunInv'
    BY <1>2, <2>1, EndRunFacts
  <2>3. queue' = queue /\ run' # "mark" /\ run # "mark"
    BY <1>2, <1>3, <2>1 DEF EndRun
  <2>4. Counted => Counted'
    BY <1>2, <2>3, CountedKept
  <2> QED BY <1>4, <2>2, <2>4
<1>7. CASE posts # <<>>
  <2>1. /\ run' = "post" /\ queue' = SubSeq(posts, 1, cap) /\ copy' = copy
        /\ taken' = ToSet(SubSeq(posts, 1, cap)) /\ behind' = ToSet(SubSeq(posts, cap + 1, Len(posts)))
    BY <1>1, <1>7
  <2> HIDE DEF found
  <2>2. found \in Seq(Seq(STRING)) /\ DOMAIN found = 1..Len(found)
    BY <1>5 DEF Discovered
  <2>3. posts \in Seq(Seq(STRING)) /\ \E g : Picks(g, posts, found, new)
    <3> HIDE DEF new
    <3> QED BY <2>2, KeptPicks
  <2> HIDE DEF posts
  <2>4. PICK g : Picks(g, posts, found, new)
    BY <2>3
  <2>5. \A k \in 1..Len(posts) : /\ g[k] \in 1..Len(found) /\ posts[k] = found[g[k]]
                                 /\ posts[k] \notin seen
    <3>1. \A k \in 1..Len(posts) : g[k] \in 1..Len(found) /\ posts[k] = found[g[k]]
      BY <2>4 DEF Picks
    <3>2. \A k \in 1..Len(posts) : found[g[k]] \in new
      <4> HIDE DEF new
      <4> QED BY <2>4, <3>1 DEF Picks
    <3> QED BY <3>1, <3>2
  <2>6. Len(posts) \in Nat \ {0} /\ cap \in 1..Len(posts)
    <3>1. Len(posts) \in Nat \ {0}
      BY <1>7, <2>3
    <3> QED BY <3>1, DigestAssumption
  <2> HIDE DEF cap, new
  <2>7. /\ queue' \in Seq(Seq(STRING)) /\ Len(queue') = cap /\ queue' # <<>>
        /\ \A k \in 1..cap : queue'[k] = posts[k]
        /\ taken' = {posts[k] : k \in 1..cap}
        /\ behind' = {posts[k] : k \in (cap + 1)..Len(posts)}
    <3>1. /\ SubSeq(posts, 1, cap) \in Seq(Seq(STRING)) /\ Len(SubSeq(posts, 1, cap)) = cap
          /\ SubSeq(posts, 1, cap) # <<>>
          /\ \A k \in 1..cap : SubSeq(posts, 1, cap)[k] = posts[k]
          /\ \A x : x \in ToSet(SubSeq(posts, 1, cap)) <=> \E k \in 1..cap : x = posts[k]
          /\ \A x : x \in ToSet(SubSeq(posts, cap + 1, Len(posts)))
                     <=> \E k \in (cap + 1)..Len(posts) : x = posts[k]
      <4>1. PICK c : c = cap
        OBVIOUS
      <4>2. PICK s : s = posts
        OBVIOUS
      <4>3. s \in Seq(Seq(STRING)) /\ c \in 1..Len(s)
        BY <2>3, <2>6, <4>1, <4>2
      <4>4. /\ SubSeq(s, 1, c) \in Seq(Seq(STRING)) /\ Len(SubSeq(s, 1, c)) = c
            /\ SubSeq(s, 1, c) # <<>>
            /\ \A k \in 1..c : SubSeq(s, 1, c)[k] = s[k]
            /\ \A x : x \in ToSet(SubSeq(s, 1, c)) <=> \E k \in 1..c : x = s[k]
            /\ \A x : x \in ToSet(SubSeq(s, c + 1, Len(s)))
                       <=> \E k \in (c + 1)..Len(s) : x = s[k]
        BY <4>3, CutFacts
      <4> QED BY <4>1, <4>2, <4>4
    <3> QED BY <2>1, <3>1
  <2>8. /\ 1..cap \subseteq 1..Len(posts) /\ (cap + 1)..Len(posts) \subseteq 1..Len(posts)
        /\ \A j \in 1..cap, k \in (cap + 1)..Len(posts) : j < k
    BY <2>6
  <2>9. found # <<>> /\ Head(copy.site) \in DOMAIN web
    <3>1. 1 \in 1..Len(posts)
      BY <2>6
    <3>2. found # <<>>
      BY <2>2, <2>5, <3>1
    <3> QED BY <1>5, <3>2 DEF Discovered
  <2>10. \A k \in 1..Len(posts) : posts[k] \in Seq(STRING) /\ Under(copy.site, posts[k])
    <3>1. \A i \in 1..Len(found) : Under(copy.site, found[i])
      BY <1>5 DEF Discovered
    <3>2. \A k \in 1..Len(posts) : posts[k] \in Seq(STRING)
      BY <2>3
    <3> QED BY <2>5, <3>1, <3>2
  <2>11. \A loc \in taken', left \in behind' : \E d \in Dates(loc), o \in Dates(left) : d >= o
    <3>1. PICK e : /\ e \in [1..Len(found) -> Listed]
                   /\ \A i \in 1..Len(found) :
                        /\ e[i].loc = found[i]
                        /\ \E file \in DOMAIN web : e[i] \in ToSet(web[file].urls)
                   /\ \A i, j \in 1..Len(found) : i < j => e[i].lastmod >= e[j].lastmod
      BY <1>5 DEF Discovered
    <3>2. \A i \in 1..Len(found) : e[i].lastmod \in Dates(found[i])
      BY <3>1 DEF Dates
    <3> SUFFICES ASSUME NEW j \in 1..cap, NEW k \in (cap + 1)..Len(posts)
                 PROVE  \E d \in Dates(posts[j]), o \in Dates(posts[k]) : d >= o
      BY <2>7
    <3>3. /\ j \in 1..Len(posts) /\ k \in 1..Len(posts) /\ j < k
      BY <2>8
    <3>4. g[j] < g[k]
      BY <2>4, <3>3 DEF Picks
    <3>5. e[g[j]].lastmod >= e[g[k]].lastmod
      BY <2>5, <3>1, <3>3, <3>4
    <3>6. e[g[j]].lastmod \in Dates(posts[j]) /\ e[g[k]].lastmod \in Dates(posts[k])
      BY <2>5, <3>2, <3>3
    <3> QED BY <3>5, <3>6
  <2>12. RunInv'
    <3>1. \A loc : Dates(loc)' = Dates(loc)
      BY GrownFacts
    <3>2. \A k \in 1..Len(queue') : queue'[k] \in taken'
      BY <2>7
    <3>3. \A loc \in taken' \cup behind' : loc \in Seq(STRING) /\ Under(copy.site, loc)
      BY <2>7, <2>8, <2>10
    <3> QED BY <1>2, <1>3, <2>1, <2>7, <2>9, <2>11, <3>1, <3>2, <3>3 DEF RunInv
  <2>13. ASSUME Counted PROVE Counted'
    <3>1. /\ \A i \in digests : PostOf(i) \in seen
          /\ \A loc : ~Marking(loc) /\ ~Marking(loc)'
      BY <1>2, <2>1, <2>13 DEF Counted, Marking
    <3>2. \A i \in digests : PostOf(i)' = PostOf(i)
      BY GrownFacts
    <3>3. \A loc : Times(loc)' = Times(loc) /\ Filed(loc)' = Filed(loc)
      BY <1>2, <3>2, GrownFacts DEF Filed
    <3>4. \A loc : Queued(loc)' = {k \in 1..cap : posts[k] = loc}
      BY <2>7 DEF Queued
    <3>5. ASSUME NEW loc \in taken'
          PROVE  Cardinality(Filed(loc)) + Cardinality(Queued(loc)') <= Times(loc)
      <4>1. PICK m \in 1..cap : posts[m] = loc
        BY <2>7, <3>5
      <4>2. m \in 1..Len(posts) /\ loc \notin seen /\ loc \in Seq(STRING) /\ Under(copy.site, loc)
        BY <2>5, <2>8, <2>10, <4>1
      <4>3. Filed(loc) = {}
        BY <3>1, <4>2 DEF Filed
      <4>4. Head(loc) = Head(copy.site) /\ Head(loc) \in DOMAIN web
        BY <1>3, <2>9, <4>2, UnderHead
      <4> DEFINE all == Entries(web, Head(loc), DOMAIN web)
                 S == {k \in 1..cap : posts[k] = loc}
                 T == {k \in 1..Len(all) : all[k].loc = loc}
      <4>5. PICK h : /\ h \in [1..Len(found) -> 1..Len(all)]
                     /\ \A i \in 1..Len(found) : all[h[i]].loc = found[i]
                     /\ \A i, j \in 1..Len(found) : h[i] = h[j] => i = j
        BY <1>5, <4>4 DEF Discovered
      <4>6. web \in Webs
        BY DEF RowsInv
      <4>7. Times(loc) = Cardinality(T) /\ IsFiniteSet(T) /\ Times(loc) \in Nat
        BY <4>4, <4>6, TimesType
      <4> HIDE DEF all
      <4> DEFINE f == [k \in S |-> h[g[k]]]
      <4>8. \A k \in S : k \in 1..Len(posts) /\ h[g[k]] \in T
        BY <2>5, <2>8, <4>5
      <4>9. \A j, k \in S : g[j] = g[k] => j = k
        <5> SUFFICES ASSUME NEW j \in S, NEW k \in S, g[j] = g[k], j # k PROVE FALSE
          OBVIOUS
        <5>1. j \in 1..Len(posts) /\ k \in 1..Len(posts)
          BY <4>8
        <5>2. g[j] < g[k] \/ g[k] < g[j]
          BY <2>4, <2>6, <5>1 DEF Picks
        <5>3. g[j] \in 1..Len(found) /\ g[k] \in 1..Len(found)
          BY <2>5, <5>1
        <5> QED BY <5>2, <5>3
      <4>10. f \in Injection(S, T)
        <5>1. f \in [S -> T]
          BY <4>8
        <5>2. \A j, k \in S : f[j] = f[k] => j = k
          BY <2>5, <4>5, <4>8, <4>9
        <5> QED BY <5>1, <5>2 DEF Injection, IsInjective
      <4> HIDE DEF f, S, T
      <4>11. Cardinality(S) <= Cardinality(T) /\ IsFiniteSet(S)
        BY <4>7, <4>10, FS_Injection
      <4>12. Cardinality(S) \in Nat /\ Cardinality({}) = 0
        BY <4>11, FS_CardinalityType, FS_EmptySet
      <4> QED BY <3>4, <4>3, <4>7, <4>11, <4>12 DEF S
    <3>6. ASSUME NEW i \in digests, PostOf(i) \notin taken'
          PROVE  Cardinality(Filed(PostOf(i))) + Cardinality(Queued(PostOf(i))) <= Times(PostOf(i))
                 /\ (\A loc : loc = PostOf(i) => Queued(loc)' = Queued(loc))
      <4>1. Cardinality(Filed(PostOf(i))) + Cardinality(Queued(PostOf(i)))
              <= Times(PostOf(i)) + (IF Marking(PostOf(i)) THEN 1 ELSE 0)
        BY <2>13 DEF Counted
      <4>2. ~Marking(PostOf(i)) /\ Times(PostOf(i)) \in Nat
        BY <3>1, ListedPosts
      <4>3. \A loc : loc = PostOf(i) => Queued(loc)' = Queued(loc)
        <5>1. Queued(PostOf(i)) = {}
          BY <1>3 DEF Queued
        <5>2. \A loc : loc = PostOf(i) => {k \in 1..cap : posts[k] = loc} = {}
          BY <2>7, <3>6
        <5> QED BY <3>4, <5>1, <5>2
      <4> QED BY <4>1, <4>2, <4>3
    <3>7. ASSUME NEW loc, loc \in ({PostOf(i) : i \in digests} \cup {queue[k] : k \in 1..Len(queue)})'
          PROVE  Cardinality(Filed(loc)') + Cardinality(Queued(loc)')
                   <= Times(loc)' + (IF Marking(loc)' THEN 1 ELSE 0)
      <4>1. Times(loc) \in Nat
        <5>1. CASE loc \in taken'
          <6>1. loc \in Seq(STRING) /\ Under(copy.site, loc)
            BY <2>7, <2>8, <2>10, <5>1
          <6>2. Head(loc) = Head(copy.site) /\ web \in Webs
            BY <1>3, <6>1, UnderHead DEF RowsInv
          <6> QED BY <2>9, <6>2, TimesType
        <5>2. CASE loc \in {PostOf(i) : i \in digests}
          BY <5>2, ListedPosts
        <5> QED BY <1>2, <2>7, <3>2, <3>7, <5>1, <5>2
      <4>2. Cardinality(Filed(loc)) + Cardinality(Queued(loc)') <= Times(loc)
        <5>1. CASE loc \in taken'
          BY <3>5, <5>1
        <5>2. CASE loc \notin taken'
          <6>1. loc \in {PostOf(i) : i \in digests}
            BY <1>2, <2>7, <3>2, <3>7, <5>2
          <6>2. PICK i \in digests : loc = PostOf(i)
            BY <6>1
          <6>3. Queued(loc)' = Queued(loc)
            BY <3>6, <5>2, <6>2
          <6> QED BY <3>6, <5>2, <6>2, <6>3
        <5> QED BY <5>1, <5>2
      <4> QED BY <3>1, <3>3, <4>1, <4>2
    <3>8. \A i \in digests' : PostOf(i)' \in seen'
      BY <1>2, <3>1, <3>2
    <3> QED BY <3>7, <3>8 DEF Counted
  <2> QED BY <1>4, <2>12, <2>13
<1> QED BY <1>6, <1>7

\* The counts, through every step.
LEMMA CountStep ==
  ASSUME SearchInv, RowsInv, RunInv, TicketsInv, CountInv, Grown, ContentNext
  PROVE  RunInv' /\ TicketsInv' /\ CountInv'
<1>0. /\ ~born => row = NoRow /\ run = "idle" /\ digests = {}
      /\ clearing => born /\ row = NoRow
      /\ row # NoRow => Counted
  BY DEF CountInv
<1>1. ASSUME UNCHANGED <<worker, digests, seen, born, clearing>>, row' # NoRow => row # NoRow
      PROVE  RunInv' /\ TicketsInv' /\ CountInv'
  <2>1. RunInv' /\ TicketsInv'
    BY <1>1, WorkerKept
  <2>2. Counted => Counted'
    BY <1>1, CountedKept DEF worker
  <2> QED BY <1>0, <1>1, <2>1, <2>2 DEF CountInv, worker
<1>2. ASSUME NEW req \in Requests, CreateAutomation(req) PROVE RunInv' /\ TicketsInv' /\ CountInv'
  <2>1. ~born /\ born' /\ UNCHANGED <<clearing, worker, digests, seen>>
    BY <1>2 DEF CreateAutomation, tickets
  <2>2. RunInv' /\ TicketsInv'
    BY <2>1, WorkerKept
  <2>3. queue' = <<>> /\ digests' = {}
    BY <1>0, <2>1 DEF RunInv, worker
  <2>4. Counted'
    <3>1. \A k \in 1..Len(queue') : FALSE
      BY <2>3
    <3> QED BY <2>3, <3>1 DEF Counted
  <2> QED BY <1>0, <2>1, <2>2, <2>4 DEF CountInv
<1>3. ASSUME NEW req \in Requests, NEW e \in Editors, ReadRow(e, req)
      PROVE  RunInv' /\ TicketsInv' /\ CountInv'
  BY <1>1, <1>3 DEF ReadRow, tickets
<1>4. ASSUME NEW e \in Editors, WriteRow(e) PROVE RunInv' /\ TicketsInv' /\ CountInv'
  BY <1>1, <1>4 DEF WriteRow, tickets
<1>5. CASE DeleteRow
  <2>1. row # NoRow /\ row' = NoRow /\ UNCHANGED <<born, worker, digests>>
    BY <1>5 DEF DeleteRow, tickets
  <2>2. RunInv' /\ TicketsInv'
    BY <2>1, WorkerKept
  <2> QED BY <1>0, <2>1, <2>2 DEF CountInv
<1>6. CASE ClearSeen
  <2>1. clearing /\ clearing' = FALSE /\ UNCHANGED <<row, born, worker, digests>>
    BY <1>6 DEF ClearSeen, tickets
  <2>2. RunInv' /\ TicketsInv'
    BY <2>1, WorkerKept
  <2> QED BY <1>0, <2>1, <2>2 DEF CountInv
<1>7. ASSUME row # NoRow => (Counted => Counted'), UNCHANGED <<row, born, clearing>>,
             run # "idle" \/ row # NoRow, RunInv', TicketsInv'
      PROVE  RunInv' /\ TicketsInv' /\ CountInv'
  BY <1>0, <1>7 DEF CountInv
<1>8. CASE Claim
  <2>1. /\ run = "idle" /\ row # NoRow /\ run' = "discover" /\ copy' = row
        /\ UNCHANGED <<web, row, born, clearing, seen, queue, taken, behind, digests>>
    BY <1>8 DEF Claim, table, tickets
  <2>2. TicketsInv'
    BY <2>1, TicketsKept
  <2>3. RunInv'
    <3>1. queue = <<>> /\ taken = {} /\ behind = {}
      BY <2>1 DEF RunInv
    <3> QED BY <2>1, <3>1 DEF RunInv
  <2>4. Counted => Counted'
    BY <2>1, CountedKept
  <2> QED BY <1>7, <2>1, <2>2, <2>3, <2>4
<1>9. CASE DiscoverPosts
  <2>1. run = "discover" /\ UNCHANGED <<row, born, clearing>>
    BY <1>9 DEF DiscoverPosts, table
  <2> QED BY <1>7, <1>9, <2>1, DiscoverRun
<1>10. CASE FilePost
  <2>1. run = "post" /\ UNCHANGED <<row, born, clearing>>
    BY <1>10 DEF FilePost, table
  <2>2. RunInv' /\ TicketsInv'
    BY <1>10, FilePostFacts
  <2>3. Counted => Counted'
    BY <1>10, FilePostCount
  <2> QED BY <1>7, <2>1, <2>2, <2>3
<1>11. CASE SkipPost
  <2>1. run = "post" /\ NextPost /\ UNCHANGED <<row, born, clearing, seen, digests>>
    BY <1>11 DEF SkipPost, table, tickets
  <2>2. RunInv' /\ TicketsInv'
    BY <2>1, NextPostFacts
  <2>3. Counted => Counted'
    BY <2>1, NextPostCount
  <2> QED BY <1>7, <2>1, <2>2, <2>3
<1>12. CASE Disconnected
  <2>1. run = "post" /\ EndRun /\ UNCHANGED <<row, born, clearing, seen, digests>>
    BY <1>12 DEF Disconnected, table, tickets
  <2>2. RunInv' /\ TicketsInv'
    BY <2>1, EndRunFacts
  <2>3. Counted => Counted'
    BY <2>1, NextPostCount
  <2> QED BY <1>7, <2>1, <2>2, <2>3
<1>13. CASE MarkPost
  <2>1. /\ run = "mark" /\ seen' = seen \cup {Head(queue)} /\ NextPost
        /\ UNCHANGED <<row, born, clearing, digests>>
    BY <1>13 DEF MarkPost, table, tickets
  <2>2. RunInv' /\ TicketsInv'
    BY <2>1, NextPostFacts
  <2>3. Counted => Counted'
    BY <2>1, NextPostCount
  <2> QED BY <1>7, <2>1, <2>2, <2>3
<1>14. CASE JiraNext /\ UNCHANGED <<web, table, seen, worker, digests>>
  BY <1>1, <1>14 DEF table
<1> QED
  BY <1>2, <1>3, <1>4, <1>5, <1>6, <1>8, <1>9, <1>10, <1>11, <1>12, <1>13, <1>14
  DEF ContentNext, DigestNext

\* The inductive invariant of the whole.
ContentInv == SearchInv /\ RowsInv /\ RunInv /\ TicketsInv /\ CountInv

\* It holds at first.
LEMMA ContentStart == ContentInit => ContentInv
<1> SUFFICES ASSUME ContentInit PROVE ContentInv
  OBVIOUS
<1>1. /\ web \in Webs /\ row = NoRow /\ born = FALSE /\ clearing = FALSE
      /\ edit = [e \in Editors |-> NoEdit] /\ seen = {} /\ digests = {}
      /\ run = "idle" /\ copy = NoRow /\ queue = <<>> /\ taken = {} /\ behind = {}
  BY DEF ContentInit, DigestInit
<1>2. RowsInv
  BY <1>1 DEF RowsInv
<1>3. RunInv
  BY <1>1 DEF RunInv
<1>4. TicketsInv /\ CountInv
  BY <1>1 DEF TicketsInv, CountInv
<1> QED BY <1>2, <1>3, <1>4, SearchStart DEF ContentInv

\* And after every step.
LEMMA ContentStep == ContentInv /\ [ContentNext]_contentVars => ContentInv'
<1> SUFFICES ASSUME ContentInv, [ContentNext]_contentVars PROVE ContentInv'
  OBVIOUS
<1>1. SearchInv /\ RowsInv /\ RunInv /\ TicketsInv /\ CountInv
  BY DEF ContentInv
<1>2. Grown /\ SearchInv' /\ RowsInv'
  BY <1>1, GrownStep, SearchStep, RowsStep
<1>3. CASE ContentNext
  BY <1>1, <1>2, <1>3, CountStep DEF ContentInv
<1>4. CASE UNCHANGED contentVars
  <2>1. UNCHANGED <<worker, digests, seen, born, clearing, row, queue, run>>
    BY <1>4 DEF contentVars, digestVars, table, worker, tickets
  <2>2. RunInv' /\ TicketsInv'
    BY <1>1, <1>2, <2>1, WorkerKept
  <2>3. Counted => Counted'
    BY <1>1, <1>2, <2>1, CountedKept
  <2>4. CountInv'
    BY <1>1, <2>1, <2>3 DEF CountInv
  <2> QED BY <1>2, <2>2, <2>4 DEF ContentInv
<1> QED BY <1>3, <1>4

\* Every reachable state meets it.
LEMMA ContentAlways == ContentSpec => []ContentInv
BY ContentStart, ContentStep, PTL DEF ContentSpec

\* Issues, search, rows, edits and runs keep their types, an interval is never
\* shorter than allowed, and a run has posts exactly while it works on them.
THEOREM ContentTyped == ContentSpec => []ContentTypeOK
<1>1. ContentInv => ContentTypeOK
  <2> SUFFICES ASSUME ContentInv PROVE ContentTypeOK
    OBVIOUS
  <2>1. JiraTypeOK
    BY SearchTyped DEF ContentInv
  <2>2. /\ web \in Webs /\ born \in BOOLEAN /\ clearing \in BOOLEAN
        /\ row \in {NoRow} \cup Rows /\ copy \in {NoRow} \cup Rows
        /\ row # NoRow => row.interval >= MinInterval \/ row.interval = DefaultInterval
        /\ edit \in [Editors -> {NoEdit} \cup Rows]
    BY DEF ContentInv, RowsInv, RowOK
  <2>3. /\ run \in {"idle", "discover", "post", "mark"}
        /\ run \in {"post", "mark"} <=> queue # <<>>
    BY DEF ContentInv, RunInv
  <2>4. ToSet(queue) \subseteq taken
    <3>1. queue \in Seq(Seq(STRING)) /\ (queue # <<>> => \A k \in 1..Len(queue) : queue[k] \in taken)
      BY DEF ContentInv, RunInv
    <3> QED BY <3>1 DEF ToSet
  <2>5. digests \subseteq DOMAIN issues
    BY DEF ContentInv, TicketsInv, SearchInv
  <2> QED BY <2>1, <2>2, <2>3, <2>4, <2>5 DEF ContentTypeOK, DigestTypeOK
<1> QED BY <1>1, ContentAlways, PTL

\* The row, and every ticket, is of one request that somebody made.
THEOREM EditsWhole == ContentSpec => []WholeEdits
<1>1. ContentInv => WholeEdits
  BY DEF ContentInv, RowsInv, RowOK, TicketsInv, WholeEdits
<1> QED BY <1>1, ContentAlways, PTL

\* No post is filed more often than it is listed.
THEOREM FiledAsListed == ContentSpec => []AsOftenAsListed
<1>1. ContentInv => AsOftenAsListed
  <2> SUFFICES ASSUME ContentInv, row # NoRow, NEW loc \in {PostOf(i) : i \in digests}
               PROVE  Cardinality(Filed(loc)) <= Times(loc)
    BY DEF AsOftenAsListed, Filed
  <2>1. Counted /\ SearchInv /\ RowsInv /\ RunInv /\ TicketsInv
    BY DEF ContentInv, CountInv
  <2>2. /\ Cardinality(Filed(loc)) \in Nat /\ Cardinality(Queued(loc)) \in Nat
        /\ IsFiniteSet(Queued(loc))
    <3>1. Len(issues) \in Nat
      BY <2>1 DEF SearchInv
    <3> QED BY <2>1, <3>1, CountTypes
  <2>3. Times(loc) \in Nat
    BY <2>1, ListedPosts
  <2>4. Cardinality(Filed(loc)) + Cardinality(Queued(loc))
          <= Times(loc) + (IF Marking(loc) THEN 1 ELSE 0)
    BY <2>1 DEF Counted
  <2>5. Marking(loc) => Cardinality(Queued(loc)) >= 1
    <3> SUFFICES ASSUME Marking(loc) PROVE Cardinality(Queued(loc)) # 0
      BY <2>2
    <3>1. queue \in Seq(Seq(STRING)) /\ queue # <<>> /\ loc = Head(queue)
      BY <2>1 DEF Marking, RunInv
    <3>2. 1 \in Queued(loc)
      BY <3>1 DEF Queued
    <3> QED BY <2>2, <3>2, FS_EmptySet
  <2> QED BY <2>2, <2>3, <2>4, <2>5
<1> QED BY <1>1, ContentAlways, PTL

\* What a run takes is at least as new as what its cap leaves, and under its site.
THEOREM TakesNewest == ContentSpec => []NewestTaken
<1>1. ContentInv => NewestTaken
  BY DEF ContentInv, RunInv, NewestTaken
<1> QED BY <1>1, ContentAlways, PTL

-----------------------------------------------------------------------------
(* How sequences join. *)

\* Induction over the sequences, for a set.
LEMMA SeqInductionSet ==
  ASSUME NEW X, NEW T, <<>> \in T,
         \A s \in Seq(X) : \A e \in X : s \in T => Append(s, e) \in T
  PROVE  Seq(X) \subseteq T
<1> DEFINE N == {n \in Nat : \A s \in Seq(X) : Len(s) = n => s \in T}
<1>1. 0 \in N
  <2>1. \A s \in Seq(X) : Len(s) = 0 => s = <<>>
    OBVIOUS
  <2> QED BY <2>1
<1>2. ASSUME NEW n \in Nat, n \in N PROVE n + 1 \in N
  <2> SUFFICES ASSUME NEW s \in Seq(X), Len(s) = n + 1 PROVE s \in T
    OBVIOUS
  <2>1. s # <<>>
    BY EmptySeq
  <2>2. PICK u \in Seq(X), e \in X : s = Append(u, e)
    BY <2>1, SequenceEmptyOrAppend
  <2>3. Len(u) \in Nat /\ Len(s) = Len(u) + 1
    BY <2>2, AppendProperties
  <2>4. Len(u) = n
    BY <2>3
  <2>5. u \in T
    BY <1>2, <2>4
  <2> QED BY <2>2, <2>5
<1>3. Nat \subseteq N
  <2> HIDE DEF N
  <2> QED BY <1>1, <1>2, NatInductionSet
<1> QED BY <1>3, LenProperties

\* FlattenSeq of no sequence, of one, and of one more.
LEMMA FlattenAppend ==
  ASSUME NEW X, NEW ss \in Seq(Seq(X)), NEW s \in Seq(X)
  PROVE  FlattenSeq(Append(ss, s)) = FlattenSeq(ss) \o s
<1> DEFINE tt == Append(ss, s)
           n == Len(ss)
<1>1. /\ tt \in Seq(Seq(X)) /\ Len(tt) = n + 1 /\ n \in Nat
      /\ \A i \in 1..n : tt[i] = ss[i]
      /\ tt[n + 1] = s
  BY AppendProperties, LenProperties
<1> HIDE DEF tt, n
<1>2. PICK g : /\ g = [k \in 1..Len(tt) |-> IF k = 1 THEN tt[k] ELSE g[k - 1] \o tt[k]]
               /\ FlattenSeq(tt) = g[Len(tt)]
  <2>1. Len(tt) # 0
    BY <1>1
  <2> QED BY <1>1, <2>1, FlattenDefined
<1>3. \A k \in 1..(n + 1) : g[k] = IF k = 1 THEN tt[k] ELSE g[k - 1] \o tt[k]
  BY <1>1, <1>2
<1>4. CASE n = 0
  <2>1. ss = <<>> /\ FlattenSeq(ss) = <<>>
    BY <1>4 DEF FlattenSeq, n
  <2>2. g[1] = s /\ FlattenSeq(tt) = g[1]
    BY <1>1, <1>2, <1>3, <1>4
  <2> QED BY <2>1, <2>2, ConcatEmptySeq DEF tt
<1>5. CASE n # 0
  <2>1. PICK f : /\ f = [k \in 1..n |-> IF k = 1 THEN ss[k] ELSE f[k - 1] \o ss[k]]
                 /\ FlattenSeq(ss) = f[n]
    BY <1>5, FlattenDefined DEF n
  <2>2. \A k \in 1..n : f[k] = IF k = 1 THEN ss[k] ELSE f[k - 1] \o ss[k]
    BY <2>1
  <2> DEFINE T == {k \in Nat : k + 1 <= n => f[k + 1] = g[k + 1]}
  <2>3. 0 \in T
    BY <1>1, <1>3, <2>2, <1>5
  <2>4. ASSUME NEW k \in Nat, k \in T PROVE k + 1 \in T
    <3> SUFFICES ASSUME (k + 1) + 1 <= n PROVE f[(k + 1) + 1] = g[(k + 1) + 1]
      OBVIOUS
    <3>1. f[k + 1] = g[k + 1]
      BY <1>1, <2>4
    <3>2. (k + 1) + 1 \in 1..n /\ (k + 1) + 1 # 1 /\ ((k + 1) + 1) - 1 = k + 1
          /\ (k + 1) + 1 \in 1..(n + 1)
      BY <1>1
    <3>3. f[(k + 1) + 1] = f[k + 1] \o ss[(k + 1) + 1]
      BY <2>2, <3>2
    <3>4. g[(k + 1) + 1] = g[k + 1] \o tt[(k + 1) + 1]
      BY <1>3, <3>2
    <3> QED BY <1>1, <3>1, <3>2, <3>3, <3>4
  <2>5. n - 1 \in T
    <3> HIDE DEF T
    <3>1. Nat \subseteq T
      BY <2>3, <2>4, NatInductionSet
    <3> QED BY <1>1, <1>5, <3>1
  <2>6. f[n] = g[n]
    BY <1>1, <1>5, <2>5
  <2>7. g[n + 1] = g[n] \o s
    <3>1. n + 1 \in 1..(n + 1) /\ n + 1 # 1 /\ (n + 1) - 1 = n
      BY <1>1, <1>5
    <3>2. g[n + 1] = g[(n + 1) - 1] \o tt[n + 1]
      BY <1>3, <3>1
    <3> QED BY <1>1, <3>1, <3>2
  <2>8. FlattenSeq(tt) = FlattenSeq(ss) \o s
    <3>1. Len(tt) = n + 1
      BY <1>1
    <3>2. FlattenSeq(tt) = g[n + 1]
      BY <1>2, <3>1
    <3> QED BY <2>1, <2>6, <2>7, <3>2
  <2> QED BY <2>8 DEF tt
<1> QED BY <1>4, <1>5

\* FlattenSeq of two lists of sequences, one after the other.
LEMMA FlattenConcat ==
  ASSUME NEW X, NEW ss \in Seq(Seq(X)), NEW tt \in Seq(Seq(X))
  PROVE  FlattenSeq(ss \o tt) = FlattenSeq(ss) \o FlattenSeq(tt)
<1> DEFINE T == {u \in Seq(Seq(X)) : FlattenSeq(ss \o u) = FlattenSeq(ss) \o FlattenSeq(u)}
<1>1. <<>> \in T
  <2>1. FlattenSeq(<<>>) = <<>> /\ FlattenSeq(ss) \in Seq(X)
    BY FlattenJoins DEF FlattenSeq
  <2>2. ss \o <<>> = ss /\ FlattenSeq(ss) \o <<>> = FlattenSeq(ss) /\ <<>> \in Seq(Seq(X))
    BY <2>1, ConcatEmptySeq, EmptySeq
  <2> QED BY <2>1, <2>2
<1>2. ASSUME NEW u \in Seq(Seq(X)), NEW e \in Seq(X), u \in T PROVE Append(u, e) \in T
  <2>1. ss \o Append(u, e) = Append(ss \o u, e)
    <3>1. Append(u, e) = u \o <<e>> /\ <<e>> \in Seq(Seq(X)) /\ ss \o u \in Seq(Seq(X))
      BY AppendIsConcat, ConcatProperties
    <3>2. Append(ss \o u, e) = (ss \o u) \o <<e>>
      BY <3>1, AppendIsConcat
    <3> QED BY <3>1, <3>2, ConcatAssociative
  <2>2. ss \o u \in Seq(Seq(X)) /\ Append(u, e) \in Seq(Seq(X))
    BY AppendProperties, ConcatProperties
  <2>3. FlattenSeq(Append(ss \o u, e)) = FlattenSeq(ss \o u) \o e
    BY <2>2, FlattenAppend
  <2>4. FlattenSeq(Append(u, e)) = FlattenSeq(u) \o e
    BY FlattenAppend
  <2>5. FlattenSeq(ss) \in Seq(X) /\ FlattenSeq(u) \in Seq(X)
    BY FlattenJoins
  <2>6. (FlattenSeq(ss) \o FlattenSeq(u)) \o e = FlattenSeq(ss) \o (FlattenSeq(u) \o e)
    <3> DEFINE p == FlattenSeq(ss)
               q == FlattenSeq(u)
    <3>1. p \in Seq(X) /\ q \in Seq(X) /\ e \in Seq(X)
      BY <2>5
    <3> HIDE DEF p, q
    <3>2. (p \o q) \o e = p \o (q \o e)
      BY <3>1, ConcatAssociative, SMTT(30)
    <3> QED BY <3>2 DEF p, q
  <2> QED BY <1>2, <2>1, <2>2, <2>3, <2>4, <2>6
<1>3. Seq(Seq(X)) \subseteq T
  <2> HIDE DEF T
  <2> QED BY <1>1, <1>2, SeqInductionSet
<1> QED BY <1>3

\* FlattenSeq of single elements.
LEMMA FlattenSingles ==
  ASSUME NEW X, NEW s \in Seq(X)
  PROVE  FlattenSeq([i \in 1..Len(s) |-> <<s[i]>>]) = s
<1> DEFINE single(u) == [i \in 1..Len(u) |-> <<u[i]>>]
           T == {u \in Seq(X) : FlattenSeq(single(u)) = u}
<1>1. <<>> \in T
  <2>1. single(<<>>) = <<>> /\ <<>> \in Seq(X)
    OBVIOUS
  <2> QED BY <2>1 DEF FlattenSeq
<1>2. ASSUME NEW u \in Seq(X), NEW e \in X, u \in T PROVE Append(u, e) \in T
  <2>1. /\ Append(u, e) \in Seq(X) /\ Len(Append(u, e)) = Len(u) + 1 /\ Len(u) \in Nat
        /\ \A i \in 1..Len(u) : Append(u, e)[i] = u[i] /\ u[i] \in X
        /\ Append(u, e)[Len(u) + 1] = e
    BY AppendProperties, LenProperties, ElementOfSeq
  <2>2. single(u) \in Seq(Seq(X)) /\ Len(single(u)) = Len(u)
    BY <2>1
  <2>3. <<e>> \in Seq(X)
    OBVIOUS
  <2> DEFINE a == Append(single(u), <<e>>)
             b == single(Append(u, e))
  <2>4. /\ a \in Seq(Seq(X)) /\ Len(a) = Len(u) + 1
        /\ \A i \in 1..Len(u) : a[i] = single(u)[i]
        /\ a[Len(u) + 1] = <<e>>
    BY <2>2, <2>3, AppendProperties
  <2>5. b = [i \in 1..(Len(u) + 1) |-> IF i <= Len(u) THEN <<u[i]>> ELSE <<e>>]
    BY <2>1
  <2>6. b = a
    <3> HIDE DEF a, b
    <3>1. a = [i \in 1..(Len(u) + 1) |-> a[i]]
      BY <2>4
    <3>2. \A i \in 1..(Len(u) + 1) : a[i] = IF i <= Len(u) THEN <<u[i]>> ELSE <<e>>
      <4> SUFFICES ASSUME NEW i \in 1..(Len(u) + 1)
                   PROVE  a[i] = IF i <= Len(u) THEN <<u[i]>> ELSE <<e>>
        OBVIOUS
      <4>1. CASE i <= Len(u)
        <5>1. i \in 1..Len(u)
          BY <2>1, <4>1
        <5>2. single(u)[i] = <<u[i]>>
          BY <5>1
        <5> HIDE DEF single
        <5> QED BY <2>4, <4>1, <5>1, <5>2
      <4>2. CASE i = Len(u) + 1
        BY <2>1, <2>4, <4>2
      <4> QED BY <2>1, <4>1, <4>2
    <3> QED BY <2>5, <3>1, <3>2
  <2>7. FlattenSeq(a) = FlattenSeq(single(u)) \o <<e>>
    BY <2>2, <2>3, FlattenAppend
  <2>8. FlattenSeq(b) = Append(u, e)
    <3> HIDE DEF a, b, single
    <3> QED BY <1>2, <2>6, <2>7, AppendIsConcat
  <2> QED BY <2>1, <2>8
<1>3. Seq(X) \subseteq T
  <2> HIDE DEF T
  <2> QED BY <1>1, <1>2, SeqInductionSet
<1> QED BY <1>3

\* FlattenSeq of one sequence.
LEMMA FlattenOne ==
  ASSUME NEW X, NEW s \in Seq(X)
  PROVE  FlattenSeq(<<s>>) = s /\ FlattenSeq(<<>>) = <<>>
<1>1. FlattenSeq(<<>>) = <<>>
  BY DEF FlattenSeq
<1>2. Append(<<>>, s) = <<s>> /\ <<>> \in Seq(Seq(X))
  OBVIOUS
<1>3. FlattenSeq(Append(<<>>, s)) = FlattenSeq(<<>>) \o s
  BY <1>2, FlattenAppend
<1>4. FlattenSeq(<<s>>) = FlattenSeq(Append(<<>>, s))
  BY <1>2
<1>5. FlattenSeq(<<>>) \o s = s
  BY <1>1, ConcatEmptySeq
<1> QED BY <1>1, <1>3, <1>4, <1>5

\* A stretch of a list, cut in two.
LEMMA FlattenCut ==
  ASSUME NEW X, NEW ss \in Seq(Seq(X)),
         NEW m \in 1..(Len(ss) + 1), NEW k \in (m - 1)..Len(ss), NEW n \in k..Len(ss)
  PROVE  FlattenSeq(SubSeq(ss, m, n))
           = FlattenSeq(SubSeq(ss, m, k)) \o FlattenSeq(SubSeq(ss, k + 1, n))
<1>1. SubSeq(ss, m, n) = SubSeq(ss, m, k) \o SubSeq(ss, k + 1, n)
  BY ConcatAdjacentSubSeq
<1>2. Len(ss) \in Nat
  OBVIOUS
<1>3. \A i \in 1..Len(ss) : ss[i] \in Seq(X)
  BY ElementOfSeq
<1>4. m \in Int /\ n \in Int /\ k \in Int /\ k + 1 \in Int /\ m >= 1 /\ k + 1 >= 1 /\ k <= Len(ss) /\ n <= Len(ss)
  BY <1>2
<1>5. SubSeq(ss, m, k) \in Seq(Seq(X)) /\ SubSeq(ss, k + 1, n) \in Seq(Seq(X))
  <2>1. (\A i \in m..k : ss[i] \in Seq(X)) /\ \A i \in (k + 1)..n : ss[i] \in Seq(X)
    BY <1>2, <1>3, <1>4
  <2> QED BY <1>4, <2>1, SubSeqProperties
<1> QED BY <1>1, <1>5, FlattenConcat

-----------------------------------------------------------------------------
(* The text nodes of a line. *)

\* The tokens, and the ones the code writes: the provers do not know that a literal is
\* a STRING.
Words ==
  Tokens \cup {Star, Bullet, Rule, <<"Source:">>, <<"Link:">>, <<"(">>, <<")">>}

Nodes == [text : Seq(Words), bold : BOOLEAN]
Reads == [token : Words, bold : BOOLEAN]

\* Words read in one emphasis.
Reading(t, v) == [k \in 1..Len(t) |-> [token |-> t[k], bold |-> v]]

\* Nodes Jira accepts.
Full(nodes) == nodes \in Seq(Nodes) /\ \A k \in 1..Len(nodes) : nodes[k].text # <<>>

\* Nodes read as a sequence of read tokens.
LEMMA ReadNodesType ==
  ASSUME NEW a \in Seq(Nodes)
  PROVE  /\ [i \in DOMAIN a |-> ReadNode(a[i])] \in Seq(Seq(Reads))
         /\ Len([i \in DOMAIN a |-> ReadNode(a[i])]) = Len(a)
         /\ ReadNodes(a) \in Seq(Reads)
<1> DEFINE r == [i \in DOMAIN a |-> ReadNode(a[i])]
<1>1. Len(a) \in Nat /\ DOMAIN a = 1..Len(a) /\ \A i \in 1..Len(a) : a[i] \in Nodes
  BY LenProperties, ElementOfSeq
<1>2. ASSUME NEW node \in Nodes PROVE ReadNode(node) \in Seq(Reads)
  <2>1. node.text \in Seq(Words) /\ node.bold \in BOOLEAN
    BY DEF Nodes
  <2>2. /\ Len(node.text) \in Nat /\ DOMAIN node.text = 1..Len(node.text)
        /\ \A i \in 1..Len(node.text) : node.text[i] \in Words
    BY <2>1, LenProperties, ElementOfSeq
  <2>3. \A i \in 1..Len(node.text) : [token |-> node.text[i], bold |-> node.bold] \in Reads
    BY <2>1, <2>2 DEF Reads
  <2> QED BY <2>2, <2>3 DEF ReadNode
<1>3. r \in Seq(Seq(Reads)) /\ Len(r) = Len(a)
  BY <1>1, <1>2
<1> HIDE DEF r
<1>4. FlattenSeq(r) \in Seq(Reads)
  BY <1>3, FlattenJoins
<1> QED BY <1>3, <1>4 DEF ReadNodes, r

\* Two lists of nodes read one after the other.
LEMMA ReadNodesConcat ==
  ASSUME NEW a \in Seq(Nodes), NEW b \in Seq(Nodes)
  PROVE  ReadNodes(a \o b) = ReadNodes(a) \o ReadNodes(b)
<1> DEFINE read(c) == [i \in DOMAIN c |-> ReadNode(c[i])]
<1>1. /\ a \o b \in Seq(Nodes) /\ Len(a \o b) = Len(a) + Len(b)
      /\ \A i \in 1..Len(a) + Len(b) :
           (a \o b)[i] = IF i <= Len(a) THEN a[i] ELSE b[i - Len(a)]
      /\ Len(a) \in Nat /\ Len(b) \in Nat
      /\ DOMAIN a = 1..Len(a) /\ DOMAIN b = 1..Len(b)
  BY ConcatProperties, LenProperties
<1>2. /\ read(a) \in Seq(Seq(Reads)) /\ Len(read(a)) = Len(a)
      /\ read(b) \in Seq(Seq(Reads)) /\ Len(read(b)) = Len(b)
      /\ read(a \o b) \in Seq(Seq(Reads)) /\ Len(read(a \o b)) = Len(a) + Len(b)
  BY <1>1, ReadNodesType
<1>3. DOMAIN (a \o b) = 1..(Len(a) + Len(b))
  BY <1>1, LenProperties
<1>4. read(a \o b) = read(a) \o read(b)
  <2>1. /\ read(a) \o read(b) \in Seq(Seq(Reads))
        /\ Len(read(a) \o read(b)) = Len(a) + Len(b)
        /\ \A i \in 1..Len(a) + Len(b) :
             (read(a) \o read(b))[i] = IF i <= Len(a) THEN read(a)[i] ELSE read(b)[i - Len(a)]
    <3> DEFINE x == read(a)
               y == read(b)
    <3>1. x \in Seq(Seq(Reads)) /\ Len(x) = Len(a) /\ y \in Seq(Seq(Reads)) /\ Len(y) = Len(b)
      BY <1>2
    <3> HIDE DEF x, y
    <3>2. /\ x \o y \in Seq(Seq(Reads)) /\ Len(x \o y) = Len(x) + Len(y)
          /\ \A i \in 1..Len(x) + Len(y) : (x \o y)[i] = IF i <= Len(x) THEN x[i] ELSE y[i - Len(x)]
      BY <3>1, ConcatProperties
    <3> QED BY <3>1, <3>2 DEF x, y
  <2>2. ASSUME NEW i \in 1..(Len(a) + Len(b))
        PROVE  read(a \o b)[i] = (read(a) \o read(b))[i]
    <3>1. read(a \o b)[i] = ReadNode((a \o b)[i])
      BY <1>3
    <3>2. CASE i <= Len(a)
      <4>1. i \in 1..Len(a)
        BY <1>1, <3>2
      <4>2. read(a)[i] = ReadNode(a[i])
        BY <1>1, <4>1
      <4> HIDE DEF read
      <4> QED BY <1>1, <2>1, <3>1, <3>2, <4>2
    <3>3. CASE ~(i <= Len(a))
      <4>1. i - Len(a) \in 1..Len(b)
        BY <1>1, <3>3
      <4>2. read(b)[i - Len(a)] = ReadNode(b[i - Len(a)])
        BY <1>1, <4>1
      <4> HIDE DEF read
      <4> QED BY <1>1, <2>1, <3>1, <3>3, <4>2
    <3> QED BY <3>2, <3>3
  <2> HIDE DEF read
  <2> QED BY <1>2, <2>1, <2>2, SeqEqual
<1> HIDE DEF read
<1>5. FlattenSeq(read(a \o b)) = FlattenSeq(read(a)) \o FlattenSeq(read(b))
  BY <1>2, <1>4, FlattenConcat
<1> QED BY <1>5 DEF ReadNodes, read

\* A span reads as its tokens, and none is empty.
LEMMA SpanFacts ==
  ASSUME NEW t \in Seq(Words), NEW v \in BOOLEAN
  PROVE  /\ Full(Span(t, v)) /\ ReadNodes(Span(t, v)) = Reading(t, v)
         /\ Reading(t, v) \in Seq(Reads) /\ Len(Reading(t, v)) = Len(t)
<1>1. Len(t) \in Nat /\ DOMAIN t = 1..Len(t) /\ \A k \in 1..Len(t) : t[k] \in Words
  BY LenProperties, ElementOfSeq
<1>2. Reading(t, v) \in Seq(Reads) /\ Len(Reading(t, v)) = Len(t)
  <2>1. \A k \in 1..Len(t) : [token |-> t[k], bold |-> v] \in Reads
    BY <1>1 DEF Reads
  <2> QED BY <1>1, <2>1 DEF Reading
<1>3. CASE t = <<>>
  <2>1. Span(t, v) = <<>> /\ Reading(t, v) = <<>>
    BY <1>3 DEF Span, Reading
  <2>2. ReadNodes(<<>>) = FlattenSeq(<<>>)
    BY DEF ReadNodes
  <2>3. FlattenSeq(<<>>) = <<>>
    BY DEF FlattenSeq
  <2> QED BY <1>2, <2>1, <2>2, <2>3 DEF Full
<1>4. CASE t # <<>>
  <2> DEFINE node == [text |-> t, bold |-> v]
  <2>1. Span(t, v) = <<node>> /\ node \in Nodes /\ node.text # <<>>
    BY <1>4 DEF Span, Nodes
  <2>2. ReadNode(node) = Reading(t, v)
    BY <1>1 DEF ReadNode, Reading
  <2> HIDE DEF node
  <2>3. Full(Span(t, v))
    BY <2>1 DEF Full
  <2>4. [i \in DOMAIN <<node>> |-> ReadNode(<<node>>[i])] = <<ReadNode(node)>>
    OBVIOUS
  <2>5. FlattenSeq(<<Reading(t, v)>>) = Reading(t, v)
    BY <1>2, FlattenOne
  <2>6. ReadNodes(<<node>>) = Reading(t, v)
    BY <2>2, <2>4, <2>5 DEF ReadNodes
  <2> QED BY <1>2, <2>1, <2>3, <2>6
<1> QED BY <1>3, <1>4

\* So do the nodes Jira accepts, which are as acceptable together.
LEMMA FullConcat ==
  ASSUME NEW a, NEW b, Full(a), Full(b)
  PROVE  Full(a \o b) /\ ReadNodes(a \o b) = ReadNodes(a) \o ReadNodes(b)
<1>1. a \in Seq(Nodes) /\ b \in Seq(Nodes)
  BY DEF Full
<1>2. /\ a \o b \in Seq(Nodes) /\ Len(a \o b) = Len(a) + Len(b)
      /\ \A i \in 1..Len(a) + Len(b) :
           (a \o b)[i] = IF i <= Len(a) THEN a[i] ELSE b[i - Len(a)]
      /\ Len(a) \in Nat /\ Len(b) \in Nat
  BY <1>1, ConcatProperties, LenProperties
<1>3. ASSUME NEW k \in 1..Len(a \o b) PROVE (a \o b)[k].text # <<>>
  <2>1. CASE k <= Len(a)
    <3>1. k \in 1..Len(a) /\ (a \o b)[k] = a[k]
      BY <1>2, <2>1
    <3> QED BY <3>1 DEF Full
  <2>2. CASE ~(k <= Len(a))
    <3>1. k - Len(a) \in 1..Len(b) /\ (a \o b)[k] = b[k - Len(a)]
      BY <1>2, <2>2
    <3> QED BY <3>1 DEF Full
  <2> QED BY <2>1, <2>2
<1>4. Full(a \o b)
  BY <1>2, <1>3 DEF Full
<1> QED BY <1>1, <1>4, ReadNodesConcat

\* Where the next star is.
LEMMA NextStarFacts ==
  ASSUME NEW s \in Seq(Words), NEW i \in 1..(Len(s) + 2)
  PROVE  /\ NextStar(s, i) \in 1..(Len(s) + 1)
         /\ NextStar(s, i) <= Len(s) => i <= NextStar(s, i) /\ s[NextStar(s, i)] = Star
         /\ i <= Len(s) + 1 => i <= NextStar(s, i)
         /\ \A j \in i..Len(s) : j < NextStar(s, i) => s[j] # Star
<1> DEFINE n == Len(s)
           S == {n + 1} \cup {j \in i..n : s[j] = Star}
           m == NextStar(s, i)
<1>1. n \in Nat
  OBVIOUS
<1>2. S \in SUBSET Nat /\ S # {}
  BY <1>1
<1>3. \E x \in S : \A y \in S : x <= y
  BY <1>2, LeastNat
<1>4. m \in S /\ \A y \in S : m <= y
  BY <1>3 DEF NextStar, Min
<1> HIDE DEF m
<1> QED BY <1>1, <1>4 DEF m

\* The stars before a place.
Before(s, k) == {j \in DOMAIN s : j < k /\ s[j] = Star}

\* They can be counted.
LEMMA BeforeFinite ==
  ASSUME NEW s \in Seq(Words), NEW k
  PROVE  IsFiniteSet(Before(s, k)) /\ Cardinality(Before(s, k)) \in Nat
<1>1. IsFiniteSet(1..Len(s)) /\ DOMAIN s = 1..Len(s)
  BY FS_Interval, LenProperties
<1>2. Before(s, k) \in SUBSET (1..Len(s))
  BY <1>1 DEF Before
<1>3. IsFiniteSet(Before(s, k))
  BY <1>1, <1>2, FS_Subset
<1> QED BY <1>3, FS_CardinalityType

\* A stretch without a star adds none.
LEMMA BeforeSame ==
  ASSUME NEW s \in Seq(Words), NEW a \in 1..(Len(s) + 1), NEW b \in a..(Len(s) + 1),
         \A j \in a..Len(s) : j < b => s[j] # Star
  PROVE  Before(s, b) = Before(s, a)
<1>1. Len(s) \in Nat /\ DOMAIN s = 1..Len(s)
  BY LenProperties
<1> QED BY <1>1 DEF Before

\* A star adds one.
LEMMA BeforeStar ==
  ASSUME NEW s \in Seq(Words), NEW a \in 1..Len(s), s[a] = Star
  PROVE  Cardinality(Before(s, a + 1)) = Cardinality(Before(s, a)) + 1
<1>1. Len(s) \in Nat /\ DOMAIN s = 1..Len(s)
  BY LenProperties
<1>2. Before(s, a + 1) = Before(s, a) \cup {a}
  BY <1>1 DEF Before
<1>3. a \notin Before(s, a)
  BY DEF Before
<1> QED BY <1>2, <1>3, BeforeFinite, FS_AddElement

\* How the tokens of a line read, one by one.
TokenReads(s) == [k \in DOMAIN s |-> ReadToken(s, k)]

\* They are sequences of read tokens, one for each.
LEMMA TokenReadsType ==
  ASSUME NEW s \in Seq(Words)
  PROVE  /\ TokenReads(s) \in Seq(Seq(Reads)) /\ Len(TokenReads(s)) = Len(s)
         /\ \A k \in 1..Len(s) : TokenReads(s)[k] = ReadToken(s, k)
<1>1. Len(s) \in Nat /\ DOMAIN s = 1..Len(s) /\ \A k \in 1..Len(s) : s[k] \in Words
  BY LenProperties, ElementOfSeq
<1>2. ASSUME NEW k \in 1..Len(s) PROVE ReadToken(s, k) \in Seq(Reads)
  <2>1. (Opened(s, k) /\ Closed(s, k)) \in BOOLEAN
    BY DEF Opened, Closed
  <2>2. [token |-> s[k], bold |-> Opened(s, k) /\ Closed(s, k)] \in Reads
    BY <1>1, <2>1 DEF Reads
  <2> QED BY <2>2 DEF ReadToken
<1> QED BY <1>1, <1>2 DEF TokenReads

\* A stretch of tokens that are all read, in one emphasis.
LEMMA Stretch ==
  ASSUME NEW s \in Seq(Words), NEW a \in 1..(Len(s) + 1), NEW b \in (a - 1)..Len(s),
         NEW v \in BOOLEAN,
         \A k \in a..b : ReadToken(s, k) = <<[token |-> s[k], bold |-> v]>>
  PROVE  /\ FlattenSeq(SubSeq(TokenReads(s), a, b)) = Reading(SubSeq(s, a, b), v)
         /\ SubSeq(s, a, b) \in Seq(Words)
<1> DEFINE t == SubSeq(s, a, b)
           r == Reading(t, v)
           f == SubSeq(TokenReads(s), a, b)
           n == IF a <= b THEN b - a + 1 ELSE 0
<1>1. /\ Len(s) \in Nat /\ a \in Int /\ b \in Int /\ a >= 1 /\ b <= Len(s) /\ n \in Nat
      /\ b - a + 1 = n
  OBVIOUS
<1>2. \A k \in a..b : s[k] \in Words /\ TokenReads(s)[k] \in Seq(Reads)
  <2>1. \A k \in a..b : k \in 1..Len(s)
    BY <1>1
  <2> QED BY <2>1, TokenReadsType, ElementOfSeq
<1>3. t \in Seq(Words) /\ Len(t) = n /\ \A i \in 1..n : t[i] = s[a + i - 1]
  BY <1>1, <1>2, SubSeqProperties
<1>4. f \in Seq(Seq(Reads)) /\ Len(f) = n /\ \A i \in 1..n : f[i] = TokenReads(s)[a + i - 1]
  BY <1>1, <1>2, SubSeqProperties
<1>5. r \in Seq(Reads) /\ Len(r) = n
  BY <1>3, SpanFacts
<1>6. \A i \in 1..n : r[i] = [token |-> t[i], bold |-> v]
  BY <1>1, <1>3 DEF Reading
<1> HIDE DEF t, f, r
<1>7. \A i \in 1..n : f[i] = <<r[i]>>
  <2> SUFFICES ASSUME NEW i \in 1..n PROVE f[i] = <<r[i]>>
    OBVIOUS
  <2>1. a + i - 1 \in a..b /\ a + i - 1 \in 1..Len(s)
    BY <1>1
  <2>2. f[i] = ReadToken(s, a + i - 1)
    BY <1>4, <2>1, TokenReadsType
  <2> QED BY <1>3, <1>6, <2>1, <2>2
<1>8. f = [i \in 1..Len(r) |-> <<r[i]>>]
  <2>1. f = [i \in 1..n |-> f[i]]
    BY <1>1, <1>4
  <2> QED BY <1>5, <1>7, <2>1
<1>9. FlattenSeq(f) = r
  BY <1>5, <1>8, FlattenSingles
<1> QED BY <1>3, <1>9 DEF t, f, r

\* The body of AdfInline's recursion.
InlineStep(s, f, i) ==
  LET start == NextStar(s, i)
      end == NextStar(s, start + 1)
  IN  Span(SubSeq(s, i, start - 1), FALSE) \o
      IF start > Len(s) THEN <<>>
      ELSE IF end > Len(s) THEN Span(SubSeq(s, start, Len(s)), FALSE)
      ELSE Span(SubSeq(s, start + 1, end - 1), TRUE) \o f[end + 1]

\* It looks ahead only.
LEMMA InlineAhead ==
  ASSUME NEW s \in Seq(Words), NEW i \in 1..(Len(s) + 1), NEW f, NEW g,
         \A k \in (i + 1)..(Len(s) + 1) : f[k] = g[k]
  PROVE  InlineStep(s, f, i) = InlineStep(s, g, i)
<1> DEFINE start == NextStar(s, i)
           end == NextStar(s, start + 1)
<1>1. /\ Len(s) \in Nat /\ start \in 1..(Len(s) + 1)
      /\ i <= start
  BY NextStarFacts, LenProperties
<1>2. end \in 1..(Len(s) + 1) /\ (start <= Len(s) => start + 1 <= end)
  BY <1>1, NextStarFacts
<1>3. start <= Len(s) /\ end <= Len(s) => end + 1 \in (i + 1)..(Len(s) + 1)
  BY <1>1, <1>2
<1> HIDE DEF start, end
<1>4. start <= Len(s) /\ end <= Len(s) => f[end + 1] = g[end + 1]
  BY <1>3
<1>5. CASE start <= Len(s) /\ end <= Len(s)
  BY <1>4, <1>5 DEF InlineStep, start, end
<1>6. CASE start > Len(s)
  BY <1>6 DEF InlineStep, start, end
<1>7. CASE ~(start > Len(s)) /\ end > Len(s)
  BY <1>7 DEF InlineStep, start, end
<1> QED BY <1>1, <1>2, <1>5, <1>6, <1>7

\* The recursion of AdfInline has a solution.
LEMMA InlineDefined ==
  ASSUME NEW s \in Seq(Words)
  PROVE  \E f : /\ f = [i \in 1..(Len(s) + 1) |-> InlineStep(s, f, i)]
                /\ AdfInline(s) = f[1]
<1> DEFINE n == Len(s)
           T == {m \in Nat : m <= n => \E f : f = [i \in (n + 1 - m)..(n + 1) |-> InlineStep(s, f, i)]}
<1>0. n \in Nat
  OBVIOUS
<1> HIDE DEF n
<1>1. 0 \in T
  <2> DEFINE f == [i \in (n + 1)..(n + 1) |-> InlineStep(s, <<>>, i)]
  <2>1. \A i \in (n + 1)..(n + 1) : InlineStep(s, f, i) = InlineStep(s, <<>>, i)
    <3> SUFFICES ASSUME NEW i \in (n + 1)..(n + 1)
                 PROVE  InlineStep(s, f, i) = InlineStep(s, <<>>, i)
      OBVIOUS
    <3>1. i \in 1..(n + 1) /\ (i + 1)..(n + 1) = {}
      BY <1>0
    <3> HIDE DEF f
    <3> QED BY <3>1, InlineAhead DEF n
  <2>2. f = [i \in (n + 1 - 0)..(n + 1) |-> InlineStep(s, f, i)]
    BY <1>0, <2>1
  <2> HIDE DEF f
  <2> QED BY <2>2
<1>2. ASSUME NEW m \in Nat, m \in T PROVE m + 1 \in T
  <2> SUFFICES ASSUME m + 1 <= n
               PROVE  \E f : f = [i \in (n + 1 - (m + 1))..(n + 1) |-> InlineStep(s, f, i)]
    OBVIOUS
  <2>1. PICK f : f = [i \in (n + 1 - m)..(n + 1) |-> InlineStep(s, f, i)]
    BY <1>0, <1>2
  <2> DEFINE c == n + 1 - (m + 1)
             g == [i \in c..(n + 1) |-> IF i = c THEN InlineStep(s, f, i) ELSE f[i]]
  <2>2. c \in 1..n /\ c + 1 = n + 1 - m
    BY <1>0
  <2>3. \A i \in (c + 1)..(n + 1) : g[i] = f[i] /\ f[i] = InlineStep(s, f, i)
    <3> SUFFICES ASSUME NEW i \in (c + 1)..(n + 1)
                 PROVE  g[i] = f[i] /\ f[i] = InlineStep(s, f, i)
      OBVIOUS
    <3>1. i \in (n + 1 - m)..(n + 1) /\ i \in c..(n + 1) /\ i # c
      BY <1>0, <2>2
    <3>2. f[i] = InlineStep(s, f, i)
      BY <2>1, <3>1
    <3> HIDE DEF c
    <3>3. g[i] = f[i]
      BY <3>1
    <3> QED BY <3>2, <3>3
  <2>4. g[c] = InlineStep(s, f, c)
    <3> HIDE DEF c
    <3> QED BY <1>0, <2>2
  <2>a. g = [i \in c..(n + 1) |-> g[i]]
    OBVIOUS
  <2> HIDE DEF c, g
  <2>5. \A i \in c..(n + 1) : InlineStep(s, g, i) = InlineStep(s, f, i)
    <3> SUFFICES ASSUME NEW i \in c..(n + 1) PROVE InlineStep(s, g, i) = InlineStep(s, f, i)
      OBVIOUS
    <3>1. i \in 1..(n + 1) /\ \A k \in (i + 1)..(n + 1) : g[k] = f[k]
      BY <1>0, <2>2, <2>3
    <3> QED BY <3>1, InlineAhead DEF n
  <2>6. \A i \in c..(n + 1) : g[i] = InlineStep(s, g, i)
    <3> SUFFICES ASSUME NEW i \in c..(n + 1) PROVE g[i] = InlineStep(s, g, i)
      OBVIOUS
    <3>1. i = c \/ i \in (c + 1)..(n + 1)
      BY <1>0, <2>2
    <3> QED BY <2>3, <2>4, <2>5, <3>1
  <2>7. g = [i \in c..(n + 1) |-> InlineStep(s, g, i)]
    BY <2>6, <2>a
  <2> QED BY <2>7 DEF c
<1>3. n \in T
  <2> HIDE DEF T
  <2> QED BY <1>0, <1>1, <1>2, NatInductionSet
<1>4. \E f : f = [i \in 1..(n + 1) |-> InlineStep(s, f, i)]
  <2>1. n + 1 - n = 1
    BY <1>0
  <2> QED BY <1>0, <1>3, <2>1
<1> DEFINE h == CHOOSE f : f = [i \in 1..(n + 1) |-> InlineStep(s, f, i)]
<1>5. h = [i \in 1..(n + 1) |-> InlineStep(s, h, i)]
  BY <1>4
<1>6. AdfInline(s) = h[1]
  BY DEF AdfInline, InlineStep, n
<1> HIDE DEF h
<1> QED BY <1>5, <1>6 DEF n

\* No star is open at a place.
Even(s, k) == Cardinality(Before(s, k)) % 2 = 0

\* A place is open when an odd number of stars is before it.
LEMMA OpenedFact ==
  ASSUME NEW s, NEW k
  PROVE  Opened(s, k) <=> Cardinality(Before(s, k)) % 2 = 1
BY DEF Opened, Before

\* What is left of the line from its i-th token on.
Rest(s, i) == FlattenSeq(SubSeq(TokenReads(s), i, Len(s)))

\* A place that reads as nothing.
LEMMA RestSkip ==
  ASSUME NEW s \in Seq(Words), NEW i \in 1..Len(s), ReadToken(s, i) = <<>>
  PROVE  Rest(s, i) = Rest(s, i + 1)
<1> DEFINE r == TokenReads(s)
<1>1. /\ r \in Seq(Seq(Reads)) /\ Len(r) = Len(s) /\ r[i] = <<>> /\ Len(s) \in Nat
      /\ \A k \in 1..Len(s) : r[k] \in Seq(Reads)
  BY TokenReadsType, ElementOfSeq
<1> HIDE DEF r
<1>2. i \in 1..(Len(r) + 1) /\ i \in (i - 1)..Len(r) /\ Len(r) \in i..Len(r)
  BY <1>1
<1>3. FlattenSeq(SubSeq(r, i, Len(r)))
        = FlattenSeq(SubSeq(r, i, i)) \o FlattenSeq(SubSeq(r, i + 1, Len(r)))
  BY <1>1, <1>2, FlattenCut
<1>4. SubSeq(r, i, i) = << <<>> >>
  <2>1. SubSeq(r, i, i) \in Seq(Seq(Reads)) /\ Len(SubSeq(r, i, i)) = 1
        /\ SubSeq(r, i, i)[1] = <<>>
    BY <1>1
  <2>2. << <<>> >> \in Seq(Seq(Reads)) /\ Len(<< <<>> >>) = 1 /\ << <<>> >>[1] = <<>>
    OBVIOUS
  <2>3. \A k \in 1..1 : SubSeq(r, i, i)[k] = << <<>> >>[k]
    BY <2>1, <2>2
  <2> QED BY <2>1, <2>2, <2>3, SeqEqual
<1>5. FlattenSeq(<< <<>> >>) = <<>>
  <2>1. <<>> \in Seq(Reads)
    OBVIOUS
  <2> QED BY <2>1, FlattenOne
<1>6. FlattenSeq(SubSeq(r, i + 1, Len(r))) \in Seq(Reads)
  <2>1. \A k \in (i + 1)..Len(r) : r[k] \in Seq(Reads)
    BY <1>1
  <2>2. i + 1 \in Int /\ Len(r) \in Int
    BY <1>1
  <2>3. SubSeq(r, i + 1, Len(r)) \in Seq(Seq(Reads))
    BY <2>1, <2>2, SubSeqProperties
  <2> QED BY <2>3, FlattenJoins
<1>7. FlattenSeq(SubSeq(r, i, Len(r))) = FlattenSeq(SubSeq(r, i + 1, Len(r)))
  BY <1>3, <1>4, <1>5, <1>6, ConcatEmptySeq
<1> QED BY <1>1, <1>7 DEF Rest, r

\* A stretch in one emphasis, and what follows.
LEMMA RestStretch ==
  ASSUME NEW s \in Seq(Words), NEW a \in 1..(Len(s) + 1), NEW b \in (a - 1)..Len(s),
         NEW v \in BOOLEAN,
         \A k \in a..b : ReadToken(s, k) = <<[token |-> s[k], bold |-> v]>>
  PROVE  /\ Full(Span(SubSeq(s, a, b), v))
         /\ ReadNodes(Span(SubSeq(s, a, b), v)) \o Rest(s, b + 1) = Rest(s, a)
<1>1. TokenReads(s) \in Seq(Seq(Reads)) /\ Len(TokenReads(s)) = Len(s) /\ Len(s) \in Nat
  BY TokenReadsType, LenProperties
<1>2. FlattenSeq(SubSeq(TokenReads(s), a, b)) = Reading(SubSeq(s, a, b), v)
      /\ SubSeq(s, a, b) \in Seq(Words)
  BY Stretch
<1>3. Full(Span(SubSeq(s, a, b), v))
      /\ ReadNodes(Span(SubSeq(s, a, b), v)) = Reading(SubSeq(s, a, b), v)
  BY <1>2, SpanFacts
<1> DEFINE r == TokenReads(s)
<1> HIDE DEF r
<1>4. /\ r \in Seq(Seq(Reads)) /\ a \in 1..(Len(r) + 1) /\ b \in (a - 1)..Len(r)
      /\ Len(s) \in b..Len(r)
  BY <1>1 DEF r
<1>5. Rest(s, a) = FlattenSeq(SubSeq(TokenReads(s), a, b)) \o Rest(s, b + 1)
  <2>1. FlattenSeq(SubSeq(r, a, Len(s)))
          = FlattenSeq(SubSeq(r, a, b)) \o FlattenSeq(SubSeq(r, b + 1, Len(s)))
    BY <1>4, FlattenCut
  <2> QED BY <2>1 DEF Rest, r
<1> QED BY <1>2, <1>3, <1>5

\* One turn of AdfInline's loop, if the turns after it read right.
LEMMA InlineStepRead ==
  ASSUME NEW s \in Seq(Words), NEW i \in 1..(Len(s) + 1), Even(s, i), NEW f,
         \A k \in (i + 1)..(Len(s) + 1) :
           Even(s, k) => Full(f[k]) /\ ReadNodes(f[k]) = Rest(s, k)
  PROVE  /\ Full(InlineStep(s, f, i))
         /\ ReadNodes(InlineStep(s, f, i)) = Rest(s, i)
<1> DEFINE n == Len(s)
           start == NextStar(s, i)
           end == NextStar(s, start + 1)
<1>1. /\ n \in Nat /\ DOMAIN s = 1..n /\ start \in 1..(n + 1) /\ i <= start /\ i \in 1..(n + 1)
      /\ start <= n => s[start] = Star
      /\ \A j \in i..n : j < start => s[j] # Star
  BY NextStarFacts, LenProperties
<1>2. /\ end \in 1..(n + 1) /\ (start <= n => start + 1 <= end)
      /\ end <= n => s[end] = Star
      /\ \A j \in (start + 1)..n : j < end => s[j] # Star
  <2>1. start + 1 \in 1..(n + 2)
    BY <1>1
  <2> HIDE DEF start
  <2> QED BY <1>1, <2>1, NextStarFacts
<1>a. InlineStep(s, f, i) =
        Span(SubSeq(s, i, start - 1), FALSE) \o
        IF start > n THEN <<>>
        ELSE IF end > n THEN Span(SubSeq(s, start, n), FALSE)
        ELSE Span(SubSeq(s, start + 1, end - 1), TRUE) \o f[end + 1]
  BY DEF InlineStep
<1> HIDE DEF n, start, end
<1>3. ASSUME NEW k \in i..start PROVE ~Opened(s, k) /\ Before(s, k) = Before(s, i)
  <2>1. i \in 1..(n + 1) /\ k \in i..(n + 1) /\ \A j \in i..n : j < k => s[j] # Star
    BY <1>1
  <2>2. Before(s, k) = Before(s, i)
    BY <2>1, BeforeSame DEF n
  <2>3. Cardinality(Before(s, i)) \in Nat
    BY BeforeFinite
  <2>4. Cardinality(Before(s, k)) % 2 # 1
    BY <2>2, <2>3 DEF Even
  <2> QED BY <2>2, <2>4, OpenedFact
<1>4. ASSUME NEW k \in i..(start - 1) PROVE ReadToken(s, k) = <<[token |-> s[k], bold |-> FALSE]>>
  <2>1. k \in i..start /\ s[k] # Star
    BY <1>1
  <2>2. ~Opened(s, k)
    BY <1>3, <2>1
  <2> QED BY <2>1, <2>2 DEF ReadToken
<1>5. /\ Full(Span(SubSeq(s, i, start - 1), FALSE))
      /\ ReadNodes(Span(SubSeq(s, i, start - 1), FALSE)) \o Rest(s, start) = Rest(s, i)
  <2>1. start - 1 \in (i - 1)..n /\ (start - 1) + 1 = start
    BY <1>1
  <2> QED BY <1>1, <1>4, <2>1, RestStretch DEF n
<1> DEFINE first == Span(SubSeq(s, i, start - 1), FALSE)
<1>b. /\ Full(first) /\ ReadNodes(first) \o Rest(s, start) = Rest(s, i)
      /\ first \in Seq(Nodes) /\ ReadNodes(first) \in Seq(Reads)
  BY <1>5, ReadNodesType DEF Full
<1>c. InlineStep(s, f, i) =
        first \o
        IF start > n THEN <<>>
        ELSE IF end > n THEN Span(SubSeq(s, start, n), FALSE)
        ELSE Span(SubSeq(s, start + 1, end - 1), TRUE) \o f[end + 1]
  BY <1>a
<1>d. Rest(s, n + 1) = <<>>
  <2>1. SubSeq(TokenReads(s), n + 1, n) = <<>>
    BY <1>1, SubSeqEmpty
  <2> QED BY <2>1 DEF Rest, n, FlattenSeq
<1> HIDE DEF first
<1>6. CASE start > n
  <2>1. InlineStep(s, f, i) = first \o <<>>
    BY <1>c, <1>6
  <2>2. InlineStep(s, f, i) = first
    BY <1>b, <2>1, ConcatEmptySeq
  <2>3. start = n + 1
    BY <1>1, <1>6
  <2> QED BY <1>b, <1>d, <2>2, <2>3, ConcatEmptySeq
<1>7. CASE start <= n /\ end > n
  <2>1. end = n + 1
    BY <1>1, <1>2, <1>7
  <2>2. ASSUME NEW k \in start..n PROVE ~Closed(s, k)
    BY <1>1, <1>2, <2>1 DEF Closed
  <2>3. ASSUME NEW k \in start..n PROVE ReadToken(s, k) = <<[token |-> s[k], bold |-> FALSE]>>
    <3>1. CASE k = start
      <4>1. ~Opened(s, k)
        BY <1>1, <1>3, <3>1
      <4> QED BY <2>2, <4>1 DEF ReadToken
    <3>2. CASE k # start
      <4>1. s[k] # Star
        BY <1>1, <1>2, <2>1, <3>2
      <4> QED BY <2>2, <4>1 DEF ReadToken
    <3> QED BY <3>1, <3>2
  <2> DEFINE second == Span(SubSeq(s, start, n), FALSE)
  <2>4. Full(second) /\ ReadNodes(second) \o Rest(s, n + 1) = Rest(s, start)
    <3>1. start \in 1..(n + 1) /\ n \in (start - 1)..n
      BY <1>1, <1>7
    <3> QED BY <2>3, <3>1, RestStretch DEF n
  <2> HIDE DEF second
  <2>5. ReadNodes(second) = Rest(s, start)
    <3>1. ReadNodes(second) \in Seq(Reads)
      BY <2>4, ReadNodesType DEF Full
    <3> QED BY <1>d, <2>4, <3>1, ConcatEmptySeq
  <2>6. InlineStep(s, f, i) = first \o second
    <3>1. ~(start > n)
      BY <1>1, <1>7
    <3> QED BY <1>c, <1>7, <3>1 DEF second
  <2> QED BY <1>b, <2>4, <2>5, <2>6, FullConcat
<1>8. CASE start <= n /\ end <= n
  <2>1. start \in 1..n /\ end \in 1..n /\ start + 1 <= end
    BY <1>1, <1>2, <1>8
  <2>2. ReadToken(s, start) = <<>>
    <3>1. s[start] = Star /\ Closed(s, start)
      BY <1>1, <1>2, <2>1 DEF Closed
    <3> QED BY <3>1 DEF ReadToken
  <2>3. Cardinality(Before(s, start + 1)) = Cardinality(Before(s, i)) + 1
    <3>1. Before(s, start) = Before(s, i)
      BY <1>1, <1>3
    <3> QED BY <1>1, <2>1, <3>1, BeforeStar DEF n
  <2>4. ASSUME NEW k \in (start + 1)..end
        PROVE  Opened(s, k) /\ Before(s, k) = Before(s, start + 1)
    <3>1. start + 1 \in 1..(n + 1) /\ k \in (start + 1)..(n + 1)
          /\ \A j \in (start + 1)..n : j < k => s[j] # Star
      BY <1>1, <1>2, <2>1
    <3>2. Before(s, k) = Before(s, start + 1)
      BY <3>1, BeforeSame DEF n
    <3>3. Cardinality(Before(s, i)) \in Nat
      BY BeforeFinite
    <3>4. Cardinality(Before(s, k)) % 2 = 1
      BY <2>3, <3>2, <3>3 DEF Even
    <3> QED BY <3>2, <3>4, OpenedFact
  <2>5. ASSUME NEW k \in (start + 1)..(end - 1)
        PROVE  ReadToken(s, k) = <<[token |-> s[k], bold |-> TRUE]>>
    <3>1. k \in (start + 1)..end /\ s[k] # Star
      BY <1>1, <1>2, <2>1
    <3>2. Closed(s, k)
      BY <1>1, <1>2, <2>1 DEF Closed
    <3>3. Opened(s, k)
      BY <2>4, <3>1
    <3> QED BY <3>1, <3>2, <3>3 DEF ReadToken
  <2>6. ReadToken(s, end) = <<>>
    <3>1. s[end] = Star /\ Opened(s, end)
      BY <1>2, <2>1, <2>4
    <3> QED BY <3>1 DEF ReadToken
  <2>7. Even(s, end + 1)
    <3>1. Before(s, end) = Before(s, start + 1)
      BY <2>1, <2>4
    <3>2. Cardinality(Before(s, end + 1)) = Cardinality(Before(s, end)) + 1
      BY <1>2, <2>1, BeforeStar DEF n
    <3>3. Cardinality(Before(s, i)) \in Nat
      BY BeforeFinite
    <3> QED BY <2>3, <3>1, <3>2, <3>3 DEF Even
  <2> DEFINE second == Span(SubSeq(s, start + 1, end - 1), TRUE)
             third == f[end + 1]
  <2>8. Full(second) /\ ReadNodes(second) \o Rest(s, end) = Rest(s, start + 1)
    <3>1. /\ start + 1 \in 1..(n + 1) /\ end - 1 \in ((start + 1) - 1)..n
          /\ (end - 1) + 1 = end
      BY <1>1, <2>1
    <3> QED BY <2>5, <3>1, RestStretch DEF n
  <2>9. Full(third) /\ ReadNodes(third) = Rest(s, end + 1)
    <3>1. end + 1 \in (i + 1)..(n + 1)
      BY <1>1, <2>1
    <3> QED BY <2>7, <3>1 DEF n
  <2>10. Rest(s, start) = Rest(s, start + 1) /\ Rest(s, end) = Rest(s, end + 1)
    BY <2>1, <2>2, <2>6, RestSkip DEF n
  <2>11. InlineStep(s, f, i) = first \o (second \o third)
    <3>1. ~(start > n) /\ ~(end > n)
      BY <1>1, <1>2, <1>8
    <3> QED BY <1>c, <3>1
  <2> HIDE DEF second, third
  <2>12. Full(second \o third) /\ ReadNodes(second \o third) = Rest(s, start)
    <3>1. Full(second \o third)
          /\ ReadNodes(second \o third) = ReadNodes(second) \o ReadNodes(third)
      BY <2>8, <2>9, FullConcat
    <3> QED BY <2>8, <2>9, <2>10, <3>1
  <2> DEFINE later == second \o third
  <2>13. Full(first \o later) /\ ReadNodes(first \o later) = ReadNodes(first) \o ReadNodes(later)
    <3> HIDE DEF later
    <3> QED BY <1>b, <2>12, FullConcat DEF later
  <2> QED BY <1>b, <2>11, <2>12, <2>13
<1> QED BY <1>1, <1>2, <1>6, <1>7, <1>8

\* AdfInline keeps every token, the pairs of ** apart, and their emphasis.
LEMMA InlineRead ==
  ASSUME NEW s \in Seq(Words)
  PROVE  Full(AdfInline(s)) /\ ReadNodes(AdfInline(s)) = ReadSpans(s)
<1> DEFINE n == Len(s)
<1>1. n \in Nat /\ DOMAIN s = 1..n
  BY LenProperties
<1>2. PICK f : f = [i \in 1..(n + 1) |-> InlineStep(s, f, i)] /\ AdfInline(s) = f[1]
  BY InlineDefined
<1>3. \A i \in 1..(n + 1) : f[i] = InlineStep(s, f, i)
  BY <1>2
<1> DEFINE Good(i) == Even(s, i) => Full(f[i]) /\ ReadNodes(f[i]) = Rest(s, i)
           T == {m \in Nat : m <= n => \A i \in (n + 1 - m)..(n + 1) : Good(i)}
<1>4. ASSUME NEW i \in 1..(n + 1), \A k \in (i + 1)..(n + 1) : Good(k) PROVE Good(i)
  <2> SUFFICES ASSUME Even(s, i) PROVE Full(f[i]) /\ ReadNodes(f[i]) = Rest(s, i)
    OBVIOUS
  <2>1. Full(InlineStep(s, f, i)) /\ ReadNodes(InlineStep(s, f, i)) = Rest(s, i)
    BY <1>4, InlineStepRead
  <2> QED BY <1>3, <2>1
<1> HIDE DEF n, Good
<1>5. 0 \in T
  <2>1. \A i \in (n + 1)..(n + 1) : i \in 1..(n + 1) /\ (i + 1)..(n + 1) = {}
    BY <1>1
  <2>2. \A i \in (n + 1)..(n + 1) : Good(i)
    BY <1>4, <2>1
  <2> QED BY <1>1, <2>2
<1>6. ASSUME NEW m \in Nat, m \in T PROVE m + 1 \in T
  <2> SUFFICES ASSUME m + 1 <= n, NEW i \in (n + 1 - (m + 1))..(n + 1) PROVE Good(i)
    OBVIOUS
  <2>1. \A k \in (n + 1 - m)..(n + 1) : Good(k)
    BY <1>1, <1>6
  <2>2. i \in 1..(n + 1) /\ \A k \in (i + 1)..(n + 1) : k \in (n + 1 - m)..(n + 1)
    BY <1>1
  <2> QED BY <1>4, <2>1, <2>2
<1>7. n \in T
  <2> HIDE DEF T
  <2> QED BY <1>1, <1>5, <1>6, NatInductionSet
<1>8. Good(1)
  <2>1. n + 1 - n = 1 /\ 1 \in 1..(n + 1)
    BY <1>1
  <2> QED BY <1>1, <1>7, <2>1
<1>9. Even(s, 1)
  <2>1. Before(s, 1) = {}
    BY <1>1 DEF Before
  <2> QED BY <2>1, FS_EmptySet DEF Even
<1>10. Rest(s, 1) = ReadSpans(s)
  <2>1. TokenReads(s) \in Seq(Seq(Reads)) /\ Len(TokenReads(s)) = n
    BY TokenReadsType DEF n
  <2>2. SubSeq(TokenReads(s), 1, n) = TokenReads(s)
    BY <2>1, SubSeqFull
  <2> QED BY <2>2 DEF Rest, ReadSpans, TokenReads, n
<1> QED BY <1>2, <1>8, <1>9, <1>10 DEF Good

-----------------------------------------------------------------------------
(* The document of a text. *)

\* A sequence that has one element more than another.
LEMMA AppendIs ==
  ASSUME NEW X, NEW a \in Seq(X), NEW b \in Seq(X), NEW n \in Nat,
         Len(a) = n, Len(b) = n + 1, \A i \in 1..n : b[i] = a[i]
  PROVE  b = Append(a, b[n + 1])
<1>1. b[n + 1] \in X
  BY ElementOfSeq
<1> DEFINE e == b[n + 1]
           c == Append(a, e)
<1> HIDE DEF e
<1>2. c \in Seq(X) /\ Len(c) = n + 1 /\ (\A i \in 1..n : c[i] = a[i]) /\ c[n + 1] = e
  BY <1>1, AppendProperties DEF e
<1> HIDE DEF c
<1>3. \A i \in 1..(n + 1) : b[i] = c[i]
  <2> SUFFICES ASSUME NEW i \in 1..(n + 1) PROVE b[i] = c[i]
    OBVIOUS
  <2>1. i \in 1..n \/ i = n + 1
    OBVIOUS
  <2> QED BY <1>2, <2>1 DEF e
<1>4. b = c
  BY <1>2, <1>3, SeqEqual
<1> QED BY <1>4 DEF c, e

Blocks == [type : {"paragraph", "rule", "bulletList"}, content : Seq(Seq(Nodes))]

\* How the items of a list read.
ReadItems(items) == FlattenSeq([i \in DOMAIN items |-> ReadNodes(items[i])])

\* A list with one more item reads on as the item does.
LEMMA ItemsAppend ==
  ASSUME NEW items \in Seq(Seq(Nodes)), NEW item \in Seq(Nodes)
  PROVE  /\ ReadItems(items) \in Seq(Reads)
         /\ ReadItems(Append(items, item)) = ReadItems(items) \o ReadNodes(item)
<1> DEFINE read(c) == [i \in DOMAIN c |-> ReadNodes(c[i])]
           n == Len(items)
           more == Append(items, item)
<1>1. /\ n \in Nat /\ DOMAIN items = 1..n /\ \A i \in 1..n : items[i] \in Seq(Nodes)
      /\ more \in Seq(Seq(Nodes)) /\ Len(more) = n + 1 /\ DOMAIN more = 1..(n + 1)
      /\ \A i \in 1..n : more[i] = items[i]
      /\ more[n + 1] = item
  BY AppendProperties, LenProperties, ElementOfSeq
<1>2. \A i \in 1..n : ReadNodes(items[i]) \in Seq(Reads)
  BY <1>1, ReadNodesType
<1>3. ReadNodes(item) \in Seq(Reads)
  BY ReadNodesType
<1>4. read(items) \in Seq(Seq(Reads)) /\ Len(read(items)) = n
      /\ \A i \in 1..n : read(items)[i] = ReadNodes(items[i])
  BY <1>1, <1>2
<1>5. read(more) \in Seq(Seq(Reads)) /\ Len(read(more)) = n + 1
      /\ (\A i \in 1..n : read(more)[i] = ReadNodes(items[i]))
      /\ read(more)[n + 1] = ReadNodes(item)
  <2>1. \A i \in 1..(n + 1) : ReadNodes(more[i]) \in Seq(Reads)
    <3> SUFFICES ASSUME NEW i \in 1..(n + 1) PROVE ReadNodes(more[i]) \in Seq(Reads)
      OBVIOUS
    <3>1. i \in 1..n \/ i = n + 1
      BY <1>1
    <3> HIDE DEF more, n
    <3> QED BY <1>1, <1>2, <1>3, <3>1
  <2> HIDE DEF more, n
  <2> QED BY <1>1, <2>1
<1> HIDE DEF read, n
<1>6. read(more) = Append(read(items), ReadNodes(item))
  BY <1>4, <1>5, AppendIs
<1>7. FlattenSeq(read(more)) = FlattenSeq(read(items)) \o ReadNodes(item)
  BY <1>3, <1>4, <1>6, FlattenAppend
<1>8. FlattenSeq(read(items)) \in Seq(Reads)
  BY <1>4, FlattenJoins
<1> QED BY <1>7, <1>8 DEF ReadItems, read

\* Nothing reads as nothing.
LEMMA ItemsEmpty == ReadItems(<<>>) = <<>> /\ ReadDoc(<<>>) = <<>> /\ ReadNodes(<<>>) = <<>>
<1>1. FlattenSeq(<<>>) = <<>>
  BY DEF FlattenSeq
<1>2. (\A i \in {} : TRUE) /\ DOMAIN <<>> = {}
  OBVIOUS
<1>3. ReadItems(<<>>) = FlattenSeq(<<>>)
  BY DEF ReadItems
<1>4. ReadDoc(<<>>) = FlattenSeq(<<>>)
  BY DEF ReadDoc
<1>5. ReadNodes(<<>>) = FlattenSeq(<<>>)
  BY DEF ReadNodes
<1> QED BY <1>1, <1>3, <1>4, <1>5

\* A block reads as its items do, or as a rule.
LEMMA BlockType ==
  ASSUME NEW block \in Blocks
  PROVE  /\ ReadBlock(block) \in Seq(Reads)
         /\ block.type # "rule" => ReadBlock(block) = ReadItems(block.content)
         /\ block.type = "rule" => ReadBlock(block) = <<[token |-> Rule, bold |-> FALSE]>>
<1>1. block.content \in Seq(Seq(Nodes))
  BY DEF Blocks
<1>2. ReadItems(block.content) \in Seq(Reads)
  <2>1. <<>> \in Seq(Nodes)
    OBVIOUS
  <2> QED BY <1>1, <2>1, ItemsAppend
<1>3. Rule \in Words
  BY DEF Words
<1>4. [token |-> Rule, bold |-> FALSE] \in Reads
  BY <1>3 DEF Reads
<1>5. <<[token |-> Rule, bold |-> FALSE]>> \in Seq(Reads)
  BY <1>4
<1>6. block.type # "rule" => ReadBlock(block) = ReadItems(block.content)
  BY DEF ReadBlock, ReadItems
<1>7. block.type = "rule" => ReadBlock(block) = <<[token |-> Rule, bold |-> FALSE]>>
  BY DEF ReadBlock
<1> QED BY <1>2, <1>5, <1>6, <1>7

\* A document with one more block reads on as the block does.
LEMMA DocAppend ==
  ASSUME NEW blocks \in Seq(Blocks), NEW block \in Blocks
  PROVE  /\ ReadDoc(blocks) \in Seq(Reads)
         /\ ReadDoc(Append(blocks, block)) = ReadDoc(blocks) \o ReadBlock(block)
<1> DEFINE read(c) == [i \in DOMAIN c |-> ReadBlock(c[i])]
           n == Len(blocks)
           more == Append(blocks, block)
<1>1. /\ n \in Nat /\ DOMAIN blocks = 1..n /\ \A i \in 1..n : blocks[i] \in Blocks
      /\ more \in Seq(Blocks) /\ Len(more) = n + 1 /\ DOMAIN more = 1..(n + 1)
      /\ \A i \in 1..n : more[i] = blocks[i]
      /\ more[n + 1] = block
  BY AppendProperties, LenProperties, ElementOfSeq
<1>2. \A i \in 1..n : ReadBlock(blocks[i]) \in Seq(Reads)
  BY <1>1, BlockType
<1>3. ReadBlock(block) \in Seq(Reads)
  BY BlockType
<1>4. read(blocks) \in Seq(Seq(Reads)) /\ Len(read(blocks)) = n
      /\ \A i \in 1..n : read(blocks)[i] = ReadBlock(blocks[i])
  BY <1>1, <1>2
<1>5. read(more) \in Seq(Seq(Reads)) /\ Len(read(more)) = n + 1
      /\ (\A i \in 1..n : read(more)[i] = ReadBlock(blocks[i]))
      /\ read(more)[n + 1] = ReadBlock(block)
  <2>1. \A i \in 1..(n + 1) : ReadBlock(more[i]) \in Seq(Reads)
    <3> SUFFICES ASSUME NEW i \in 1..(n + 1) PROVE ReadBlock(more[i]) \in Seq(Reads)
      OBVIOUS
    <3>1. i \in 1..n \/ i = n + 1
      BY <1>1
    <3> HIDE DEF more, n
    <3> QED BY <1>1, <1>2, <1>3, <3>1
  <2> HIDE DEF more, n
  <2> QED BY <1>1, <2>1
<1> HIDE DEF read, n
<1>6. read(more) = Append(read(blocks), ReadBlock(block))
  BY <1>4, <1>5, AppendIs
<1>7. FlattenSeq(read(more)) = FlattenSeq(read(blocks)) \o ReadBlock(block)
  BY <1>3, <1>4, <1>6, FlattenAppend
<1>8. FlattenSeq(read(blocks)) \in Seq(Reads)
  BY <1>4, FlattenJoins
<1> QED BY <1>7, <1>8 DEF ReadDoc, read

\* What AdfDoc has made of some lines: blocks that Jira accepts, and the items of
\* the list it is in.
DocOK(doc) ==
  /\ doc \in [content : Seq(Blocks), bullets : Seq(Seq(Nodes))]
  /\ \A k \in 1..Len(doc.content) : Acceptable(doc.content[k])
  /\ \A k \in 1..Len(doc.bullets) : doc.bullets[k] # <<>> /\ Full(doc.bullets[k])

\* How it reads.
ReadSoFar(doc) == ReadDoc(doc.content) \o ReadItems(doc.bullets)

\* One more block.
LEMMA BlockAdded ==
  ASSUME NEW blocks \in Seq(Blocks), NEW block \in Blocks, Acceptable(block),
         \A k \in 1..Len(blocks) : Acceptable(blocks[k])
  PROVE  LET doc == [content |-> Append(blocks, block), bullets |-> <<>>] IN
         /\ DocOK(doc)
         /\ ReadSoFar(doc) = ReadDoc(blocks) \o ReadBlock(block)
         /\ Last(doc.content) = block /\ doc.content # <<>>
<1> DEFINE more == Append(blocks, block)
           doc == [content |-> more, bullets |-> <<>>]
<1>1. /\ more \in Seq(Blocks) /\ Len(more) = Len(blocks) + 1 /\ Len(blocks) \in Nat
      /\ \A i \in 1..Len(blocks) : more[i] = blocks[i]
      /\ more[Len(blocks) + 1] = block /\ more # <<>>
  BY AppendProperties, LenProperties
<1>2. ReadDoc(more) = ReadDoc(blocks) \o ReadBlock(block)
  BY DocAppend
<1> HIDE DEF more
<1>3. \A k \in 1..Len(more) : Acceptable(more[k])
  <2> SUFFICES ASSUME NEW k \in 1..Len(more) PROVE Acceptable(more[k])
    OBVIOUS
  <2>1. k \in 1..Len(blocks) \/ k = Len(blocks) + 1
    BY <1>1
  <2> QED BY <1>1, <2>1
<1>4. ReadDoc(more) \in Seq(Reads)
  BY <1>1, DocAppend
<1>5. doc.content = more /\ doc.bullets = <<>>
  OBVIOUS
<1>6. DocOK(doc)
  <2>1. <<>> \in Seq(Seq(Nodes)) /\ 1..Len(<<>>) = {}
    OBVIOUS
  <2>2. doc \in [content : Seq(Blocks), bullets : Seq(Seq(Nodes))]
    BY <1>1, <2>1
  <2> HIDE DEF doc
  <2> QED BY <1>3, <1>5, <2>1, <2>2 DEF DocOK
<1>7. ReadSoFar(doc) = ReadDoc(more)
  <2> HIDE DEF doc
  <2>1. ReadSoFar(doc) = ReadDoc(more) \o <<>>
    BY <1>5, ItemsEmpty DEF ReadSoFar
  <2> QED BY <1>4, <2>1, ConcatEmptySeq
<1>8. Last(more) = block
  BY <1>1 DEF Last
<1> HIDE DEF doc
<1>9. Last(doc.content) = block /\ doc.content # <<>>
  BY <1>1, <1>5, <1>8
<1>10. DocOK(doc) /\ ReadSoFar(doc) = ReadDoc(blocks) \o ReadBlock(block)
  BY <1>2, <1>6, <1>7
<1> QED BY <1>9, <1>10 DEF doc, more

\* The types of such a document.
LEMMA DocOKFacts ==
  ASSUME NEW doc, DocOK(doc)
  PROVE  /\ doc.content \in Seq(Blocks) /\ doc.bullets \in Seq(Seq(Nodes))
         /\ doc = [content |-> doc.content, bullets |-> doc.bullets]
         /\ ReadDoc(doc.content) \in Seq(Reads) /\ ReadItems(doc.bullets) \in Seq(Reads)
         /\ ReadSoFar(doc) \in Seq(Reads)
<1>1. /\ doc.content \in Seq(Blocks) /\ doc.bullets \in Seq(Seq(Nodes))
      /\ doc = [content |-> doc.content, bullets |-> doc.bullets]
  BY DEF DocOK
<1>2. ReadItems(doc.bullets) \in Seq(Reads)
  <2>1. <<>> \in Seq(Nodes)
    OBVIOUS
  <2> QED BY <1>1, <2>1, ItemsAppend
<1>3. ReadDoc(doc.content) \in Seq(Reads)
  <2>1. [type |-> "rule", content |-> <<>>] \in Blocks
    BY DEF Blocks
  <2> QED BY <1>1, <2>1, DocAppend
<1>4. ReadSoFar(doc) \in Seq(Reads)
  BY <1>2, <1>3, ConcatProperties DEF ReadSoFar
<1> QED BY <1>1, <1>2, <1>3, <1>4

\* Flush says nothing new, and leaves no list open.
LEMMA FlushFacts ==
  ASSUME NEW doc, DocOK(doc)
  PROVE  /\ DocOK(Flush(doc)) /\ Flush(doc).bullets = <<>>
         /\ ReadSoFar(Flush(doc)) = ReadSoFar(doc)
         /\ ReadDoc(Flush(doc).content) = ReadSoFar(doc)
<1> DEFINE c == doc.content
           items == doc.bullets
<1>1. /\ c \in Seq(Blocks) /\ items \in Seq(Seq(Nodes))
      /\ ReadDoc(c) \in Seq(Reads) /\ ReadItems(items) \in Seq(Reads)
  BY DocOKFacts
<1>2. CASE items = <<>>
  <2>1. Flush(doc) = doc
    BY <1>2 DEF Flush
  <2>2. ReadSoFar(doc) = ReadDoc(c) \o <<>>
    BY <1>2, ItemsEmpty DEF ReadSoFar
  <2>3. ReadSoFar(doc) = ReadDoc(c)
    BY <1>1, <2>2, ConcatEmptySeq
  <2> QED BY <1>2, <2>1, <2>3
<1>3. CASE items # <<>>
  <2> DEFINE block == BulletList(items)
  <2>1. block.type = "bulletList" /\ block.content = items /\ block \in Blocks
    BY <1>1 DEF BulletList, Blocks
  <2>2. Acceptable(block)
    <3>1. \A i \in 1..Len(items) : items[i] # <<>> /\ Full(items[i])
      BY DEF DocOK
    <3>2. DOMAIN items = 1..Len(items)
      BY <1>1, LenProperties
    <3>3. ASSUME NEW i \in DOMAIN items, NEW j \in DOMAIN items[i]
          PROVE  items[i][j].text # <<>>
      <4>1. Full(items[i])
        BY <3>1, <3>2
      <4>2. items[i] \in Seq(Nodes) /\ DOMAIN items[i] = 1..Len(items[i])
        BY <4>1, LenProperties DEF Full
      <4> QED BY <4>1, <4>2 DEF Full
    <3> HIDE DEF block, items
    <3> QED BY <1>3, <2>1, <3>1, <3>2, <3>3 DEF Acceptable
  <2>3. ReadBlock(block) = ReadItems(items)
    <3>1. block.type # "rule"
      BY <2>1
    <3> HIDE DEF block
    <3> QED BY <2>1, <3>1, BlockType
  <2>4. Flush(doc) = [content |-> Append(c, block), bullets |-> <<>>]
    BY <1>3 DEF Flush
  <2>5. \A k \in 1..Len(c) : Acceptable(c[k])
    BY DEF DocOK
  <2>6. /\ DocOK(Flush(doc))
        /\ ReadSoFar(Flush(doc)) = ReadDoc(c) \o ReadBlock(block)
    <3> HIDE DEF block, c
    <3> QED BY <1>1, <2>1, <2>2, <2>4, <2>5, BlockAdded
  <2>7. Flush(doc).bullets = <<>>
    BY <2>4
  <2>8. ReadSoFar(Flush(doc)) = ReadSoFar(doc)
    BY <2>3, <2>6 DEF ReadSoFar
  <2>9. ReadDoc(Flush(doc).content) = ReadSoFar(Flush(doc))
    <3>1. ReadDoc(Flush(doc).content) \in Seq(Reads)
      BY <2>6, DocOKFacts
    <3>2. ReadSoFar(Flush(doc)) = ReadDoc(Flush(doc).content) \o <<>>
      BY <2>7, ItemsEmpty DEF ReadSoFar
    <3> QED BY <3>1, <3>2, ConcatEmptySeq
  <2> QED BY <2>6, <2>7, <2>8, <2>9
<1> QED BY <1>2, <1>3

\* Block says what its block says, which is then the last.
LEMMA BlockFacts ==
  ASSUME NEW doc, DocOK(doc), NEW block \in Blocks, Acceptable(block)
  PROVE  /\ DocOK(Block(doc, block)) /\ Block(doc, block).bullets = <<>>
         /\ ReadSoFar(Block(doc, block)) = ReadSoFar(doc) \o ReadBlock(block)
         /\ Last(Block(doc, block).content) = block /\ Block(doc, block).content # <<>>
<1> DEFINE flushed == Flush(doc)
<1>1. DocOK(flushed) /\ flushed.bullets = <<>> /\ ReadDoc(flushed.content) = ReadSoFar(doc)
  BY FlushFacts
<1>2. /\ flushed.content \in Seq(Blocks)
      /\ flushed = [content |-> flushed.content, bullets |-> <<>>]
  BY <1>1, DocOKFacts
<1>3. Block(doc, block) = [flushed EXCEPT !.content = Append(flushed.content, block)]
  BY DEF Block
<1> HIDE DEF flushed
<1>4. Block(doc, block) = [content |-> Append(flushed.content, block), bullets |-> <<>>]
  <2>1. PICK c : flushed = [content |-> c, bullets |-> <<>>]
    BY <1>2
  <2> DEFINE more == Append(flushed.content, block)
  <2>2. Block(doc, block) = [flushed EXCEPT !.content = more]
    BY <1>3
  <2> HIDE DEF more
  <2>3. [flushed EXCEPT !.content = more] = [content |-> more, bullets |-> <<>>]
    BY <2>1
  <2> QED BY <2>2, <2>3 DEF more
<1>5. \A k \in 1..Len(flushed.content) : Acceptable(flushed.content[k])
  BY <1>1 DEF DocOK
<1>6. /\ DocOK(Block(doc, block))
      /\ ReadSoFar(Block(doc, block)) = ReadDoc(flushed.content) \o ReadBlock(block)
      /\ Last(Block(doc, block).content) = block /\ Block(doc, block).content # <<>>
  BY <1>2, <1>4, <1>5, BlockAdded
<1>7. Block(doc, block).bullets = <<>>
  BY <1>4
<1> QED BY <1>1, <1>6, <1>7

\* A paragraph of a line.
LEMMA ParagraphFacts ==
  ASSUME NEW nodes, Full(nodes)
  PROVE  /\ Paragraph(nodes) \in Blocks /\ Acceptable(Paragraph(nodes))
         /\ ReadBlock(Paragraph(nodes)) = ReadNodes(nodes)
<1> DEFINE block == Paragraph(nodes)
           items == <<nodes>>
<1>1. /\ nodes \in Seq(Nodes) /\ DOMAIN nodes = 1..Len(nodes)
      /\ \A j \in 1..Len(nodes) : nodes[j].text # <<>>
  BY LenProperties DEF Full
<1>2. block.type = "paragraph" /\ block.content = items /\ block \in Blocks
  BY <1>1 DEF Paragraph, Blocks
<1>3. Acceptable(block)
  <2>1. \A i \in DOMAIN items : items[i] = nodes
    OBVIOUS
  <2> HIDE DEF items, block
  <2> QED BY <1>1, <1>2, <2>1 DEF Acceptable
<1>4. ReadBlock(block) = ReadItems(items)
  <2>1. block.type # "rule"
    BY <1>2
  <2> HIDE DEF block
  <2> QED BY <1>2, <2>1, BlockType
<1>5. ReadItems(items) = ReadNodes(nodes)
  <2>1. ReadNodes(nodes) \in Seq(Reads)
    BY <1>1, ReadNodesType
  <2>2. [i \in DOMAIN items |-> ReadNodes(items[i])] = <<ReadNodes(nodes)>>
    OBVIOUS
  <2>3. FlattenSeq(<<ReadNodes(nodes)>>) = ReadNodes(nodes)
    BY <2>1, FlattenOne
  <2> QED BY <2>2, <2>3 DEF ReadItems
<1> QED BY <1>2, <1>3, <1>4, <1>5

\* How a rule reads.
LEMMA RuleFacts ==
  LET block == [type |-> "rule", content |-> <<>>] IN
  /\ block \in Blocks /\ Acceptable(block)
  /\ ReadBlock(block) = ReadLine(<<Rule>>)
<1> DEFINE block == [type |-> "rule", content |-> <<>>]
           line == <<Rule>>
<1>1. block \in Blocks /\ block.type = "rule" /\ block.content = <<>>
  BY DEF Blocks
<1>2. Acceptable(block)
  BY DEF Acceptable
<1>3. Rule # Star /\ Rule # Bullet
  BY DEF Rule, Star, Bullet
<1>4. Len(line) = 1 /\ DOMAIN line = {1} /\ line[1] = Rule /\ line # <<>>
  OBVIOUS
<1> HIDE DEF block, line
<1>5. ReadBlock(block) = <<[token |-> Rule, bold |-> FALSE]>>
  BY <1>1, BlockType
<1>6. ReadToken(line, 1) = <<[token |-> Rule, bold |-> FALSE]>>
  <2>1. ~Closed(line, 1)
    BY <1>4 DEF Closed
  <2> QED BY <1>3, <1>4, <2>1 DEF ReadToken
<1> DEFINE read == <<[token |-> Rule, bold |-> FALSE]>>
<1>7. [i \in DOMAIN line |-> ReadToken(line, i)] = <<read>>
  <2> HIDE DEF read
  <2>1. ReadToken(line, 1) = read
    BY <1>6 DEF read
  <2>2. [i \in DOMAIN line |-> ReadToken(line, i)] = [i \in {1} |-> read]
    BY <1>4, <2>1
  <2>3. <<read>> = [i \in {1} |-> read]
    OBVIOUS
  <2> QED BY <2>2, <2>3
<1>8. <<[token |-> Rule, bold |-> FALSE]>> \in Seq(Reads)
  <2>1. Rule \in Words
    BY DEF Words
  <2>2. [token |-> Rule, bold |-> FALSE] \in Reads
    BY <2>1 DEF Reads
  <2> QED BY <2>2
<1>9. ReadSpans(line) = <<[token |-> Rule, bold |-> FALSE]>>
  BY <1>7, <1>8, FlattenOne DEF ReadSpans
<1>10. ReadLine(line) = ReadSpans(line)
  BY <1>3, <1>4 DEF ReadLine
<1> QED BY <1>1, <1>2, <1>5, <1>9, <1>10 DEF block, line

\* A line of its own kind: neither blank, nor a rule, nor of a list.
Ordinary(line) == line # <<>> /\ line # <<Rule>> /\ line[1] # Bullet

\* Such a line becomes a paragraph.
LEMMA OrdinaryLine ==
  ASSUME NEW doc, NEW line \in Seq(Words), Ordinary(line)
  PROVE  AddLine(doc, line) = Block(doc, Paragraph(AdfInline(line)))
BY DEF AddLine, Ordinary

\* Arithmetic.
LEMMA LongLine == \A n \in Nat \ {0} : n # 1 => n > 1
OBVIOUS

\* The document reads on as the line does.
LEMMA LineFacts ==
  ASSUME NEW doc, DocOK(doc), NEW line \in Seq(Words), line # <<Bullet>>
  PROVE  /\ DocOK(AddLine(doc, line))
         /\ ReadSoFar(AddLine(doc, line)) = ReadSoFar(doc) \o ReadLine(line)
<1>1. ReadSoFar(doc) \in Seq(Reads)
  BY DocOKFacts
<1>2. CASE line = <<>>
  <2>1. AddLine(doc, line) = Flush(doc)
    BY <1>2 DEF AddLine
  <2>2. ReadLine(line) = <<>>
    <3>1. ReadLine(line) = ReadSpans(<<>>)
      BY <1>2 DEF ReadLine
    <3>2. ReadSpans(<<>>) = FlattenSeq(<<>>)
      BY DEF ReadSpans
    <3> QED BY <3>1, <3>2 DEF FlattenSeq
  <2>3. ReadSoFar(doc) \o ReadLine(line) = ReadSoFar(doc)
    BY <1>1, <2>2, ConcatEmptySeq
  <2> QED BY <2>1, <2>3, FlushFacts
<1>3. CASE line = <<Rule>>
  <2> DEFINE block == [type |-> "rule", content |-> <<>>]
  <2>1. AddLine(doc, line) = Block(doc, block)
    BY <1>3 DEF AddLine
  <2>2. block \in Blocks /\ Acceptable(block) /\ ReadBlock(block) = ReadLine(line)
    BY <1>3, RuleFacts
  <2> HIDE DEF block
  <2> QED BY <2>1, <2>2, BlockFacts
<1>4. CASE line # <<>> /\ line # <<Rule>> /\ line[1] = Bullet
  <2> DEFINE item == AdfInline(Tail(line))
             items == doc.bullets
             more == Append(items, item)
  <2>1. Len(line) > 1 /\ Tail(line) \in Seq(Words)
    <3>1. Len(line) \in Nat \ {0} /\ Tail(line) \in Seq(Words)
      BY <1>4, EmptySeq, HeadTailProperties
    <3>2. Len(line) = 1 => line = <<line[1]>>
      OBVIOUS
    <3>3. Len(line) # 1
      BY <1>4, <3>2
    <3>4. Len(line) > 1
      BY <3>1, <3>3, LongLine
    <3> QED BY <3>1, <3>4
  <2>2. AddLine(doc, line) =
          IF item = <<>> THEN doc ELSE [doc EXCEPT !.bullets = Append(items, item)]
    BY <1>4, <2>1 DEF AddLine
  <2>3. ReadLine(line) = ReadSpans(Tail(line))
    BY <1>4 DEF ReadLine
  <2>4. Full(item) /\ ReadNodes(item) = ReadLine(line)
    BY <2>1, <2>3, InlineRead
  <2>5. /\ items \in Seq(Seq(Nodes)) /\ doc.content \in Seq(Blocks)
        /\ doc = [content |-> doc.content, bullets |-> items]
        /\ ReadDoc(doc.content) \in Seq(Reads) /\ ReadItems(items) \in Seq(Reads)
    BY DocOKFacts
  <2> HIDE DEF item, items
  <2>6. CASE item = <<>>
    <3>1. ReadSoFar(doc) \o ReadLine(line) = ReadSoFar(doc)
      BY <1>1, <2>4, <2>6, ItemsEmpty, ConcatEmptySeq
    <3> QED BY <2>2, <2>6, <3>1
  <2>7. CASE item # <<>>
    <3>1. AddLine(doc, line) = [content |-> doc.content, bullets |-> more]
      BY <2>2, <2>5, <2>7
    <3>2. item \in Seq(Nodes) /\ ReadNodes(item) \in Seq(Reads)
      BY <2>4, ReadNodesType DEF Full
    <3>3. /\ more \in Seq(Seq(Nodes)) /\ Len(more) = Len(items) + 1 /\ Len(items) \in Nat
          /\ \A i \in 1..Len(items) : more[i] = items[i]
          /\ more[Len(items) + 1] = item
      BY <2>5, <3>2, AppendProperties, LenProperties
    <3>4. ReadItems(more) = ReadItems(items) \o ReadNodes(item)
      BY <2>5, <3>2, ItemsAppend
    <3> HIDE DEF more
    <3>5. \A k \in 1..Len(more) : more[k] # <<>> /\ Full(more[k])
      <4> SUFFICES ASSUME NEW k \in 1..Len(more) PROVE more[k] # <<>> /\ Full(more[k])
        OBVIOUS
      <4>1. k \in 1..Len(items) \/ k = Len(items) + 1
        BY <3>3
      <4> QED BY <2>4, <2>7, <3>3, <4>1 DEF DocOK, items
    <3>6. DocOK(AddLine(doc, line))
      <4>1. \A k \in 1..Len(doc.content) : Acceptable(doc.content[k])
        BY DEF DocOK
      <4> QED BY <2>5, <3>1, <3>3, <3>5, <4>1 DEF DocOK
    <3>7. ReadSoFar(AddLine(doc, line)) = ReadDoc(doc.content) \o ReadItems(more)
      BY <3>1 DEF ReadSoFar
    <3>8. ReadSoFar(doc) = ReadDoc(doc.content) \o ReadItems(items)
      BY DEF ReadSoFar, items
    <3>9. ReadSoFar(AddLine(doc, line)) = ReadSoFar(doc) \o ReadNodes(item)
      <4> DEFINE a == ReadDoc(doc.content)
                 b == ReadItems(items)
                 c == ReadNodes(item)
      <4>1. a \in Seq(Reads) /\ b \in Seq(Reads) /\ c \in Seq(Reads)
        BY <2>5, <3>2
      <4>2. ReadSoFar(AddLine(doc, line)) = a \o (b \o c)
        BY <3>4, <3>7
      <4>3. ReadSoFar(doc) = a \o b
        BY <3>8
      <4> HIDE DEF a, b, c
      <4>4. (a \o b) \o c = a \o (b \o c)
        BY <4>1, ConcatAssociative
      <4>5. ReadSoFar(AddLine(doc, line)) = ReadSoFar(doc) \o c
        BY <4>2, <4>3, <4>4
      <4> QED BY <4>5 DEF c
    <3> QED BY <2>4, <3>6, <3>9
  <2> QED BY <2>6, <2>7
<1>5. CASE line # <<>> /\ line # <<Rule>> /\ line[1] # Bullet
  <2> DEFINE nodes == AdfInline(line)
  <2>1. AddLine(doc, line) = Block(doc, Paragraph(nodes))
    BY <1>5, OrdinaryLine DEF Ordinary
  <2>2. ReadLine(line) = ReadSpans(line)
    BY <1>5 DEF ReadLine
  <2>3. Full(nodes) /\ ReadNodes(nodes) = ReadLine(line)
    BY <2>2, InlineRead
  <2> HIDE DEF nodes
  <2>4. /\ Paragraph(nodes) \in Blocks /\ Acceptable(Paragraph(nodes))
        /\ ReadBlock(Paragraph(nodes)) = ReadLine(line)
    BY <2>3, ParagraphFacts
  <2> QED BY <2>1, <2>4, BlockFacts
<1> QED BY <1>2, <1>3, <1>4, <1>5

\* No line yet.
Blank == [content |-> <<>>, bullets |-> <<>>]

\* The recursion of AdfDoc has a solution.
LEMMA DocDefined ==
  ASSUME NEW text, Len(text) \in Nat
  PROVE  \E f : /\ f = [n \in 0..Len(text) |->
                          IF n = 0 THEN Blank ELSE AddLine(f[n - 1], text[n])]
                /\ AdfDoc(text) = LET doc == Flush(f[Len(text)]) IN
                                  IF doc.content = <<>> THEN <<Paragraph(<<>>)>> ELSE doc.content
<1> DEFINE Step(f, n) == IF n = 0 THEN Blank ELSE AddLine(f[n - 1], text[n])
           T == {m \in Nat : \E f : f = [n \in 0..m |-> Step(f, n)]}
<1>1. 0 \in T
  <2> DEFINE f == [n \in 0..0 |-> Blank]
  <2>1. f = [n \in 0..0 |-> Step(f, n)]
    OBVIOUS
  <2> QED BY <2>1
<1>2. ASSUME NEW m \in Nat, m \in T PROVE m + 1 \in T
  <2>1. PICK f : f = [n \in 0..m |-> Step(f, n)]
    BY <1>2
  <2> DEFINE g == [n \in 0..(m + 1) |-> IF n <= m THEN f[n] ELSE Step(f, n)]
  <2>a. \A n \in 0..m : f[n] = Step(f, n)
    BY <2>1
  <2>2. \A n \in 0..(m + 1) : g[n] = Step(g, n)
    <3> SUFFICES ASSUME NEW n \in 0..(m + 1) PROVE g[n] = Step(g, n)
      OBVIOUS
    <3>1. n = 0 \/ (n - 1 \in 0..m /\ g[n - 1] = f[n - 1])
      OBVIOUS
    <3>2. Step(g, n) = Step(f, n)
      BY <3>1
    <3>3. n <= m => f[n] = Step(f, n)
      BY <2>a
    <3> QED BY <3>2, <3>3
  <2>3. g = [n \in 0..(m + 1) |-> Step(g, n)]
    BY <2>2
  <2> HIDE DEF g
  <2> QED BY <2>3
<1>3. Len(text) \in T
  <2> HIDE DEF T
  <2> QED BY <1>1, <1>2, NatInductionSet
<1>4. \E f : f = [n \in 0..Len(text) |-> Step(f, n)]
  BY <1>3
<1> DEFINE h == CHOOSE f : f = [n \in 0..Len(text) |-> Step(f, n)]
<1>5. h = [n \in 0..Len(text) |-> Step(h, n)]
  BY <1>4
<1>6. AdfDoc(text) = LET doc == Flush(h[Len(text)]) IN
                     IF doc.content = <<>> THEN <<Paragraph(<<>>)>> ELSE doc.content
  BY DEF AdfDoc, Blank
<1> QED BY <1>5, <1>6

\* How the lines of a text read, one by one.
LineReads(text) == [i \in DOMAIN text |-> ReadLine(text[i])]

\* They are sequences of read tokens, one for each line.
LEMMA LineReadsType ==
  ASSUME NEW text \in Seq(Seq(Words))
  PROVE  /\ LineReads(text) \in Seq(Seq(Reads)) /\ Len(LineReads(text)) = Len(text)
         /\ \A k \in 1..Len(text) : LineReads(text)[k] = ReadLine(text[k])
<1>1. /\ Len(text) \in Nat /\ DOMAIN text = 1..Len(text)
      /\ \A k \in 1..Len(text) : text[k] \in Seq(Words)
  BY LenProperties, ElementOfSeq
<1>2. ASSUME NEW line \in Seq(Words) PROVE ReadSpans(line) \in Seq(Reads)
  <2>1. Full(AdfInline(line)) /\ ReadNodes(AdfInline(line)) = ReadSpans(line)
    BY InlineRead
  <2>2. AdfInline(line) \in Seq(Nodes)
    BY <2>1 DEF Full
  <2> QED BY <2>1, <2>2, ReadNodesType
<1>3. ASSUME NEW line \in Seq(Words) PROVE ReadLine(line) \in Seq(Reads)
  <2>1. line # <<>> => Tail(line) \in Seq(Words)
    BY HeadTailProperties
  <2> QED BY <1>2, <2>1 DEF ReadLine
<1> QED BY <1>1, <1>3 DEF LineReads

\* AdfDoc keeps what the text says, in blocks that Jira accepts; its last block is the
\* last line, if that is one of its own.
LEMMA DocRead ==
  ASSUME NEW text \in Seq(Seq(Words)), \A k \in 1..Len(text) : text[k] # <<Bullet>>
  PROVE  /\ AdfDoc(text) \in Seq(Blocks)
         /\ \A k \in 1..Len(AdfDoc(text)) : Acceptable(AdfDoc(text)[k])
         /\ ReadDoc(AdfDoc(text)) = ReadText(text)
         /\ text # <<>> /\ Ordinary(Last(text)) =>
              Last(AdfDoc(text)) = Paragraph(AdfInline(Last(text)))
<1> DEFINE r == LineReads(text)
           n == Len(text)
<1>1. /\ n \in Nat /\ r \in Seq(Seq(Reads)) /\ Len(r) = n
      /\ \A k \in 1..n : r[k] = ReadLine(text[k]) /\ r[k] \in Seq(Reads) /\ text[k] \in Seq(Words)
  BY LineReadsType, LenProperties, ElementOfSeq
<1>2. PICK f : /\ f = [m \in 0..n |-> IF m = 0 THEN Blank ELSE AddLine(f[m - 1], text[m])]
               /\ AdfDoc(text) = LET doc == Flush(f[n]) IN
                                 IF doc.content = <<>> THEN <<Paragraph(<<>>)>> ELSE doc.content
  BY <1>1, DocDefined
<1>3. \A m \in 0..n : f[m] = IF m = 0 THEN Blank ELSE AddLine(f[m - 1], text[m])
  BY <1>2
<1> HIDE DEF r
<1> DEFINE Good(m) == DocOK(f[m]) /\ ReadSoFar(f[m]) = FlattenSeq(SubSeq(r, 1, m))
           T == {m \in Nat : m <= n => Good(m)}
<1>4. 0 \in T
  <2>1. f[0] = Blank
    BY <1>1, <1>3
  <2>2. Blank.content = <<>> /\ Blank.bullets = <<>> /\ 1..Len(<<>>) = {}
        /\ Blank \in [content : Seq(Blocks), bullets : Seq(Seq(Nodes))]
    BY DEF Blank
  <2>3. DocOK(Blank)
    BY <2>2 DEF DocOK
  <2>4. ReadSoFar(Blank) = <<>>
    BY <2>2, ItemsEmpty DEF ReadSoFar
  <2>5. FlattenSeq(SubSeq(r, 1, 0)) = <<>>
    <3>1. SubSeq(r, 1, 0) = <<>>
      BY SubSeqEmpty
    <3> QED BY <3>1 DEF FlattenSeq
  <2>6. Good(0)
    BY <2>1, <2>3, <2>4, <2>5
  <2> HIDE DEF Good
  <2> QED BY <2>6
<1>5. ASSUME NEW m \in Nat, m \in T PROVE m + 1 \in T
  <2> SUFFICES ASSUME m + 1 <= n PROVE Good(m + 1)
    <3> HIDE DEF Good
    <3> QED OBVIOUS
  <2>1. DocOK(f[m]) /\ ReadSoFar(f[m]) = FlattenSeq(SubSeq(r, 1, m))
    BY <1>1, <1>5
  <2>2. m + 1 \in 1..n /\ m + 1 # 0 /\ (m + 1) - 1 = m /\ m + 1 \in 0..n
    BY <1>1
  <2>3. f[m + 1] = AddLine(f[m], text[m + 1])
    BY <1>3, <2>2
  <2>4. text[m + 1] \in Seq(Words) /\ text[m + 1] # <<Bullet>> /\ r[m + 1] = ReadLine(text[m + 1])
        /\ r[m + 1] \in Seq(Reads)
    BY <1>1, <2>2
  <2>5. DocOK(f[m + 1]) /\ ReadSoFar(f[m + 1]) = ReadSoFar(f[m]) \o r[m + 1]
    BY <2>1, <2>3, <2>4, LineFacts
  <2>6. SubSeq(r, 1, m + 1) = Append(SubSeq(r, 1, m), r[m + 1]) /\ SubSeq(r, 1, m) \in Seq(Seq(Reads))
    <3>1. 1 \in 1..Len(r) /\ m + 1 \in 1..Len(r)
      BY <1>1, <2>2
    <3>2. SubSeq(r, 1, m + 1) = SubSeq(r, 1, m) \o <<r[m + 1]>>
      BY <1>1, <2>2, <3>1, SubSeqRecursiveSecond
    <3>3. SubSeq(r, 1, m) \in Seq(Seq(Reads))
      <4>1. \A i \in 1..m : r[i] \in Seq(Reads)
        BY <1>1, <2>2
      <4> QED BY <4>1, SubSeqProperties
    <3> QED BY <2>4, <3>2, <3>3, AppendIsConcat
  <2>7. FlattenSeq(SubSeq(r, 1, m + 1)) = FlattenSeq(SubSeq(r, 1, m)) \o r[m + 1]
    BY <2>4, <2>6, FlattenAppend
  <2> QED BY <2>1, <2>5, <2>7
<1> HIDE DEF Good
<1>6. \A m \in 0..n : Good(m)
  <2>1. Nat \subseteq T
    <3> HIDE DEF T
    <3> QED BY <1>4, <1>5, NatInductionSet
  <2> QED BY <1>1, <2>1
<1> DEFINE doc == Flush(f[n])
<1>7. DocOK(f[n]) /\ ReadSoFar(f[n]) = FlattenSeq(SubSeq(r, 1, n))
  BY <1>1, <1>6 DEF Good
<1>8. SubSeq(r, 1, n) = r /\ FlattenSeq(r) = ReadText(text)
  <2>1. SubSeq(r, 1, n) = r
    BY <1>1, SubSeqFull
  <2> QED BY <2>1 DEF r, LineReads, ReadText
<1>9. DocOK(doc) /\ ReadDoc(doc.content) = ReadText(text) /\ doc.content \in Seq(Blocks)
  BY <1>7, <1>8, FlushFacts, DocOKFacts
<1>10. ASSUME text # <<>>, Ordinary(Last(text))
       PROVE  Last(doc.content) = Paragraph(AdfInline(Last(text))) /\ doc.content # <<>>
  <2>1. n \in 1..n /\ n # 0 /\ n - 1 \in 0..n /\ n \in 0..n
    BY <1>1, <1>10, EmptySeq
  <2>2. f[n] = AddLine(f[n - 1], text[n]) /\ DocOK(f[n - 1])
    BY <1>3, <1>6, <2>1 DEF Good
  <2>3. text[n] \in Seq(Words) /\ Last(text) = text[n]
    BY <1>1, <2>1 DEF Last
  <2> DEFINE block == Paragraph(AdfInline(text[n]))
  <2>4. block \in Blocks /\ Acceptable(block)
    BY <2>3, InlineRead, ParagraphFacts
  <2>5. f[n] = Block(f[n - 1], block)
    BY <1>10, <2>2, <2>3, OrdinaryLine
  <2> HIDE DEF block
  <2>6. f[n].bullets = <<>> /\ Last(f[n].content) = block /\ f[n].content # <<>>
    BY <2>2, <2>4, <2>5, BlockFacts
  <2>7. doc = f[n]
    BY <2>6 DEF Flush
  <2> QED BY <2>3, <2>6, <2>7 DEF block
<1>11. AdfDoc(text) = IF doc.content = <<>> THEN <<Paragraph(<<>>)>> ELSE doc.content
  BY <1>2
<1> HIDE DEF doc
<1>12. CASE doc.content # <<>>
  <2>1. AdfDoc(text) = doc.content
    BY <1>11, <1>12
  <2> QED BY <1>9, <1>10, <2>1 DEF DocOK
<1>13. CASE doc.content = <<>>
  <2> DEFINE block == Paragraph(<<>>)
  <2>1. AdfDoc(text) = <<block>>
    BY <1>11, <1>13
  <2>2. Full(<<>>)
    BY DEF Full
  <2>3. block \in Blocks /\ Acceptable(block) /\ ReadBlock(block) = ReadNodes(<<>>)
    BY <2>2, ParagraphFacts
  <2> HIDE DEF block
  <2>4. <<block>> = Append(<<>>, block) /\ <<>> \in Seq(Blocks)
    OBVIOUS
  <2>5. ReadDoc(<<block>>) = ReadDoc(<<>>) \o ReadBlock(block)
    BY <2>3, <2>4, DocAppend
  <2>6. ReadDoc(<<block>>) = <<>>
    BY <2>3, <2>5, ItemsEmpty
  <2>7. ReadText(text) = <<>>
    BY <1>9, <1>13, ItemsEmpty
  <2>8. <<block>> \in Seq(Blocks) /\ \A k \in 1..Len(<<block>>) : <<block>>[k] = block
    BY <2>3
  <2> QED BY <1>10, <1>13, <2>1, <2>3, <2>6, <2>7, <2>8
<1> QED BY <1>12, <1>13

\* A text of blank lines says nothing.
LEMMA BlankRead ==
  ASSUME NEW text \in Seq(Seq(Words)), \A k \in 1..Len(text) : text[k] = <<>>
  PROVE  ReadText(text) = <<>>
<1> DEFINE r == LineReads(text)
<1>1. /\ r \in Seq(Seq(Reads)) /\ Len(r) = Len(text) /\ Len(text) \in Nat
      /\ \A k \in 1..Len(text) : r[k] = ReadLine(text[k])
  BY LineReadsType, LenProperties
<1>2. ReadLine(<<>>) = <<>>
  <2>1. ReadLine(<<>>) = ReadSpans(<<>>)
    BY DEF ReadLine
  <2>2. ReadSpans(<<>>) = FlattenSeq(<<>>)
    BY DEF ReadSpans
  <2> QED BY <2>1, <2>2 DEF FlattenSeq
<1> HIDE DEF r
<1>3. \A k \in 1..Len(r) : r[k] = <<>>
  BY <1>1, <1>2
<1>4. FlattenSeq(r) \in Seq(Reads) /\ \E b, o : Joins(b, o, FlattenSeq(r), r, Len(r))
  BY <1>1, FlattenJoins
<1> DEFINE t == FlattenSeq(r)
<1>5. ASSUME NEW i \in 1..Len(t) PROVE FALSE
  <2>1. PICK b, o : Joins(b, o, t, r, Len(r))
    BY <1>4
  <2> HIDE DEF t
  <2>2. b[i] \in 1..Len(r) /\ o[i] \in 1..Len(r[b[i]])
    BY <2>1 DEF Joins
  <2>3. r[b[i]] = <<>> /\ 1..Len(<<>>) = {}
    BY <1>3, <2>2
  <2> QED BY <2>2, <2>3
<1>6. t = <<>>
  <2>1. t \in Seq(Reads)
    BY <1>4
  <2> HIDE DEF t
  <2>2. t # <<>> => 1 \in 1..Len(t)
    BY <2>1, EmptySeq
  <2> QED BY <1>5, <2>2
<1> QED BY <1>6 DEF r, LineReads, ReadText

-----------------------------------------------------------------------------
(* The fields of an issue. *)

\* A function on 1..n is a sequence.
LEMMA FunctionSeq ==
  ASSUME NEW X, NEW n \in Nat, NEW f \in [1..n -> X]
  PROVE  f \in Seq(X) /\ Len(f) = n
OBVIOUS

\* What labels are made of, with the literals the code writes.
Letters == STRING \cup {"-", " ", "identityhub", "blog-digest"}

\* A label Jira accepts.
Good == {l \in Seq(Letters) : l # <<>> /\ \A i \in 1..Len(l) : l[i] # " "}

\* No label is empty or has a space in it, and the label of the search is one of them.
LEMMA LabelsClean ==
  ASSUME NEW labels \in Seq(Seq(Letters))
  PROVE  LET clean == WithIdentityHubLabel(SanitizeLabels(labels)) IN
         /\ Contains(clean, IdentityHub)
         /\ \A k \in DOMAIN clean : clean[k] # <<>> /\ ~Contains(clean[k], " ")
<1> DEFINE one(l) == IF l = <<>> THEN <<>> ELSE <<ReplaceAll(l, " ", "-")>>
           ss == [i \in DOMAIN labels |-> one(labels[i])]
           sane == SanitizeLabels(labels)
           clean == WithIdentityHubLabel(sane)
<1>1. Len(labels) \in Nat /\ DOMAIN labels = 1..Len(labels)
      /\ \A i \in 1..Len(labels) : labels[i] \in Seq(Letters)
  BY LenProperties, ElementOfSeq
<1>2. ASSUME NEW l \in Seq(Letters), l # <<>> PROVE ReplaceAll(l, " ", "-") \in Good
  <2> DEFINE r == [i \in 1..Len(l) |-> IF l[i] = " " THEN "-" ELSE l[i]]
  <2>1. Len(l) \in Nat /\ Len(l) # 0 /\ \A i \in 1..Len(l) : l[i] \in Letters
    BY <1>2, LenProperties, ElementOfSeq, EmptySeq
  <2>2. "-" \in Letters /\ "-" # " "
    BY DEF Letters
  <2>3. \A i \in 1..Len(l) : r[i] \in Letters /\ r[i] # " "
    BY <2>1, <2>2
  <2>4. r \in Seq(Letters) /\ Len(r) = Len(l)
    <3>1. r = [i \in 1..Len(l) |-> r[i]] /\ \A i \in 1..Len(l) : r[i] \in Letters
      BY <2>3
    <3> HIDE DEF r
    <3>2. [i \in 1..Len(l) |-> r[i]] \in [1..Len(l) -> Letters]
      BY <3>1
    <3>3. r \in [1..Len(l) -> Letters]
      BY <3>1, <3>2
    <3> QED BY <2>1, <3>3, FunctionSeq
  <2>5. ReplaceAll(l, " ", "-") = r
    BY DEF ReplaceAll
  <2> HIDE DEF r
  <2>6. r # <<>>
    BY <2>1, <2>4
  <2>7. \A i \in 1..Len(r) : r[i] # " "
    BY <2>3, <2>4
  <2> QED BY <2>4, <2>5, <2>6, <2>7 DEF Good
<1>3. \A i \in 1..Len(labels) : one(labels[i]) \in Seq(Good)
  <2> SUFFICES ASSUME NEW i \in 1..Len(labels) PROVE one(labels[i]) \in Seq(Good)
    OBVIOUS
  <2>1. CASE labels[i] = <<>>
    BY <2>1
  <2>2. CASE labels[i] # <<>>
    <3>1. ReplaceAll(labels[i], " ", "-") \in Good
      BY <1>1, <1>2, <2>2
    <3> DEFINE r == ReplaceAll(labels[i], " ", "-")
    <3>2. one(labels[i]) = <<r>>
      BY <2>2
    <3> HIDE DEF r, one
    <3>3. r \in Good
      BY <3>1 DEF r
    <3> QED BY <3>2, <3>3
  <2> QED BY <2>1, <2>2
<1>4. ss \in Seq(Seq(Good))
  <2> HIDE DEF one
  <2> QED BY <1>1, <1>3
<1>5. sane \in Seq(Good)
  <2>1. sane = FlattenSeq(ss)
    BY DEF SanitizeLabels
  <2> HIDE DEF ss
  <2> QED BY <1>4, <2>1, FlattenJoins
<1>6. IdentityHub \in Good
  <2>1. "identityhub" \in Letters /\ "identityhub" # " "
    BY DEF Letters
  <2>2. IdentityHub \in Seq(Letters) /\ IdentityHub # <<>> /\ Len(IdentityHub) = 1
        /\ IdentityHub[1] = "identityhub"
    BY <2>1 DEF IdentityHub
  <2>3. \A i \in 1..Len(IdentityHub) : IdentityHub[i] # " "
    <3>1. 1..1 = {1}
      OBVIOUS
    <3> QED BY <2>1, <2>2, <3>1
  <2> QED BY <2>2, <2>3 DEF Good
<1> HIDE DEF sane
<1>7. clean \in Seq(Good) /\ Contains(clean, IdentityHub)
  <2>1. CASE Contains(sane, IdentityHub)
    BY <1>5, <2>1 DEF WithIdentityHubLabel
  <2>2. CASE ~Contains(sane, IdentityHub)
    <3>1. clean = Append(sane, IdentityHub)
      BY <2>2 DEF WithIdentityHubLabel
    <3> HIDE DEF clean
    <3>2. clean \in Seq(Good) /\ Len(clean) = Len(sane) + 1 /\ clean[Len(sane) + 1] = IdentityHub
          /\ Len(sane) \in Nat
      BY <1>5, <1>6, <3>1, AppendProperties, LenProperties
    <3>3. Len(sane) + 1 \in 1..Len(clean)
      BY <3>2
    <3> QED BY <3>2, <3>3 DEF Contains
  <2> QED BY <2>1, <2>2
<1> HIDE DEF clean
<1>8. \A k \in DOMAIN clean : clean[k] \in Good
  BY <1>7, LenProperties, ElementOfSeq
<1>9. \A k \in DOMAIN clean : clean[k] # <<>> /\ ~Contains(clean[k], " ")
  BY <1>8 DEF Good, Contains
<1> QED BY <1>7, <1>9 DEF clean, sane

\* A payload whose fields read as it does.
PayloadOK(payload) ==
  /\ payload.description \in Seq(Seq(Words))
  /\ \A k \in 1..Len(payload.description) : payload.description[k] # <<Bullet>>
  /\ payload.labels \in Seq(Seq(Letters))

\* The fields of such a payload: the document reads as the description, the labels are
\* sound.
LEMMA FieldsRead ==
  ASSUME NEW payload, PayloadOK(payload)
  PROVE  LET fields == Fields(payload) IN
         /\ ReadDoc(fields.description) = ReadText(payload.description)
         /\ \A k \in DOMAIN fields.description : Acceptable(fields.description[k])
         /\ Contains(fields.labels, IdentityHub)
         /\ \A k \in DOMAIN fields.labels :
              fields.labels[k] # <<>> /\ ~Contains(fields.labels[k], " ")
<1> DEFINE fields == Fields(payload)
           text == payload.description
<1>1. /\ fields.labels = WithIdentityHubLabel(SanitizeLabels(payload.labels))
      /\ fields.description = IF \E i \in DOMAIN text : text[i] # <<>>
                              THEN AdfDoc(text) ELSE <<>>
  BY DEF Fields
<1> HIDE DEF fields
<1>2. /\ Contains(fields.labels, IdentityHub)
      /\ \A k \in DOMAIN fields.labels :
           fields.labels[k] # <<>> /\ ~Contains(fields.labels[k], " ")
  BY <1>1, LabelsClean DEF PayloadOK
<1>3. text \in Seq(Seq(Words)) /\ \A k \in 1..Len(text) : text[k] # <<Bullet>>
  BY DEF PayloadOK
<1> HIDE DEF text
<1>4. CASE \E i \in DOMAIN text : text[i] # <<>>
  <2>1. fields.description = AdfDoc(text)
    BY <1>1, <1>4
  <2>2. /\ AdfDoc(text) \in Seq(Blocks) /\ ReadDoc(AdfDoc(text)) = ReadText(text)
        /\ \A k \in 1..Len(AdfDoc(text)) : Acceptable(AdfDoc(text)[k])
    BY <1>3, DocRead
  <2>3. DOMAIN AdfDoc(text) = 1..Len(AdfDoc(text))
    BY <2>2, LenProperties
  <2> QED BY <1>2, <2>1, <2>2, <2>3 DEF fields, text
<1>5. CASE ~\E i \in DOMAIN text : text[i] # <<>>
  <2>1. fields.description = <<>> /\ DOMAIN <<>> = {}
    BY <1>1, <1>5
  <2>2. DOMAIN text = 1..Len(text)
    BY <1>3, LenProperties
  <2>3. ReadText(text) = <<>>
    BY <1>3, <1>5, <2>2, BlankRead
  <2> QED BY <1>2, <2>1, <2>3, ItemsEmpty DEF fields, text
<1> QED BY <1>4, <1>5

\* The line of the address: its label is bold, and the address is as it is.
LEMMA LinkRead ==
  ASSUME NEW loc \in Words, loc # Star
  PROVE  /\ LinkLine(loc) \in Seq(Words) /\ Ordinary(LinkLine(loc)) /\ LinkLine(loc) # <<Bullet>>
         /\ AdfInline(LinkLine(loc)) = <<[text |-> << <<"Link:">> >>, bold |-> TRUE],
                                         [text |-> <<loc>>, bold |-> FALSE]>>
<1> DEFINE s == LinkLine(loc)
           link == <<"Link:">>
<1>1. Star \in Words /\ link \in Words /\ Star # link /\ Star # Bullet
  BY DEF Words, Star, Bullet
<1>2. s = <<Star, link, Star, loc>>
  BY DEF LinkLine
<1> HIDE DEF s, link
<1>3. /\ s \in Seq(Words) /\ Len(s) = 4 /\ s # <<>>
      /\ s[1] = Star /\ s[2] = link /\ s[3] = Star /\ s[4] = loc
  BY <1>1, <1>2
<1>4. Ordinary(s) /\ s # <<Bullet>>
  <2>1. Len(<<Rule>>) = 1 /\ Len(<<Bullet>>) = 1
    OBVIOUS
  <2>2. s # <<Rule>> /\ s # <<Bullet>>
    BY <1>3, <2>1
  <2> QED BY <1>1, <1>3, <2>2 DEF Ordinary
<1>5. NextStar(s, 1) = 1 /\ NextStar(s, 2) = 3 /\ NextStar(s, 4) = 5 /\ NextStar(s, 6) = 5
  <2>1. \A i \in 1..6 : i \in 1..(Len(s) + 2)
    BY <1>3
  <2>2. ASSUME NEW i \in 1..6
        PROVE  /\ NextStar(s, i) \in 1..5
               /\ NextStar(s, i) <= 4 => i <= NextStar(s, i) /\ s[NextStar(s, i)] = Star
               /\ \A j \in i..4 : j < NextStar(s, i) => s[j] # Star
    <3>1. /\ NextStar(s, i) \in 1..(Len(s) + 1)
          /\ NextStar(s, i) <= Len(s) => i <= NextStar(s, i) /\ s[NextStar(s, i)] = Star
          /\ \A j \in i..Len(s) : j < NextStar(s, i) => s[j] # Star
      BY <1>3, <2>1, NextStarFacts
    <3>2. Len(s) + 1 = 5
      BY <1>3
    <3> QED BY <1>3, <3>1, <3>2
  <2>3. NextStar(s, 1) = 1
    <3>1. /\ NextStar(s, 1) \in 1..5
          /\ \A j \in 1..4 : j < NextStar(s, 1) => s[j] # Star
      BY <2>2
    <3> QED BY <1>3, <3>1
  <2>4. NextStar(s, 2) = 3
    <3>1. /\ NextStar(s, 2) \in 1..5
          /\ NextStar(s, 2) <= 4 => 2 <= NextStar(s, 2) /\ s[NextStar(s, 2)] = Star
          /\ \A j \in 2..4 : j < NextStar(s, 2) => s[j] # Star
      BY <2>2
    <3> QED BY <1>1, <1>3, <3>1
  <2>5. NextStar(s, 4) = 5
    <3>1. /\ NextStar(s, 4) \in 1..5
          /\ NextStar(s, 4) <= 4 => 4 <= NextStar(s, 4) /\ s[NextStar(s, 4)] = Star
      BY <2>2
    <3> QED BY <1>3, <3>1
  <2>6. NextStar(s, 6) = 5
    <3>1. /\ NextStar(s, 6) \in 1..5
          /\ NextStar(s, 6) <= 4 => 6 <= NextStar(s, 6)
      BY <2>2
    <3> QED BY <3>1
  <2> QED BY <2>3, <2>4, <2>5, <2>6
<1>6. PICK f : f = [i \in 1..5 |-> InlineStep(s, f, i)] /\ AdfInline(s) = f[1]
  <2>1. Len(s) + 1 = 5
    BY <1>3
  <2> QED BY <1>3, <2>1, InlineDefined
<1>7. f[1] = InlineStep(s, f, 1) /\ f[4] = InlineStep(s, f, 4)
  <2>1. \A i \in 1..5 : f[i] = InlineStep(s, f, i)
    BY <1>6
  <2> QED BY <2>1
<1>8. SubSeq(s, 1, 0) = <<>> /\ SubSeq(s, 2, 2) = <<link>> /\ SubSeq(s, 4, 4) = <<loc>>
  <2>1. ASSUME NEW k \in 1..4 PROVE SubSeq(s, k, k) = <<s[k]>>
    <3>1. s[k] \in Words
      BY <1>3
    <3>2. /\ SubSeq(s, k, k) \in Seq(Words) /\ Len(SubSeq(s, k, k)) = 1
          /\ SubSeq(s, k, k)[1] = s[k]
      BY <1>3
    <3>3. <<s[k]>> \in Seq(Words) /\ Len(<<s[k]>>) = 1 /\ <<s[k]>>[1] = s[k]
      BY <3>1
    <3>4. \A i \in 1..1 : i = 1
      OBVIOUS
    <3> QED BY <3>2, <3>3, <3>4, SeqEqual
  <2>2. SubSeq(s, 1, 0) = <<>>
    BY SubSeqEmpty
  <2> QED BY <1>3, <2>1, <2>2
<1> DEFINE bold == [text |-> <<link>>, bold |-> TRUE]
           plain == [text |-> <<loc>>, bold |-> FALSE]
<1>9. Span(<<>>, FALSE) = <<>> /\ Span(<<link>>, TRUE) = <<bold>> /\ Span(<<loc>>, FALSE) = <<plain>>
  <2>1. <<link>> # <<>> /\ <<loc>> # <<>>
    OBVIOUS
  <2> QED BY <2>1 DEF Span
<1>10. bold \in Nodes /\ plain \in Nodes
  BY <1>1 DEF Nodes
<1> HIDE DEF bold, plain
<1>11. f[4] = <<plain>>
  <2>1. f[4] = Span(SubSeq(s, 4, 4), FALSE) \o <<>>
    <3>1. NextStar(s, 4) = 5 /\ NextStar(s, 4) > Len(s) /\ NextStar(s, 4) - 1 = 4
      BY <1>3, <1>5
    <3>2. InlineStep(s, f, 4) = Span(SubSeq(s, 4, NextStar(s, 4) - 1), FALSE) \o <<>>
      BY <3>1 DEF InlineStep
    <3> QED BY <1>7, <3>1, <3>2
  <2>2. f[4] = <<plain>> \o <<>>
    BY <1>8, <1>9, <2>1
  <2> QED BY <1>10, <2>2
<1>12. f[1] = <<bold, plain>>
  <2>1. f[1] = Span(SubSeq(s, 1, 0), FALSE) \o (Span(SubSeq(s, 2, 2), TRUE) \o f[4])
    <3> DEFINE start == NextStar(s, 1)
               end == NextStar(s, start + 1)
    <3>1. start = 1 /\ end = 3
      BY <1>5
    <3>2. ~(start > Len(s)) /\ ~(end > Len(s))
      BY <1>3, <3>1
    <3> HIDE DEF start, end
    <3>3. InlineStep(s, f, 1) = Span(SubSeq(s, 1, start - 1), FALSE)
            \o (Span(SubSeq(s, start + 1, end - 1), TRUE) \o f[end + 1])
      BY <3>2 DEF InlineStep, start, end
    <3>4. start - 1 = 0 /\ start + 1 = 2 /\ end - 1 = 2 /\ end + 1 = 4
      BY <3>1
    <3> QED BY <1>7, <3>3, <3>4
  <2>2. f[1] = <<>> \o (<<bold>> \o <<plain>>)
    BY <1>8, <1>9, <1>11, <2>1
  <2>3. <<bold>> \o <<plain>> = <<bold, plain>> /\ <<bold, plain>> \in Seq(Nodes)
    <3>1. <<bold>> \in Seq(Nodes) /\ <<bold, plain>> \in Seq(Nodes)
      BY <1>10
    <3>2. <<bold>> \o <<plain>> = Append(<<bold>>, plain)
      BY <1>10, <3>1, AppendIsConcat
    <3>3. Append(<<bold>>, plain) = <<bold, plain>>
      <4> DEFINE a == Append(<<bold>>, plain)
                 b == <<bold, plain>>
      <4>1. Len(<<bold>>) = 1 /\ <<bold>>[1] = bold
        OBVIOUS
      <4>2. a \in Seq(Nodes) /\ Len(a) = 2 /\ a[1] = bold /\ a[2] = plain
        BY <1>10, <3>1, <4>1, AppendProperties
      <4>3. b \in Seq(Nodes) /\ Len(b) = 2 /\ b[1] = bold /\ b[2] = plain
        BY <3>1
      <4> HIDE DEF a, b
      <4>4. a = b
        BY <4>2, <4>3, SeqEqual
      <4> QED BY <4>4 DEF a, b
    <3> QED BY <3>1, <3>2, <3>3
  <2> QED BY <2>2, <2>3, ConcatEmptySeq
<1> QED BY <1>3, <1>4, <1>6, <1>12 DEF s, link, bold, plain

-----------------------------------------------------------------------------
(* What is filed reads as it was meant. *)

\* A ticket that ends with the address of its post.
TicketOK(payload) ==
  /\ payload.title # <<>> /\ payload.description # <<>>
  /\ \E loc \in Words \ {Star} : Last(payload.description) = LinkLine(loc)

\* Every issue is what became of a payload, and those of the runs are tickets.
ReadInv ==
  /\ \A i \in 1..Len(issues) :
       PayloadOK(issues[i].payload) /\ issues[i].fields = Fields(issues[i].payload)
  /\ \A i \in digests : TicketOK(issues[i].payload)

\* The tokens of users, and of the model, are words.
LEMMA TextWords ==
  ASSUME NEW text, IsText(text)
  PROVE  /\ text \in Seq(Seq(Words))
         /\ \A k \in 1..Len(text) : text[k] # <<Bullet>>
<1>1. text \in Seq(Seq(Tokens)) /\ \A k \in DOMAIN text : text[k] # <<Bullet>>
  BY DEF IsText
<1>2. Seq(Tokens) \subseteq Seq(Words)
  <2>1. Tokens \subseteq Words
    BY DEF Words
  <2> QED BY <2>1, SeqMono
<1>3. text \in Seq(Seq(Words))
  BY <1>1, <1>2, SeqMono
<1> QED BY <1>1, <1>3, LenProperties

\* So what users file reads as it should.
LEMMA FormOK ==
  ASSUME NEW payload \in Payloads
  PROVE  PayloadOK(payload)
<1>1. IsText(payload.description) /\ payload.labels \in Seq(Seq(STRING))
  BY JiraAssumption DEF IsPayload
<1>2. payload.labels \in Seq(Seq(Letters))
  <2>1. STRING \subseteq Letters
    BY DEF Letters
  <2>2. Seq(STRING) \subseteq Seq(Letters)
    BY <2>1, SeqMono
  <2> QED BY <1>1, <2>2, SeqMono
<1> QED BY <1>1, <1>2, TextWords DEF PayloadOK

\* A line of four tokens, and perhaps more.
LEMMA SourceFacts ==
  ASSUME NEW sum, sum.source \in Words, sum.type \in Words
  PROVE  SourceLine(sum) \in Seq(Words) /\ SourceLine(sum) # <<Bullet>>
<1> DEFINE a == <<Star, <<"Source:">>, Star, sum.source>>
           b == Parens(sum.type)
<1>1. a \in Seq(Words) /\ Len(a) = 4
  BY DEF Words
<1>2. b \in Seq(Words)
  <2>1. <<"(">> \in Words /\ <<")">> \in Words
    BY DEF Words
  <2> QED BY <2>1 DEF Parens
<1>3. SourceLine(sum) = a \o b
  BY DEF SourceLine
<1> HIDE DEF a, b
<1>4. a \o b \in Seq(Words) /\ Len(a \o b) >= 4
  <2>1. a \o b \in Seq(Words) /\ Len(a \o b) = Len(a) + Len(b) /\ Len(b) \in Nat
    BY <1>1, <1>2, ConcatProperties, LenProperties
  <2> QED BY <1>1, <2>1
<1>5. Len(<<Bullet>>) = 1
  OBVIOUS
<1> QED BY <1>3, <1>4, <1>5

\* A title has its brackets at least.
LEMMA TitleFacts ==
  ASSUME NEW sum
  PROVE  ComposeTitle(sum) # <<>>
<1> DEFINE X == {<<"[">>, <<"]">>, <<"(">>, <<")">>, sum.source, sum.type, sum.title}
           a == << <<"[">>, sum.source, <<"]">> >>
           b == Parens(sum.type)
           c == IF sum.title = <<>> THEN <<>> ELSE <<sum.title>>
<1>1. a \in Seq(X) /\ Len(a) = 3
  OBVIOUS
<1>2. b \in Seq(X)
  <2>1. <<"(">> \in X /\ sum.type \in X /\ <<")">> \in X
    OBVIOUS
  <2> HIDE DEF X
  <2> QED BY <2>1 DEF Parens
<1>3. c \in Seq(X)
  <2>1. sum.title \in X
    OBVIOUS
  <2> HIDE DEF X
  <2>2. <<sum.title>> \in Seq(X) /\ <<>> \in Seq(X)
    BY <2>1
  <2> QED BY <2>2
<1>4. ComposeTitle(sum) = a \o b \o c
  BY DEF ComposeTitle
<1> HIDE DEF a, b, c, X
<1>5. a \o b \in Seq(X) /\ Len(a \o b) = Len(a) + Len(b) /\ Len(b) \in Nat
  BY <1>1, <1>2, ConcatProperties, LenProperties
<1>6. /\ a \o b \o c \in Seq(X) /\ Len(a \o b \o c) = Len(a \o b) + Len(c)
      /\ Len(c) \in Nat
  BY <1>3, <1>5, ConcatProperties, LenProperties
<1>7. Len(a \o b \o c) >= 3
  BY <1>1, <1>5, <1>6
<1> QED BY <1>4, <1>7, EmptySeq

\* What a run files reads as it should, and ends with the address.
LEMMA DigestOK ==
  ASSUME NEW answer \in Answers, JsonText(answer.summary) # <<>>, NEW pageTitle,
         NEW loc \in Seq(STRING), Len(loc) > 1
  PROVE  LET payload == TicketFor(Summary(answer, pageTitle, loc), loc)
         IN  PayloadOK(payload) /\ TicketOK(payload)
<1> DEFINE sum == Summary(answer, pageTitle, loc)
           payload == TicketFor(sum, loc)
           ends == << <<>>, <<Rule>>, SourceLine(sum), LinkLine(loc)>>
<1>1. loc \in Words \ {Star}
  <2>1. Star = <<"**">> /\ Len(<<"**">>) = 1
    BY DEF Star
  <2>2. ASSUME loc = Star PROVE FALSE
    <3>1. Len(loc) = 1
      BY <2>1, <2>2
    <3> QED BY <3>1
  <2>3. loc \in Words
    BY DEF Words, Tokens
  <2> QED BY <2>2, <2>3
<1>2. sum.body = JsonText(answer.summary) /\ answer.summary.string /\ IsText(sum.body)
  BY DigestAssumption DEF Summary, JsonText
<1>3. sum.source \in Words
  <2>1. <<Head(loc)>> \in Tokens
    BY DEF Tokens
  <2>2. sum.source \in Tokens
    BY <2>1, DigestAssumption DEF Summary, JsonText, SourceFromURL
  <2> QED BY <2>2 DEF Words
<1>4. sum.type \in Words
  <2>1. <<>> \in Tokens
    BY DEF Tokens
  <2>2. sum.type \in Tokens
    BY <2>1, DigestAssumption DEF Summary, JsonText
  <2> QED BY <2>2 DEF Words
<1>5. payload.title = ComposeTitle(sum) /\ payload.labels = <<IdentityHub, BlogDigest>>
      /\ payload.description = sum.body \o ends
  BY DEF TicketFor, ComposeDescription
<1> HIDE DEF sum, payload
<1>6. /\ SourceLine(sum) \in Seq(Words) /\ SourceLine(sum) # <<Bullet>>
      /\ LinkLine(loc) \in Seq(Words) /\ LinkLine(loc) # <<Bullet>>
      /\ <<Rule>> \in Seq(Words) /\ <<Rule>> # <<Bullet>> /\ <<>> \in Seq(Words)
      /\ <<>> # <<Bullet>>
  <2>1. Rule \in Words /\ Rule # Bullet
    BY DEF Words, Rule, Bullet
  <2> QED BY <1>1, <1>3, <1>4, <2>1, SourceFacts, LinkRead
<1>7. /\ ends \in Seq(Seq(Words)) /\ Len(ends) = 4 /\ ends # <<>> /\ Last(ends) = LinkLine(loc)
      /\ \A k \in 1..4 : ends[k] # <<Bullet>>
  <2> DEFINE p == SourceLine(sum)
             q == LinkLine(loc)
             r == <<Rule>>
  <2>1. ends = << <<>>, r, p, q>> /\ ends[1] = <<>> /\ ends[2] = r /\ ends[3] = p /\ ends[4] = q
    OBVIOUS
  <2> HIDE DEF p, q, r
  <2>2. p \in Seq(Words) /\ q \in Seq(Words) /\ r \in Seq(Words) /\ <<>> \in Seq(Words)
    BY <1>6 DEF p, q, r
  <2>3. << <<>>, r, p, q>> \in Seq(Seq(Words)) /\ Len(<< <<>>, r, p, q>>) = 4
    BY <2>2
  <2>4. ends \in Seq(Seq(Words)) /\ Len(ends) = 4
    BY <2>1, <2>3
  <2> HIDE DEF ends
  <2>5. ends # <<>> /\ Last(ends) = q
    BY <2>1, <2>4, EmptySeq DEF Last
  <2>6. \A k \in 1..4 : k \in {1, 2, 3, 4}
    OBVIOUS
  <2> QED BY <1>6, <2>1, <2>4, <2>5, <2>6 DEF p, q, r
<1> HIDE DEF ends
<1>8. sum.body \in Seq(Seq(Words)) /\ \A k \in 1..Len(sum.body) : sum.body[k] # <<Bullet>>
  BY <1>2, TextWords
<1> DEFINE text == sum.body \o ends
           n == Len(sum.body)
<1>9. /\ text \in Seq(Seq(Words)) /\ Len(text) = n + 4 /\ n \in Nat
      /\ \A k \in 1..(n + 4) : text[k] = IF k <= n THEN sum.body[k] ELSE ends[k - n]
  <2> DEFINE s == sum.body
             t == ends
  <2>1. s \in Seq(Seq(Words)) /\ t \in Seq(Seq(Words)) /\ Len(t) = 4 /\ Len(s) \in Nat
    BY <1>7, <1>8, LenProperties
  <2> HIDE DEF s, t
  <2>2. /\ s \o t \in Seq(Seq(Words)) /\ Len(s \o t) = Len(s) + Len(t)
        /\ \A k \in 1..Len(s) + Len(t) :
             (s \o t)[k] = IF k <= Len(s) THEN s[k] ELSE t[k - Len(s)]
    BY <2>1, ConcatProperties
  <2>3. /\ s \o t \in Seq(Seq(Words)) /\ Len(s \o t) = Len(s) + 4
        /\ \A k \in 1..(Len(s) + 4) :
             (s \o t)[k] = IF k <= Len(s) THEN s[k] ELSE t[k - Len(s)]
    BY <2>1, <2>2
  <2> QED BY <2>1, <2>3 DEF s, t
<1>10. text # <<>> /\ Last(text) = LinkLine(loc)
  BY <1>7, <1>8, <1>9, LastConcat, EmptySeq
<1> HIDE DEF text, n
<1>11. \A k \in 1..Len(text) : text[k] # <<Bullet>>
  <2> SUFFICES ASSUME NEW k \in 1..Len(text) PROVE text[k] # <<Bullet>>
    OBVIOUS
  <2>1. CASE k <= n
    <3>1. k \in 1..n
      BY <1>9, <2>1
    <3> QED BY <1>8, <1>9, <2>1, <3>1 DEF n
  <2>2. CASE k > n
    <3>1. k - n \in 1..4 /\ k \in 1..(n + 4) /\ ~(k <= n)
      BY <1>9, <2>2
    <3> QED BY <1>7, <1>9, <3>1
  <2> QED BY <1>9, <2>1, <2>2
<1>12. <<IdentityHub, BlogDigest>> \in Seq(Seq(Letters))
  <2>1. IdentityHub \in Seq(Letters) /\ BlogDigest \in Seq(Letters)
    BY DEF IdentityHub, BlogDigest, Letters
  <2> QED BY <2>1
<1>13. PayloadOK(payload)
  BY <1>5, <1>9, <1>11, <1>12 DEF PayloadOK, text
<1>14. TicketOK(payload)
  BY <1>1, <1>5, <1>10, TitleFacts DEF TicketOK, text
<1> QED BY <1>13, <1>14 DEF sum, payload

\* It holds at first.
LEMMA ReadStart == ContentInit => ReadInv
<1> SUFFICES ASSUME ContentInit PROVE ReadInv
  OBVIOUS
<1>1. issues = <<>> /\ digests = {} /\ 1..Len(<<>>) = {}
  BY DEF ContentInit, JiraInit, DigestInit
<1> QED BY <1>1 DEF ReadInv

\* An issue more, of a payload that reads as it should.
LEMMA ReadPost ==
  ASSUME SearchInv, TicketsInv, ReadInv, Grown,
         NEW payload, PayloadOK(payload), Post(payload),
         \/ UNCHANGED digests
         \/ digests' = digests \cup {Len(issues) + 1} /\ TicketOK(payload)
  PROVE  ReadInv'
<1> DEFINE issue == [payload |-> payload, fields |-> Fields(payload)]
           n == Len(issues)
<1>1. issues' = Append(issues, issue)
  BY DEF Post
<1>2. issue.payload = payload /\ issue.fields = Fields(payload)
  OBVIOUS
<1> HIDE DEF issue
<1>3. n \in Nat /\ Len(issues') = n + 1 /\ issues'[n + 1] = issue
      /\ \A i \in 1..n : issues'[i] = issues[i]
  <2>1. PICK X : issues \in Seq(X)
    BY DEF SearchInv
  <2>2. issues \in Seq(X \cup {issue})
    BY <2>1, SeqMono
  <2> QED BY <1>1, <2>2
<1> HIDE DEF n
<1>4. \A i \in 1..(n + 1) :
        PayloadOK(issues'[i].payload) /\ issues'[i].fields = Fields(issues'[i].payload)
  <2> SUFFICES ASSUME NEW i \in 1..(n + 1)
               PROVE  PayloadOK(issues'[i].payload)
                      /\ issues'[i].fields = Fields(issues'[i].payload)
    OBVIOUS
  <2>1. CASE i = n + 1
    BY <1>2, <1>3, <2>1
  <2>2. CASE i # n + 1
    <3>1. i \in 1..n
      BY <1>3, <2>2
    <3> QED BY <1>3, <3>1 DEF ReadInv, n
  <2> QED BY <2>1, <2>2
<1>5. \A i \in digests' : TicketOK(issues'[i].payload)
  <2>1. \A i \in digests : TicketOK(issues'[i].payload)
    BY <1>3 DEF ReadInv, TicketsInv, n
  <2> QED BY <1>2, <1>3, <2>1 DEF n
<1> QED BY <1>3, <1>4, <1>5 DEF ReadInv

\* Steps that file nothing.
LEMMA ReadKept ==
  ASSUME ReadInv, UNCHANGED <<issues, digests>>
  PROVE  ReadInv'
BY DEF ReadInv

\* And after every step.
LEMMA ReadStep == ContentInv /\ ReadInv /\ [ContentNext]_contentVars => ReadInv'
<1> SUFFICES ASSUME ContentInv, ReadInv, [ContentNext]_contentVars PROVE ReadInv'
  OBVIOUS
<1>1. SearchInv /\ RowsInv /\ RunInv /\ TicketsInv /\ Grown
  BY GrownStep DEF ContentInv
<1>2. ASSUME NEW payload \in Payloads, CreateIssue(payload), UNCHANGED digests PROVE ReadInv'
  BY <1>1, <1>2, FormOK, ReadPost DEF CreateIssue
<1>3. CASE FilePost
  <2> DEFINE loc == Head(queue)
  <2>1. PICK answer \in Answers, pageTitle \in PageTitles :
          /\ JsonText(answer.summary) # <<>>
          /\ Post(TicketFor(Summary(answer, pageTitle, loc), loc))
    BY <1>3 DEF FilePost
  <2>2. digests' = digests \cup {Len(issues) + 1} /\ run = "post"
    BY <1>3 DEF FilePost
  <2>3. loc \in taken /\ copy # NoRow
    <3>1. queue \in Seq(Seq(STRING)) /\ queue # <<>> /\ \A k \in 1..Len(queue) : queue[k] \in taken
      BY <1>1, <2>2 DEF RunInv
    <3>2. loc = queue[1] /\ 1 \in 1..Len(queue)
      BY <3>1
    <3> QED BY <1>1, <2>2, <3>1, <3>2 DEF RunInv
  <2>4. loc \in Seq(STRING) /\ Under(copy.site, loc)
    BY <1>1, <2>3 DEF RunInv
  <2>5. IsSite(copy.site)
    BY <1>1, <2>3, DigestAssumption DEF RowsInv, RowOK, Asked
  <2> HIDE DEF loc
  <2>6. Len(loc) > 1
    BY <2>4, <2>5, UnderHead
  <2> DEFINE payload == TicketFor(Summary(answer, pageTitle, loc), loc)
  <2>7. PayloadOK(payload) /\ TicketOK(payload) /\ Post(payload)
    BY <2>1, <2>4, <2>6, DigestOK
  <2> HIDE DEF payload
  <2> QED BY <1>1, <2>2, <2>7, ReadPost
<1>4. CASE DigestNext /\ ~FilePost
  <2>1. UNCHANGED <<issues, digests>>
    BY <1>4 DEF DigestNext, CreateAutomation, ReadRow, WriteRow, DeleteRow, ClearSeen,
      Claim, DiscoverPosts, SkipPost, Disconnected, MarkPost, tickets, jira
  <2> QED BY <2>1, ReadKept
<1>5. CASE SearchNext /\ UNCHANGED digests
  <2>1. UNCHANGED issues
    BY <1>5 DEF SearchNext, Relabel, SearchByLabel, FetchPage, EndSearch, jira
  <2> QED BY <1>5, <2>1, ReadKept
<1>6. CASE UNCHANGED contentVars
  <2>1. UNCHANGED <<issues, digests>>
    BY <1>6 DEF contentVars, digestVars, tickets, jira
  <2> QED BY <2>1, ReadKept
<1> QED BY <1>2, <1>3, <1>4, <1>5, <1>6 DEF ContentNext, JiraNext

\* Every issue reads as its payload does, in a document that Jira accepts and with
\* labels the search finds, and the ticket of a post has a title and ends with its address
\* (adfDoc, adfInline, CreateIssue, composeDescription).
THEOREM ReadsAsMeant == ContentSpec => []Readable
<1>1. ASSUME ContentInv, ReadInv PROVE Rendered
  <2>1. DOMAIN issues = 1..Len(issues)
    BY <1>1 DEF ContentInv, SearchInv
  <2> SUFFICES ASSUME NEW i \in 1..Len(issues)
               PROVE  LET fields == issues[i].fields IN
                      /\ ReadDoc(fields.description) = ReadText(issues[i].payload.description)
                      /\ \A k \in DOMAIN fields.description : Acceptable(fields.description[k])
                      /\ Contains(fields.labels, IdentityHub)
                      /\ \A k \in DOMAIN fields.labels :
                           fields.labels[k] # <<>> /\ ~Contains(fields.labels[k], " ")
    BY <2>1 DEF Rendered
  <2>2. PayloadOK(issues[i].payload) /\ issues[i].fields = Fields(issues[i].payload)
    BY <1>1 DEF ReadInv
  <2> QED BY <2>2, FieldsRead
<1>2. ASSUME ContentInv, ReadInv PROVE Linked
  <2> SUFFICES ASSUME NEW i \in digests
               PROVE  LET fields == issues[i].fields IN
                      /\ fields.summary # <<>>
                      /\ Last(fields.description)
                           = Paragraph(<<[text |-> << <<"Link:">> >>, bold |-> TRUE],
                                         [text |-> <<PostOf(i)>>, bold |-> FALSE]>>)
    BY DEF Linked
  <2> DEFINE payload == issues[i].payload
             fields == issues[i].fields
             text == payload.description
  <2>1. PayloadOK(payload) /\ fields = Fields(payload) /\ TicketOK(payload)
    <3>1. i \in 1..Len(issues)
      BY <1>2 DEF ContentInv, TicketsInv
    <3> QED BY <1>2, <3>1 DEF ReadInv
  <2>2. PostOf(i) = Last(Last(text))
    BY DEF PostOf
  <2> HIDE DEF payload, fields
  <2>3. PICK loc \in Words \ {Star} : Last(text) = LinkLine(loc)
    BY <2>1 DEF TicketOK
  <2>4. PostOf(i) = loc
    <3>1. Last(LinkLine(loc)) = loc
      BY DEF LinkLine, Last
    <3> QED BY <2>2, <2>3, <3>1
  <2>5. /\ Ordinary(LinkLine(loc))
        /\ AdfInline(LinkLine(loc)) = <<[text |-> << <<"Link:">> >>, bold |-> TRUE],
                                        [text |-> <<loc>>, bold |-> FALSE]>>
    BY LinkRead
  <2>6. fields.summary = payload.title /\ payload.title # <<>>
    BY <2>1 DEF Fields, TicketOK
  <2>7. text \in Seq(Seq(Words)) /\ (\A k \in 1..Len(text) : text[k] # <<Bullet>>) /\ text # <<>>
    BY <2>1 DEF PayloadOK, TicketOK
  <2>8. fields.description = AdfDoc(text)
    <3>1. Len(text) \in DOMAIN text /\ text[Len(text)] = LinkLine(loc)
      BY <2>3, <2>7, LenProperties, EmptySeq DEF Last
    <3>2. LinkLine(loc) # <<>>
      BY <2>5 DEF Ordinary
    <3> HIDE DEF text
    <3>3. \E j \in DOMAIN text : text[j] # <<>>
      BY <3>1, <3>2
    <3> QED BY <2>1, <3>3 DEF Fields, text
  <2>9. Last(AdfDoc(text)) = Paragraph(AdfInline(LinkLine(loc)))
    <3> HIDE DEF text
    <3> QED BY <2>3, <2>5, <2>7, DocRead
  <2> QED BY <2>4, <2>5, <2>6, <2>8, <2>9 DEF fields
<1>3. ContentInv /\ ReadInv => Readable
  BY <1>1, <1>2 DEF Readable
<1> QED BY <1>3, ContentAlways, ReadStart, ReadStep, PTL DEF ContentSpec
=============================================================================
