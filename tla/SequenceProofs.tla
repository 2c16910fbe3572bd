--------------------------- MODULE SequenceProofs ---------------------------
(***************************************************************************)
(* Induction over the naturals in the form the provers can use, with a set *)
(* in place of a predicate, and what FlattenSeq makes of a sequence that   *)
(* has grown by one element.                                               *)
(***************************************************************************)
EXTENDS Integers, Sequences, SequencesExt, SequenceTheorems, WellFoundedInduction, TLAPS

-----------------------------------------------------------------------------
(* Induction *)

\* Every set of naturals with an element has a smallest one.
LEMMA SmallestOf ==
  ASSUME NEW T \in SUBSET Nat, T # {}
  PROVE  \E n \in T : \A m \in T : n <= m
  <1> DEFINE R == OpToRel(<, Nat)
  <1>1. IsWellFoundedOn(R, Nat)
    BY NatLessThanWellFounded
  <1>2. \A x, y \in Nat : x < y => <<x, y>> \in R
    BY DEF OpToRel
  <1> HIDE DEF R
  <1>3. PICK n \in T : \A y \in T : <<y, n>> \notin R
    BY <1>1, WFMin
  <1>4. \A m \in T : ~(m < n)
    BY <1>2, <1>3
  <1>5. n \in Nat /\ \A m \in T : m \in Nat
    OBVIOUS
  <1>6. \A m \in T : n <= m
    BY <1>4, <1>5
  <1> QED BY <1>6

\* A set that has 0 and the successor of each of its naturals has them all.
LEMMA SetInduction ==
  ASSUME NEW S, 0 \in S, \A n \in Nat : n \in S => n + 1 \in S
  PROVE  \A n \in Nat : n \in S
  <1> SUFFICES ASSUME NEW k \in Nat, k \notin S PROVE FALSE
    OBVIOUS
  <1> DEFINE T == {n \in Nat : n \notin S}
  <1>1. PICK n \in T : \A m \in T : n <= m
    BY SmallestOf
  <1>2. n \in Nat /\ n # 0
    BY <1>1
  <1>3. n - 1 \in Nat /\ n - 1 \notin T
    BY <1>1, <1>2
  <1> QED BY <1>1, <1>2, <1>3

-----------------------------------------------------------------------------
(* FlattenSeq *)

\* f[i] is the concatenation of the first i elements of ss.
Flattens(f, ss) ==
    f = [i \in 1 .. Len(ss) |-> IF i = 1 THEN ss[i] ELSE f[i - 1] \o ss[i]]

\* There is only one such f.
LEMMA FlattensUnique ==
  ASSUME NEW ss, Len(ss) \in Nat, NEW f, NEW g, Flattens(f, ss), Flattens(g, ss)
  PROVE  f = g
  <1> DEFINE n == Len(ss)
             S == {i \in Nat : i \in 1 .. n => f[i] = g[i]}
  <1>1. \A i \in 1 .. n : /\ f[i] = IF i = 1 THEN ss[i] ELSE f[i - 1] \o ss[i]
                          /\ g[i] = IF i = 1 THEN ss[i] ELSE g[i - 1] \o ss[i]
    BY Zenon DEF Flattens
  <1>2. 0 \in S
    OBVIOUS
  <1>3. ASSUME NEW i \in Nat, i \in S PROVE i + 1 \in S
    <2> SUFFICES ASSUME i + 1 \in 1 .. n PROVE f[i + 1] = g[i + 1]
      OBVIOUS
    <2>1. CASE i = 0
      BY <1>1, <2>1
    <2>2. CASE i # 0
      <3>1. i \in 1 .. n /\ i + 1 # 1 /\ (i + 1) - 1 = i
        BY <2>2
      <3>2. f[i] = g[i]
        BY <1>3, <3>1
      <3> QED BY <1>1, <3>1, <3>2
    <2> QED BY <2>1, <2>2
  <1> HIDE DEF S
  <1>4. \A i \in Nat : i \in S
    BY <1>2, <1>3, SetInduction
  <1>5. \A i \in 1 .. n : f[i] = g[i]
    BY <1>4 DEF S
  <1>6. f = [i \in 1 .. n |-> f[i]] /\ g = [i \in 1 .. n |-> g[i]]
    BY DEF Flattens
  <1> QED BY <1>5, <1>6

\* What FlattenSeq picks is that f.
LEMMA FlattenPicks ==
  ASSUME NEW ss, Len(ss) \in Nat \ {0}, NEW f, Flattens(f, ss)
  PROVE  FlattenSeq(ss) = f[Len(ss)]
  <1>1. f = [i \in 1 .. Len(ss) |-> IF i = 1 THEN ss[i] ELSE f[i - 1] \o ss[i]]
    BY DEF Flattens
  <1>2. \A g : g = [i \in 1 .. Len(ss) |-> IF i = 1 THEN ss[i] ELSE g[i - 1] \o ss[i]] => g = f
    <2> SUFFICES ASSUME NEW g,
                        g = [i \in 1 .. Len(ss) |-> IF i = 1 THEN ss[i] ELSE g[i - 1] \o ss[i]]
                 PROVE  g = f
      BY Zenon
    <2>1. Flattens(g, ss)
      BY Zenon DEF Flattens
    <2> QED BY <2>1, FlattensUnique
  <1>3. Len(ss) # 0
    OBVIOUS
  <1> QED BY <1>1, <1>2, <1>3, Zenon DEF FlattenSeq

\* One element more: the concatenation so far, and then the element.
LEMMA FlattensAppend ==
  ASSUME NEW S, NEW ss \in Seq(Seq(S)), NEW x \in Seq(S),
         NEW f \in [1 .. Len(ss) -> Seq(S)], Flattens(f, ss)
  PROVE  LET n == Len(ss)
             w == IF n = 0 THEN x ELSE f[n] \o x
             g == [i \in 1 .. n + 1 |-> IF i <= n THEN f[i] ELSE w]
         IN  g \in [1 .. n + 1 -> Seq(S)] /\ Flattens(g, Append(ss, x))
  <1> DEFINE n == Len(ss)
             w == IF n = 0 THEN x ELSE f[n] \o x
             g == [i \in 1 .. n + 1 |-> IF i <= n THEN f[i] ELSE w]
             t == Append(ss, x)
  <1>1. n \in Nat
    OBVIOUS
  <1>2. t \in Seq(Seq(S)) /\ Len(t) = n + 1 /\ (\A i \in 1 .. n : t[i] = ss[i]) /\ t[n + 1] = x
    OBVIOUS
  <1>3. w \in Seq(S)
    <2>1. CASE n = 0
      BY <2>1
    <2>2. CASE n # 0
      <3>1. n \in 1 .. n
        BY <1>1, <2>2
      <3>2. f[n] \in Seq(S)
        BY <3>1, Zenon
      <3>3. f[n] \o x \in Seq(S)
        BY <3>2, ConcatProperties
      <3> QED BY <2>2, <3>3
    <2> QED BY <2>1, <2>2
  <1>4. g \in [1 .. n + 1 -> Seq(S)]
    <2>1. \A i \in 1 .. n + 1 : (IF i <= n THEN f[i] ELSE w) \in Seq(S)
      <3> SUFFICES ASSUME NEW i \in 1 .. n + 1, i <= n PROVE f[i] \in Seq(S)
        BY <1>3
      <3>1. i \in 1 .. n
        BY <1>1
      <3> QED BY <3>1, Zenon
    <2> HIDE DEF w
    <2> QED BY <2>1
  <1>5. \A i \in 1 .. n : f[i] = IF i = 1 THEN ss[i] ELSE f[i - 1] \o ss[i]
    BY Zenon DEF Flattens
  <1>6. ASSUME NEW i \in 1 .. n + 1
        PROVE  (IF i <= n THEN f[i] ELSE w) = IF i = 1 THEN t[i] ELSE g[i - 1] \o t[i]
    <2>1. CASE i <= n
      <3>1. i \in 1 .. n /\ t[i] = ss[i]
        BY <1>1, <1>2, <2>1
      <3>2. CASE i = 1
        BY <1>5, <2>1, <3>1, <3>2
      <3>3. CASE i # 1
        <4>1. i - 1 \in 1 .. n + 1 /\ i - 1 <= n
          BY <1>1, <2>1, <3>3
        <4>2. g[i - 1] = f[i - 1]
          BY <4>1
        <4> HIDE DEF g, t
        <4> QED BY <1>5, <2>1, <3>1, <3>3, <4>2
      <3> QED BY <3>2, <3>3
    <2>2. CASE i = n + 1
      <3>1. ~(i <= n) /\ t[i] = x /\ i - 1 = n
        BY <1>1, <1>2, <2>2
      <3>2. CASE n = 0
        BY <2>2, <3>1, <3>2
      <3>3. CASE n # 0
        <4>1. n \in 1 .. n + 1 /\ n <= n /\ i # 1
          BY <1>1, <2>2, <3>3
        <4>2. g[i - 1] = f[n]
          BY <3>1, <4>1
        <4> HIDE DEF g, t
        <4> QED BY <3>1, <3>3, <4>1, <4>2
      <3> QED BY <3>2, <3>3
    <2> QED BY <1>1, <2>1, <2>2
  <1>7. g = [i \in 1 .. Len(t) |-> IF i = 1 THEN t[i] ELSE g[i - 1] \o t[i]]
    <2>1. g = [i \in 1 .. n + 1 |-> IF i = 1 THEN t[i] ELSE g[i - 1] \o t[i]]
      BY <1>6, Zenon
    <2> HIDE DEF g, t
    <2> QED BY <1>2, <2>1
  <1> QED BY <1>4, <1>7, Zenon DEF Flattens

\* Every sequence of sequences has such an f.
LEMMA FlattensExists ==
  ASSUME NEW S, NEW ss \in Seq(Seq(S))
  PROVE  \E f \in [1 .. Len(ss) -> Seq(S)] : Flattens(f, ss)
  <1> DEFINE P(n) == \A tt \in Seq(Seq(S)) : Len(tt) = n =>
                        \E f \in [1 .. Len(tt) -> Seq(S)] : Flattens(f, tt)
             N == {n \in Nat : P(n)}
  <1>1. P(0)
    <2> SUFFICES ASSUME NEW tt \in Seq(Seq(S)), Len(tt) = 0
                 PROVE  \E f \in [1 .. Len(tt) -> Seq(S)] : Flattens(f, tt)
      OBVIOUS
    <2> DEFINE f == [i \in 1 .. 0 |-> <<>>]
    <2>0. 1 .. Len(tt) = {} /\ 1 .. 0 = {}
      OBVIOUS
    <2>1. f \in [1 .. Len(tt) -> Seq(S)]
      BY <2>0
    <2>2. Flattens(f, tt)
      BY <2>0 DEF Flattens
    <2> QED BY <2>1, <2>2
  <1>2. ASSUME NEW n \in Nat, P(n) PROVE P(n + 1)
    <2> SUFFICES ASSUME NEW tt \in Seq(Seq(S)), Len(tt) = n + 1
                 PROVE  \E f \in [1 .. Len(tt) -> Seq(S)] : Flattens(f, tt)
      OBVIOUS
    <2> DEFINE uu == SubSeq(tt, 1, n)
               x == tt[n + 1]
    <2>1. uu \in Seq(Seq(S)) /\ Len(uu) = n /\ x \in Seq(S)
      OBVIOUS
    <2>2. tt = Append(uu, x)
      <3>1. Append(uu, x) \in Seq(Seq(S)) /\ Len(Append(uu, x)) = n + 1
        BY <2>1
      <3>2. \A i \in 1 .. n + 1 : Append(uu, x)[i] = tt[i]
        BY <2>1
      <3> HIDE DEF uu, x
      <3> QED BY <3>1, <3>2, SeqEqual
    <2> HIDE DEF uu, x
    <2>3. PICK f \in [1 .. Len(uu) -> Seq(S)] : Flattens(f, uu)
      BY <1>2, <2>1
    <2>4. \E g \in [1 .. n + 1 -> Seq(S)] : Flattens(g, tt)
      BY <2>1, <2>2, <2>3, FlattensAppend
    <2> QED BY <2>4
  <1> HIDE DEF P
  <1>3. \A n \in Nat : n \in N
    <2>1. 0 \in N
      BY <1>1
    <2>2. \A n \in Nat : n \in N => n + 1 \in N
      BY <1>2
    <2> HIDE DEF N
    <2> QED BY <2>1, <2>2, SetInduction
  <1>4. P(Len(ss))
    BY <1>3
  <1> QED BY <1>4 DEF P

\* FlattenSeq of nothing, of anything, and of one element more.
LEMMA FlattenEmpty == FlattenSeq(<<>>) = <<>>
  BY DEF FlattenSeq

LEMMA FlattenAppend ==
  ASSUME NEW S, NEW ss \in Seq(Seq(S)), NEW x \in Seq(S)
  PROVE  /\ FlattenSeq(ss) \in Seq(S)
         /\ FlattenSeq(Append(ss, x)) = FlattenSeq(ss) \o x
  <1> DEFINE n == Len(ss)
  <1>1. PICK f \in [1 .. n -> Seq(S)] : Flattens(f, ss)
    BY FlattensExists
  <1> DEFINE w == IF n = 0 THEN x ELSE f[n] \o x
             g == [i \in 1 .. n + 1 |-> IF i <= n THEN f[i] ELSE w]
             t == Append(ss, x)
  <1>2. Flattens(g, t)
    BY <1>1, FlattensAppend
  <1>3. n \in Nat /\ Len(t) = n + 1 /\ Len(t) \in Nat \ {0}
    OBVIOUS
  <1>4. g[n + 1] = w
    BY <1>3
  <1>5. FlattenSeq(t) = w
    <2> HIDE DEF g, t, w
    <2> QED BY <1>2, <1>3, <1>4, FlattenPicks
  <1>6. CASE n = 0
    <2>1. ss = <<>>
      BY <1>6
    <2>2. FlattenSeq(ss) = <<>>
      BY <2>1, FlattenEmpty
    <2>3. <<>> \o x = x /\ <<>> \in Seq(S)
      BY ConcatEmptySeq
    <2> QED BY <1>5, <1>6, <2>2, <2>3
  <1>7. CASE n # 0
    <2>1. FlattenSeq(ss) = f[n]
      BY <1>1, <1>3, <1>7, FlattenPicks
    <2>2. f[n] \in Seq(S)
      BY <1>1, <1>3, <1>7
    <2> QED BY <1>5, <1>7, <2>1, <2>2
  <1> QED BY <1>6, <1>7

-----------------------------------------------------------------------------
(* Prefixes *)

\* The first n elements.
LEMMA FrontOf ==
  ASSUME NEW S, NEW s \in Seq(S), NEW n \in 0 .. Len(s)
  PROVE  /\ SubSeq(s, 1, n) \in Seq(S) /\ Len(SubSeq(s, 1, n)) = n
         /\ \A i \in 1 .. n : SubSeq(s, 1, n)[i] = s[i]
  <1>1. \A i \in 1 .. n : s[i] \in S
    OBVIOUS
  <1>2. n \in Int /\ 1 \in Int
    OBVIOUS
  <1>3. /\ SubSeq(s, 1, n) \in Seq(S)
        /\ Len(SubSeq(s, 1, n)) = IF 1 <= n THEN n - 1 + 1 ELSE 0
        /\ \A i \in 1 .. n - 1 + 1 : SubSeq(s, 1, n)[i] = s[1 + i - 1]
    BY <1>1, <1>2, SubSeqProperties
  <1> QED BY <1>3

\* They are the same after the sequence has grown.
LEMMA FrontOfAppend ==
  ASSUME NEW S, NEW s \in Seq(S), NEW x \in S, NEW n \in 0 .. Len(s)
  PROVE  SubSeq(Append(s, x), 1, n) = SubSeq(s, 1, n)
  <1> DEFINE t == Append(s, x)
             a == SubSeq(t, 1, n)
             b == SubSeq(s, 1, n)
  <1>1. t \in Seq(S) /\ Len(t) = Len(s) + 1 /\ \A i \in 1 .. Len(s) : t[i] = s[i]
    OBVIOUS
  <1>2. n \in 0 .. Len(t)
    BY <1>1
  <1> HIDE DEF t
  <1>3. a \in Seq(S) /\ Len(a) = n /\ \A i \in 1 .. n : a[i] = t[i]
    BY <1>1, <1>2, FrontOf
  <1>4. b \in Seq(S) /\ Len(b) = n /\ \A i \in 1 .. n : b[i] = s[i]
    BY FrontOf
  <1> HIDE DEF a, b
  <1>5. \A i \in 1 .. n : a[i] = b[i]
    BY <1>1, <1>3, <1>4
  <1>6. a = b
    BY <1>3, <1>4, <1>5, SeqEqual
  <1> QED BY <1>6 DEF a, b, t

\* One element more.
LEMMA FrontGrows ==
  ASSUME NEW S, NEW s \in Seq(S), NEW n \in 1 .. Len(s)
  PROVE  SubSeq(s, 1, n) = Append(SubSeq(s, 1, n - 1), s[n])
  <1> DEFINE a == SubSeq(s, 1, n)
             b == SubSeq(s, 1, n - 1)
             c == Append(b, s[n])
  <1>1. a \in Seq(S) /\ Len(a) = n /\ \A i \in 1 .. n : a[i] = s[i]
    BY FrontOf
  <1>2. n - 1 \in 0 .. Len(s) /\ s[n] \in S
    OBVIOUS
  <1>3. b \in Seq(S) /\ Len(b) = n - 1 /\ \A i \in 1 .. n - 1 : b[i] = s[i]
    BY <1>2, FrontOf
  <1> HIDE DEF a, b
  <1>4. c \in Seq(S) /\ Len(c) = n
    BY <1>2, <1>3
  <1>5. \A i \in 1 .. n : c[i] = s[i]
    BY <1>2, <1>3
  <1> HIDE DEF c
  <1>6. \A i \in 1 .. n : a[i] = c[i]
    BY <1>1, <1>5
  <1>7. a = c
    BY <1>1, <1>4, <1>6, SeqEqual
  <1> QED BY <1>7 DEF a, b, c

\* What comes first in a concatenation is a prefix of it.
LEMMA PrefixOfConcat ==
  ASSUME NEW S, NEW s \in Seq(S), NEW t \in Seq(S)
  PROVE  IsPrefix(s, s \o t)
  <1> DEFINE u == s \o t
             n == Len(s)
             a == SubSeq(s, 1, n)
             b == SubSeq(u, 1, n)
  <1>1. /\ u \in Seq(S) /\ Len(u) = n + Len(t)
        /\ \A i \in 1 .. n + Len(t) : u[i] = IF i <= n THEN s[i] ELSE t[i - n]
    BY ConcatProperties, Zenon
  <1>2. n \in Nat /\ Len(t) \in Nat /\ n \in 0 .. n
    OBVIOUS
  <1> HIDE DEF u
  <1>3. n \in 0 .. Len(u) /\ \A i \in 1 .. n : u[i] = s[i]
    BY <1>1, <1>2
  <1>4. a \in Seq(S) /\ Len(a) = n /\ \A i \in 1 .. n : a[i] = s[i]
    BY <1>2, FrontOf
  <1>5. b \in Seq(S) /\ Len(b) = n /\ \A i \in 1 .. n : b[i] = u[i]
    BY <1>1, <1>3, FrontOf
  <1> HIDE DEF a, b
  <1>6. \A i \in 1 .. n : a[i] = b[i]
    BY <1>3, <1>4, <1>5
  <1>7. a = b
    BY <1>4, <1>5, <1>6, SeqEqual
  <1>8. n <= Len(u)
    BY <1>1, <1>2
  <1> QED BY <1>7, <1>8 DEF IsPrefix, a, b, u

\* Moving the boundary of a concatenation by one element.
LEMMA ConcatShift ==
  ASSUME NEW S, NEW s \in Seq(S), NEW t \in Seq(S), t # <<>>
  PROVE  Append(s, Head(t)) \o Tail(t) = s \o t
  <1> DEFINE x == Head(t)
             r == Tail(t)
             o == <<x>>
  <1>1. x \in S /\ r \in Seq(S)
    BY HeadTailProperties
  <1>2. o \in Seq(S)
    BY <1>1
  <1>3. t = o \o r
    <2> DEFINE u == o \o r
    <2>1. /\ u \in Seq(S) /\ Len(u) = Len(o) + Len(r)
          /\ \A i \in 1 .. Len(o) + Len(r) : u[i] = IF i <= Len(o) THEN o[i] ELSE r[i - Len(o)]
      <3> HIDE DEF o, r
      <3> QED BY <1>1, <1>2, ConcatProperties, Zenon
    <2>2. Len(o) = 1 /\ o[1] = x /\ x = t[1]
      OBVIOUS
    <2>3. Len(t) \in Nat \ {0} /\ Len(r) = Len(t) - 1 /\ \A i \in 1 .. Len(r) : r[i] = t[i + 1]
      BY HeadTailProperties, EmptySeq
    <2> HIDE DEF o, r, x, u
    <2>4. Len(u) = Len(t)
      BY <2>1, <2>2, <2>3
    <2>5. \A i \in 1 .. Len(t) : u[i] = t[i]
      <3> SUFFICES ASSUME NEW i \in 1 .. Len(t) PROVE u[i] = t[i]
        OBVIOUS
      <3>1. CASE i = 1
        BY <2>1, <2>2, <2>3, <3>1
      <3>2. CASE i # 1
        <4>1. i - 1 \in 1 .. Len(r) /\ (i - 1) + 1 = i /\ i \in 1 .. Len(o) + Len(r) /\ ~(i <= Len(o))
          BY <2>2, <2>3, <3>2
        <4>2. r[i - 1] = t[i]
          BY <2>3, <4>1
        <4> QED BY <2>1, <2>2, <4>1, <4>2
      <3> QED BY <3>1, <3>2
    <2>6. u = t
      BY <2>1, <2>4, <2>5, SeqEqual
    <2> QED BY <2>6 DEF u
  <1>4. Append(s, x) = s \o o
    <2> DEFINE a == Append(s, x)
               b == s \o o
    <2>1. a \in Seq(S) /\ Len(a) = Len(s) + 1 /\ a[Len(s) + 1] = x /\ \A i \in 1 .. Len(s) : a[i] = s[i]
      <3> HIDE DEF x
      <3> QED BY <1>1
    <2>2. /\ b \in Seq(S) /\ Len(b) = Len(s) + Len(o)
          /\ \A i \in 1 .. Len(s) + Len(o) : b[i] = IF i <= Len(s) THEN s[i] ELSE o[i - Len(s)]
      <3> HIDE DEF o
      <3> QED BY <1>2, ConcatProperties, Zenon
    <2>3. Len(o) = 1 /\ o[1] = x /\ Len(s) \in Nat
      OBVIOUS
    <2> HIDE DEF a, b, o, x
    <2>4. Len(a) = Len(b)
      BY <2>1, <2>2, <2>3
    <2>5. \A i \in 1 .. Len(a) : a[i] = b[i]
      <3> SUFFICES ASSUME NEW i \in 1 .. Len(a) PROVE a[i] = b[i]
        OBVIOUS
      <3>1. CASE i <= Len(s)
        BY <2>1, <2>2, <2>3, <3>1
      <3>2. CASE i = Len(s) + 1
        <4>1. i - Len(s) = 1 /\ ~(i <= Len(s)) /\ i \in 1 .. Len(s) + Len(o)
          BY <2>3, <3>2
        <4> QED BY <2>1, <2>2, <2>3, <3>2, <4>1
      <3> QED BY <2>1, <2>3, <3>1, <3>2
    <2>6. a = b
      BY <2>1, <2>2, <2>4, <2>5, SeqEqual
    <2> QED BY <2>6 DEF a, b
  <1> HIDE DEF o, x, r
  <1>5. (s \o o) \o r = s \o (o \o r)
    BY <1>1, <1>2, ConcatAssociative
  <1>6. Append(s, x) \o r = s \o t
    BY <1>3, <1>4, <1>5, Zenon
  <1> QED BY <1>6 DEF x, r
=============================================================================
