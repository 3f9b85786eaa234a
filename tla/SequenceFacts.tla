--------------------------- MODULE SequenceFacts ---------------------------
(***************************************************************************)
(* Induction, and what FlattenSeq computes for every sequence of sequences.*)
(* The induction theorems of the library take a predicate; here a property *)
(* is the set of the numbers that have it, and that every number does      *)
(* follows from the well-foundedness of strict inclusion of finite sets.   *)
(***************************************************************************)
EXTENDS SequencesExt, FiniteSetTheorems, SequenceTheorems, WellFoundedInduction, TLAPS

\* A set of natural numbers that is not empty has a least element.
LEMMA LeastNatural ==
  ASSUME NEW T \in SUBSET Nat, T # {}
  PROVE  \E x \in T : \A y \in T : x <= y
<1> DEFINE F == {1 .. n : n \in T}
<1>1. F \subseteq FiniteSubsetsOf(Nat)
  <2> SUFFICES ASSUME NEW n \in T PROVE 1 .. n \in FiniteSubsetsOf(Nat)
    OBVIOUS
  <2>1. IsFiniteSet(1 .. n)
    BY FS_Interval
  <2>2. QED BY <2>1 DEF FiniteSubsetsOf
<1>2. F # {}
  OBVIOUS
<1>3. PICK X \in F : \A Y \in F : ~ (<<Y, X>> \in StrictSubsetOrdering(Nat))
  <2>1. IsWellFoundedOn(StrictSubsetOrdering(Nat), FiniteSubsetsOf(Nat))
    BY FS_StrictSubsetOrderingWellFounded
  <2> HIDE DEF F
  <2>2. QED BY <1>1, <1>2, <2>1, WFMin
<1>4. PICK x \in T : X = 1 .. x
  BY <1>3
<1>5. \A y \in T : x <= y
  <2> SUFFICES ASSUME NEW y \in T, y < x PROVE FALSE
    OBVIOUS
  <2>1. 1 .. y \subseteq 1 .. x /\ 1 .. y # 1 .. x
    <3>1. x \in 1 .. x /\ x \notin 1 .. y
      OBVIOUS
    <3>2. QED BY <3>1
  <2>2. <<1 .. y, 1 .. x>> \in StrictSubsetOrdering(Nat)
    <3>1. 1 .. y \in SUBSET Nat /\ 1 .. x \in SUBSET Nat
      OBVIOUS
    <3>2. QED BY <2>1, <3>1 DEF StrictSubsetOrdering
  <2>3. QED BY <1>3, <1>4, <2>2
<1>6. QED BY <1>5

\* Induction, with the set of the numbers that have the property.
LEMMA Induction ==
  ASSUME NEW P, 0 \in P, \A n \in Nat : n \in P => n + 1 \in P
  PROVE  \A n \in Nat : n \in P
<1> SUFFICES ASSUME Nat \ P # {} PROVE FALSE
  OBVIOUS
<1>1. PICK x \in Nat \ P : \A y \in Nat \ P : x <= y
  BY LeastNatural
<1>2. x # 0
  OBVIOUS
<1>3. x - 1 \in Nat /\ x - 1 \in P
  BY <1>1, <1>2
<1>4. QED BY <1>3

-----------------------------------------------------------------------------
\* f holds the prefixes that FlattenSeq concatenates.
Accumulates(f, seqs, k) ==
  \A i \in 1 .. k : f[i] = IF i = 1 THEN seqs[i] ELSE f[i - 1] \o seqs[i]

\* There are such prefixes, and they are sequences over the same set.
LEMMA PrefixesExist ==
  ASSUME NEW S, NEW seqs \in Seq(Seq(S))
  PROVE  \E f \in [1 .. Len(seqs) -> Seq(S)] : Accumulates(f, seqs, Len(seqs))
<1> DEFINE Upto(k) == \E f \in [1 .. k -> Seq(S)] : Accumulates(f, seqs, k)
           P == {k \in Nat : k <= Len(seqs) => Upto(k)}
<1>1. Upto(0)
  <2> DEFINE f == [i \in 1 .. 0 |-> <<>>]
  <2>1. f \in [1 .. 0 -> Seq(S)] /\ 1 .. 0 = {}
    OBVIOUS
  <2>2. Accumulates(f, seqs, 0)
    BY <2>1 DEF Accumulates
  <2> HIDE DEF f
  <2>3. QED BY <2>1, <2>2
<1>2. ASSUME NEW n \in Nat, n + 1 <= Len(seqs), Upto(n) PROVE Upto(n + 1)
  <2>1. PICK f \in [1 .. n -> Seq(S)] : Accumulates(f, seqs, n)
    BY <1>2
  <2> DEFINE last == IF n = 0 THEN seqs[1] ELSE f[n] \o seqs[n + 1]
             g == [i \in 1 .. n + 1 |-> IF i = n + 1 THEN last ELSE f[i]]
  <2>2. last \in Seq(S)
    BY <1>2
  <2> HIDE DEF last
  <2>3. g \in [1 .. n + 1 -> Seq(S)]
    BY <2>2
  <2>4. \A i \in 1 .. n + 1 : g[i] = IF i = 1 THEN seqs[i] ELSE g[i - 1] \o seqs[i]
    <3> SUFFICES ASSUME NEW i \in 1 .. n + 1
                 PROVE  g[i] = IF i = 1 THEN seqs[i] ELSE g[i - 1] \o seqs[i]
      OBVIOUS
    <3>1. CASE i = n + 1
      BY <3>1 DEF last
    <3>2. CASE i # n + 1
      <4>1. i \in 1 .. n
        BY <3>2
      <4>2. g[i] = f[i] /\ (i # 1 => g[i - 1] = f[i - 1])
        BY <4>1
      <4>3. QED BY <4>1, <4>2, <2>1 DEF Accumulates
    <3>3. QED BY <3>1, <3>2
  <2>5. QED
    <3> HIDE DEF g
    <3>1. QED BY <2>3, <2>4 DEF Accumulates
<1> HIDE DEF Upto
<1>3. 0 \in P
  BY <1>1
<1>4. \A n \in Nat : n \in P => n + 1 \in P
  BY <1>2
<1>5. \A n \in Nat : n \in P
  <2> HIDE DEF P
  <2>1. QED BY <1>3, <1>4, Induction
<1>6. Len(seqs) \in P /\ Len(seqs) \in Nat
  BY <1>5
<1>7. Upto(Len(seqs))
  BY <1>6
<1>8. QED BY <1>7 DEF Upto

\* And there are no others.
LEMMA PrefixesUnique ==
  ASSUME NEW seqs, NEW m \in Nat, NEW f, NEW g,
         Accumulates(f, seqs, m), Accumulates(g, seqs, m)
  PROVE  \A i \in 1 .. m : f[i] = g[i]
<1> DEFINE P == {k \in Nat : k \in 1 .. m => f[k] = g[k]}
<1>1. 0 \in P
  OBVIOUS
<1>2. ASSUME NEW n \in Nat, n \in P PROVE n + 1 \in P
  <2> SUFFICES ASSUME n + 1 \in 1 .. m PROVE f[n + 1] = g[n + 1]
    OBVIOUS
  <2>1. CASE n = 0
    BY <2>1 DEF Accumulates
  <2>2. CASE n # 0
    <3>1. f[n] = g[n]
      BY <1>2, <2>2
    <3>2. \A i \in 1 .. m : i # 1 => /\ f[i] = f[i - 1] \o seqs[i]
                                     /\ g[i] = g[i - 1] \o seqs[i]
      BY DEF Accumulates
    <3>3. PICK i \in 1 .. m : i = n + 1 /\ i # 1 /\ i - 1 = n
      BY <2>2
    <3>4. f[i] = g[i]
      BY <3>1, <3>2, <3>3
    <3>5. QED BY <3>3, <3>4
  <2>3. QED BY <2>1, <2>2
<1>3. \A n \in Nat : n \in P
  <2> HIDE DEF P
  <2>1. QED BY <1>1, <1>2, Induction
<1>4. QED BY <1>3

\* FlattenSeq yields the last of the prefixes.
LEMMA FlattenIsLast ==
  ASSUME NEW S, NEW seqs \in Seq(Seq(S)), seqs # <<>>,
         NEW f, Accumulates(f, seqs, Len(seqs))
  PROVE  FlattenSeq(seqs) = f[Len(seqs)]
<1> DEFINE rhs(h) == [i \in 1 .. Len(seqs) |-> IF i = 1 THEN seqs[i] ELSE h[i - 1] \o seqs[i]]
           c == CHOOSE h : h = rhs(h)
<1>1. PICK e \in [1 .. Len(seqs) -> Seq(S)] : Accumulates(e, seqs, Len(seqs))
  BY PrefixesExist
<1>2. e = rhs(e)
  BY <1>1 DEF Accumulates
<1>3. c = rhs(c)
  <2> HIDE DEF rhs
  <2>1. QED BY <1>2
<1>4. Accumulates(c, seqs, Len(seqs))
  <2>1. \A i \in 1 .. Len(seqs) : rhs(c)[i] = IF i = 1 THEN seqs[i] ELSE c[i - 1] \o seqs[i]
    <3> HIDE DEF c
    <3>1. QED OBVIOUS
  <2> HIDE DEF c, rhs
  <2>2. QED BY <1>3, <2>1 DEF Accumulates
<1>5. Len(seqs) \in Nat /\ Len(seqs) # 0
  OBVIOUS
<1>6. FlattenSeq(seqs) = c[Len(seqs)]
  BY <1>5 DEF FlattenSeq
<1> HIDE DEF c
<1>7. c[Len(seqs)] = f[Len(seqs)]
  BY <1>4, <1>5, PrefixesUnique
<1>8. QED BY <1>6, <1>7

\* Induction on sequences that grow at their end.
LEMMA SequenceInduction ==
  ASSUME NEW S, NEW P, <<>> \in P,
         \A s \in Seq(S) : \A e \in S : s \in P => Append(s, e) \in P
  PROVE  \A s \in Seq(S) : s \in P
<1> DEFINE Q == {n \in Nat : \A s \in Seq(S) : Len(s) = n => s \in P}
<1>1. 0 \in Q
  <2>1. \A s \in Seq(S) : Len(s) = 0 => s = <<>>
    OBVIOUS
  <2>2. QED BY <2>1
<1>2. ASSUME NEW n \in Nat, n \in Q PROVE n + 1 \in Q
  <2> SUFFICES ASSUME NEW s \in Seq(S), Len(s) = n + 1 PROVE s \in P
    OBVIOUS
  <2> DEFINE f == [i \in 1 .. n |-> s[i]]
  <2>1. f \in Seq(S) /\ Len(f) = n
    OBVIOUS
  <2>2. s[n + 1] \in S
    OBVIOUS
  <2>3. s = Append(f, s[n + 1])
    OBVIOUS
  <2>4. f \in P
    BY <1>2, <2>1
  <2> HIDE DEF f
  <2>5. QED BY <2>1, <2>2, <2>3, <2>4
<1>3. \A n \in Nat : n \in Q
  <2> HIDE DEF Q
  <2>1. QED BY <1>1, <1>2, Induction
<1>4. QED
  <2> SUFFICES ASSUME NEW s \in Seq(S) PROVE s \in P
    OBVIOUS
  <2>1. Len(s) \in Nat
    OBVIOUS
  <2>2. Len(s) \in Q
    BY <1>3, <2>1
  <2>3. QED BY <2>2

\* Nothing is made of nothing.
LEMMA FlattenEmpty == FlattenSeq(<<>>) = <<>>
BY DEF FlattenSeq

\* What is appended ends up at the end.
LEMMA FlattenAppend ==
  ASSUME NEW S, NEW seqs \in Seq(Seq(S)), NEW s \in Seq(S)
  PROVE  /\ FlattenSeq(seqs) \in Seq(S)
         /\ FlattenSeq(Append(seqs, s)) = FlattenSeq(seqs) \o s
<1> DEFINE more == Append(seqs, s)
           m == Len(seqs)
<1>0. m \in Nat
  BY LenProperties
<1>1. more \in Seq(Seq(S)) /\ Len(more) = m + 1 /\ m \in Nat /\ more # <<>>
  BY <1>0, AppendProperties
<1>2. more[m + 1] = s /\ \A i \in 1 .. m : more[i] = seqs[i]
  BY <1>0, AppendProperties
<1>3. PICK f \in [1 .. m + 1 -> Seq(S)] : Accumulates(f, more, m + 1)
  BY <1>1, PrefixesExist
<1> HIDE DEF more
<1>4. FlattenSeq(more) = f[m + 1]
  BY <1>1, <1>3, FlattenIsLast
<1>5. CASE seqs = <<>>
  <2>1. m = 0
    BY <1>5
  <2>2. f[1] = more[1]
    BY <1>3, <2>1 DEF Accumulates
  <2>3. FlattenSeq(more) = s
    BY <1>2, <1>4, <2>1, <2>2
  <2>4. <<>> \o s = s /\ <<>> \in Seq(S)
    OBVIOUS
  <2>5. FlattenSeq(seqs) = <<>>
    BY <1>5, FlattenEmpty
  <2>6. QED BY <2>3, <2>4, <2>5 DEF more
<1>6. CASE seqs # <<>>
  <2>1. m # 0 /\ m \in 1 .. m
    BY <1>6
  <2>2. Accumulates(f, seqs, m)
    <3> SUFFICES ASSUME NEW i \in 1 .. m
                 PROVE  f[i] = IF i = 1 THEN seqs[i] ELSE f[i - 1] \o seqs[i]
      BY DEF Accumulates
    <3>1. i \in 1 .. m + 1
      BY <1>1
    <3>2. f[i] = IF i = 1 THEN more[i] ELSE f[i - 1] \o more[i]
      BY <1>3, <3>1 DEF Accumulates
    <3>3. QED BY <1>2, <3>2
  <2>3. FlattenSeq(seqs) = f[m]
    BY <1>6, <2>2, FlattenIsLast
  <2>4. f[m] \in Seq(S)
    BY <1>1, <2>1
  <2>5. f[m + 1] = f[m] \o more[m + 1]
    <3>1. m + 1 \in 1 .. m + 1 /\ m + 1 # 1 /\ (m + 1) - 1 = m
      BY <1>1, <2>1
    <3>2. \A i \in 1 .. m + 1 : i # 1 => f[i] = f[i - 1] \o more[i]
      BY <1>3 DEF Accumulates
    <3>3. f[m + 1] = f[(m + 1) - 1] \o more[m + 1]
      BY <3>1, <3>2
    <3>4. QED BY <3>1, <3>3
  <2>6. QED BY <1>2, <1>4, <2>3, <2>4, <2>5 DEF more
<1>7. QED BY <1>5, <1>6

\* One sequence is left as it is.
LEMMA FlattenOne ==
  ASSUME NEW S, NEW s \in Seq(S)
  PROVE  FlattenSeq(<<s>>) = s
<1>1. <<>> \in Seq(Seq(S)) /\ <<s>> = Append(<<>>, s) /\ <<>> \o s = s
  OBVIOUS
<1>2. FlattenSeq(Append(<<>>, s)) = FlattenSeq(<<>>) \o s
  BY <1>1, FlattenAppend
<1>3. QED BY <1>1, <1>2, FlattenEmpty

\* FlattenSeq of two parts is that of one and then of the other.
LEMMA FlattenConcat ==
  ASSUME NEW S, NEW a \in Seq(Seq(S)), NEW b \in Seq(Seq(S))
  PROVE  FlattenSeq(a \o b) = FlattenSeq(a) \o FlattenSeq(b)
<1> DEFINE P == {t \in Seq(Seq(S)) : FlattenSeq(a \o t) = FlattenSeq(a) \o FlattenSeq(t)}
<1>1. <<>> \in P
  <2>1. a \o <<>> = a /\ <<>> \in Seq(Seq(S)) /\ <<>> \in Seq(S)
    OBVIOUS
  <2>2. FlattenSeq(a) \in Seq(S)
    BY <2>1, FlattenAppend
  <2>3. FlattenSeq(a) \o <<>> = FlattenSeq(a)
    BY <2>2
  <2>4. QED BY <2>1, <2>3, FlattenEmpty
<1>2. ASSUME NEW t \in Seq(Seq(S)), NEW e \in Seq(S), t \in P PROVE Append(t, e) \in P
  <2>1. a \o Append(t, e) = Append(a \o t, e) /\ a \o t \in Seq(Seq(S))
    OBVIOUS
  <2>2. FlattenSeq(Append(a \o t, e)) = FlattenSeq(a \o t) \o e
    BY <2>1, FlattenAppend
  <2>3. FlattenSeq(Append(t, e)) = FlattenSeq(t) \o e
    BY FlattenAppend
  <2>4. FlattenSeq(a) \in Seq(S) /\ FlattenSeq(t) \in Seq(S)
    BY FlattenAppend
  <2>5. (FlattenSeq(a) \o FlattenSeq(t)) \o e = FlattenSeq(a) \o (FlattenSeq(t) \o e)
    BY <2>4
  <2>6. FlattenSeq(a \o t) = FlattenSeq(a) \o FlattenSeq(t)
    BY <1>2
  <2>7. FlattenSeq(a \o Append(t, e)) = FlattenSeq(a) \o FlattenSeq(Append(t, e))
    BY <2>1, <2>2, <2>3, <2>5, <2>6
  <2>8. Append(t, e) \in Seq(Seq(S))
    OBVIOUS
  <2>9. QED BY <2>7, <2>8
<1>3. \A t \in Seq(Seq(S)) : t \in P
  <2> HIDE DEF P
  <2>1. QED BY <1>1, <1>2, SequenceInduction
<1>4. QED BY <1>3

\* A concatenation has the elements of both parts.
LEMMA ConcatElements ==
  ASSUME NEW S, NEW x \in Seq(S), NEW y \in Seq(S)
  PROVE  ToSet(x \o y) = ToSet(x) \cup ToSet(y)
<1> DEFINE z == x \o y
<1>1. z \in Seq(S) /\ Len(z) = Len(x) + Len(y) /\ Len(x) \in Nat /\ Len(y) \in Nat
  OBVIOUS
<1>2. \A i \in 1 .. Len(x) : z[i] = x[i]
  OBVIOUS
<1>3. \A i \in 1 .. Len(y) : z[Len(x) + i] = y[i]
  OBVIOUS
<1>4. DOMAIN x = 1 .. Len(x) /\ DOMAIN y = 1 .. Len(y) /\ DOMAIN z = 1 .. Len(x) + Len(y)
  BY <1>1
<1> HIDE DEF z
<1>5. ASSUME NEW i \in DOMAIN z PROVE z[i] \in ToSet(x) \cup ToSet(y)
  <2>1. CASE i <= Len(x)
    BY <1>1, <1>2, <1>4, <2>1 DEF ToSet
  <2>2. CASE i > Len(x)
    <3>1. PICK j \in 1 .. Len(y) : i = Len(x) + j
      <4>1. i - Len(x) \in 1 .. Len(y) /\ i = Len(x) + (i - Len(x))
        BY <1>1, <1>4, <2>2
      <4>2. QED BY <4>1
    <3>2. QED BY <1>3, <1>4, <3>1 DEF ToSet
  <2>3. QED BY <1>1, <1>4, <2>1, <2>2
<1>6. ASSUME NEW i \in DOMAIN x PROVE x[i] \in ToSet(z)
  <2>1. i \in DOMAIN z
    BY <1>1, <1>4
  <2>2. QED BY <1>2, <1>4, <2>1 DEF ToSet
<1>7. ASSUME NEW i \in DOMAIN y PROVE y[i] \in ToSet(z)
  <2>1. Len(x) + i \in DOMAIN z
    BY <1>1, <1>4
  <2>2. QED BY <1>3, <1>4, <2>1 DEF ToSet
<1>8. ToSet(z) = ToSet(x) \cup ToSet(y)
  BY <1>5, <1>6, <1>7 DEF ToSet
<1>9. QED BY <1>8 DEF z

\* It has the elements of the sequences, and no other.
LEMMA FlattenElements ==
  ASSUME NEW S, NEW seqs \in Seq(Seq(S))
  PROVE  /\ FlattenSeq(seqs) \in Seq(S)
         /\ ToSet(FlattenSeq(seqs)) = UNION {ToSet(seqs[i]) : i \in DOMAIN seqs}
<1> DEFINE P == {t \in Seq(Seq(S)) :
                  ToSet(FlattenSeq(t)) = UNION {ToSet(t[i]) : i \in DOMAIN t}}
<1>1. <<>> \in P
  BY FlattenEmpty DEF ToSet
<1>2. ASSUME NEW t \in Seq(Seq(S)), NEW e \in Seq(S), t \in P PROVE Append(t, e) \in P
  <2> DEFINE u == Append(t, e)
  <2>1. FlattenSeq(u) = FlattenSeq(t) \o e /\ FlattenSeq(t) \in Seq(S)
    BY FlattenAppend
  <2>2. ToSet(FlattenSeq(t) \o e) = ToSet(FlattenSeq(t)) \cup ToSet(e)
    BY <2>1, ConcatElements
  <2>3. UNION {ToSet(u[i]) : i \in DOMAIN u}
          = (UNION {ToSet(t[i]) : i \in DOMAIN t}) \cup ToSet(e)
    <3>1. DOMAIN u = DOMAIN t \cup {Len(t) + 1}
      OBVIOUS
    <3>2. (\A i \in DOMAIN t : u[i] = t[i]) /\ u[Len(t) + 1] = e
      OBVIOUS
    <3> HIDE DEF u
    <3>3. QED BY <3>1, <3>2
  <2>4. u \in Seq(Seq(S))
    OBVIOUS
  <2> HIDE DEF u
  <2>5. ToSet(FlattenSeq(u)) = UNION {ToSet(u[i]) : i \in DOMAIN u}
    BY <1>2, <2>1, <2>2, <2>3
  <2>6. QED BY <2>4, <2>5 DEF u
<1>3. \A t \in Seq(Seq(S)) : t \in P
  <2> HIDE DEF P
  <2>1. QED BY <1>1, <1>2, SequenceInduction
<1>4. FlattenSeq(seqs) \in Seq(S)
  <2>1. <<>> \in Seq(S)
    OBVIOUS
  <2>2. QED BY <2>1, FlattenAppend
<1>5. QED BY <1>3, <1>4

\* The elements of the empty sequence and of a sequence of one.
LEMMA FewElements == ToSet(<<>>) = {} /\ \A w : ToSet(<<w>>) = {w}
BY DEF ToSet

\* A sequence of one element.
LEMMA Singleton ==
  ASSUME NEW S, NEW w \in S
  PROVE  /\ <<w>> \in Seq(S) /\ Len(<<w>>) = 1 /\ <<w>>[1] = w
         /\ ToSet(<<w>>) = {w}
BY DEF ToSet

\* A sequence of length one is its element.
LEMMA OneElement ==
  ASSUME NEW S, NEW s \in Seq(S), Len(s) = 1
  PROVE  s[1] \in S /\ s = <<s[1]>>
<1>1. s[1] \in S
  OBVIOUS
<1>2. <<s[1]>> \in Seq(S) /\ Len(<<s[1]>>) = 1 /\ <<s[1]>>[1] = s[1]
  BY <1>1
<1>3. \A i \in 1 .. Len(s) : s[i] = <<s[1]>>[i]
  OBVIOUS
<1>4. QED BY <1>1, <1>2, <1>3

\* Sequences of one element each.
LEMMA FlattenSingletons ==
  ASSUME NEW S, NEW seqs \in Seq(Seq(S)), \A i \in DOMAIN seqs : Len(seqs[i]) = 1
  PROVE  FlattenSeq(seqs) = [i \in DOMAIN seqs |-> seqs[i][1]]
<1> DEFINE firsts(t) == [i \in DOMAIN t |-> t[i][1]]
           P == {t \in Seq(Seq(S)) :
                  (\A i \in DOMAIN t : Len(t[i]) = 1) => FlattenSeq(t) = firsts(t)}
<1>1. <<>> \in P
  <2>1. <<>> \in Seq(Seq(S)) /\ firsts(<<>>) = <<>>
    OBVIOUS
  <2>2. QED BY <2>1, FlattenEmpty
<1>2. ASSUME NEW t \in Seq(Seq(S)), NEW e \in Seq(S), t \in P PROVE Append(t, e) \in P
  <2> DEFINE u == Append(t, e)
  <2>1. u \in Seq(Seq(S)) /\ DOMAIN u = 1 .. Len(t) + 1 /\ Len(t) \in Nat /\ DOMAIN t = 1 .. Len(t)
    OBVIOUS
  <2>2. (\A i \in DOMAIN t : u[i] = t[i]) /\ u[Len(t) + 1] = e
    OBVIOUS
  <2> HIDE DEF u
  <2>3. ASSUME \A i \in DOMAIN u : Len(u[i]) = 1 PROVE FlattenSeq(u) = firsts(u)
    <3>1. \A i \in DOMAIN t : i \in DOMAIN u /\ Len(t[i]) = 1
      <4> SUFFICES ASSUME NEW i \in DOMAIN t PROVE i \in DOMAIN u /\ Len(t[i]) = 1
        OBVIOUS
      <4>1. i \in DOMAIN u
        BY <2>1
      <4>2. QED BY <2>2, <2>3, <4>1
    <3>2. Len(e) = 1
      <4>1. Len(t) + 1 \in DOMAIN u
        BY <2>1
      <4>2. QED BY <2>2, <2>3, <4>1
    <3>3. FlattenSeq(t) = firsts(t)
      BY <1>2, <3>1
    <3>4. FlattenSeq(u) = FlattenSeq(t) \o e /\ FlattenSeq(t) \in Seq(S)
      BY FlattenAppend DEF u
    <3>5. e = <<e[1]>> /\ e[1] \in S
      BY <3>2, OneElement
    <3>6. FlattenSeq(u) = Append(firsts(t), e[1])
      <4>1. \A x \in Seq(S) : \A v \in S : x \o <<v>> = Append(x, v)
        OBVIOUS
      <4>2. QED BY <3>3, <3>4, <3>5, <4>1
    <3>7. Append(firsts(t), e[1]) = firsts(u)
      <4>1. firsts(t) \in Seq(S) /\ Len(firsts(t)) = Len(t)
        <5>1. DOMAIN firsts(t) = 1 .. Len(t)
          BY <2>1
        <5>2. QED BY <2>1, <3>3, <3>4, <5>1
      <4>2. \A i \in 1 .. Len(t) : firsts(t)[i] = t[i][1]
        BY <2>1
      <4>3. \A i \in 1 .. Len(t) + 1 : firsts(u)[i] = IF i = Len(t) + 1 THEN e[1] ELSE firsts(t)[i]
        <5> SUFFICES ASSUME NEW i \in 1 .. Len(t) + 1
                     PROVE  firsts(u)[i] = IF i = Len(t) + 1 THEN e[1] ELSE firsts(t)[i]
          OBVIOUS
        <5>1. firsts(u)[i] = u[i][1]
          BY <2>1
        <5>2. CASE i = Len(t) + 1
          BY <2>2, <5>1, <5>2
        <5>3. CASE i # Len(t) + 1
          <6>1. i \in 1 .. Len(t)
            BY <2>1, <5>3
          <6>2. QED BY <2>1, <2>2, <4>2, <5>1, <5>3, <6>1
        <5>4. QED BY <5>2, <5>3
      <4>4. DOMAIN firsts(u) = 1 .. Len(t) + 1
        BY <2>1
      <4>5. firsts(u) = [i \in 1 .. Len(t) + 1 |-> firsts(u)[i]]
        BY <4>4
      <4> DEFINE p == firsts(t)
                 q == firsts(u)
      <4> HIDE DEF firsts, p, q
      <4>6. Append(p, e[1]) = [i \in 1 .. Len(t) + 1 |-> IF i = Len(t) + 1 THEN e[1] ELSE p[i]]
        BY <3>5, <4>1 DEF p
      <4>7. QED BY <4>3, <4>5, <4>6 DEF p
    <3>8. QED BY <3>6, <3>7
  <2>4. u \in P
    BY <2>1, <2>3
  <2>5. QED BY <2>4 DEF u
<1>3. \A t \in Seq(Seq(S)) : t \in P
  <2> HIDE DEF P
  <2>1. QED BY <1>1, <1>2, SequenceInduction
<1>4. QED BY <1>3
-----------------------------------------------------------------------------
(* Concatenations of several parts.                                         *)

\* Concatenation, under a name that the provers do not look behind.
Cat(s, t) == s \o t

\* Cat is closed, has the elements of both parts, and is associative.
LEMMA CatLaws ==
  ASSUME NEW S
  PROVE  /\ \A s, t \in Seq(S) : Cat(s, t) \in Seq(S)
         /\ \A s, t \in Seq(S) : ToSet(Cat(s, t)) = ToSet(s) \cup ToSet(t)
         /\ \A s, t, u \in Seq(S) : Cat(Cat(s, t), u) = Cat(s, Cat(t, u))
<1>1. \A s, t \in Seq(S) : Cat(s, t) \in Seq(S)
  BY DEF Cat
<1>2. \A s, t \in Seq(S) : ToSet(Cat(s, t)) = ToSet(s) \cup ToSet(t)
  BY ConcatElements DEF Cat
<1>3. \A s, t, u \in Seq(S) : Cat(Cat(s, t), u) = Cat(s, Cat(t, u))
  BY DEF Cat
<1>4. QED BY <1>1, <1>2, <1>3

\* An empty part.
LEMMA NoPart ==
  ASSUME NEW S, NEW a \in Seq(S)
  PROVE  <<>> \in Seq(S) /\ Cat(a, <<>>) = a /\ Cat(<<>>, a) = a
BY DEF Cat

\* Two parts.
LEMMA TwoParts ==
  ASSUME NEW S, NEW a \in Seq(S), NEW b \in Seq(S)
  PROVE  Cat(a, b) \in Seq(S) /\ ToSet(Cat(a, b)) = ToSet(a) \cup ToSet(b)
BY CatLaws

\* Three parts.
LEMMA ThreeParts ==
  ASSUME NEW S, NEW a \in Seq(S), NEW b \in Seq(S), NEW c \in Seq(S)
  PROVE  /\ Cat(Cat(a, b), c) \in Seq(S)
         /\ ToSet(Cat(Cat(a, b), c)) = ToSet(a) \cup ToSet(b) \cup ToSet(c)
<1>1. Cat(a, b) \in Seq(S) /\ ToSet(Cat(a, b)) = ToSet(a) \cup ToSet(b)
  BY TwoParts
<1>2. Cat(Cat(a, b), c) \in Seq(S)
  BY <1>1, TwoParts
<1>3. ToSet(Cat(Cat(a, b), c)) = ToSet(Cat(a, b)) \cup ToSet(c)
  BY <1>1, TwoParts
<1>4. QED BY <1>1, <1>2, <1>3

\* Four parts.
LEMMA FourParts ==
  ASSUME NEW S, NEW a \in Seq(S), NEW b \in Seq(S), NEW c \in Seq(S), NEW d \in Seq(S)
  PROVE  /\ Cat(Cat(Cat(a, b), c), d) \in Seq(S)
         /\ ToSet(Cat(Cat(Cat(a, b), c), d))
              = ToSet(a) \cup ToSet(b) \cup ToSet(c) \cup ToSet(d)
<1> DEFINE h == Cat(Cat(a, b), c)
<1>1. h \in Seq(S) /\ ToSet(h) = ToSet(a) \cup ToSet(b) \cup ToSet(c)
  BY ThreeParts
<1> HIDE DEF h
<1>2. Cat(h, d) \in Seq(S) /\ ToSet(Cat(h, d)) = ToSet(h) \cup ToSet(d)
  BY <1>1, TwoParts
<1>3. QED BY <1>1, <1>2 DEF h

\* Five parts.
LEMMA FiveParts ==
  ASSUME NEW S, NEW a \in Seq(S), NEW b \in Seq(S), NEW c \in Seq(S), NEW d \in Seq(S),
         NEW e \in Seq(S)
  PROVE  /\ Cat(Cat(Cat(Cat(a, b), c), d), e) \in Seq(S)
         /\ ToSet(Cat(Cat(Cat(Cat(a, b), c), d), e))
              = ToSet(a) \cup ToSet(b) \cup ToSet(c) \cup ToSet(d) \cup ToSet(e)
<1> DEFINE h == Cat(Cat(Cat(a, b), c), d)
<1>1. h \in Seq(S) /\ ToSet(h) = ToSet(a) \cup ToSet(b) \cup ToSet(c) \cup ToSet(d)
  BY FourParts
<1> HIDE DEF h
<1>2. Cat(h, e) \in Seq(S) /\ ToSet(Cat(h, e)) = ToSet(h) \cup ToSet(e)
  BY <1>1, TwoParts
<1>3. QED BY <1>1, <1>2 DEF h

\* The first of five parts set apart.
LEMMA FirstApart ==
  ASSUME NEW S, NEW a \in Seq(S), NEW b \in Seq(S), NEW c \in Seq(S), NEW d \in Seq(S),
         NEW e \in Seq(S)
  PROVE  Cat(Cat(Cat(Cat(a, b), c), d), e) = Cat(a, Cat(Cat(Cat(b, c), d), e))
<1>1. Cat(b, c) \in Seq(S) /\ Cat(Cat(b, c), d) \in Seq(S)
  BY ThreeParts, CatLaws
<1>2. Cat(Cat(a, b), c) = Cat(a, Cat(b, c))
  BY CatLaws
<1>3. Cat(Cat(a, Cat(b, c)), d) = Cat(a, Cat(Cat(b, c), d))
  BY <1>1, CatLaws
<1>4. Cat(Cat(a, Cat(Cat(b, c), d)), e) = Cat(a, Cat(Cat(Cat(b, c), d), e))
  BY <1>1, CatLaws
<1>5. QED BY <1>2, <1>3, <1>4

\* What stands in front, and what is behind, joined to what is between.
LEMMA Regrouped ==
  ASSUME NEW S, NEW u \in Seq(S), NEW a \in Seq(S), NEW k \in Seq(S), NEW r \in Seq(S),
         NEW t \in Seq(S)
  PROVE  Cat(u, Cat(Cat(Cat(a, k), r), t)) = Cat(Cat(Cat(u, a), k), Cat(r, t))
<1>1. Cat(a, k) \in Seq(S) /\ Cat(Cat(a, k), r) \in Seq(S) /\ Cat(r, t) \in Seq(S)
  BY ThreeParts, CatLaws
<1>2. Cat(Cat(Cat(a, k), r), t) = Cat(Cat(a, k), Cat(r, t))
  BY <1>1, CatLaws
<1>3. Cat(u, Cat(Cat(a, k), Cat(r, t))) = Cat(Cat(u, Cat(a, k)), Cat(r, t))
  BY <1>1, CatLaws
<1>4. Cat(u, Cat(a, k)) = Cat(Cat(u, a), k)
  BY CatLaws
<1>5. QED BY <1>2, <1>3, <1>4

-----------------------------------------------------------------------------
(* Sequences as functions.                                                  *)

\* A sequence is a function on 1 .. its length.
LEMMA SeqParts ==
  ASSUME NEW S, NEW s \in Seq(S)
  PROVE  /\ DOMAIN s = 1 .. Len(s) /\ Len(s) \in Nat
         /\ \A i \in DOMAIN s : s[i] \in S
         /\ s = [i \in DOMAIN s |-> s[i]]
OBVIOUS

\* Such a function is a sequence.
LEMMA IsSequence ==
  ASSUME NEW S, NEW n \in Nat, NEW s, DOMAIN s = 1 .. n,
         s = [i \in 1 .. n |-> s[i]], \A i \in 1 .. n : s[i] \in S
  PROVE  s \in Seq(S) /\ Len(s) = n
<1>1. s \in [1 .. n -> S]
  OBVIOUS
<1>2. QED BY <1>1

\* Sequences with the same elements in the same places are equal.
LEMMA SameSequence ==
  ASSUME NEW S, NEW s \in Seq(S), NEW t \in Seq(S), Len(s) = Len(t),
         \A i \in 1 .. Len(s) : s[i] = t[i]
  PROVE  s = t
OBVIOUS

\* Where the elements of a concatenation come from.
LEMMA ConcatParts ==
  ASSUME NEW S, NEW s \in Seq(S), NEW t \in Seq(S), NEW m, NEW n, Len(s) = m, Len(t) = n
  PROVE  /\ s \o t \in Seq(S) /\ Len(s \o t) = m + n
         /\ \A i \in 1 .. m + n : (s \o t)[i] = IF i <= m THEN s[i] ELSE t[i - m]
BY ConcatProperties

\* A function applied to each element.
Maps(k, S, T) == k \in [S -> T]
Mapped(k, s) == [i \in DOMAIN s |-> k[s[i]]]

\* The type of what a function applied to each element yields.
LEMMA MapType ==
  ASSUME NEW S, NEW T, NEW k, Maps(k, S, T), NEW s \in Seq(S)
  PROVE  /\ Mapped(k, s) \in Seq(T) /\ Len(Mapped(k, s)) = Len(s)
         /\ DOMAIN Mapped(k, s) = DOMAIN s
         /\ \A i \in DOMAIN s : Mapped(k, s)[i] = k[s[i]]
<1> DEFINE m == [i \in DOMAIN s |-> k[s[i]]]
<1>1. DOMAIN s = 1 .. Len(s) /\ Len(s) \in Nat /\ \A i \in DOMAIN s : s[i] \in S
  BY SeqParts
<1>2. m = [i \in 1 .. Len(s) |-> k[s[i]]]
  BY <1>1
<1>3. m \in [1 .. Len(s) -> T]
  BY <1>1, <1>2 DEF Maps
<1>4. DOMAIN m = DOMAIN s /\ \A i \in DOMAIN s : m[i] = k[s[i]]
  OBVIOUS
<1> HIDE DEF m
<1>5. m \in Seq(T) /\ Len(m) = Len(s)
  BY <1>1, <1>3
<1>6. QED BY <1>4, <1>5 DEF m, Mapped

\* It commutes with concatenation.
LEMMA MapConcat ==
  ASSUME NEW S, NEW T, NEW k, Maps(k, S, T), NEW s \in Seq(S), NEW t \in Seq(S)
  PROVE  Mapped(k, s \o t) = Mapped(k, s) \o Mapped(k, t)
<1> DEFINE st == s \o t
           ms == Mapped(k, s)
           mt == Mapped(k, t)
           m == Mapped(k, st)
           c == ms \o mt
<1>1. /\ st \in Seq(S) /\ Len(st) = Len(s) + Len(t)
      /\ \A i \in 1 .. Len(s) + Len(t) :
           st[i] = IF i <= Len(s) THEN s[i] ELSE t[i - Len(s)]
  BY ConcatProperties
<1> HIDE DEF st
<1>2. /\ ms \in Seq(T) /\ Len(ms) = Len(s) /\ \A i \in DOMAIN s : ms[i] = k[s[i]]
      /\ mt \in Seq(T) /\ Len(mt) = Len(t) /\ \A i \in DOMAIN t : mt[i] = k[t[i]]
      /\ m \in Seq(T) /\ Len(m) = Len(s) + Len(t) /\ \A i \in DOMAIN st : m[i] = k[st[i]]
  BY <1>1, MapType
<1>3. /\ DOMAIN s = 1 .. Len(s) /\ DOMAIN t = 1 .. Len(t)
      /\ DOMAIN st = 1 .. Len(s) + Len(t)
      /\ Len(s) \in Nat /\ Len(t) \in Nat
  BY <1>1, SeqParts
<1> HIDE DEF m, ms, mt
<1>4. \A i \in 1 .. Len(s) + Len(t) : m[i] = IF i <= Len(s) THEN ms[i] ELSE mt[i - Len(s)]
  <2> SUFFICES ASSUME NEW i \in 1 .. Len(s) + Len(t)
               PROVE  m[i] = IF i <= Len(s) THEN ms[i] ELSE mt[i - Len(s)]
    OBVIOUS
  <2>1. m[i] = k[st[i]]
    BY <1>2, <1>3
  <2>2. i <= Len(s) => ms[i] = k[s[i]]
    BY <1>2, <1>3
  <2>3. i > Len(s) => mt[i - Len(s)] = k[t[i - Len(s)]]
    <3> SUFFICES ASSUME i > Len(s) PROVE mt[i - Len(s)] = k[t[i - Len(s)]]
      OBVIOUS
    <3>1. i - Len(s) \in DOMAIN t
      BY <1>3
    <3>2. QED BY <1>2, <3>1
  <2>4. QED BY <1>1, <1>3, <2>1, <2>2, <2>3
<1>5. /\ c \in Seq(T) /\ Len(c) = Len(s) + Len(t)
      /\ \A i \in 1 .. Len(s) + Len(t) : c[i] = IF i <= Len(s) THEN ms[i] ELSE mt[i - Len(s)]
  BY <1>2, ConcatParts
<1> HIDE DEF c
<1>6. m = c
  BY <1>2, <1>4, <1>5, SameSequence
<1>7. QED BY <1>6 DEF m, c, ms, mt, st

\* A function that yields sequences, applied to each element, and the results
\* in a row.
LEMMA FlatMap ==
  ASSUME NEW S, NEW T, NEW k, Maps(k, S, Seq(T)), NEW s \in Seq(S)
  PROVE  /\ FlattenSeq(Mapped(k, s)) \in Seq(T)
         /\ ToSet(FlattenSeq(Mapped(k, s))) = UNION {ToSet(k[e]) : e \in ToSet(s)}
<1> DEFINE m == Mapped(k, s)
<1>1. m \in Seq(Seq(T)) /\ DOMAIN m = DOMAIN s /\ \A i \in DOMAIN s : m[i] = k[s[i]]
  BY MapType
<1> HIDE DEF m
<1>2. FlattenSeq(m) \in Seq(T) /\ ToSet(FlattenSeq(m)) = UNION {ToSet(m[i]) : i \in DOMAIN m}
  BY <1>1, FlattenElements
<1>3. UNION {ToSet(m[i]) : i \in DOMAIN m} = UNION {ToSet(k[e]) : e \in {s[i] : i \in DOMAIN s}}
  BY <1>1
<1>4. QED BY <1>2, <1>3 DEF m, ToSet

\* This commutes with concatenation, too.
LEMMA FlatMapConcat ==
  ASSUME NEW S, NEW T, NEW k, Maps(k, S, Seq(T)), NEW s \in Seq(S), NEW t \in Seq(S)
  PROVE  FlattenSeq(Mapped(k, s \o t)) = FlattenSeq(Mapped(k, s)) \o FlattenSeq(Mapped(k, t))
<1>1. Mapped(k, s) \in Seq(Seq(T)) /\ Mapped(k, t) \in Seq(Seq(T))
  BY MapType
<1>2. Mapped(k, s \o t) = Mapped(k, s) \o Mapped(k, t)
  BY MapConcat
<1>3. FlattenSeq(Mapped(k, s) \o Mapped(k, t))
        = FlattenSeq(Mapped(k, s)) \o FlattenSeq(Mapped(k, t))
  BY <1>1, FlattenConcat
<1>4. QED BY <1>2, <1>3
\* The sequence of the elements of a set that has none, or one.
LEMMA SmallSetToSeq ==
  /\ SetToSeq({}) = <<>>
  /\ \A e : SetToSeq({e}) = <<e>>
<1>1. SetToSeq({}) = <<>>
  <2>1. Cardinality({}) = 0 /\ 1 .. 0 = {}
    BY FS_EmptySet
  <2>2. \A f \in [{} -> {}] : f = <<>>
    OBVIOUS
  <2> DEFINE Fs == [{} -> {}]
  <2>3. \E f \in Fs : IsInjective(f)
    <3> DEFINE g == [i \in {} |-> i]
    <3>1. g \in Fs /\ DOMAIN g = {}
      OBVIOUS
    <3> HIDE DEF g
    <3>2. IsInjective(g)
      BY <3>1 DEF IsInjective
    <3>3. QED BY <3>1, <3>2
  <2>4. SetToSeq({}) = CHOOSE f \in Fs : IsInjective(f)
    BY <2>1 DEF SetToSeq
  <2> HIDE DEF Fs
  <2>5. SetToSeq({}) \in Fs
    BY <2>3, <2>4
  <2>6. QED BY <2>2, <2>5 DEF Fs
<1>2. ASSUME NEW e PROVE SetToSeq({e}) = <<e>>
  <2>1. Cardinality({e}) = 1 /\ 1 .. 1 = {1}
    BY FS_Singleton
  <2> DEFINE Fs == [{1} -> {e}]
  <2>2. \A f \in Fs : f = <<e>>
    <3> SUFFICES ASSUME NEW f \in [{1} -> {e}] PROVE f = <<e>>
      OBVIOUS
    <3>1. f = [i \in 1 .. 1 |-> e] /\ f[1] = e
      BY <2>1
    <3>2. f \in Seq({e}) /\ Len(f) = 1
      BY <3>1
    <3>3. QED BY <3>1, <3>2, OneElement
  <2>3. \E f \in Fs : IsInjective(f)
    <3> DEFINE g == [i \in {1} |-> e]
    <3>1. g \in Fs /\ DOMAIN g = {1}
      OBVIOUS
    <3> HIDE DEF g
    <3>2. IsInjective(g)
      BY <3>1 DEF IsInjective
    <3>3. QED BY <3>1, <3>2
  <2>4. SetToSeq({e}) = CHOOSE f \in Fs : IsInjective(f)
    BY <2>1 DEF SetToSeq
  <2> HIDE DEF Fs
  <2>5. SetToSeq({e}) \in Fs
    BY <2>3, <2>4
  <2>6. QED BY <2>2, <2>5
<1>3. QED BY <1>1, <1>2
\* The same when it yields sequences of one element.
LEMMA FlatMapSingle ==
  ASSUME NEW S, NEW T, NEW k, Maps(k, S, Seq(T)), NEW s \in Seq(S),
         \A i \in DOMAIN s : Len(k[s[i]]) = 1
  PROVE  /\ FlattenSeq(Mapped(k, s)) \in Seq(T)
         /\ Len(FlattenSeq(Mapped(k, s))) = Len(s)
         /\ \A i \in DOMAIN s : FlattenSeq(Mapped(k, s))[i] = k[s[i]][1]
<1> DEFINE m == Mapped(k, s)
           f == FlattenSeq(m)
<1>1. /\ m \in Seq(Seq(T)) /\ Len(m) = Len(s) /\ DOMAIN m = DOMAIN s
      /\ \A i \in DOMAIN s : m[i] = k[s[i]]
  BY MapType
<1>2. DOMAIN s = 1 .. Len(s) /\ Len(s) \in Nat
  BY SeqParts
<1> HIDE DEF m
<1>3. \A i \in DOMAIN m : Len(m[i]) = 1
  BY <1>1
<1>4. f \in Seq(T)
  BY <1>1, FlattenElements
<1>5. f = [i \in DOMAIN m |-> m[i][1]]
  BY <1>1, <1>3, FlattenSingletons
<1>6. DOMAIN f = 1 .. Len(s) /\ \A i \in DOMAIN s : f[i] = k[s[i]][1]
  BY <1>1, <1>2, <1>5
<1> HIDE DEF f
<1>7. Len(f) = Len(s)
  BY <1>2, <1>4, <1>6
<1>8. QED BY <1>4, <1>6, <1>7 DEF f, m

\* One element, and a sequence after it.
LEMMA FirstThen ==
  ASSUME NEW S, NEW e \in S, NEW s \in Seq(S)
  PROVE  /\ Cat(<<e>>, s) \in Seq(S) /\ Len(Cat(<<e>>, s)) = Len(s) + 1
         /\ Cat(<<e>>, s)[1] = e
         /\ \A i \in 1 .. Len(s) : Cat(<<e>>, s)[i + 1] = s[i]
<1> DEFINE one == <<e>>
           z == Cat(one, s)
<1>1. one \in Seq(S) /\ Len(one) = 1 /\ one[1] = e
  BY Singleton
<1> HIDE DEF one
<1>2. Len(s) \in Nat
  BY SeqParts
<1>3. /\ z \in Seq(S) /\ Len(z) = 1 + Len(s)
      /\ \A i \in 1 .. 1 + Len(s) : z[i] = IF i <= 1 THEN one[i] ELSE s[i - 1]
  <2>1. one \in Seq(S) /\ s \in Seq(S)
    BY <1>1
  <2>2. /\ one \o s \in Seq(S) /\ Len(one \o s) = Len(one) + Len(s)
        /\ \A i \in 1 .. Len(one) + Len(s) :
             (one \o s)[i] = IF i <= Len(one) THEN one[i] ELSE s[i - Len(one)]
    BY <2>1, ConcatProperties
  <2>3. z = one \o s
    BY DEF Cat
  <2> HIDE DEF z
  <2>4. QED BY <1>1, <2>2, <2>3
<1> HIDE DEF z
<1>4. z \in Seq(S) /\ Len(z) = Len(s) + 1 /\ z[1] = e /\ \A i \in 1 .. Len(s) : z[i + 1] = s[i]
  BY <1>1, <1>2, <1>3
<1>5. QED BY <1>4 DEF z, one

-----------------------------------------------------------------------------
(* Keys.                                                                    *)

\* No two places of a sequence have the same key.
Apart(k, s) == \A i, j \in DOMAIN s : i # j => k[s[i]] # k[s[j]]

\* Two such parts, with no key in common, are one.
LEMMA ApartConcat ==
  ASSUME NEW S, NEW k, NEW s \in Seq(S), NEW t \in Seq(S), Apart(k, s), Apart(k, t),
         \A x \in ToSet(s) : \A y \in ToSet(t) : k[x] # k[y]
  PROVE  Apart(k, s \o t)
<1> DEFINE st == s \o t
           m == Len(s)
           n == Len(t)
<1>1. /\ st \in Seq(S) /\ Len(st) = m + n
      /\ \A i \in 1 .. m + n : st[i] = IF i <= m THEN s[i] ELSE t[i - m]
  BY ConcatParts
<1>2. /\ m \in Nat /\ n \in Nat
      /\ DOMAIN s = 1 .. m /\ DOMAIN t = 1 .. n /\ DOMAIN st = 1 .. m + n
  BY <1>1
<1>3. \A i \in 1 .. m : \A j \in 1 .. n : k[s[i]] # k[t[j]]
  BY <1>2 DEF ToSet
<1>4. /\ \A i, j \in 1 .. m : i # j => k[s[i]] # k[s[j]]
      /\ \A i, j \in 1 .. n : i # j => k[t[i]] # k[t[j]]
  BY <1>2 DEF Apart
<1>5. \A i \in 1 .. m + n : st[i] = IF i <= m THEN s[i] ELSE t[i - m]
  BY <1>1
<1> HIDE DEF st, m, n
<1>6. ASSUME NEW i \in 1 .. m + n, NEW j \in 1 .. m + n, i # j
      PROVE  k[st[i]] # k[st[j]]
  <2>1. CASE i <= m /\ j <= m
    <3>1. st[i] = s[i] /\ st[j] = s[j] /\ i \in 1 .. m /\ j \in 1 .. m
      BY <1>2, <1>5, <2>1
    <3>2. QED BY <1>4, <1>6, <3>1
  <2>2. CASE i <= m /\ ~(j <= m)
    <3>1. st[i] = s[i] /\ st[j] = t[j - m] /\ i \in 1 .. m /\ j - m \in 1 .. n
      BY <1>2, <1>5, <2>2
    <3>2. QED BY <1>3, <3>1
  <2>3. CASE ~(i <= m) /\ j <= m
    <3>1. st[i] = t[i - m] /\ st[j] = s[j] /\ i - m \in 1 .. n /\ j \in 1 .. m
      BY <1>2, <1>5, <2>3
    <3>2. QED BY <1>3, <3>1
  <2>4. CASE ~(i <= m) /\ ~(j <= m)
    <3>1. /\ st[i] = t[i - m] /\ st[j] = t[j - m]
          /\ i - m \in 1 .. n /\ j - m \in 1 .. n /\ i - m # j - m
      BY <1>2, <1>5, <1>6, <2>4
    <3>2. QED BY <1>4, <3>1
  <2>5. QED BY <2>1, <2>2, <2>3, <2>4
<1>7. QED BY <1>2, <1>6 DEF Apart, st

\* Sequences whose keys are their own, each and together.
KeysApart(k, seqs) ==
  /\ \A i \in DOMAIN seqs : Apart(k, seqs[i])
  /\ \A i, j \in DOMAIN seqs : i # j =>
       \A x \in ToSet(seqs[i]) : \A y \in ToSet(seqs[j]) : k[x] # k[y]

\* Any number of such parts are one.
LEMMA ApartFlatten ==
  ASSUME NEW S, NEW k, NEW seqs \in Seq(Seq(S)), KeysApart(k, seqs)
  PROVE  Apart(k, FlattenSeq(seqs))
<1> DEFINE P == {t \in Seq(Seq(S)) : KeysApart(k, t) => Apart(k, FlattenSeq(t))}
<1>1. <<>> \in P
  <2>1. <<>> \in Seq(Seq(S)) /\ Apart(k, <<>>)
    BY DEF Apart
  <2>2. QED BY <2>1, FlattenEmpty
<1>2. ASSUME NEW t \in Seq(Seq(S)), NEW e \in Seq(S), t \in P
      PROVE  Append(t, e) \in P
  <2> DEFINE te == Append(t, e)
             n == Len(t)
  <2>1. /\ te \in Seq(Seq(S)) /\ n \in Nat /\ DOMAIN t = 1 .. n
        /\ DOMAIN te = 1 .. n + 1 /\ te[n + 1] = e
        /\ \A i \in 1 .. n : te[i] = t[i]
    OBVIOUS
  <2> SUFFICES ASSUME KeysApart(k, te) PROVE Apart(k, FlattenSeq(te))
    BY <2>1
  <2> HIDE DEF te, n
  <2>2. \A i \in 1 .. n : i \in 1 .. n + 1 /\ i # n + 1
    BY <2>1
  <2>3. n + 1 \in 1 .. n + 1
    BY <2>1
  <2>4. KeysApart(k, t)
    <3>1. \A i \in 1 .. n : Apart(k, t[i])
      BY <2>1, <2>2 DEF KeysApart
    <3>2. ASSUME NEW i \in 1 .. n, NEW j \in 1 .. n, i # j,
                 NEW x \in ToSet(t[i]), NEW y \in ToSet(t[j])
          PROVE  k[x] # k[y]
      <4>1. i \in DOMAIN te /\ j \in DOMAIN te /\ te[i] = t[i] /\ te[j] = t[j]
        BY <2>1, <2>2
      <4>2. QED BY <3>2, <4>1 DEF KeysApart
    <3>3. QED BY <2>1, <3>1, <3>2 DEF KeysApart
  <2>5. Apart(k, FlattenSeq(t))
    BY <1>2, <2>4
  <2>6. Apart(k, e)
    BY <2>1, <2>3 DEF KeysApart
  <2>7. \A x \in ToSet(FlattenSeq(t)) : \A y \in ToSet(e) : k[x] # k[y]
    <3>1. ToSet(FlattenSeq(t)) = UNION {ToSet(t[i]) : i \in DOMAIN t}
      BY FlattenElements
    <3>2. \A i \in 1 .. n : \A x \in ToSet(t[i]) : \A y \in ToSet(e) : k[x] # k[y]
      BY <2>1, <2>2, <2>3 DEF KeysApart
    <3>3. QED BY <2>1, <3>1, <3>2
  <2>8. FlattenSeq(te) = FlattenSeq(t) \o e /\ FlattenSeq(t) \in Seq(S)
    BY FlattenAppend DEF te
  <2>9. Apart(k, FlattenSeq(t) \o e)
    BY <2>5, <2>6, <2>7, <2>8, ApartConcat
  <2>10. QED BY <2>8, <2>9
<1>3. \A t \in Seq(Seq(S)) : t \in P
  <2> HIDE DEF P
  <2>1. QED BY <1>1, <1>2, SequenceInduction
<1>4. QED BY <1>3

-----------------------------------------------------------------------------
(* Sorting.                                                                 *)

Sorts(s, k, T) ==
  /\ ToSet(s) = T
  /\ \A i, j \in DOMAIN s : i < j => k[s[i]] < k[s[j]]

\* Elements with different ranks can be put in order.
LEMMA SortedEnumeration ==
  ASSUME NEW S, IsFiniteSet(S), NEW k, Maps(k, S, Nat),
         \A x, y \in S : k[x] = k[y] => x = y
  PROVE  \E s \in [1 .. Cardinality(S) -> S] : Sorts(s, k, S)
<1> DEFINE Has(T) == \E s \in [1 .. Cardinality(T) -> T] : Sorts(s, k, T)
           P == {n \in Nat : \A T \in SUBSET S : Cardinality(T) = n => Has(T)}
<1>1. \A T \in SUBSET S : IsFiniteSet(T) /\ Cardinality(T) \in Nat
  BY FS_Subset, FS_CardinalityType
<1>2. 0 \in P
  <2>1. ASSUME NEW T \in SUBSET S, Cardinality(T) = 0 PROVE Has(T)
    <3>1. T = {}
      BY <1>1, <2>1, FS_EmptySet
    <3>2. <<>> \in [1 .. 0 -> T] /\ Sorts(<<>>, k, T)
      BY <3>1 DEF Sorts, ToSet
    <3>3. QED BY <2>1, <3>2
  <2>2. QED BY <2>1
<1>3. ASSUME NEW n \in Nat, n \in P PROVE n + 1 \in P
  <2> SUFFICES ASSUME NEW T \in SUBSET S, Cardinality(T) = n + 1 PROVE Has(T)
    OBVIOUS
  <2>1. T # {} /\ IsFiniteSet(T)
    BY <1>1, FS_EmptySet
  <2>2. PICK e \in T : \A x \in T : k[e] <= k[x]
    <3> DEFINE R == {k[x] : x \in T}
    <3>1. R \in SUBSET Nat /\ R # {}
      BY <2>1 DEF Maps
    <3>2. PICK r \in R : \A q \in R : r <= q
      <4> HIDE DEF R
      <4>1. QED BY <3>1, LeastNatural
    <3>3. QED BY <3>2
  <2> DEFINE U == T \ {e}
  <2>3. IsFiniteSet(U) /\ Cardinality(U) = n
    <3>1. Cardinality(U) = Cardinality(T) - 1
      BY <2>1, FS_RemoveElement
    <3>2. QED BY <1>1, <3>1
  <2>4. PICK u \in [1 .. n -> U] : Sorts(u, k, U)
    BY <1>3, <2>3
  <2> DEFINE s == [i \in 1 .. n + 1 |-> IF i = 1 THEN e ELSE u[i - 1]]
  <2>5. /\ \A i \in 2 .. n + 1 : i - 1 \in 1 .. n /\ s[i] = u[i - 1] /\ u[i - 1] \in U
        /\ s[1] = e
    <3>1. \A i \in 2 .. n + 1 : i - 1 \in 1 .. n /\ i \in 1 .. n + 1 /\ i # 1
      OBVIOUS
    <3>2. QED BY <3>1
  <2>6. s \in [1 .. n + 1 -> T]
    <3>1. \A i \in 1 .. n + 1 : i = 1 \/ i \in 2 .. n + 1
      OBVIOUS
    <3>2. \A i \in 1 .. n + 1 : s[i] \in T
      BY <2>5, <3>1
    <3>3. QED BY <3>2
  <2>7. ToSet(s) = T
    <3>1. \A x \in U : \E i \in 1 .. n + 1 : s[i] = x
      <4> TAKE x \in U
      <4>1. PICK i \in 1 .. n : u[i] = x
        BY <2>4 DEF Sorts, ToSet
      <4>2. i + 1 \in 2 .. n + 1 /\ i + 1 \in 1 .. n + 1 /\ (i + 1) - 1 = i
        OBVIOUS
      <4>3. QED BY <2>5, <4>1, <4>2
    <3>2. \E i \in 1 .. n + 1 : s[i] = e
      <4>1. 1 \in 1 .. n + 1
        OBVIOUS
      <4>2. QED BY <2>5, <4>1
    <3>3. DOMAIN s = 1 .. n + 1
      OBVIOUS
    <3> HIDE DEF s
    <3>4. QED BY <2>6, <3>1, <3>2, <3>3 DEF ToSet
  <2>8. ASSUME NEW i \in 1 .. n + 1, NEW j \in 1 .. n + 1, i < j
        PROVE  k[s[i]] < k[s[j]]
    <3>1. j \in 2 .. n + 1
      BY <2>8
    <3>2. s[j] = u[j - 1] /\ u[j - 1] \in U /\ j - 1 \in 1 .. n
      BY <2>5, <3>1
    <3>3. CASE i = 1
      <4>1. k[e] <= k[s[j]] /\ k[e] # k[s[j]] /\ k[e] \in Nat /\ k[s[j]] \in Nat
        BY <2>2, <3>2 DEF Maps
      <4>2. QED BY <2>5, <3>3, <4>1
    <3>4. CASE i # 1
      <4>1. i \in 2 .. n + 1 /\ i - 1 < j - 1
        BY <2>8, <3>4
      <4>2. s[i] = u[i - 1] /\ i - 1 \in 1 .. n
        BY <2>5, <4>1
      <4>3. \A p, q \in 1 .. n : p < q => k[u[p]] < k[u[q]]
        BY <2>4 DEF Sorts
      <4>4. k[u[i - 1]] < k[u[j - 1]]
        BY <3>2, <4>1, <4>2, <4>3
      <4>5. QED BY <3>2, <4>2, <4>4
    <3>5. QED BY <3>3, <3>4
  <2>9. Sorts(s, k, T)
    BY <2>7, <2>8 DEF Sorts
  <2>10. QED BY <2>6, <2>9
<1>4. \A n \in Nat : n \in P
  <2> HIDE DEF P
  <2>1. QED BY <1>2, <1>3, Induction
<1>5. QED BY <1>1, <1>4
=============================================================================
