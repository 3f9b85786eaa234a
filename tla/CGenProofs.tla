----------------------------- MODULE CGenProofs -----------------------------
(***************************************************************************)
(* Proofs about CGen, for every output of solc: the C names of overloads   *)
(* are different, whatever order the HashMap yields the methods in, each   *)
(* selector finds its function, and the files of a contract are together.  *)
(***************************************************************************)
EXTENDS CGen, SequenceFacts

-----------------------------------------------------------------------------
(* Overloads.                                                               *)

\* A list is a sequence of what is in it.
LEMMA ListIsSequence ==
  ASSUME NEW s, IsList(s)
  PROVE  /\ s \in Seq({s[i] : i \in DOMAIN s})
         /\ DOMAIN s = 1 .. Len(s) /\ Len(s) \in Nat
<1> DEFINE n == Len(s)
<1>1. n \in Nat /\ s = [i \in 1 .. n |-> s[i]]
  BY DEF IsList
<1> HIDE DEF n
<1>2. DOMAIN s = 1 .. n
  BY <1>1
<1>3. s \in Seq({s[i] : i \in DOMAIN s})
  BY <1>1, <1>2, IsSequence
<1>4. QED BY <1>1, <1>2, <1>3 DEF n

Named(c, name) == {f \in c.functions : f.name = name}

\* The functions of one name are a finite part of the contract's.
LEMMA NamedAreFinite ==
  ASSUME NEW c, IsContract(c), NEW name
  PROVE  IsFiniteSet(Named(c, name)) /\ Cardinality(Named(c, name)) \in Nat
<1>1. IsFiniteSet(c.functions) /\ Named(c, name) \in SUBSET c.functions
  BY DEF IsContract, Named
<1>2. QED BY <1>1, FS_Subset, FS_CardinalityType

\* Sorting finds an order: each function of the name has one place in it.
LEMMA OverloadsSorted ==
  ASSUME NEW c, IsContract(c), NEW name
  PROVE  /\ Overloads(c, name) \in [1 .. Cardinality(Named(c, name)) -> Named(c, name)]
         /\ ToSet(Overloads(c, name)) = Named(c, name)
         /\ \A i, j \in DOMAIN Overloads(c, name) :
              i < j => Overloads(c, name)[i].rank < Overloads(c, name)[j].rank
<1> DEFINE fs == Named(c, name)
           rank == [f \in fs |-> f.rank]
           Fine(s) == /\ ToSet(s) = fs
                      /\ \A i, j \in DOMAIN s : i < j => s[i].rank < s[j].rank
<1>1. IsFiniteSet(fs)
  BY NamedAreFinite
<1>2. \A f \in fs : f \in c.functions
  BY DEF Named
<1>3. \A f \in c.functions : f.rank \in Nat
  BY DEF IsContract
<1>4. \A f, g \in c.functions : f.rank = g.rank => f = g
  BY DEF IsContract
<1> HIDE DEF fs
<1>5. Maps(rank, fs, Nat)
  BY <1>2, <1>3 DEF Maps
<1>6. \A f, g \in fs : rank[f] = rank[g] => f = g
  BY <1>2, <1>4
<1> HIDE DEF rank
<1>7. PICK s \in [1 .. Cardinality(fs) -> fs] : Sorts(s, rank, fs)
  BY <1>1, <1>5, <1>6, SortedEnumeration
<1>8. Fine(s)
  <2>1. \A i \in DOMAIN s : s[i] \in fs
    BY <1>7
  <2>2. \A i, j \in DOMAIN s : i < j => rank[s[i]] < rank[s[j]]
    BY <1>7 DEF Sorts
  <2>3. \A i \in DOMAIN s : rank[s[i]] = s[i].rank
    BY <2>1 DEF rank
  <2>4. \A i, j \in DOMAIN s : i < j => s[i].rank < s[j].rank
    BY <2>2, <2>3
  <2>5. QED BY <1>7, <2>4 DEF Sorts
<1>9. Overloads(c, name) = CHOOSE u \in [1 .. Cardinality(fs) -> fs] : Fine(u)
  BY DEF Overloads, Named, fs
<1> HIDE DEF Fine
<1>10. /\ Overloads(c, name) \in [1 .. Cardinality(fs) -> fs]
       /\ Fine(Overloads(c, name))
  BY <1>7, <1>8, <1>9
<1>11. QED BY <1>10 DEF Fine, fs

\* Where a function stands among its overloads, and so its name in C.
Place(c, f) ==
  CHOOSE i \in DOMAIN Overloads(c, f.name) : Overloads(c, f.name)[i] = f
CNameOf(c, f) == CName(f.name, Place(c, f))

\* Each function has a place, and at each place is a function of that name.
LEMMA Places ==
  ASSUME NEW c, IsContract(c)
  PROVE  /\ \A f \in c.functions :
              /\ Place(c, f) \in 1 .. Cardinality(Named(c, f.name))
              /\ Overloads(c, f.name)[Place(c, f)] = f
         /\ \A name : \A i \in DOMAIN Overloads(c, name) :
              /\ Overloads(c, name)[i] \in c.functions
              /\ Overloads(c, name)[i].name = name
              /\ Place(c, Overloads(c, name)[i]) = i
<1>1. ASSUME NEW f \in c.functions
      PROVE  /\ Place(c, f) \in DOMAIN Overloads(c, f.name)
             /\ DOMAIN Overloads(c, f.name) = 1 .. Cardinality(Named(c, f.name))
             /\ Overloads(c, f.name)[Place(c, f)] = f
  <2>1. f \in ToSet(Overloads(c, f.name))
    <3>1. f \in Named(c, f.name)
      BY DEF Named
    <3>2. QED BY <3>1, OverloadsSorted
  <2>2. \E i \in DOMAIN Overloads(c, f.name) : Overloads(c, f.name)[i] = f
    BY <2>1 DEF ToSet
  <2>3. QED BY <2>2, OverloadsSorted DEF Place
<1>2. ASSUME NEW name, NEW i \in DOMAIN Overloads(c, name)
      PROVE  /\ Overloads(c, name)[i] \in c.functions
             /\ Overloads(c, name)[i].name = name
             /\ Place(c, Overloads(c, name)[i]) = i
  <2> DEFINE o == Overloads(c, name)
             f == o[i]
  <2>1. o[i] \in Named(c, name) /\ DOMAIN o = 1 .. Cardinality(Named(c, name))
    BY OverloadsSorted
  <2>2. f \in c.functions /\ f.name = name
    BY <2>1 DEF Named
  <2>3. Place(c, f) \in DOMAIN o /\ o[Place(c, f)] = f
    BY <1>1, <2>2
  <2>4. \A j, k \in DOMAIN o : j < k => o[j].rank < o[k].rank
    BY OverloadsSorted
  <2>5. f.rank \in Nat
    BY <2>2 DEF IsContract
  <2> DEFINE p == Place(c, f)
  <2>6. p \in DOMAIN o /\ o[p] = f
    BY <2>3
  <2>7. Cardinality(Named(c, name)) \in Nat
    BY NamedAreFinite
  <2>8. i \in DOMAIN o /\ o[i] = f
    OBVIOUS
  <2> HIDE DEF p, f, o
  <2>9. p \in Nat /\ i \in Nat
    BY <2>1, <2>6, <2>7, <2>8
  <2>10. ~(p < i) /\ ~(i < p)
    BY <2>4, <2>5, <2>6, <2>8
  <2>11. p = i
    BY <2>9, <2>10
  <2>12. QED BY <2>2, <2>11 DEF p, f, o
<1>3. QED BY <1>1, <1>2

\* Overloads have different names in C, of one another and of every other
\* function, unless a function is called like a numbered overload.
LEMMA CNamesApart ==
  ASSUME NEW c, IsContract(c), ~Clashes(c)
  PROVE  \A f, g \in c.functions : CNameOf(c, f) = CNameOf(c, g) => f = g
<1>1. \A f \in c.functions : /\ Place(c, f) \in 1 .. Cardinality(Named(c, f.name))
                             /\ Overloads(c, f.name)[Place(c, f)] = f
                             /\ f.name \in Seq({f.name[i] : i \in DOMAIN f.name})
  <2>1. \A f \in c.functions : IsList(f.name)
    BY DEF IsContract
  <2>2. QED BY <2>1, Places, ListIsSequence
<1>2. \A f \in c.functions : Cardinality(Named(c, f.name)) \in Nat
  BY NamedAreFinite
<1>3. \A f, g \in c.functions :
        \A i \in 1 .. Cardinality(Named(c, f.name)) - 1 : g.name # Append(f.name, i)
  BY DEF Clashes, Named
<1>4. ASSUME NEW f \in c.functions, NEW g \in c.functions,
             Place(c, f) # 1, CNameOf(c, g) = CNameOf(c, f), Place(c, g) = 1
      PROVE  FALSE
  <2>1. g.name = Append(f.name, Place(c, f) - 1)
    BY <1>4 DEF CNameOf, CName
  <2>2. Place(c, f) - 1 \in 1 .. Cardinality(Named(c, f.name)) - 1
    <3> DEFINE n == Cardinality(Named(c, f.name))
               p == Place(c, f)
    <3>1. n \in Nat /\ p \in 1 .. n /\ p # 1
      BY <1>1, <1>2, <1>4
    <3> HIDE DEF n, p
    <3>2. p - 1 \in 1 .. n - 1
      BY <3>1
    <3>3. QED BY <3>2 DEF n, p
  <2>3. QED BY <1>3, <2>1, <2>2
<1>5. ASSUME NEW f \in c.functions, NEW g \in c.functions,
             CNameOf(c, f) = CNameOf(c, g)
      PROVE  f = g
  <2>1. Place(c, f) \in Nat /\ Place(c, g) \in Nat
    <3> DEFINE m == Cardinality(Named(c, f.name))
               n == Cardinality(Named(c, g.name))
    <3>1. m \in Nat /\ n \in Nat /\ Place(c, f) \in 1 .. m /\ Place(c, g) \in 1 .. n
      BY <1>1, <1>2
    <3> HIDE DEF m, n
    <3>2. QED BY <3>1
  <2>2. CASE Place(c, f) = 1 /\ Place(c, g) = 1
    <3>1. f.name = g.name
      BY <1>5, <2>2 DEF CNameOf, CName
    <3>2. QED BY <1>1, <2>2, <3>1
  <2>3. CASE Place(c, f) # 1 /\ Place(c, g) # 1
    <3>1. Append(f.name, Place(c, f) - 1) = Append(g.name, Place(c, g) - 1)
      BY <1>5, <2>3 DEF CNameOf, CName
    <3> DEFINE S == {f.name[i] : i \in DOMAIN f.name} \cup
                    {g.name[i] : i \in DOMAIN g.name} \cup Int
               m == f.name
               n == g.name
               p == Place(c, f) - 1
               q == Place(c, g) - 1
    <3>2. m \in Seq(S) /\ n \in Seq(S)
      <4>1. m \in Seq({f.name[i] : i \in DOMAIN f.name})
            /\ n \in Seq({g.name[i] : i \in DOMAIN g.name})
        BY <1>1
      <4>2. QED BY <4>1
    <3>3. p \in S /\ q \in S
      BY <2>1
    <3>4. Append(m, p) = Append(n, q)
      BY <3>1
    <3> HIDE DEF S, m, n, p, q
    <3>5. m = n /\ p = q
      <4>1. /\ Append(m, p) \in Seq(S) /\ Len(Append(m, p)) = Len(m) + 1
            /\ Append(m, p)[Len(m) + 1] = p
            /\ \A i \in 1 .. Len(m) : Append(m, p)[i] = m[i]
        BY <3>2, <3>3
      <4>2. /\ Len(Append(n, q)) = Len(n) + 1
            /\ Append(n, q)[Len(n) + 1] = q
            /\ \A i \in 1 .. Len(n) : Append(n, q)[i] = n[i]
        BY <3>2, <3>3
      <4>3. Len(m) \in Nat /\ Len(n) \in Nat /\ Len(m) + 1 = Len(n) + 1
        BY <3>2, <3>4, <4>1, <4>2
      <4>4. Len(m) = Len(n)
        BY <4>3
      <4>5. \A i \in 1 .. Len(m) : m[i] = n[i]
        BY <3>4, <4>1, <4>2, <4>4
      <4>6. QED BY <3>2, <3>4, <4>1, <4>2, <4>4, <4>5, SameSequence
    <3>6. f.name = g.name /\ Place(c, f) = Place(c, g)
      BY <2>1, <3>5 DEF m, n, p, q
    <3>7. QED BY <1>1, <3>6
  <2>4. QED BY <1>4, <1>5, <2>2, <2>3
<1>6. QED BY <1>5

-----------------------------------------------------------------------------
(* Lines.                                                                   *)

\* The lines of a function, and the line of the router that takes it.
Selector(c, f) == [what |-> "SELECTOR", name |-> CNameOf(c, f), value |-> f.rank]
Prototype(c, f) == [what |-> "prototype", name |-> CNameOf(c, f), value |-> Params(f)]
FnLines(c, f) == HeaderLines(f, CNameOf(c, f))
FnRoute(c, f) == RouterLine(f, CNameOf(c, f))

\* The lines of some functions of a contract, and of its variables.
FnSet(c, fs) == {Selector(c, f) : f \in fs} \cup {Prototype(c, f) : f \in fs}
VarSet(c) == UNION {ToSet(PlacedLines(c.variables[i])) : i \in DOMAIN c.variables}
AllLines(c) == FnSet(c, c.functions) \cup VarSet(c)
Routes(c, fs) == {FnRoute(c, f) : f \in fs}

\* What must be different: the name of a macro or a prototype, the test of a
\* line of the router.
Macro(c) == [l \in AllLines(c) |-> <<l.what, l.name>>]
Test(c) == [l \in Routes(c, c.functions) |-> l.tests]

\* A sequence of two.
LEMMA PairOf ==
  ASSUME NEW S, NEW a \in S, NEW b \in S
  PROVE  /\ <<a, b>> \in Seq(S) /\ Len(<<a, b>>) = 2 /\ DOMAIN <<a, b>> = {1, 2}
         /\ <<a, b>>[1] = a /\ <<a, b>>[2] = b /\ ToSet(<<a, b>>) = {a, b}
<1>1. <<a, b>> \in Seq(S) /\ Len(<<a, b>>) = 2 /\ <<a, b>>[1] = a /\ <<a, b>>[2] = b
  OBVIOUS
<1>2. DOMAIN <<a, b>> = {1, 2}
  OBVIOUS
<1> DEFINE p == <<a, b>>
<1>3. p[1] = a /\ p[2] = b /\ DOMAIN p = {1, 2}
  BY <1>1, <1>2
<1> HIDE DEF p
<1>4. ToSet(p) = {a, b}
  BY <1>3 DEF ToSet
<1>5. QED BY <1>1, <1>2, <1>4 DEF p

\* The two lines of a function bear its C name, and are different macros.
LEMMA LinesOfFunction ==
  ASSUME NEW c, NEW f \in c.functions
  PROVE  /\ FnLines(c, f) \in Seq(AllLines(c))
         /\ ToSet(FnLines(c, f)) = {Selector(c, f), Prototype(c, f)}
         /\ Selector(c, f) \in AllLines(c) /\ Prototype(c, f) \in AllLines(c)
         /\ Macro(c)[Selector(c, f)] = <<"SELECTOR", CNameOf(c, f)>>
         /\ Macro(c)[Prototype(c, f)] = <<"prototype", CNameOf(c, f)>>
         /\ Apart(Macro(c), FnLines(c, f))
<1> DEFINE a == Selector(c, f)
           b == Prototype(c, f)
           k == Macro(c)
           S == AllLines(c)
<1>1. a \in S /\ b \in S
  BY DEF AllLines, FnSet
<1>2. k[a] = <<a.what, a.name>> /\ k[b] = <<b.what, b.name>>
  BY <1>1 DEF Macro
<1>3. a.what = "SELECTOR" /\ b.what = "prototype" /\ a.name = CNameOf(c, f) /\ b.name = CNameOf(c, f)
  BY DEF Selector, Prototype
<1>4. FnLines(c, f) = <<a, b>>
  BY DEF FnLines, HeaderLines, Selector, Prototype
<1>5. k[a] # k[b]
  BY <1>2, <1>3
<1> HIDE DEF a, b, k, S
<1>6. /\ <<a, b>> \in Seq(S) /\ DOMAIN <<a, b>> = {1, 2}
      /\ <<a, b>>[1] = a /\ <<a, b>>[2] = b /\ ToSet(<<a, b>>) = {a, b}
  BY <1>1, PairOf
<1>7. Apart(k, <<a, b>>)
  <2> DEFINE p == <<a, b>>
  <2>1. DOMAIN p = {1, 2} /\ p[1] = a /\ p[2] = b
    BY <1>6
  <2> HIDE DEF p
  <2>2. Apart(k, p)
    BY <1>5, <2>1 DEF Apart
  <2>3. QED BY <2>2 DEF p
<1>8. QED BY <1>1, <1>2, <1>3, <1>4, <1>6, <1>7 DEF a, b, k, S

\* Two functions have no macro in common, unless there is a clash.
LEMMA FunctionsApart ==
  ASSUME NEW c, IsContract(c), ~Clashes(c),
         NEW f \in c.functions, NEW g \in c.functions, f # g
  PROVE  \A x \in ToSet(FnLines(c, f)) : \A y \in ToSet(FnLines(c, g)) :
           Macro(c)[x] # Macro(c)[y]
<1>1. CNameOf(c, f) # CNameOf(c, g)
  BY CNamesApart
<1>2. QED BY <1>1, LinesOfFunction

\* The lines of several functions are those of each.
LEMMA LinesOfFunctions ==
  ASSUME NEW c, NEW fs \in SUBSET c.functions
  PROVE  FnSet(c, fs) = UNION {ToSet(FnLines(c, f)) : f \in fs}
<1>1. \A f \in fs : ToSet(FnLines(c, f)) = {Selector(c, f), Prototype(c, f)}
  BY LinesOfFunction
<1>2. QED BY <1>1 DEF FnSet

\* What a method adds to the header: the lines of its overloads, all different
\* macros unless there is a clash.
NewLines(c, name) ==
  FlattenSeq([i \in DOMAIN Overloads(c, name) |->
               HeaderLines(Overloads(c, name)[i], CName(name, i))])

\* These are lines of the contract, and different macros.
LEMMA MethodLines ==
  ASSUME NEW c, IsContract(c), NEW name
  PROVE  /\ NewLines(c, name) \in Seq(AllLines(c))
         /\ ToSet(NewLines(c, name)) = FnSet(c, Named(c, name))
         /\ ~Clashes(c) => Apart(Macro(c), NewLines(c, name))
<1> DEFINE o == Overloads(c, name)
           n == Cardinality(Named(c, name))
           u == [i \in DOMAIN o |-> HeaderLines(o[i], CName(name, i))]
           S == AllLines(c)
<1>1. n \in Nat /\ DOMAIN o = 1 .. n /\ ToSet(o) = Named(c, name)
  BY NamedAreFinite, OverloadsSorted
<1>2. \A i \in DOMAIN o : o[i] \in c.functions /\ o[i].name = name /\ Place(c, o[i]) = i
  BY Places
<1>3. \A i \in DOMAIN o : u[i] = FnLines(c, o[i])
  BY <1>2 DEF FnLines, CNameOf
<1>4. DOMAIN u = 1 .. n /\ u = [i \in 1 .. n |-> u[i]]
  BY <1>1
<1>5. NewLines(c, name) = FlattenSeq(u)
  BY DEF NewLines
<1>6. \A i, j \in DOMAIN o : i # j => o[i] # o[j]
  BY <1>2
<1>7. \A i \in 1 .. n : u[i] \in Seq(S)
  BY <1>1, <1>2, <1>3, LinesOfFunction
<1> HIDE DEF u, o, n, S
<1>8. u \in Seq(Seq(S))
  BY <1>1, <1>4, <1>7, IsSequence
<1>9. FlattenSeq(u) \in Seq(S) /\ ToSet(FlattenSeq(u)) = UNION {ToSet(u[i]) : i \in DOMAIN u}
  BY <1>8, FlattenElements
<1>10. UNION {ToSet(u[i]) : i \in DOMAIN u} = FnSet(c, Named(c, name))
  <2>1. FnSet(c, Named(c, name)) = UNION {ToSet(FnLines(c, f)) : f \in Named(c, name)}
    BY LinesOfFunctions DEF Named
  <2>2. Named(c, name) = {o[i] : i \in 1 .. n}
    BY <1>1 DEF ToSet
  <2>3. \A i \in 1 .. n : u[i] = FnLines(c, o[i])
    BY <1>1, <1>3
  <2>4. QED BY <1>4, <2>1, <2>2, <2>3
<1>11. ASSUME ~Clashes(c) PROVE Apart(Macro(c), FlattenSeq(u))
  <2>1. \A i \in DOMAIN u : Apart(Macro(c), u[i])
    BY <1>1, <1>2, <1>3, <1>4, LinesOfFunction
  <2>2. ASSUME NEW i \in DOMAIN u, NEW j \in DOMAIN u, i # j
        PROVE  \A x \in ToSet(u[i]) : \A y \in ToSet(u[j]) : Macro(c)[x] # Macro(c)[y]
    <3>1. o[i] \in c.functions /\ o[j] \in c.functions /\ o[i] # o[j]
          /\ u[i] = FnLines(c, o[i]) /\ u[j] = FnLines(c, o[j])
      BY <1>1, <1>2, <1>3, <1>4, <1>6, <2>2
    <3>2. QED BY <1>11, <3>1, FunctionsApart
  <2>3. KeysApart(Macro(c), u)
    BY <2>1, <2>2 DEF KeysApart
  <2>4. QED BY <1>8, <2>3, ApartFlatten
<1>12. QED BY <1>5, <1>9, <1>10, <1>11 DEF S

\* What a method adds to the router: one line for each of its overloads.
NewRoutes(c, name) ==
  [i \in DOMAIN Overloads(c, name) |-> RouterLine(Overloads(c, name)[i], CName(name, i))]

\* They are as many as the functions of that name, and test different macros.
LEMMA MethodRoutes ==
  ASSUME NEW c, IsContract(c), NEW name
  PROVE  /\ NewRoutes(c, name) \in Seq(Routes(c, c.functions))
         /\ ToSet(NewRoutes(c, name)) = Routes(c, Named(c, name))
         /\ Len(NewRoutes(c, name)) = Cardinality(Named(c, name))
         /\ ~Clashes(c) => Apart(Test(c), NewRoutes(c, name))
<1> DEFINE o == Overloads(c, name)
           n == Cardinality(Named(c, name))
           u == NewRoutes(c, name)
           S == Routes(c, c.functions)
<1>1. n \in Nat /\ DOMAIN o = 1 .. n /\ ToSet(o) = Named(c, name)
  BY NamedAreFinite, OverloadsSorted
<1>2. \A i \in DOMAIN o : o[i] \in c.functions /\ o[i].name = name /\ Place(c, o[i]) = i
  BY Places
<1>3. \A i \in DOMAIN o : u[i] = FnRoute(c, o[i])
  BY <1>2 DEF FnRoute, CNameOf, NewRoutes
<1>4. DOMAIN u = 1 .. n /\ u = [i \in 1 .. n |-> u[i]]
  BY <1>1 DEF NewRoutes
<1>5. \A i \in 1 .. n : u[i] \in S
  BY <1>1, <1>2, <1>3 DEF Routes
<1>6. \A i, j \in DOMAIN o : i # j => o[i] # o[j]
  BY <1>2
<1>7. ASSUME ~Clashes(c), NEW i \in DOMAIN u, NEW j \in DOMAIN u, i # j
      PROVE  Test(c)[u[i]] # Test(c)[u[j]]
  <2>1. o[i] \in c.functions /\ o[j] \in c.functions /\ o[i] # o[j]
        /\ u[i] = FnRoute(c, o[i]) /\ u[j] = FnRoute(c, o[j])
    BY <1>1, <1>2, <1>3, <1>4, <1>6, <1>7
  <2>2. u[i] \in S /\ u[j] \in S
    BY <1>4, <1>5
  <2>3. Test(c)[u[i]] = u[i].tests /\ Test(c)[u[j]] = u[j].tests
    BY <2>2 DEF Test
  <2>4. u[i].tests = CNameOf(c, o[i]) /\ u[j].tests = CNameOf(c, o[j])
    BY <2>1 DEF FnRoute, RouterLine
  <2>5. CNameOf(c, o[i]) # CNameOf(c, o[j])
    BY <1>7, <2>1, CNamesApart
  <2>6. QED BY <2>3, <2>4, <2>5
<1>8. Routes(c, Named(c, name)) = {u[i] : i \in 1 .. n}
  <2>1. Named(c, name) = {o[i] : i \in 1 .. n}
    BY <1>1 DEF ToSet
  <2> HIDE DEF u, o, n
  <2>2. QED BY <1>1, <1>3, <2>1 DEF Routes
<1> HIDE DEF u, o, n, S
<1>9. u \in Seq(S) /\ Len(u) = n
  BY <1>1, <1>4, <1>5, IsSequence
<1>10. ToSet(u) = Routes(c, Named(c, name))
  BY <1>4, <1>8 DEF ToSet
<1>11. ~Clashes(c) => Apart(Test(c), u)
  BY <1>7 DEF Apart
<1>12. QED BY <1>9, <1>10, <1>11 DEF u, n, S

StorageMacros == {"STORAGE_SLOT", "STORAGE_BASE", "STORAGE_END_OFFSET"}

\* A key that says what a line defines, and its name.
ByName(k, S) == \A l \in S : k[l] = <<l.what, l.name>>

\* One element and another, one element and nothing.
LEMMA Joined == \A x, y : <<x>> \o <<y>> = <<x, y>> /\ <<x>> \o <<>> = <<x>>
<1> SUFFICES ASSUME NEW x, NEW y
             PROVE  <<x>> \o <<y>> = <<x, y>> /\ <<x>> \o <<>> = <<x>>
  OBVIOUS
<1> DEFINE S == {x, y}
           s == <<x>>
<1>1. s \in Seq(S) /\ y \in S
  OBVIOUS
<1>2. Append(s, y) = <<x, y>>
  <2> DEFINE p == <<x, y>>
             q == Append(s, y)
  <2>1. p \in Seq(S) /\ Len(p) = 2 /\ p[1] = x /\ p[2] = y
    BY PairOf
  <2>2. s[1] = x /\ Len(s) = 1
    OBVIOUS
  <2> HIDE DEF s, p, S
  <2>3. q \in Seq(S) /\ Len(q) = Len(s) + 1 /\ q[Len(s) + 1] = y
        /\ \A i \in 1 .. Len(s) : q[i] = s[i]
    BY <1>1, AppendProperties
  <2>4. Len(q) = 2 /\ q[1] = x /\ q[2] = y
    BY <2>2, <2>3
  <2> HIDE DEF q
  <2>5. \A i \in 1 .. 2 : q[i] = p[i]
    BY <2>1, <2>4
  <2>6. q = p
    BY <2>1, <2>3, <2>4, <2>5, SameSequence
  <2>7. QED BY <2>6 DEF p, q
<1> HIDE DEF s, S
<1>3. s \o <<y>> = Append(s, y)
  BY <1>1
<1>4. s \o <<>> = s
  BY <1>1, NoPart DEF Cat
<1>5. QED BY <1>2, <1>3, <1>4 DEF s

\* The lines of a variable bear its label, and are different macros.
LEMMA LinesOfVariable ==
  ASSUME NEW v, NEW S, ToSet(PlacedLines(v)) \in SUBSET S,
         NEW k, ByName(k, S)
  PROVE  /\ PlacedLines(v) \in Seq(S)
         /\ \A x \in ToSet(PlacedLines(v)) : x.what \in StorageMacros /\ x.name = v.label
         /\ Apart(k, PlacedLines(v))
<1> DEFINE a == [what |-> "STORAGE_SLOT", name |-> v.label, value |-> v.slot]
           b == [what |-> "STORAGE_BASE", name |-> v.label, value |-> v.slot]
           d == [what |-> "STORAGE_END_OFFSET", name |-> v.label, value |-> 32 - v.offset]
           T == {a, b, d}
           p == PlacedLines(v)
<1>1. /\ \A x \in T : x.what \in StorageMacros /\ x.name = v.label
      /\ a.what # b.what /\ a.what # d.what
  BY DEF StorageMacros
<1>2. a \in T /\ b \in T /\ d \in T
  OBVIOUS
<1>3. \/ p = <<>>
      \/ p = <<a>>
      \/ p = <<a, b>>
      \/ p = <<a, d>>
  <2> DEFINE q == CASE v.kind = "dyn_array" -> <<b>>
                    [] v.kind = "other" -> <<d>>
                    [] OTHER -> <<>>
  <2>1. Placed(v) => p = <<a>> \o q
    BY DEF PlacedLines, StorageLines
  <2>2. ~Placed(v) => p = <<>>
    BY DEF PlacedLines
  <2> HIDE DEF T, a, b, d, p
  <2>3. q = <<b>> \/ q = <<d>> \/ q = <<>>
    BY DEF q
  <2> HIDE DEF q
  <2>4. Placed(v) => p = <<a>> \/ p = <<a, b>> \/ p = <<a, d>>
    BY <2>1, <2>3, Joined
  <2>5. QED BY <2>2, <2>4
<1> HIDE DEF T, a, b, d
<1>4. ToSet(p) \in SUBSET S
  OBVIOUS
<1> HIDE DEF p
<1>5. ASSUME NEW x \in T, NEW y \in T, x.what # y.what, p = <<x, y>>
      PROVE  p \in Seq(S) /\ ToSet(p) \in SUBSET T /\ Apart(k, p)
  <2>1. DOMAIN p = {1, 2} /\ p[1] = x /\ p[2] = y /\ ToSet(p) = {x, y}
    BY <1>5, PairOf
  <2>2. x \in S /\ y \in S
    BY <1>4, <2>1
  <2>3. p \in Seq(S)
    BY <1>5, <2>2, PairOf
  <2>4. k[x] # k[y]
    BY <1>5, <2>2 DEF ByName
  <2>5. Apart(k, p)
    BY <2>1, <2>4 DEF Apart
  <2>6. QED BY <2>1, <2>3, <2>5
<1>6. p \in Seq(S) /\ ToSet(p) \in SUBSET T /\ Apart(k, p)
  <2>1. CASE p = <<>>
    <3>1. DOMAIN p = {} /\ ToSet(p) = {} /\ p \in Seq(S)
      BY <2>1, FewElements
    <3>2. QED BY <3>1 DEF Apart
  <2>2. CASE p = <<a>>
    <3>1. DOMAIN p = {1} /\ ToSet(p) = {a}
      BY <2>2, FewElements
    <3>2. a \in S
      BY <1>4, <3>1
    <3>3. p \in Seq(S)
      BY <2>2, <3>2
    <3>4. QED BY <1>2, <3>1, <3>3 DEF Apart
  <2>3. CASE p = <<a, b>>
    BY <1>1, <1>2, <1>5, <2>3
  <2>4. CASE p = <<a, d>>
    BY <1>1, <1>2, <1>5, <2>4
  <2>5. QED BY <1>3, <2>1, <2>2, <2>3, <2>4
<1>7. \A x \in ToSet(p) : x.what \in StorageMacros /\ x.name = v.label
  BY <1>1, <1>6
<1>8. QED BY <1>6, <1>7 DEF p

\* What the variables add: macros different from those of functions, and from
\* one another unless two variables have one label.
NewStorage(c) ==
  FlattenSeq([i \in DOMAIN c.variables |-> PlacedLines(c.variables[i])])

\* These are lines of the contract, and different macros but for shared labels.
LEMMA StorageAdds ==
  ASSUME NEW c, IsContract(c)
  PROVE  /\ NewStorage(c) \in Seq(AllLines(c))
         /\ ToSet(NewStorage(c)) = VarSet(c)
         /\ \A x \in VarSet(c) : x.what \in StorageMacros
         /\ \A x \in VarSet(c) : Macro(c)[x][1] \in StorageMacros
         /\ ~SharesLabels(c) => Apart(Macro(c), NewStorage(c))
<1> DEFINE vs == c.variables
           n == Len(vs)
           u == [i \in DOMAIN vs |-> PlacedLines(vs[i])]
           S == AllLines(c)
           k == Macro(c)
<1>1. DOMAIN vs = 1 .. n /\ n \in Nat
  BY ListIsSequence DEF IsContract
<1>2. DOMAIN u = 1 .. n /\ u = [i \in 1 .. n |-> u[i]]
      /\ \A i \in 1 .. n : u[i] = PlacedLines(vs[i])
  BY <1>1
<1>3. ByName(k, S)
  BY DEF Macro, ByName
<1>4. VarSet(c) = UNION {ToSet(u[i]) : i \in 1 .. n} /\ VarSet(c) \in SUBSET S
  BY <1>1, <1>2 DEF VarSet, AllLines
<1>5. NewStorage(c) = FlattenSeq(u)
  BY DEF NewStorage
<1>6. ASSUME ~SharesLabels(c), NEW i \in 1 .. n, NEW j \in 1 .. n, i # j
      PROVE  vs[i].label # vs[j].label
  BY <1>1, <1>6 DEF SharesLabels
<1> HIDE DEF u, n, S, k, vs
<1>7. ASSUME NEW i \in 1 .. n
      PROVE  /\ u[i] \in Seq(S) /\ Apart(k, u[i])
             /\ \A x \in ToSet(u[i]) : x.what \in StorageMacros /\ x.name = vs[i].label
  <2>1. ToSet(PlacedLines(vs[i])) \in SUBSET S
    BY <1>2, <1>4
  <2>2. QED BY <1>2, <1>3, <2>1, LinesOfVariable
<1>8. u \in Seq(Seq(S))
  BY <1>1, <1>2, <1>7, IsSequence
<1>9. FlattenSeq(u) \in Seq(S) /\ ToSet(FlattenSeq(u)) = VarSet(c)
  <2>1. FlattenSeq(u) \in Seq(S) /\ ToSet(FlattenSeq(u)) = UNION {ToSet(u[i]) : i \in DOMAIN u}
    BY <1>8, FlattenElements
  <2>2. QED BY <1>2, <1>4, <2>1
<1>10. \A x \in VarSet(c) : x.what \in StorageMacros
  BY <1>4, <1>7
<1>11. \A x \in VarSet(c) : k[x][1] \in StorageMacros
  BY <1>3, <1>4, <1>10 DEF ByName
<1>12. ASSUME ~SharesLabels(c) PROVE Apart(k, FlattenSeq(u))
  <2>1. ASSUME NEW i \in 1 .. n, NEW j \in 1 .. n, i # j,
               NEW x \in ToSet(u[i]), NEW y \in ToSet(u[j])
        PROVE  k[x] # k[y]
    <3>1. x.name # y.name
      BY <1>6, <1>7, <1>12, <2>1
    <3>2. x \in S /\ y \in S
      BY <1>4
    <3>3. k[x] = <<x.what, x.name>> /\ k[y] = <<y.what, y.name>>
      BY <1>3, <3>2 DEF ByName
    <3>4. QED BY <3>1, <3>3
  <2>2. KeysApart(k, u)
    BY <1>2, <1>7, <2>1 DEF KeysApart
  <2>3. QED BY <1>8, <2>2, ApartFlatten
<1>13. QED BY <1>5, <1>9, <1>10, <1>11, <1>12 DEF S, k

-----------------------------------------------------------------------------
(* The header and the router of a contract.                                 *)

\* They have the lines of these functions, in some order.
HeaderFor(c, fs, h) ==
  /\ h \in Seq(AllLines(c)) /\ ToSet(h) = FnSet(c, fs)
  /\ ~Clashes(c) => Apart(Macro(c), h)
RouterFor(c, fs, r) ==
  /\ r \in Seq(Routes(c, c.functions)) /\ ToSet(r) = Routes(c, fs)
  /\ Len(r) = Cardinality(fs)
  /\ ~Clashes(c) => Apart(Test(c), r)

\* The header has the variables too.
FullHeader(c, h) ==
  /\ h \in Seq(AllLines(c)) /\ ToSet(h) = AllLines(c)
  /\ ~Clashes(c) /\ ~SharesLabels(c) => Apart(Macro(c), h)

\* At first there are no lines.
LEMMA NoLines ==
  ASSUME NEW c
  PROVE  HeaderFor(c, {}, <<>>) /\ RouterFor(c, {}, <<>>)
<1>1. <<>> \in Seq(AllLines(c)) /\ <<>> \in Seq(Routes(c, c.functions)) /\ ToSet(<<>>) = {}
      /\ Len(<<>>) = 0 /\ DOMAIN <<>> = {}
  BY FewElements
<1>2. FnSet(c, {}) = {} /\ Routes(c, {}) = {} /\ Cardinality({}) = 0
  BY FS_EmptySet DEF FnSet, Routes
<1>3. Apart(Macro(c), <<>>) /\ Apart(Test(c), <<>>)
  BY <1>1 DEF Apart
<1>4. QED BY <1>1, <1>2, <1>3 DEF HeaderFor, RouterFor

\* A method adds its functions to the header.
LEMMA HeaderGrows ==
  ASSUME NEW c, IsContract(c), NEW fs \in SUBSET c.functions, NEW name,
         Named(c, name) \cap fs = {}, NEW h, HeaderFor(c, fs, h)
  PROVE  HeaderFor(c, fs \cup Named(c, name), h \o NewLines(c, name))
<1> DEFINE new == NewLines(c, name)
           gs == Named(c, name)
           S == AllLines(c)
<1>1. h \in Seq(S) /\ ToSet(h) = FnSet(c, fs) /\ (~Clashes(c) => Apart(Macro(c), h))
  BY DEF HeaderFor
<1>2. new \in Seq(S) /\ ToSet(new) = FnSet(c, gs) /\ (~Clashes(c) => Apart(Macro(c), new))
  BY MethodLines
<1>3. gs \in SUBSET c.functions
  BY DEF Named
<1> HIDE DEF new, gs, S
<1>4. h \o new \in Seq(S) /\ ToSet(h \o new) = FnSet(c, fs) \cup FnSet(c, gs)
  <2>1. ToSet(h \o new) = ToSet(h) \cup ToSet(new)
    BY <1>1, <1>2, ConcatElements
  <2>2. h \o new \in Seq(S)
    BY <1>1, <1>2
  <2>3. QED BY <1>1, <1>2, <2>1, <2>2
<1>5. FnSet(c, fs) \cup FnSet(c, gs) = FnSet(c, fs \cup gs)
  BY DEF FnSet
<1>6. ASSUME ~Clashes(c) PROVE Apart(Macro(c), h \o new)
  <2>1. \A x \in FnSet(c, fs) : \A y \in FnSet(c, gs) : Macro(c)[x] # Macro(c)[y]
    <3> SUFFICES ASSUME NEW x \in FnSet(c, fs), NEW y \in FnSet(c, gs)
                 PROVE  Macro(c)[x] # Macro(c)[y]
      OBVIOUS
    <3>1. PICK f \in fs : x \in ToSet(FnLines(c, f))
      BY LinesOfFunctions
    <3>2. PICK g \in gs : y \in ToSet(FnLines(c, g))
      BY <1>3, LinesOfFunctions
    <3>3. f \in c.functions /\ g \in c.functions /\ f # g
      BY <1>3 DEF gs
    <3>4. QED BY <1>6, <3>1, <3>2, <3>3, FunctionsApart
  <2>2. QED BY <1>1, <1>2, <1>6, <2>1, ApartConcat
<1>7. QED BY <1>4, <1>5, <1>6 DEF HeaderFor, new, gs, S

\* And to the router.
LEMMA RouterGrows ==
  ASSUME NEW c, IsContract(c), NEW fs \in SUBSET c.functions, NEW name,
         Named(c, name) \cap fs = {}, NEW r, RouterFor(c, fs, r)
  PROVE  RouterFor(c, fs \cup Named(c, name), r \o NewRoutes(c, name))
<1> DEFINE new == NewRoutes(c, name)
           gs == Named(c, name)
           S == Routes(c, c.functions)
           k == Test(c)
<1>1. r \in Seq(S) /\ ToSet(r) = Routes(c, fs) /\ (~Clashes(c) => Apart(k, r))
      /\ Len(r) = Cardinality(fs)
  BY DEF RouterFor
<1>2. new \in Seq(S) /\ ToSet(new) = Routes(c, gs) /\ (~Clashes(c) => Apart(k, new))
      /\ Len(new) = Cardinality(gs)
  BY MethodRoutes
<1>3. gs \in SUBSET c.functions /\ gs \cap fs = {}
  BY DEF Named
<1>4. IsFiniteSet(c.functions)
  BY DEF IsContract
<1>5. \A f \in c.functions : FnRoute(c, f) \in S /\ k[FnRoute(c, f)] = CNameOf(c, f)
  BY DEF Routes, Test, FnRoute, RouterLine
<1> HIDE DEF new, gs, S, k
<1>6. r \o new \in Seq(S) /\ ToSet(r \o new) = Routes(c, fs) \cup Routes(c, gs)
      /\ Len(r \o new) = Len(r) + Len(new)
  <2>1. ToSet(r \o new) = ToSet(r) \cup ToSet(new)
    BY <1>1, <1>2, ConcatElements
  <2>2. r \o new \in Seq(S) /\ Len(r \o new) = Len(r) + Len(new)
    BY <1>1, <1>2
  <2>3. QED BY <1>1, <1>2, <2>1, <2>2
<1>7. Routes(c, fs) \cup Routes(c, gs) = Routes(c, fs \cup gs)
  BY DEF Routes
<1>8. Cardinality(fs \cup gs) = Cardinality(fs) + Cardinality(gs)
  <2>1. IsFiniteSet(fs) /\ IsFiniteSet(gs) /\ fs \cap gs = {}
    BY <1>3, <1>4, FS_Subset
  <2>2. Cardinality(fs \cup gs)
          = Cardinality(fs) + Cardinality(gs) - Cardinality(fs \cap gs)
    BY <2>1, FS_Union
  <2>3. Cardinality(fs \cap gs) = 0
    BY <2>1, FS_EmptySet
  <2>4. Cardinality(fs) \in Nat /\ Cardinality(gs) \in Nat
    BY <2>1, FS_CardinalityType
  <2>5. QED BY <2>2, <2>3, <2>4
<1>9. ASSUME ~Clashes(c) PROVE Apart(k, r \o new)
  <2>1. \A x \in Routes(c, fs) : \A y \in Routes(c, gs) : k[x] # k[y]
    <3> SUFFICES ASSUME NEW x \in Routes(c, fs), NEW y \in Routes(c, gs)
                 PROVE  k[x] # k[y]
      OBVIOUS
    <3>1. PICK f \in fs : x = FnRoute(c, f)
      BY DEF Routes
    <3>2. PICK g \in gs : y = FnRoute(c, g)
      BY DEF Routes
    <3>3. f \in c.functions /\ g \in c.functions /\ f # g
      BY <1>3
    <3>4. QED BY <1>5, <1>9, <3>1, <3>2, <3>3, CNamesApart
  <2>2. QED BY <1>1, <1>2, <1>9, <2>1, ApartConcat
<1>10. QED BY <1>1, <1>2, <1>6, <1>7, <1>8, <1>9 DEF RouterFor, new, gs, S, k

\* The variables complete the header.
LEMMA HeaderCompletes ==
  ASSUME NEW c, IsContract(c), NEW h, HeaderFor(c, c.functions, h)
  PROVE  FullHeader(c, h \o NewStorage(c))
<1> DEFINE new == NewStorage(c)
           S == AllLines(c)
           k == Macro(c)
<1>1. h \in Seq(S) /\ ToSet(h) = FnSet(c, c.functions) /\ (~Clashes(c) => Apart(k, h))
  BY DEF HeaderFor
<1>2. /\ new \in Seq(S) /\ ToSet(new) = VarSet(c)
      /\ \A x \in VarSet(c) : k[x][1] \in StorageMacros
      /\ ~SharesLabels(c) => Apart(k, new)
  BY StorageAdds
<1>3. \A x \in FnSet(c, c.functions) : k[x][1] \in {"SELECTOR", "prototype"}
  <2>1. \A f \in c.functions : /\ k[Selector(c, f)][1] = "SELECTOR"
                               /\ k[Prototype(c, f)][1] = "prototype"
    <3>1. \A f \in c.functions : /\ k[Selector(c, f)] = <<"SELECTOR", CNameOf(c, f)>>
                                 /\ k[Prototype(c, f)] = <<"prototype", CNameOf(c, f)>>
      BY LinesOfFunction
    <3> HIDE DEF k
    <3>2. QED BY <3>1
  <2> HIDE DEF k
  <2>2. QED BY <2>1 DEF FnSet
<1>4. S = FnSet(c, c.functions) \cup VarSet(c)
  BY DEF AllLines
<1> HIDE DEF new, S, k
<1>5. \A x \in ToSet(h) : \A y \in ToSet(new) : k[x] # k[y]
  BY <1>1, <1>2, <1>3 DEF StorageMacros
<1>6. h \o new \in Seq(S) /\ ToSet(h \o new) = S
  <2>1. ToSet(h \o new) = ToSet(h) \cup ToSet(new)
    BY <1>1, <1>2, ConcatElements
  <2>2. h \o new \in Seq(S)
    BY <1>1, <1>2
  <2>3. QED BY <1>1, <1>2, <1>4, <2>1, <2>2
<1>7. ~Clashes(c) /\ ~SharesLabels(c) => Apart(k, h \o new)
  BY <1>1, <1>2, <1>5, ApartConcat
<1>8. QED BY <1>6, <1>7 DEF FullHeader, new, S, k

\* A contract with functions has a router; one with functions or variables that
\* are placed has a header.
LEMMA NotEmpty ==
  ASSUME NEW c, NEW h, FullHeader(c, h), NEW r, RouterFor(c, c.functions, r)
  PROVE  /\ c.functions # {} => h # <<>> /\ r # <<>>
         /\ (\E v \in ToSet(c.variables) : Placed(v)) => h # <<>>
<1>1. ToSet(h) = AllLines(c) /\ ToSet(r) = Routes(c, c.functions) /\ ToSet(<<>>) = {}
  BY FewElements DEF FullHeader, RouterFor
<1>2. ASSUME NEW f \in c.functions PROVE h # <<>> /\ r # <<>>
  <2>1. Selector(c, f) \in AllLines(c) /\ FnRoute(c, f) \in Routes(c, c.functions)
    BY DEF AllLines, FnSet, Routes
  <2>2. QED BY <1>1, <2>1
<1>3. ASSUME NEW v \in ToSet(c.variables), Placed(v) PROVE h # <<>>
  <2> DEFINE a == [what |-> "STORAGE_SLOT", name |-> v.label, value |-> v.slot]
             q == CASE v.kind = "dyn_array" ->
                         <<[what |-> "STORAGE_BASE", name |-> v.label, value |-> v.slot]>>
                    [] v.kind = "other" ->
                         <<[what |-> "STORAGE_END_OFFSET", name |-> v.label,
                            value |-> 32 - v.offset]>>
                    [] OTHER -> <<>>
  <2>1. PlacedLines(v) = <<a>> \o q
    BY <1>3 DEF PlacedLines, StorageLines
  <2> HIDE DEF a
  <2>2. \/ q = <<>>
        \/ \E b : q = <<b>>
    OBVIOUS
  <2> HIDE DEF q
  <2>3. PlacedLines(v) = <<a>> \/ \E b : PlacedLines(v) = <<a, b>>
    BY <2>1, <2>2, Joined
  <2>4. a \in ToSet(PlacedLines(v))
    <3>1. \A b : a \in ToSet(<<a, b>>)
      <4> SUFFICES ASSUME NEW b PROVE a \in ToSet(<<a, b>>)
        OBVIOUS
      <4> DEFINE T == {a, b}
      <4>1. a \in T /\ b \in T
        OBVIOUS
      <4> HIDE DEF T
      <4>2. ToSet(<<a, b>>) = {a, b}
        BY <4>1, PairOf
      <4>3. QED BY <4>2
    <3>2. a \in ToSet(<<a>>)
      BY FewElements
    <3>3. QED BY <2>3, <3>1, <3>2
  <2>5. a \in AllLines(c)
    BY <1>3, <2>4 DEF AllLines, VarSet, ToSet
  <2>6. QED BY <1>1, <2>5
<1>4. QED BY <1>2, <1>3

\* What Dispatches says of a router and its header.
Takes(lines, defs, i, f) ==
  [what |-> "SELECTOR", name |-> lines[i].tests, value |-> f.rank] \in defs

Dispatched(c, h, r) ==
  /\ Len(r) = Cardinality(c.functions)
  /\ \A f \in c.functions : \E i \in DOMAIN r :
       /\ Takes(r, ToSet(h), i, f)
       /\ \A j \in 1 .. i - 1 : ~Takes(r, ToSet(h), j, f)
       /\ [what |-> "prototype", name |-> r[i].calls, value |-> Params(f)] \in ToSet(h)
       /\ Fits(r[i].passes, Params(f))
       /\ r[i].refusesValue = (f.mutability # "payable")
       /\ \A j \in DOMAIN r : j # i => r[j].calls # r[i].calls

\* The arguments of a call fit the parameters of the function.
LEMMA ArgsFit ==
  ASSUME NEW f
  PROVE  Fits(Args(f), Params(f))
<1>1. CASE f.mutability = "pure"
  <2> DEFINE a == <<"input", "len">>
             p == <<"input", "len">>
  <2>1. DOMAIN a = {1, 2} /\ DOMAIN p = {1, 2}
    OBVIOUS
  <2>2. /\ a[1] = "input" /\ a[2] = "len"
        /\ p[1] = "input" /\ p[2] = "len"
    OBVIOUS
  <2>3. Args(f) = a /\ Params(f) = p
    BY <1>1 DEF Args, Params
  <2> HIDE DEF a, p
  <2>4. QED BY <2>1, <2>2, <2>3 DEF Fits
<1>2. CASE f.mutability = "payable"
  <2> DEFINE a == <<"NULL", "input", "len", "value">>
             p == <<"storage", "input", "len", "value">>
  <2>1. DOMAIN a = {1, 2, 3, 4} /\ DOMAIN p = {1, 2, 3, 4}
    OBVIOUS
  <2>2. /\ a[1] = "NULL" /\ a[2] = "input" /\ a[3] = "len" /\ a[4] = "value"
        /\ p[1] = "storage" /\ p[2] = "input" /\ p[3] = "len" /\ p[4] = "value"
    OBVIOUS
  <2>3. Args(f) = a /\ Params(f) = p
    BY <1>2 DEF Args, Params
  <2> HIDE DEF a, p
  <2>4. QED BY <2>1, <2>2, <2>3 DEF Fits
<1>3. CASE f.mutability = "view"
  <2> DEFINE a == <<"NULL", "input", "len">>
             p == <<"const storage", "input", "len">>
  <2>1. DOMAIN a = {1, 2, 3} /\ DOMAIN p = {1, 2, 3}
    OBVIOUS
  <2>2. /\ a[1] = "NULL" /\ a[2] = "input" /\ a[3] = "len"
        /\ p[1] = "const storage" /\ p[2] = "input" /\ p[3] = "len"
    OBVIOUS
  <2>3. Args(f) = a /\ Params(f) = p
    BY <1>3 DEF Args, Params
  <2> HIDE DEF a, p
  <2>4. QED BY <2>1, <2>2, <2>3 DEF Fits
<1>4. CASE f.mutability \notin {"pure", "view", "payable"}
  <2> DEFINE a == <<"NULL", "input", "len">>
             p == <<"storage", "input", "len">>
  <2>1. DOMAIN a = {1, 2, 3} /\ DOMAIN p = {1, 2, 3}
    OBVIOUS
  <2>2. /\ a[1] = "NULL" /\ a[2] = "input" /\ a[3] = "len"
        /\ p[1] = "storage" /\ p[2] = "input" /\ p[3] = "len"
    OBVIOUS
  <2>3. Args(f) = a /\ Params(f) = p
    BY <1>4 DEF Args, Params
  <2> HIDE DEF a, p
  <2>4. QED BY <2>1, <2>2, <2>3 DEF Fits
<1>5. QED BY <1>1, <1>2, <1>3, <1>4

\* A router and a header with all functions do that: each function has one
\* line, the first that takes its selector.
LEMMA RouterDispatches ==
  ASSUME NEW c, IsContract(c), ~Clashes(c), NEW h, FullHeader(c, h),
         NEW r, RouterFor(c, c.functions, r)
  PROVE  Dispatched(c, h, r)
<1>1. ToSet(h) = AllLines(c)
  BY DEF FullHeader
<1>2. /\ r \in Seq(Routes(c, c.functions)) /\ ToSet(r) = Routes(c, c.functions)
      /\ Len(r) = Cardinality(c.functions) /\ Apart(Test(c), r)
  BY DEF RouterFor
<1>3. DOMAIN r = 1 .. Len(r) /\ Len(r) \in Nat /\ \A i \in DOMAIN r : r[i] \in Routes(c, c.functions)
  BY <1>2, SeqParts
<1>4. \A i \in DOMAIN r : \E g \in c.functions : r[i] = FnRoute(c, g)
  BY <1>3 DEF Routes
<1>5. \A g \in c.functions : /\ FnRoute(c, g).tests = CNameOf(c, g)
                             /\ FnRoute(c, g).calls = CNameOf(c, g)
                             /\ FnRoute(c, g).refusesValue = (g.mutability # "payable")
                             /\ FnRoute(c, g).passes = Args(g)
  BY DEF FnRoute, RouterLine
\* a selector is there under one name only
<1>6. ASSUME NEW f \in c.functions, NEW g \in c.functions,
             [what |-> "SELECTOR", name |-> CNameOf(c, g), value |-> f.rank] \in AllLines(c)
      PROVE  f = g
  <2> DEFINE l == [what |-> "SELECTOR", name |-> CNameOf(c, g), value |-> f.rank]
  <2>1. l.what = "SELECTOR" /\ l.name = CNameOf(c, g) /\ l.value = f.rank
    OBVIOUS
  <2>2. l \in AllLines(c)
    BY <1>6
  <2> HIDE DEF l
  <2>3. l \notin VarSet(c)
    <3>1. \A x \in VarSet(c) : x.what \in StorageMacros
      BY StorageAdds
    <3>2. "SELECTOR" \notin StorageMacros
      BY DEF StorageMacros
    <3>3. QED BY <2>1, <3>1, <3>2
  <2>4. l \in FnSet(c, c.functions)
    BY <2>2, <2>3 DEF AllLines
  <2>5. \A e \in c.functions : l # Prototype(c, e)
    <3>1. \A e : Prototype(c, e).what = "prototype"
      BY DEF Prototype
    <3>2. QED BY <2>1, <3>1
  <2>6. PICK e \in c.functions : l = Selector(c, e)
    BY <2>4, <2>5 DEF FnSet
  <2>7. Selector(c, e).name = CNameOf(c, e) /\ Selector(c, e).value = e.rank
    BY DEF Selector
  <2>8. CNameOf(c, e) = CNameOf(c, g) /\ e.rank = f.rank
    BY <2>1, <2>6, <2>7
  <2>9. e = g /\ e = f
    <3>1. \A a, b \in c.functions : a.rank = b.rank => a = b
      BY DEF IsContract
    <3>2. QED BY <2>8, <3>1, CNamesApart
  <2>10. QED BY <2>9
<1>7. ASSUME NEW f \in c.functions, NEW j \in DOMAIN r, Takes(r, ToSet(h), j, f)
      PROVE  r[j] = FnRoute(c, f)
  <2>1. PICK g \in c.functions : r[j] = FnRoute(c, g)
    BY <1>4
  <2>2. [what |-> "SELECTOR", name |-> CNameOf(c, g), value |-> f.rank] \in AllLines(c)
    <3>1. r[j].tests = CNameOf(c, g)
      BY <1>5, <2>1
    <3>2. QED BY <1>1, <1>7, <3>1 DEF Takes
  <2>3. QED BY <1>6, <2>1, <2>2
<1>8. \A i, j \in DOMAIN r : i # j => r[i].tests # r[j].tests
  <2>1. \A i \in DOMAIN r : Test(c)[r[i]] = r[i].tests
    BY <1>3 DEF Test
  <2>2. QED BY <1>2, <2>1 DEF Apart
<1>9. \A j \in DOMAIN r : r[j].calls = r[j].tests
  BY <1>4, <1>5
<1>10. ASSUME NEW f \in c.functions
       PROVE  \E i \in DOMAIN r :
                /\ Takes(r, ToSet(h), i, f)
                /\ \A j \in 1 .. i - 1 : ~Takes(r, ToSet(h), j, f)
                /\ [what |-> "prototype", name |-> r[i].calls, value |-> Params(f)]
                     \in ToSet(h)
                /\ Fits(r[i].passes, Params(f))
                /\ r[i].refusesValue = (f.mutability # "payable")
                /\ \A j \in DOMAIN r : j # i => r[j].calls # r[i].calls
  <2>1. FnRoute(c, f) \in ToSet(r)
    BY <1>2 DEF Routes
  <2>2. PICK i \in DOMAIN r : r[i] = FnRoute(c, f)
    BY <2>1 DEF ToSet
  <2>3. r[i].tests = CNameOf(c, f) /\ r[i].calls = CNameOf(c, f)
        /\ r[i].refusesValue = (f.mutability # "payable")
        /\ Fits(r[i].passes, Params(f))
    BY <1>5, <2>2, ArgsFit
  <2>4. Selector(c, f) \in AllLines(c) /\ Prototype(c, f) \in AllLines(c)
    BY LinesOfFunction
  <2>5. Takes(r, ToSet(h), i, f)
    BY <1>1, <2>3, <2>4 DEF Takes, Selector
  <2>6. [what |-> "prototype", name |-> r[i].calls, value |-> Params(f)] \in ToSet(h)
    BY <1>1, <2>3, <2>4 DEF Prototype
  <2>7. ASSUME NEW j \in 1 .. i - 1 PROVE ~Takes(r, ToSet(h), j, f)
    <3>1. j \in DOMAIN r /\ j # i
      <4> DEFINE n == Len(r)
      <4>1. n \in Nat /\ i \in 1 .. n /\ DOMAIN r = 1 .. n
        BY <1>3
      <4> HIDE DEF n
      <4>2. j \in 1 .. n /\ j # i
        BY <4>1
      <4>3. QED BY <4>1, <4>2
    <3>2. r[j].tests # r[i].tests
      BY <1>8, <3>1
    <3>3. r[j] # FnRoute(c, f)
      BY <2>2, <3>2
    <3>4. QED BY <1>7, <3>1, <3>3
  <2>8. \A j \in DOMAIN r : j # i => r[j].calls # r[i].calls
    BY <1>8, <1>9
  <2>9. QED BY <2>3, <2>5, <2>6, <2>7, <2>8
<1>11. QED BY <1>2, <1>10 DEF Dispatched

-----------------------------------------------------------------------------
(* The inductive invariant.                                                 *)

FlatIn(in) == \A i \in DOMAIN in : Len(in[i].path) = 1
Parts(in) == {OutDir} \cup UNION {ToSet(in[i].path) : i \in DOMAIN in}
At(in, i, k) == in[i].contracts[k]
PathOf(in, i) == <<OutDir>> \o in[i].path
Key(in, i, k, suffix) == <<PathOf(in, i), At(in, i, k).name, suffix>>

Inside == pc \notin {"open", "ended"}
Working == pc \in {"methods", "header", "router"}

\* Where the command is.
PlaceInv ==
  /\ input \in Inputs
  /\ pc \in {"open", "next", "methods", "header", "router", "ended"}
  /\ file \in 1 .. Len(input) + 1 /\ contract \in Nat
  /\ exit \in {"none", "ok", "error"} /\ (pc # "ended" => exit = "none")
  /\ exit = "ok" => file = Len(input) + 1
  /\ Inside => /\ file \in DOMAIN input
               /\ contract \in 1 .. Len(input[file].contracts) + 1
  /\ Working => contract \in DOMAIN input[file].contracts

\* The path is that of the file in hand, if no name has directories.
PathInv ==
  /\ pathbuf \in Seq(Parts(input)) /\ Len(pathbuf) >= 1 /\ pathbuf[1] \in {OutDir, Root}
  /\ Inside => Len(pathbuf) >= 2
  /\ FlatIn(input) /\ pc = "open" => pathbuf = <<OutDir>>
  /\ FlatIn(input) /\ Inside => pathbuf = PathOf(input, file)

\* The functions whose names have been taken out of the HashMap.
Done(c, todo) == {f \in c.functions : f.name \notin todo}

\* What the header and the router have so far.
Gathered(c) ==
  /\ pc = "methods" => /\ methods \in SUBSET {f.name : f \in c.functions}
                       /\ HeaderFor(c, Done(c, methods), header)
                       /\ RouterFor(c, Done(c, methods), router)
  /\ pc \in {"header", "router"} => /\ methods = {} /\ FullHeader(c, header)
                                    /\ RouterFor(c, c.functions, router)
WorkInv == Gathered(At(input, file, contract))

\* A file this run has written is that of a contract, complete.
FileFine(in, x, e) ==
  \E i \in DOMAIN in : \E k \in DOMAIN in[i].contracts :
    /\ e.from = <<i, k>> /\ x[2] = At(in, i, k).name
    /\ FlatIn(in) => x[1] = PathOf(in, i)
    /\ x[3] = ".h" => FullHeader(At(in, i, k), e.lines)
    /\ x[3] = "_main.c" => RouterFor(At(in, i, k), At(in, i, k).functions, e.lines)
DiskInv == /\ \A x \in DOMAIN disk : IsKey(x)
           /\ \A x \in Mine : FileFine(input, x, disk[x])

\* What a contract has on disk when the command is past it.
HasFiles(in, xs, i, k) ==
  /\ At(in, i, k).functions # {} => Key(in, i, k, "_main.c") \in xs
  /\ At(in, i, k).functions # {} \/ (\E v \in ToSet(At(in, i, k).variables) : Placed(v)) =>
       Key(in, i, k, ".h") \in xs
Passed(i, k) == i < file \/ (i = file /\ Inside /\ k < contract)
OutInv ==
  FlatIn(input) =>
    \A i \in DOMAIN input : \A k \in DOMAIN input[i].contracts :
      Passed(i, k) => HasFiles(input, Mine, i, k)

\* Only such contracts have files, and a header the one in hand.
LateInv ==
  pc # "ended" =>
    \A x \in Mine : \/ Passed(disk[x].from[1], disk[x].from[2])
                   \/ /\ disk[x].from = <<file, contract>>
                      /\ pc = "router" /\ x[3] = ".h"

\* The header is written before the router.
PairInv ==
  FlatIn(input) =>
    /\ \A x \in Mine : x[3] = "_main.c" => HeaderOf(x) \in Mine
    /\ pc = "router" /\ header # <<>> =>
         <<pathbuf, At(input, file, contract).name, ".h">> \in Mine

IInv == PlaceInv /\ PathInv /\ WorkInv /\ DiskInv /\ OutInv /\ LateInv /\ PairInv

\* What solc writes: paths, and lists of contracts.
LEMMA OutputParts ==
  ASSUME NEW in, IsOutput(in)
  PROVE  /\ DOMAIN in = 1 .. Len(in) /\ Len(in) \in Nat
         /\ \A i \in DOMAIN in :
              /\ in[i].path \in Seq(Parts(in)) /\ Len(in[i].path) >= 1
              /\ (Len(in[i].path) = 1 => in[i].path[1] # Root)
              /\ DOMAIN in[i].contracts = 1 .. Len(in[i].contracts)
              /\ Len(in[i].contracts) \in Nat
              /\ \A k \in DOMAIN in[i].contracts : IsContract(At(in, i, k))
<1>1. DOMAIN in = 1 .. Len(in) /\ Len(in) \in Nat
  BY ListIsSequence DEF IsOutput
<1>2. ASSUME NEW i \in DOMAIN in
      PROVE  /\ in[i].path \in Seq(Parts(in)) /\ Len(in[i].path) >= 1
             /\ (Len(in[i].path) = 1 => in[i].path[1] # Root)
             /\ DOMAIN in[i].contracts = 1 .. Len(in[i].contracts)
             /\ Len(in[i].contracts) \in Nat
             /\ \A k \in DOMAIN in[i].contracts : IsContract(At(in, i, k))
  <2>1. IsList(in[i].path) /\ in[i].path \notin {<<>>, <<Root>>} /\ IsList(in[i].contracts)
        /\ \A k \in DOMAIN in[i].contracts : IsContract(At(in, i, k))
    BY DEF IsOutput, At
  <2> DEFINE p == in[i].path
  <2>2. p \in Seq(ToSet(p)) /\ p # <<>>
    <3>1. ToSet(p) = {p[j] : j \in DOMAIN p}
      BY DEF ToSet
    <3>2. p \in Seq({p[j] : j \in DOMAIN p})
      BY <2>1, ListIsSequence
    <3>3. QED BY <2>1, <3>1, <3>2
  <2>3. ToSet(p) \in SUBSET Parts(in)
    BY DEF Parts
  <2> HIDE DEF p
  <2>4. p \in Seq(Parts(in)) /\ Len(p) >= 1
    BY <2>2, <2>3
  <2>5. Len(p) = 1 => p[1] # Root
    <3>1. Len(p) = 1 => p = <<p[1]>>
      BY <2>4, OneElement
    <3>2. p # <<Root>>
      BY <2>1 DEF p
    <3>3. QED BY <3>1, <3>2
  <2>6. QED BY <2>1, <2>4, <2>5, ListIsSequence DEF p
<1>3. QED BY <1>1, <1>2

\* The paths of files without directories: of length two, and their own.
LEMMA FlatPaths ==
  ASSUME NEW in, IsOutput(in), FlatIn(in)
  PROVE  /\ \A i \in DOMAIN in : PathOf(in, i) = <<OutDir, in[i].path[1]>>
         /\ \A i, j \in DOMAIN in : PathOf(in, i) = PathOf(in, j) => i = j
<1>1. \A i \in DOMAIN in : in[i].path = <<in[i].path[1]>>
  <2> SUFFICES ASSUME NEW i \in DOMAIN in PROVE in[i].path = <<in[i].path[1]>>
    OBVIOUS
  <2>1. in[i].path \in Seq(Parts(in)) /\ Len(in[i].path) = 1
    BY OutputParts DEF FlatIn
  <2>2. QED BY <2>1, OneElement
<1>2. \A i \in DOMAIN in : PathOf(in, i) = <<OutDir, in[i].path[1]>>
  BY <1>1, Joined DEF PathOf
<1>3. ASSUME NEW i \in DOMAIN in, NEW j \in DOMAIN in, PathOf(in, i) = PathOf(in, j)
      PROVE  i = j
  <2>1. in[i].path[1] = in[j].path[1]
    BY <1>2, <1>3
  <2>2. in[i].path = in[j].path
    BY <1>1, <2>1
  <2>3. QED BY <2>2 DEF IsOutput
<1>4. QED BY <1>2, <1>3

\* Popping a path of two components or more.
LEMMA Pops ==
  ASSUME NEW S, NEW s \in Seq(S), Len(s) >= 2
  PROVE  /\ Popped(s) \in Seq(S) /\ Len(Popped(s)) >= 1 /\ Popped(s)[1] = s[1]
         /\ Len(s) = 2 => Popped(s) = <<s[1]>>
<1> DEFINE n == Len(s)
           t == SubSeq(s, 1, n - 1)
<1>1. n \in Nat /\ n >= 2 /\ DOMAIN s = 1 .. n
  BY SeqParts
<1>2. /\ t \in Seq(S) /\ Len(t) = n - 1
      /\ \A i \in 1 .. n - 1 : t[i] = s[i]
  BY <1>1
<1>3. Popped(s) = t
  BY DEF Popped, Front
<1> HIDE DEF t, n
<1>4. Len(t) >= 1 /\ t[1] = s[1]
  BY <1>1, <1>2
<1>5. n = 2 => t = <<t[1]>>
  BY <1>1, <1>2, OneElement
<1>6. QED BY <1>2, <1>3, <1>4, <1>5 DEF n

\* The name of a file says whose it is.
LEMMA KeysDecide ==
  ASSUME NEW in, IsOutput(in), FlatIn(in), NEW x, NEW e, FileFine(in, x, e),
         NEW i \in DOMAIN in, NEW k \in DOMAIN in[i].contracts,
         x[1] = PathOf(in, i), x[2] = At(in, i, k).name
  PROVE  e.from = <<i, k>>
<1>1. PICK j \in DOMAIN in : \E l \in DOMAIN in[j].contracts :
        e.from = <<j, l>> /\ x[2] = At(in, j, l).name /\ x[1] = PathOf(in, j)
  BY DEF FileFine
<1>2. PICK l \in DOMAIN in[j].contracts :
        e.from = <<j, l>> /\ x[2] = At(in, j, l).name /\ x[1] = PathOf(in, j)
  BY <1>1
<1>3. i = j
  BY <1>2, FlatPaths
<1>4. k = l
  BY <1>2, <1>3 DEF IsOutput, At
<1>5. QED BY <1>2, <1>3, <1>4

\* The state's names for the same things.
LEMMA SameNames ==
  /\ Files = input /\ (Flat <=> FlatIn(input))
  /\ This = At(input, file, contract) /\ Contracts = input[file].contracts
BY DEF Files, Flat, FlatIn, This, Contracts, At

\* The invariant holds at first.
LEMMA InitInv == Init => IInv
<1> SUFFICES ASSUME Init PROVE IInv
  OBVIOUS
<1>1. IsOutput(input) /\ input \in Inputs
  BY CGenAssumption DEF Init
<1>2. Len(input) \in Nat
  BY <1>1, OutputParts
<1>3. PlaceInv
  BY <1>1, <1>2 DEF Init, PlaceInv, Inside, Working
<1>4. PathInv
  <2>1. OutDir \in Parts(input)
    BY DEF Parts
  <2>2. pathbuf \in Seq(Parts(input)) /\ Len(pathbuf) = 1 /\ pathbuf[1] = OutDir
    BY <2>1 DEF Init
  <2>3. QED BY <2>2 DEF Init, PathInv, Inside
<1>5. WorkInv
  BY DEF Init, WorkInv, Gathered
<1>6. DOMAIN disk \subseteq Left /\ \A x \in DOMAIN disk : disk[x] = Other
  BY DEF Init
<1>7. DiskInv /\ PairInv /\ LateInv
  <2>1. Mine = {}
    BY <1>6 DEF Mine
  <2>2. \A x \in DOMAIN disk : IsKey(x)
    BY <1>6, CGenAssumption
  <2>3. QED BY <2>1, <2>2 DEF Init, DiskInv, PairInv, LateInv
<1>8. OutInv
  <2> SUFFICES ASSUME NEW i \in DOMAIN input, NEW k \in DOMAIN input[i].contracts
               PROVE  ~Passed(i, k)
    BY DEF OutInv
  <2>1. i >= 1
    BY <1>1, OutputParts
  <2>2. QED BY <1>1, <2>1, OutputParts DEF Init, Passed, Inside
<1>9. QED BY <1>3, <1>4, <1>5, <1>7, <1>8 DEF IInv

-----------------------------------------------------------------------------
(* Steps.                                                                   *)

\* Where the command is, after a step.
LEMMA PlaceStep == PlaceInv /\ [Next]_vars => PlaceInv' /\ input' = input
<1> SUFFICES ASSUME PlaceInv, [Next]_vars PROVE PlaceInv' /\ input' = input
  OBVIOUS
<1>1. /\ input \in Inputs
      /\ pc \in {"open", "next", "methods", "header", "router", "ended"}
      /\ file \in 1 .. Len(input) + 1 /\ contract \in Nat
      /\ exit \in {"none", "ok", "error"} /\ (pc # "ended" => exit = "none")
      /\ exit = "ok" => file = Len(input) + 1
      /\ Inside => /\ file \in DOMAIN input
                   /\ contract \in 1 .. Len(input[file].contracts) + 1
      /\ Working => contract \in DOMAIN input[file].contracts
  BY DEF PlaceInv
<1>2. IsOutput(input)
  BY <1>1, CGenAssumption
<1>3. DOMAIN input = 1 .. Len(input) /\ Len(input) \in Nat
  BY <1>2, OutputParts
<1>4. \A i \in DOMAIN input : /\ DOMAIN input[i].contracts = 1 .. Len(input[i].contracts)
                              /\ Len(input[i].contracts) \in Nat
  BY <1>2, OutputParts
<1>5. Files = input /\ Contracts = input[file].contracts
  BY SameNames
<1> DEFINE n == Len(input)
           m(i) == Len(input[i].contracts)
<1>6. CASE OpenFile
  <2>1. pc = "open" /\ exit = "none" /\ input' = input /\ file' = file
    BY <1>1, <1>6 DEF OpenFile
  <2>2. CASE file > n
    <3>1. pc' = "ended" /\ exit' = "ok" /\ contract' = contract
      BY <1>5, <1>6, <2>2 DEF OpenFile, Ends
    <3>2. file = n + 1
      BY <1>1, <1>3, <2>2
    <3>3. QED BY <1>1, <2>1, <3>1, <3>2 DEF PlaceInv, Inside, Working
  <2>3. CASE ~(file > n)
    <3>1. pc' = "next" /\ exit' = exit /\ contract' = 1
      BY <1>5, <1>6, <2>3 DEF OpenFile
    <3>2. file \in DOMAIN input
      BY <1>1, <1>3, <2>3
    <3>3. 1 \in 1 .. m(file) + 1 /\ 1 \in Nat
      BY <1>4, <3>2
    <3>4. QED BY <1>1, <2>1, <3>1, <3>2, <3>3 DEF PlaceInv, Inside, Working
  <2>4. QED BY <2>2, <2>3
<1>7. CASE CloseFile
  <2>1. /\ pc = "next" /\ pc' = "open" /\ file' = file + 1
        /\ input' = input /\ contract' = contract /\ exit' = exit
    BY <1>7 DEF CloseFile
  <2>2. file \in DOMAIN input /\ exit = "none"
    BY <1>1, <2>1 DEF Inside
  <2>3. file + 1 \in 1 .. n + 1
    BY <1>3, <2>2
  <2>4. QED BY <1>1, <2>1, <2>2, <2>3 DEF PlaceInv, Inside, Working
<1>8. CASE BeginContract
  <2>1. /\ pc = "next" /\ pc' = "methods" /\ contract <= m(file)
        /\ input' = input /\ file' = file /\ contract' = contract /\ exit' = exit
    BY <1>5, <1>8 DEF BeginContract
  <2>2. file \in DOMAIN input /\ exit = "none" /\ contract \in 1 .. m(file) + 1
    BY <1>1, <2>1 DEF Inside
  <2>3. contract \in DOMAIN input[file].contracts
    BY <1>4, <2>1, <2>2
  <2>4. QED BY <1>1, <2>1, <2>2, <2>3 DEF PlaceInv, Inside, Working
<1>9. CASE (\E name \in methods : Method(name)) \/ Storage \/ WriteHeader
  <2>1. /\ pc \in {"methods", "header"} /\ pc' \in {"methods", "header", "router"}
        /\ input' = input /\ file' = file /\ contract' = contract /\ exit' = exit
    BY <1>9 DEF Method, Storage, WriteHeader
  <2>2. exit = "none" /\ Inside /\ Working
    BY <1>1, <2>1 DEF Inside, Working
  <2>3. QED BY <1>1, <2>1, <2>2 DEF PlaceInv, Inside, Working
<1>10. CASE WriteRouter
  <2>1. /\ pc = "router" /\ pc' = "next" /\ contract' = contract + 1
        /\ input' = input /\ file' = file /\ exit' = exit
    BY <1>10 DEF WriteRouter
  <2>2. exit = "none" /\ Inside /\ Working
    BY <1>1, <2>1 DEF Inside, Working
  <2>3. contract + 1 \in 1 .. m(file) + 1 /\ contract + 1 \in Nat
    BY <1>1, <1>4, <2>2
  <2>4. QED BY <1>1, <2>1, <2>2, <2>3 DEF PlaceInv, Inside, Working
<1>11. CASE Fails
  <2>1. /\ pc' = "ended" /\ exit' = "error"
        /\ input' = input /\ file' = file /\ contract' = contract
    BY <1>11 DEF Fails, Ends
  <2>2. QED BY <1>1, <2>1 DEF PlaceInv, Inside, Working
<1>12. CASE UNCHANGED vars
  BY <1>1, <1>12 DEF vars, PlaceInv, Inside, Working
<1>13. QED BY <1>6, <1>7, <1>8, <1>9, <1>10, <1>11, <1>12 DEF Next

\* The path, after a step.
LEMMA PathStep == PlaceInv /\ PathInv /\ [Next]_vars => PathInv'
<1> SUFFICES ASSUME PlaceInv, PathInv, [Next]_vars PROVE PathInv'
  OBVIOUS
<1> DEFINE S == Parts(input)
           flat == FlatIn(input)
<1>1. /\ pathbuf \in Seq(S) /\ Len(pathbuf) >= 1 /\ pathbuf[1] \in {OutDir, Root}
      /\ Inside => Len(pathbuf) >= 2
      /\ flat /\ pc = "open" => pathbuf = <<OutDir>>
      /\ flat /\ Inside => pathbuf = PathOf(input, file)
  BY DEF PathInv
<1>2. IsOutput(input) /\ input' = input /\ file \in 1 .. Len(input) + 1
      /\ (Inside => file \in DOMAIN input)
  BY CGenAssumption, PlaceStep DEF PlaceInv
<1>3. Parts(input)' = S /\ FlatIn(input)' = flat
  BY <1>2
<1> HIDE DEF S, flat
<1>4. CASE OpenFile /\ ~(file > Len(input))
  <2> DEFINE p == input[file].path
             q == Pushed(pathbuf, p)
  <2>1. pc = "open" /\ pc' = "next" /\ file' = file /\ pathbuf' = q
    BY <1>4, SameNames DEF OpenFile
  <2>2. file \in DOMAIN input
    BY <1>2, <1>4, OutputParts
  <2>3. p \in Seq(S) /\ Len(p) >= 1 /\ (Len(p) = 1 => p[1] # Root)
    BY <1>2, <2>2, OutputParts DEF S
  <2>4. flat => Len(p) = 1 /\ pathbuf = <<OutDir>>
    BY <1>1, <2>1, <2>2 DEF FlatIn, flat
  <2>5. PathOf(input, file) = <<OutDir>> \o p
    BY DEF PathOf
  <2> HIDE DEF p
  <2>6. q \in Seq(S) /\ Len(q) >= 2 /\ q[1] \in {OutDir, Root} /\ (flat => q = <<OutDir>> \o p)
    <3>1. CASE p[1] = Root
      <4>1. q = p
        BY <3>1 DEF Pushed
      <4>2. QED BY <2>3, <2>4, <3>1, <4>1
    <3>2. CASE p[1] # Root
      <4>1. q = pathbuf \o p
        BY <3>2 DEF Pushed
      <4>2. /\ pathbuf \o p \in Seq(S) /\ Len(pathbuf \o p) >= 2
            /\ (pathbuf \o p)[1] = pathbuf[1]
        BY <1>1, <2>3
      <4>3. QED BY <1>1, <2>4, <4>1, <4>2
    <3>3. QED BY <3>1, <3>2
  <2> HIDE DEF q
  <2>7. flat => pathbuf' = PathOf(input, file)
    BY <2>1, <2>5, <2>6
  <2> HIDE DEF PathOf
  <2>8. QED BY <1>2, <1>3, <2>1, <2>6, <2>7 DEF PathInv, Inside
<1>5. CASE CloseFile
  <2>1. pc = "next" /\ pc' = "open" /\ pathbuf' = Popped(pathbuf)
    BY <1>5 DEF CloseFile
  <2>2. Len(pathbuf) >= 2 /\ file \in DOMAIN input /\ Inside
    BY <1>1, <1>2, <2>1 DEF Inside
  <2>3. /\ Popped(pathbuf) \in Seq(S) /\ Len(Popped(pathbuf)) >= 1
        /\ Popped(pathbuf)[1] = pathbuf[1]
        /\ Len(pathbuf) = 2 => Popped(pathbuf) = <<pathbuf[1]>>
    BY <1>1, <2>2, Pops
  <2>4. flat => Popped(pathbuf) = <<OutDir>>
    <3>1. flat => pathbuf = <<OutDir, input[file].path[1]>>
      BY <1>1, <1>2, <2>2, FlatPaths DEF flat
    <3>2. \A x, y : Len(<<x, y>>) = 2 /\ <<x, y>>[1] = x
      OBVIOUS
    <3>3. QED BY <2>3, <3>1, <3>2
  <2>5. QED BY <1>1, <1>3, <2>1, <2>3, <2>4 DEF PathInv, Inside
<1>6. CASE pathbuf' = pathbuf /\ file' = file /\ (pc' = "ended" \/ (Inside /\ pc' # "open") \/ pc' = pc)
  <2>1. Inside' => Inside
    BY <1>6 DEF Inside
  <2>2. QED BY <1>1, <1>2, <1>3, <1>6, <2>1 DEF PathInv, Inside
<1>7. CASE OpenFile /\ file > Len(input)
  BY <1>6, <1>7, SameNames DEF OpenFile, Ends
<1>8. CASE \/ BeginContract \/ (\E name \in methods : Method(name)) \/ Storage
           \/ WriteHeader \/ WriteRouter \/ Fails \/ UNCHANGED vars
  BY <1>6, <1>8 DEF BeginContract, Method, Storage, WriteHeader, WriteRouter, Fails,
                    Ends, vars, Inside
<1>9. QED BY <1>4, <1>5, <1>7, <1>8 DEF Next

\* What has been gathered, after a step.
LEMMA WorkStep == PlaceInv /\ WorkInv /\ [Next]_vars => WorkInv'
<1> SUFFICES ASSUME PlaceInv, WorkInv, [Next]_vars PROVE WorkInv'
  OBVIOUS
<1> DEFINE c == At(input, file, contract)
<1>1. Gathered(c)
  BY DEF WorkInv
<1>2. This = c /\ Contracts = input[file].contracts
  BY SameNames
<1>3. IsOutput(input)
  BY CGenAssumption DEF PlaceInv
<1>4. Working => IsContract(c)
  <2>1. Working => file \in DOMAIN input /\ contract \in DOMAIN input[file].contracts
    BY DEF PlaceInv, Working, Inside
  <2>2. QED BY <1>3, <2>1, OutputParts
<1>5. input' = input /\ file' = file /\ contract' = contract => (WorkInv' <=> Gathered(c)')
  BY DEF WorkInv
<1> HIDE DEF c
<1>6. CASE pc' \in {"open", "next", "ended"}
  BY <1>6 DEF WorkInv, Gathered
<1>7. CASE BeginContract
  <2>1. /\ methods' = {f.name : f \in c.functions} /\ header' = <<>> /\ router' = <<>>
        /\ pc' = "methods" /\ input' = input /\ file' = file /\ contract' = contract
    BY <1>2, <1>7 DEF BeginContract
  <2>2. c' = c
    BY <2>1 DEF c
  <2>3. Done(c, methods') = {}
    BY <2>1 DEF Done
  <2>4. HeaderFor(c, Done(c, methods'), header') /\ RouterFor(c, Done(c, methods'), router')
    BY <2>1, <2>3, NoLines
  <2>5. methods' \in SUBSET {f.name : f \in c.functions}
    BY <2>1
  <2>6. Gathered(c)'
    BY <2>1, <2>2, <2>4, <2>5 DEF Gathered
  <2>7. QED BY <1>5, <2>1, <2>6
<1>8. ASSUME NEW name \in methods, Method(name) PROVE WorkInv'
  <2>1. /\ pc = "methods" /\ pc' = "methods" /\ methods' = methods \ {name}
        /\ input' = input /\ file' = file /\ contract' = contract
        /\ header' = header \o NewLines(c, name) /\ router' = router \o NewRoutes(c, name)
    BY <1>2, <1>8 DEF Method, NewLines, NewRoutes
  <2>2. c' = c
    BY <2>1 DEF c
  <2> DEFINE fs == Done(c, methods)
  <2>3. HeaderFor(c, fs, header) /\ RouterFor(c, fs, router)
        /\ methods \in SUBSET {f.name : f \in c.functions}
    BY <1>1, <2>1 DEF Gathered
  <2>4. fs \in SUBSET c.functions /\ Named(c, name) \cap fs = {}
    BY <1>8 DEF Done, Named
  <2>5. Done(c, methods \ {name}) = fs \cup Named(c, name)
    BY <1>8 DEF Done, Named
  <2> HIDE DEF fs
  <2>6. IsContract(c)
    BY <1>4, <2>1 DEF Working
  <2>7. HeaderFor(c, fs \cup Named(c, name), header \o NewLines(c, name))
    BY <2>3, <2>4, <2>6, HeaderGrows
  <2>8. RouterFor(c, fs \cup Named(c, name), router \o NewRoutes(c, name))
    BY <2>3, <2>4, <2>6, RouterGrows
  <2>9. HeaderFor(c, Done(c, methods'), header') /\ RouterFor(c, Done(c, methods'), router')
    BY <2>1, <2>5, <2>7, <2>8
  <2>10. methods' \in SUBSET {f.name : f \in c.functions}
    BY <2>1, <2>3
  <2>11. Gathered(c)'
    BY <2>1, <2>2, <2>9, <2>10 DEF Gathered
  <2>12. QED BY <1>5, <2>1, <2>11
<1>9. CASE Storage
  <2>1. /\ pc = "methods" /\ pc' = "header" /\ methods = {} /\ methods' = {}
        /\ input' = input /\ file' = file /\ contract' = contract
        /\ header' = header \o NewStorage(c) /\ router' = router
    BY <1>2, <1>9 DEF Storage, NewStorage
  <2>2. c' = c
    BY <2>1 DEF c
  <2>3. HeaderFor(c, c.functions, header) /\ RouterFor(c, c.functions, router)
    <3>1. Done(c, methods) = c.functions
      BY <2>1 DEF Done
    <3>2. QED BY <1>1, <2>1, <3>1 DEF Gathered
  <2>4. FullHeader(c, header \o NewStorage(c))
    BY <1>4, <2>1, <2>3, HeaderCompletes DEF Working
  <2>5. Gathered(c)'
    BY <2>1, <2>2, <2>3, <2>4 DEF Gathered
  <2>6. QED BY <1>5, <2>1, <2>5
<1>10. CASE WriteHeader
  <2>1. /\ pc = "header" /\ pc' = "router" /\ methods' = methods
        /\ input' = input /\ file' = file /\ contract' = contract
        /\ header' = header /\ router' = router
    BY <1>10 DEF WriteHeader
  <2>2. c' = c
    BY <2>1 DEF c
  <2>3. Gathered(c)'
    BY <1>1, <2>1, <2>2 DEF Gathered
  <2>4. QED BY <1>5, <2>1, <2>3
<1>11. CASE UNCHANGED vars
  <2>1. /\ pc' = pc /\ methods' = methods
        /\ input' = input /\ file' = file /\ contract' = contract
        /\ header' = header /\ router' = router
    BY <1>11 DEF vars
  <2>2. c' = c
    BY <2>1 DEF c
  <2>3. Gathered(c)'
    BY <1>1, <2>1, <2>2 DEF Gathered
  <2>4. QED BY <1>5, <2>1, <2>3
<1>12. CASE OpenFile \/ CloseFile \/ WriteRouter \/ Fails
  BY <1>6, <1>12 DEF OpenFile, CloseFile, WriteRouter, Fails, Ends
<1>13. QED BY <1>7, <1>8, <1>9, <1>10, <1>11, <1>12 DEF Next

\* What Put does: one file is replaced, the others stay.
LEMMA Puts ==
  ASSUME NEW path, NEW e, Put(path, e)
  PROVE  /\ DOMAIN disk' = DOMAIN disk \cup {path} /\ disk'[path] = e
         /\ \A x \in DOMAIN disk : x # path => disk'[x] = disk[x]
BY DEF Put

\* What Written does: the file is this run's, and that of the contract in hand.
LEMMA Writes ==
  ASSUME NEW suffix, NEW lines, Written(suffix, lines), file \in Nat \ {0}
  PROVE  LET path == <<pathbuf, This.name, suffix>>
         IN  /\ DOMAIN disk' = DOMAIN disk \cup {path} /\ Mine' = Mine \cup {path}
             /\ disk'[path].from = <<file, contract>> /\ disk'[path].lines = lines
             /\ \A x \in DOMAIN disk : x # path => disk'[x] = disk[x]
<1> DEFINE path == <<pathbuf, This.name, suffix>>
           e == [from |-> <<file, contract>>, lines |-> lines]
<1>1. Put(path, e)
  BY DEF Written, PathTo
<1>2. e.from = <<file, contract>> /\ e.lines = lines
  OBVIOUS
<1>3. e # Other
  <2>1. Other.from = <<0, 0>> /\ <<file, contract>> # <<0, 0>>
    BY DEF Other
  <2>2. QED BY <1>2, <2>1
<1> HIDE DEF path, e
<1>4. /\ DOMAIN disk' = DOMAIN disk \cup {path} /\ disk'[path] = e
      /\ \A x \in DOMAIN disk : x # path => disk'[x] = disk[x]
  BY <1>1, Puts
<1>5. Mine' = Mine \cup {path}
  BY <1>3, <1>4 DEF Mine
<1>6. QED BY <1>2, <1>4, <1>5 DEF path

\* A torn file is not this run's any more.
LEMMA Tears ==
  ASSUME NEW suffix, Put(PathTo(suffix), Other)
  PROVE  LET path == <<pathbuf, This.name, suffix>>
         IN  /\ DOMAIN disk' = DOMAIN disk \cup {path} /\ Mine' = Mine \ {path}
             /\ \A x \in DOMAIN disk : x # path => disk'[x] = disk[x]
<1> DEFINE path == <<pathbuf, This.name, suffix>>
<1>1. Put(path, Other)
  BY DEF PathTo
<1> HIDE DEF path
<1>2. /\ DOMAIN disk' = DOMAIN disk \cup {path} /\ disk'[path] = Other
      /\ \A x \in DOMAIN disk : x # path => disk'[x] = disk[x]
  BY <1>1, Puts
<1>3. Mine' = Mine \ {path}
  BY <1>2 DEF Mine
<1>4. QED BY <1>2, <1>3 DEF path

\* Without a write nothing changes.
LEMMA NoWrite == disk' = disk => Mine' = Mine
BY DEF Mine

\* The keys of the files of the contract in hand.
LEMMA KeysHere ==
  ASSUME PathInv, Inside, NEW suffix \in {".h", "_main.c"}
  PROVE  IsKey(<<pathbuf, This.name, suffix>>)
<1>1. pathbuf[1] \in {OutDir, Root}
  BY DEF PathInv
<1> DEFINE x == <<pathbuf, This.name, suffix>>
<1>2. x[1] = pathbuf /\ x[3] = suffix /\ x = <<x[1], x[2], x[3]>>
  OBVIOUS
<1> HIDE DEF x
<1>3. QED BY <1>1, <1>2 DEF IsKey, x

\* A file of the command in hand is past the first.
LEMMA FileIsNat == PlaceInv /\ Inside => file \in Nat \ {0}
<1> SUFFICES ASSUME PlaceInv, Inside PROVE file \in Nat \ {0}
  OBVIOUS
<1>1. file \in DOMAIN input /\ IsOutput(input)
  BY CGenAssumption DEF PlaceInv
<1>2. QED BY <1>1, OutputParts

\* The files on disk, after a step.
LEMMA DiskStep ==
  PlaceInv /\ PathInv /\ WorkInv /\ DiskInv /\ [Next]_vars => DiskInv'
<1> SUFFICES ASSUME PlaceInv, PathInv, WorkInv, DiskInv, [Next]_vars PROVE DiskInv'
  OBVIOUS
<1>1. input' = input
  BY PlaceStep
<1>2. CASE disk' = disk
  BY <1>1, <1>2, NoWrite DEF DiskInv
<1>3. ASSUME NEW suffix, NEW lines, Written(suffix, lines), pc \in {"header", "router"},
             \/ suffix = ".h" /\ lines = header
             \/ suffix = "_main.c" /\ lines = router
      PROVE  DiskInv'
  <2> DEFINE c == At(input, file, contract)
             path == <<pathbuf, c.name, suffix>>
  <2>1. This = c /\ Inside
    BY <1>3, SameNames DEF Inside
  <2>2. /\ DOMAIN disk' = DOMAIN disk \cup {path} /\ Mine' = Mine \cup {path}
        /\ disk'[path].from = <<file, contract>> /\ disk'[path].lines = lines
        /\ \A x \in DOMAIN disk : x # path => disk'[x] = disk[x]
    BY <1>3, <2>1, Writes, FileIsNat
  <2>3. FileFine(input, path, disk'[path])
    <3>1. file \in DOMAIN input /\ contract \in DOMAIN input[file].contracts
      BY <1>3 DEF PlaceInv, Inside, Working
    <3>2. FlatIn(input) => pathbuf = PathOf(input, file)
      BY <2>1 DEF PathInv
    <3>3. FullHeader(c, header) /\ RouterFor(c, c.functions, router)
      BY <1>3 DEF WorkInv, Gathered
    <3>4. path[1] = pathbuf /\ path[2] = c.name /\ path[3] = suffix
      OBVIOUS
    <3>5. suffix = ".h" => suffix # "_main.c"
      OBVIOUS
    <3> DEFINE e == disk'[path]
    <3>6. e.from = <<file, contract>> /\ e.lines = lines
      BY <2>2
    <3> HIDE DEF path, c, e
    <3>7. /\ path[3] = ".h" => FullHeader(c, e.lines)
          /\ path[3] = "_main.c" => RouterFor(c, c.functions, e.lines)
      BY <1>3, <3>3, <3>4, <3>5, <3>6
    <3>8. FileFine(input, path, e)
      <4>1. FlatIn(input) => path[1] = PathOf(input, file)
        BY <3>2, <3>4
      <4>2. path[2] = At(input, file, contract).name
        BY <3>4 DEF c
      <4>3. /\ path[3] = ".h" => FullHeader(At(input, file, contract), e.lines)
            /\ path[3] = "_main.c" =>
                 RouterFor(At(input, file, contract), At(input, file, contract).functions,
                           e.lines)
        BY <3>7 DEF c
      <4>4. QED BY <3>1, <3>6, <4>1, <4>2, <4>3 DEF FileFine
    <3>9. QED BY <3>8 DEF e
  <2>4. IsKey(path)
    BY <1>3, <2>1, KeysHere
  <2> HIDE DEF path, c
  <2>5. ASSUME NEW x \in Mine' PROVE FileFine(input, x, disk'[x])
    <3>1. CASE x = path
      BY <2>3, <3>1
    <3>2. CASE x # path
      BY <2>2, <3>2 DEF DiskInv, Mine
    <3>3. QED BY <3>1, <3>2
  <2>6. \A x \in DOMAIN disk' : IsKey(x)
    BY <2>2, <2>4 DEF DiskInv
  <2>7. QED BY <1>1, <2>5, <2>6 DEF DiskInv
<1>4. CASE WriteHeader
  <2>1. CASE Written(".h", header)
    BY <1>3, <1>4, <2>1 DEF WriteHeader
  <2>2. QED BY <1>2, <1>4, <2>1 DEF WriteHeader
<1>5. CASE WriteRouter
  <2>1. CASE Written("_main.c", router)
    BY <1>3, <1>5, <2>1 DEF WriteRouter
  <2>2. QED BY <1>2, <1>5, <2>1 DEF WriteRouter
<1>6. CASE Fails
  <2>1. ASSUME NEW suffix \in {".h", "_main.c"}, pc \in {"header", "router"},
               Put(PathTo(suffix), Other)
        PROVE  DiskInv'
    <3> DEFINE path == <<pathbuf, This.name, suffix>>
    <3>1. /\ DOMAIN disk' = DOMAIN disk \cup {path} /\ Mine' = Mine \ {path}
          /\ \A x \in DOMAIN disk : x # path => disk'[x] = disk[x]
      BY <2>1, Tears
    <3>2. IsKey(path)
      BY <2>1, KeysHere DEF Inside
    <3> HIDE DEF path
    <3>3. \A x \in DOMAIN disk' : IsKey(x)
      BY <3>1, <3>2 DEF DiskInv
    <3>4. \A x \in Mine' : FileFine(input, x, disk'[x])
      BY <3>1 DEF DiskInv, Mine
    <3>5. QED BY <1>1, <3>3, <3>4 DEF DiskInv
  <2>2. QED BY <1>2, <1>6, <2>1 DEF Fails
<1>7. CASE \/ OpenFile \/ CloseFile \/ BeginContract \/ (\E name \in methods : Method(name))
           \/ Storage \/ UNCHANGED vars
  BY <1>2, <1>7 DEF OpenFile, CloseFile, BeginContract, Method, Storage, vars
<1>8. QED BY <1>4, <1>5, <1>6, <1>7 DEF Next

\* Whose files there are, after a step.
LEMMA LateStep ==
  PlaceInv /\ DiskInv /\ LateInv /\ [Next]_vars => LateInv'
<1> SUFFICES ASSUME PlaceInv, DiskInv, LateInv, [Next]_vars, pc' # "ended",
                    NEW x \in Mine'
             PROVE  \/ Passed(disk[x].from[1], disk[x].from[2])'
                    \/ /\ disk'[x].from = <<file', contract'>>
                       /\ pc' = "router" /\ x[3] = ".h"
  BY DEF LateInv
<1>1. file \in Nat /\ contract \in Nat /\ (Inside => file \in Nat \ {0}) /\ IsOutput(input)
  <2>1. IsOutput(input) /\ file \in 1 .. Len(input) + 1 /\ contract \in Nat
    BY CGenAssumption DEF PlaceInv
  <2>2. Len(input) \in Nat
    BY <2>1, OutputParts
  <2>3. QED BY <2>1, <2>2
<1>2. pc # "ended"
  BY DEF Next, OpenFile, CloseFile, BeginContract, Method, Storage, WriteHeader, WriteRouter,
         Fails, Ends, vars
<1>3. ASSUME x \in Mine
      PROVE  \E i, k \in Nat : disk[x].from = <<i, k>> /\
               \/ Passed(i, k)
               \/ i = file /\ k = contract /\ pc = "router" /\ x[3] = ".h"
  <2>1. PICK i \in DOMAIN input : \E k \in DOMAIN input[i].contracts : disk[x].from = <<i, k>>
    BY <1>3 DEF DiskInv, FileFine
  <2>2. PICK k \in DOMAIN input[i].contracts : disk[x].from = <<i, k>>
    BY <2>1
  <2>3. i \in Nat /\ k \in Nat
    BY <1>1, OutputParts
  <2>4. disk[x].from[1] = i /\ disk[x].from[2] = k
    BY <2>2
  <2>5. QED BY <1>2, <1>3, <2>2, <2>3, <2>4 DEF LateInv
<1>4. ASSUME x \in Mine, disk'[x] = disk[x],
             \A i, k \in Nat :
               \/ Passed(i, k)
               \/ i = file /\ k = contract /\ pc = "router" /\ x[3] = ".h"
               => \/ Passed(i, k)'
                  \/ i = file' /\ k = contract' /\ pc' = "router" /\ x[3] = ".h"
      PROVE  \/ Passed(disk[x].from[1], disk[x].from[2])'
             \/ disk'[x].from = <<file', contract'>> /\ pc' = "router" /\ x[3] = ".h"
  <2>1. PICK i \in Nat, k \in Nat : disk[x].from = <<i, k>> /\
               \/ Passed(i, k)
               \/ i = file /\ k = contract /\ pc = "router" /\ x[3] = ".h"
    BY <1>3, <1>4
  <2>2. \/ Passed(i, k)'
        \/ i = file' /\ k = contract' /\ pc' = "router" /\ x[3] = ".h"
    BY <1>4, <2>1
  <2>3. disk'[x].from[1] = i /\ disk'[x].from[2] = k /\ disk'[x].from = <<i, k>>
    BY <1>4, <2>1
  <2>4. Passed(disk[x].from[1], disk[x].from[2])'
          <=> \/ disk'[x].from[1] < file'
              \/ disk'[x].from[1] = file' /\ Inside' /\ disk'[x].from[2] < contract'
    BY DEF Passed
  <2>5. Passed(i, k)' <=> i < file' \/ (i = file' /\ Inside' /\ k < contract')
    BY DEF Passed
  <2>6. QED BY <2>2, <2>3, <2>4, <2>5
<1>5. CASE OpenFile \/ CloseFile \/ BeginContract \/ (\E name \in methods : Method(name))
           \/ Storage \/ UNCHANGED vars
  <2>1. disk' = disk /\ x \in Mine
    BY <1>5, NoWrite DEF OpenFile, CloseFile, BeginContract, Method, Storage, vars
  <2>2. \/ file' = file /\ contract' = contract /\ (Inside => Inside') /\ pc # "router"
        \/ file' = file /\ pc = "open"
        \/ file' = file + 1 /\ pc = "next"
        \/ file' = file /\ contract' = contract /\ pc' = pc
    BY <1>5 DEF OpenFile, CloseFile, BeginContract, Method, Storage, vars, Inside, Ends
  <2>3. \A i, k \in Nat :
               \/ Passed(i, k)
               \/ i = file /\ k = contract /\ pc = "router" /\ x[3] = ".h"
               => \/ Passed(i, k)'
                  \/ i = file' /\ k = contract' /\ pc' = "router" /\ x[3] = ".h"
    BY <1>1, <2>2 DEF Passed, Inside
  <2>4. QED BY <1>4, <2>1, <2>3
<1>6. CASE WriteHeader
  <2>1. pc = "header" /\ pc' = "router" /\ file' = file /\ contract' = contract
        /\ (Written(".h", header) \/ disk' = disk)
    BY <1>6 DEF WriteHeader
  <2>2. \A i, k \in Nat :
               \/ Passed(i, k)
               \/ i = file /\ k = contract /\ pc = "router" /\ x[3] = ".h"
               => \/ Passed(i, k)'
                  \/ i = file' /\ k = contract' /\ pc' = "router" /\ x[3] = ".h"
    BY <2>1 DEF Passed, Inside
  <2>3. CASE disk' = disk
    BY <1>4, <2>2, <2>3, NoWrite
  <2>4. CASE Written(".h", header)
    <3> DEFINE path == <<pathbuf, This.name, ".h">>
    <3>1. /\ Mine' = Mine \cup {path} /\ disk'[path].from = <<file, contract>>
          /\ \A y \in DOMAIN disk : y # path => disk'[y] = disk[y]
      BY <1>1, <2>1, <2>4, Writes DEF Inside
    <3>2. path[3] = ".h"
      OBVIOUS
    <3> HIDE DEF path
    <3>3. CASE x = path
      BY <2>1, <3>1, <3>2, <3>3
    <3>4. CASE x # path
      <4>1. x \in Mine /\ disk'[x] = disk[x]
        BY <3>1, <3>4 DEF Mine
      <4>2. QED BY <1>4, <2>2, <4>1
    <3>5. QED BY <3>3, <3>4
  <2>5. QED BY <2>1, <2>3, <2>4
<1>7. CASE WriteRouter
  <2>1. pc = "router" /\ pc' = "next" /\ file' = file /\ contract' = contract + 1
        /\ (Written("_main.c", router) \/ disk' = disk)
    BY <1>7 DEF WriteRouter
  <2>2. \A i, k \in Nat :
               \/ Passed(i, k)
               \/ i = file /\ k = contract /\ pc = "router" /\ x[3] = ".h"
               => \/ Passed(i, k)'
                  \/ i = file' /\ k = contract' /\ pc' = "router" /\ x[3] = ".h"
    BY <1>1, <2>1 DEF Passed, Inside
  <2>3. CASE disk' = disk
    BY <1>4, <2>2, <2>3, NoWrite
  <2>4. CASE Written("_main.c", router)
    <3> DEFINE path == <<pathbuf, This.name, "_main.c">>
    <3>1. /\ Mine' = Mine \cup {path} /\ disk'[path].from = <<file, contract>>
          /\ \A y \in DOMAIN disk : y # path => disk'[y] = disk[y]
      BY <1>1, <2>1, <2>4, Writes DEF Inside
    <3> HIDE DEF path
    <3>3. CASE x = path
      <4>1. disk'[x].from[1] = file /\ disk'[x].from[2] = contract
        BY <3>1, <3>3
      <4>2. Passed(disk[x].from[1], disk[x].from[2])'
              <=> \/ disk'[x].from[1] < file'
                  \/ disk'[x].from[1] = file' /\ Inside' /\ disk'[x].from[2] < contract'
        BY DEF Passed
      <4>3. QED BY <1>1, <2>1, <4>1, <4>2 DEF Inside
    <3>4. CASE x # path
      <4>1. x \in Mine /\ disk'[x] = disk[x]
        BY <3>1, <3>4 DEF Mine
      <4>2. QED BY <1>4, <2>2, <4>1
    <3>5. QED BY <3>3, <3>4
  <2>5. QED BY <2>1, <2>3, <2>4
<1>8. CASE Fails
  BY <1>8 DEF Fails, Ends
<1>9. QED BY <1>5, <1>6, <1>7, <1>8 DEF Next

\* A router with lines is that of a contract with functions.
LEMMA RouterOfFunctions ==
  ASSUME NEW c, NEW fs, NEW r, RouterFor(c, fs, r), r # <<>>
  PROVE  fs # {}
<1>1. SUFFICES ASSUME fs = {} PROVE FALSE
  OBVIOUS
<1>2. r \in Seq(Routes(c, c.functions)) /\ Len(r) = 0
  BY <1>1, FS_EmptySet DEF RouterFor
<1>3. QED BY <1>2

\* Header and router together, after a step.
LEMMA PairStep ==
  PlaceInv /\ PathInv /\ WorkInv /\ DiskInv /\ LateInv /\ PairInv /\ [Next]_vars => PairInv'
<1> SUFFICES ASSUME PlaceInv, PathInv, WorkInv, DiskInv, LateInv, PairInv, [Next]_vars,
                    FlatIn(input)
             PROVE  PairInv'
  BY PlaceStep DEF PairInv
<1> DEFINE c == At(input, file, contract)
           HeaderPath == <<pathbuf, c.name, ".h">>
           RouterPath == <<pathbuf, c.name, "_main.c">>
<1>1. input' = input
  BY PlaceStep
<1>2. \A x \in Mine : x[3] = "_main.c" => HeaderOf(x) \in Mine
  BY DEF PairInv
<1>3. pc = "router" /\ header # <<>> => HeaderPath \in Mine
  BY DEF PairInv
<1>4. This = c
  BY SameNames
<1>5. HeaderPath[3] # "_main.c" /\ HeaderOf(RouterPath) = HeaderPath
  BY DEF HeaderOf
<1>6. CASE disk' = disk /\ (pc' # "router" \/ header' = <<>>)
  BY <1>2, <1>6, NoWrite DEF PairInv
<1>7. CASE UNCHANGED vars
  <2>1. Mine' = Mine /\ pc' = pc /\ header' = header /\ HeaderPath' = HeaderPath
    BY <1>7, NoWrite DEF vars
  <2> HIDE DEF HeaderPath
  <2>2. pc' = "router" /\ header' # <<>> => HeaderPath' \in Mine'
    BY <1>3, <2>1
  <2>3. \A x \in Mine' : x[3] = "_main.c" => HeaderOf(x) \in Mine'
    BY <1>2, <2>1
  <2>4. QED BY <2>2, <2>3 DEF PairInv, HeaderPath
<1>8. CASE WriteHeader
  <2>1. /\ pc = "header" /\ pc' = "router" /\ header' = header /\ HeaderPath' = HeaderPath
    BY <1>8 DEF WriteHeader
  <2>2. CASE Written(".h", header)
    <3>1. Mine' = Mine \cup {HeaderPath}
      BY <1>4, <2>1, <2>2, Writes, FileIsNat DEF Inside
    <3> HIDE DEF HeaderPath
    <3>2. \A x \in Mine' : x[3] = "_main.c" => HeaderOf(x) \in Mine'
      BY <1>2, <1>5, <3>1
    <3>3. HeaderPath' \in Mine'
      BY <2>1, <3>1
    <3>4. QED BY <3>2, <3>3 DEF PairInv, HeaderPath
  <2>3. CASE header = <<>> /\ disk' = disk
    BY <1>6, <2>1, <2>3
  <2>4. QED BY <1>8, <2>2, <2>3 DEF WriteHeader, Needed
<1>9. CASE WriteRouter
  <2>1. pc = "router" /\ pc' = "next"
    BY <1>9 DEF WriteRouter
  <2>2. CASE router # <<>> /\ Written("_main.c", router)
    <3>1. Mine' = Mine \cup {RouterPath}
      BY <1>4, <2>1, <2>2, Writes, FileIsNat DEF Inside
    <3>2. FullHeader(c, header) /\ RouterFor(c, c.functions, router)
      BY <2>1 DEF WorkInv, Gathered
    <3> HIDE DEF HeaderPath, RouterPath, c
    <3>3. header # <<>>
      BY <2>2, <3>2, RouterOfFunctions, NotEmpty
    <3>4. HeaderPath \in Mine
      BY <1>3, <2>1, <3>3
    <3>5. \A x \in Mine' : x[3] = "_main.c" => HeaderOf(x) \in Mine'
      BY <1>2, <1>5, <3>1, <3>4
    <3>6. QED BY <2>1, <3>5 DEF PairInv
  <2>3. CASE disk' = disk
    BY <1>6, <2>1, <2>3
  <2>4. QED BY <1>9, <2>2, <2>3 DEF WriteRouter
<1>10. CASE Fails
  <2>1. pc' = "ended"
    BY <1>10 DEF Fails, Ends
  <2>2. CASE pc = "router" /\ Put(PathTo("_main.c"), Other)
    <3>1. Mine' = Mine \ {RouterPath}
      BY <1>4, <2>2, Tears
    <3>2. RouterPath[3] # ".h" /\ \A x : HeaderOf(x)[3] = ".h"
      BY DEF HeaderOf
    <3> HIDE DEF RouterPath
    <3>3. \A x \in Mine' : x[3] = "_main.c" => HeaderOf(x) \in Mine'
      BY <1>2, <3>1, <3>2
    <3>4. QED BY <2>1, <3>3 DEF PairInv
  <2>3. CASE pc = "header" /\ Put(PathTo(".h"), Other)
    <3>1. Mine' = Mine \ {HeaderPath}
      BY <1>4, <2>3, Tears
    <3>2. ASSUME NEW x \in Mine, x[3] = "_main.c" PROVE HeaderOf(x) # HeaderPath
      <4>1. SUFFICES ASSUME HeaderOf(x) = HeaderPath PROVE FALSE
        OBVIOUS
      <4>2. file \in DOMAIN input /\ contract \in DOMAIN input[file].contracts /\ IsOutput(input)
        BY <2>3, CGenAssumption DEF PlaceInv, Inside, Working
      <4>3. pathbuf = PathOf(input, file)
        BY <2>3 DEF PathInv, Inside
      <4>4. x[1] = pathbuf /\ x[2] = c.name
        BY <4>1 DEF HeaderOf
      <4>5. FileFine(input, x, disk[x])
        BY DEF DiskInv
      <4>6. disk[x].from = <<file, contract>>
        BY <4>2, <4>3, <4>4, <4>5, KeysDecide
      <4>7. Passed(disk[x].from[1], disk[x].from[2])
        BY <2>3, <3>2 DEF LateInv
      <4>8. disk[x].from[1] = file /\ disk[x].from[2] = contract
        BY <4>6
      <4>9. file \in Nat /\ contract \in Nat
        BY <2>3, FileIsNat DEF PlaceInv, Inside
      <4>10. QED BY <4>7, <4>8, <4>9 DEF Passed
    <3> HIDE DEF HeaderPath
    <3>3. \A x \in Mine' : x[3] = "_main.c" => HeaderOf(x) \in Mine'
      BY <1>2, <3>1, <3>2
    <3>4. QED BY <2>1, <3>3 DEF PairInv
  <2>4. CASE disk' = disk
    BY <1>6, <2>1, <2>4
  <2>5. QED BY <1>10, <2>2, <2>3, <2>4 DEF Fails
<1>11. CASE \/ OpenFile \/ CloseFile \/ BeginContract \/ (\E name \in methods : Method(name))
            \/ Storage
  BY <1>6, <1>11 DEF OpenFile, CloseFile, BeginContract, Method, Storage, Ends
<1>12. QED BY <1>7, <1>8, <1>9, <1>10, <1>11 DEF Next

\* More files on disk take nothing away.
LEMMA MoreFiles ==
  ASSUME NEW in, NEW xs, NEW ys, xs \in SUBSET ys, NEW i, NEW k, HasFiles(in, xs, i, k)
  PROVE  HasFiles(in, ys, i, k)
BY DEF HasFiles

\* What is on disk of the contracts that are passed, after a step.
LEMMA OutStep ==
  PlaceInv /\ PathInv /\ WorkInv /\ PairInv /\ OutInv /\ [Next]_vars => OutInv'
<1> SUFFICES ASSUME PlaceInv, PathInv, WorkInv, PairInv, OutInv, [Next]_vars,
                    FlatIn(input),
                    NEW i \in DOMAIN input, NEW k \in DOMAIN input[i].contracts,
                    Passed(i, k)'
             PROVE  HasFiles(input, Mine', i, k)
  BY PlaceStep DEF OutInv
<1> DEFINE c == At(input, file, contract)
<1>1. IsOutput(input) /\ input' = input /\ file \in Nat /\ contract \in Nat
      /\ (Inside => file \in DOMAIN input)
      /\ (Working => contract \in DOMAIN input[file].contracts)
  <2>1. IsOutput(input) /\ input' = input /\ file \in 1 .. Len(input) + 1
    BY CGenAssumption, PlaceStep DEF PlaceInv
  <2>2. Len(input) \in Nat
    BY <2>1, OutputParts
  <2>3. file \in Nat
    BY <2>1, <2>2
  <2>4. QED BY <2>1, <2>3 DEF PlaceInv
<1>2. /\ i \in Nat /\ k \in Nat /\ k >= 1
      /\ k <= Len(input[i].contracts) /\ Len(input[i].contracts) \in Nat
  <2>1. i \in 1 .. Len(input) /\ Len(input) \in Nat /\ k \in 1 .. Len(input[i].contracts)
        /\ Len(input[i].contracts) \in Nat
    BY <1>1, OutputParts
  <2>2. QED BY <2>1
<1>3. Passed(i, k)' <=> i < file' \/ (i = file' /\ Inside' /\ k < contract')
  BY DEF Passed
<1>4. Passed(i, k) => HasFiles(input, Mine, i, k)
  BY DEF OutInv
<1>5. ASSUME Passed(i, k), Mine \in SUBSET Mine'
      PROVE  HasFiles(input, Mine', i, k)
  BY <1>4, <1>5, MoreFiles
<1>6. CASE OpenFile
  <2>1. pc = "open" /\ file' = file /\ disk' = disk
    BY <1>6 DEF OpenFile
  <2>2. pc' = "ended" \/ contract' = 1
    BY <1>6 DEF OpenFile, Ends
  <2>3. Passed(i, k)
    BY <1>2, <1>3, <2>1, <2>2 DEF Passed, Inside
  <2>4. QED BY <1>5, <2>1, <2>3, NoWrite
<1>7. CASE CloseFile
  <2>1. /\ pc = "next" /\ pc' = "open" /\ file' = file + 1 /\ disk' = disk
        /\ contract > Len(input[file].contracts)
    BY <1>7, SameNames DEF CloseFile
  <2>2. i < file \/ i = file
    BY <1>1, <1>2, <1>3, <2>1 DEF Inside
  <2>3. i = file => k < contract
    BY <1>1, <1>2, <2>1
  <2>4. Passed(i, k)
    BY <2>1, <2>2, <2>3 DEF Passed, Inside
  <2>5. QED BY <1>5, <2>1, <2>4, NoWrite
<1>8. CASE \/ BeginContract \/ (\E name \in methods : Method(name)) \/ Storage
           \/ UNCHANGED vars
  <2>1. file' = file /\ contract' = contract /\ disk' = disk /\ (Inside' => Inside)
    BY <1>8 DEF BeginContract, Method, Storage, vars, Inside
  <2>2. Passed(i, k)
    BY <1>3, <2>1 DEF Passed
  <2>3. QED BY <1>5, <2>1, <2>2, NoWrite
<1>12. CASE Fails
  <2>1. file' = file /\ contract' = contract /\ ~Inside'
    BY <1>12 DEF Fails, Ends, Inside
  <2>2. i < file /\ Passed(i, k)
    BY <1>3, <2>1 DEF Passed
  <2>3. ASSUME NEW suffix, pc \in {"header", "router"}, Put(PathTo(suffix), Other)
        PROVE  HasFiles(input, Mine', i, k)
    <3> DEFINE path == <<pathbuf, This.name, suffix>>
    <3>1. Mine' = Mine \ {path}
      BY <2>3, Tears
    <3>2. pathbuf = PathOf(input, file) /\ file \in DOMAIN input
      BY <1>1, <2>3 DEF PathInv, Inside
    <3>3. \A t : Key(input, i, k, t)[1] = PathOf(input, i)
      BY DEF Key
    <3>4. path[1] = PathOf(input, file)
      BY <3>2
    <3>5. PathOf(input, i) # PathOf(input, file)
      <4>1. i # file
        BY <1>1, <1>2, <2>2
      <4>2. QED BY <1>1, <3>2, <4>1, FlatPaths
    <3> HIDE DEF path
    <3>6. \A t : Key(input, i, k, t) # path
      BY <3>3, <3>4, <3>5
    <3>7. HasFiles(input, Mine, i, k)
      BY <1>4, <2>2
    <3>8. QED BY <3>1, <3>6, <3>7 DEF HasFiles
  <2>4. CASE disk' = disk
    BY <1>5, <2>2, <2>4, NoWrite
  <2>5. QED BY <1>12, <2>3, <2>4 DEF Fails
<1>9. CASE WriteHeader
  <2>1. pc = "header" /\ file' = file /\ contract' = contract
    BY <1>9 DEF WriteHeader
  <2>2. Passed(i, k)
    BY <1>3, <2>1 DEF Passed, Inside
  <2>3. Mine \in SUBSET Mine'
    <3>1. CASE Written(".h", header)
      BY <2>1, <3>1, Writes, FileIsNat DEF Inside
    <3>2. QED BY <1>9, <3>1, NoWrite DEF WriteHeader
  <2>4. QED BY <1>5, <2>2, <2>3
<1>10. CASE WriteRouter
  <2>1. pc = "router" /\ file' = file /\ contract' = contract + 1
        /\ (IF router # <<>> THEN Written("_main.c", router) ELSE disk' = disk)
    BY <1>10 DEF WriteRouter
  <2>2. Mine \in SUBSET Mine'
    <3>1. CASE Written("_main.c", router)
      BY <2>1, <3>1, Writes, FileIsNat DEF Inside
    <3>2. QED BY <2>1, <3>1, NoWrite
  <2>3. CASE Passed(i, k)
    BY <1>5, <2>2, <2>3
  <2>4. CASE ~Passed(i, k)
    <3>1. i = file /\ k = contract
      BY <1>1, <1>2, <1>3, <2>1, <2>4 DEF Passed, Inside
    <3>2. pathbuf = PathOf(input, file)
      BY <2>1 DEF PathInv, Inside
    <3>3. FullHeader(c, header) /\ RouterFor(c, c.functions, router)
      BY <2>1 DEF WorkInv, Gathered
    <3>4. router # <<>> => Key(input, file, contract, "_main.c") \in Mine'
      <4>1. ASSUME router # <<>> PROVE <<pathbuf, c.name, "_main.c">> \in Mine'
        BY <2>1, <4>1, Writes, FileIsNat, SameNames DEF Inside
      <4>2. QED BY <3>2, <4>1 DEF Key
    <3>5. header # <<>> => Key(input, file, contract, ".h") \in Mine'
      <4>1. header # <<>> => <<pathbuf, c.name, ".h">> \in Mine
        BY <2>1 DEF PairInv
      <4>2. QED BY <2>2, <3>2, <4>1 DEF Key
    <3>6. /\ c.functions # {} => header # <<>> /\ router # <<>>
          /\ (\E v \in ToSet(c.variables) : Placed(v)) => header # <<>>
      <4> HIDE DEF c
      <4>1. QED BY <3>3, NotEmpty
    <3>7. HasFiles(input, Mine', file, contract)
      BY <3>4, <3>5, <3>6 DEF HasFiles
    <3>8. QED BY <3>1, <3>7
  <2>5. QED BY <2>3, <2>4
<1>13. QED BY <1>6, <1>7, <1>8, <1>9, <1>10, <1>12 DEF Next

\* The invariant is inductive.
LEMMA StepInv == IInv /\ [Next]_vars => IInv'
BY PlaceStep, PathStep, WorkStep, DiskStep, OutStep, LateStep, PairStep DEF IInv

\* And so it always holds.
THEOREM Always == Spec => []IInv
BY InitInv, StepInv, PTL DEF Spec

-----------------------------------------------------------------------------
(* What follows.                                                            *)

\* The contract of a file, from its record.
LEMMA Owners ==
  ASSUME IInv, NEW x \in Mine
  PROVE  /\ IsContract(ContractOf(disk[x].from))
         /\ x[3] = ".h" => FullHeader(ContractOf(disk[x].from), disk[x].lines)
         /\ x[3] = "_main.c" =>
              RouterFor(ContractOf(disk[x].from), ContractOf(disk[x].from).functions,
                        disk[x].lines)
<1>1. IsOutput(input)
  BY CGenAssumption DEF IInv, PlaceInv
<1>2. FileFine(input, x, disk[x])
  BY DEF IInv, DiskInv
<1>3. PICK i \in DOMAIN input : \E k \in DOMAIN input[i].contracts :
       /\ disk[x].from = <<i, k>>
       /\ x[3] = ".h" => FullHeader(At(input, i, k), disk[x].lines)
       /\ x[3] = "_main.c" =>
            RouterFor(At(input, i, k), At(input, i, k).functions, disk[x].lines)
  BY <1>2 DEF FileFine
<1>4. PICK k \in DOMAIN input[i].contracts :
       /\ disk[x].from = <<i, k>>
       /\ x[3] = ".h" => FullHeader(At(input, i, k), disk[x].lines)
       /\ x[3] = "_main.c" =>
            RouterFor(At(input, i, k), At(input, i, k).functions, disk[x].lines)
  BY <1>3
<1>5. ContractOf(disk[x].from) = At(input, i, k)
  BY <1>4 DEF ContractOf, Files, At
<1>6. IsContract(At(input, i, k))
  BY <1>1, OutputParts
<1>7. QED BY <1>4, <1>5, <1>6

\* Types.
LEMMA InvTypes == IInv => TypeOK
<1> SUFFICES ASSUME IInv PROVE TypeOK
  OBVIOUS
<1>1. \A x \in DOMAIN disk : IsKey(x)
  BY DEF IInv, DiskInv
<1>2. Len(pathbuf) >= 1 /\ pathbuf[1] \in {OutDir, Root}
  BY DEF IInv, PathInv
<1>3. pc \in {"methods", "storage", "header", "router"} =>
        methods \subseteq {f.name : f \in This.functions}
  <2>1. This = At(input, file, contract)
    BY SameNames
  <2>2. pc \in {"methods", "header", "router"} =>
          methods \subseteq {f.name : f \in At(input, file, contract).functions}
    BY DEF IInv, WorkInv, Gathered
  <2>3. pc # "storage"
    BY DEF IInv, PlaceInv
  <2>4. QED BY <2>1, <2>2, <2>3
<1>4. /\ input \in Inputs
      /\ pc \in {"open", "next", "methods", "storage", "header", "router", "ended"}
      /\ file \in 1 .. Len(Files) + 1 /\ contract \in Nat
      /\ exit \in {"none", "ok", "error"}
  BY SameNames DEF IInv, PlaceInv
<1>5. QED BY <1>1, <1>2, <1>3, <1>4 DEF TypeOK

\* No macro is defined twice.
LEMMA InvUnique == IInv => NamesAreUnique
<1> SUFFICES ASSUME IInv, NEW x \in Headers,
                    ~Clashes(ContractOf(disk[x].from)),
                    ~SharesLabels(ContractOf(disk[x].from)),
                    NEW i \in DOMAIN disk[x].lines, NEW j \in DOMAIN disk[x].lines, i # j
             PROVE  <<disk[x].lines[i].what, disk[x].lines[i].name>>
                      # <<disk[x].lines[j].what, disk[x].lines[j].name>>
  BY DEF NamesAreUnique
<1> DEFINE c == ContractOf(disk[x].from)
           lines == disk[x].lines
<1>1. FullHeader(c, lines)
  BY Owners DEF Headers
<1>2. lines \in Seq(AllLines(c)) /\ Apart(Macro(c), lines)
  BY <1>1 DEF FullHeader
<1> HIDE DEF c
<1>3. lines[i] \in AllLines(c) /\ lines[j] \in AllLines(c)
  BY <1>2, SeqParts
<1>4. Macro(c)[lines[i]] # Macro(c)[lines[j]]
  BY <1>2 DEF Apart
<1>5. QED BY <1>3, <1>4 DEF Macro

\* A header stands beside each router, of the same contract.
LEMMA InvPaired == IInv => RouterHasItsHeader
<1> SUFFICES ASSUME IInv, Flat, NEW x \in Routers
             PROVE  HeaderOf(x) \in Headers /\ disk[HeaderOf(x)].from = disk[x].from
  BY DEF RouterHasItsHeader
<1>1. IsOutput(input) /\ FlatIn(input)
  BY CGenAssumption, SameNames DEF IInv, PlaceInv
<1> DEFINE h == HeaderOf(x)
<1>2. x \in Mine /\ h \in Mine
  BY <1>1 DEF Routers, IInv, PairInv
<1>3. h[1] = x[1] /\ h[2] = x[2] /\ h[3] = ".h"
  BY DEF HeaderOf
<1> HIDE DEF h
<1>4. FileFine(input, x, disk[x]) /\ FileFine(input, h, disk[h])
  BY <1>2 DEF IInv, DiskInv
<1>5. PICK i \in DOMAIN input : \E k \in DOMAIN input[i].contracts :
        disk[x].from = <<i, k>> /\ x[2] = At(input, i, k).name /\ x[1] = PathOf(input, i)
  BY <1>1, <1>4 DEF FileFine
<1>6. PICK k \in DOMAIN input[i].contracts :
        disk[x].from = <<i, k>> /\ x[2] = At(input, i, k).name /\ x[1] = PathOf(input, i)
  BY <1>5
<1>7. disk[h].from = <<i, k>>
  BY <1>1, <1>3, <1>4, <1>6, KeysDecide
<1>8. QED BY <1>2, <1>3, <1>6, <1>7 DEF Headers, h

\* The router of a contract takes each selector to its function.
LEMMA InvDispatches == IInv => Dispatches
<1> SUFFICES ASSUME IInv, NEW x \in Routers, HeaderOf(x) \in Headers, Flat,
                    ~Clashes(ContractOf(disk[x].from))
             PROVE  Dispatched(ContractOf(disk[x].from), disk[HeaderOf(x)].lines,
                               disk[x].lines)
  BY DEF Dispatches, Takes, Dispatched
<1> DEFINE c == ContractOf(disk[x].from)
<1>1. disk[HeaderOf(x)].from = disk[x].from
  BY InvPaired DEF RouterHasItsHeader
<1>2. IsContract(c) /\ RouterFor(c, c.functions, disk[x].lines)
  BY Owners DEF Routers
<1>3. FullHeader(c, disk[HeaderOf(x)].lines)
  BY <1>1, Owners DEF Headers
<1>4. ~Clashes(c)
  OBVIOUS
<1> HIDE DEF c
<1>5. Dispatched(c, disk[HeaderOf(x)].lines, disk[x].lines)
  BY <1>2, <1>3, <1>4, RouterDispatches
<1>6. QED BY <1>5 DEF c

\* At the end each contract has its files.
LEMMA InvOutputs == IInv => OutputsFound
<1> SUFFICES ASSUME IInv, exit = "ok", Flat,
                    NEW i \in DOMAIN input, NEW k \in DOMAIN input[i].contracts
             PROVE  LET c == At(input, i, k)
                    IN /\ c.functions # {} =>
                            /\ Key(input, i, k, "_main.c") \in Routers
                            /\ disk[Key(input, i, k, "_main.c")].from = <<i, k>>
                       /\ c.functions # {} \/ (\E v \in ToSet(c.variables) : Placed(v)) =>
                            /\ Key(input, i, k, ".h") \in Headers
                            /\ disk[Key(input, i, k, ".h")].from = <<i, k>>
  BY DEF OutputsFound, Files, At, Key, PathOf
<1>1. IsOutput(input) /\ FlatIn(input)
  BY CGenAssumption, SameNames DEF IInv, PlaceInv
<1>2. i < file
  <2>1. file = Len(input) + 1 /\ i \in 1 .. Len(input) /\ Len(input) \in Nat
    BY <1>1, OutputParts DEF IInv, PlaceInv
  <2>2. QED BY <2>1
<1>3. HasFiles(input, Mine, i, k)
  BY <1>1, <1>2 DEF IInv, OutInv, Passed
<1>4. ASSUME NEW suffix, Key(input, i, k, suffix) \in Mine
      PROVE  /\ disk[Key(input, i, k, suffix)].from = <<i, k>>
             /\ Key(input, i, k, suffix)[3] = suffix
  <2> DEFINE x == Key(input, i, k, suffix)
  <2>1. x[1] = PathOf(input, i) /\ x[2] = At(input, i, k).name /\ x[3] = suffix
    BY DEF Key
  <2> HIDE DEF x
  <2>2. FileFine(input, x, disk[x])
    BY <1>4 DEF IInv, DiskInv, x
  <2>3. disk[x].from = <<i, k>>
    BY <1>1, <2>1, <2>2, KeysDecide
  <2>4. QED BY <2>1, <2>3 DEF x
<1>5. QED BY <1>3, <1>4 DEF HasFiles, Headers, Routers

\* TypeOK holds for every output of solc.
THEOREM TypesOfCGen == Spec => []TypeOK
BY Always, InvTypes, PTL

\* In whatever order the HashMap yields the methods, a header (gen.rs:99)
\* defines no macro and declares no function twice, but for functions named like
\* a numbered overload and variables of one label.
THEOREM HeadersAreUnique == Spec => []NamesAreUnique
BY Always, InvUnique, PTL

\* The router takes each selector of a contract to the C function of its own,
\* with arguments for its parameters (gen.rs:77-108), and has no line more, but
\* for functions named like a numbered overload and files named with directories.
THEOREM SelectorsArrive == Spec => []Dispatches
BY Always, InvDispatches, PTL

\* Also after a failure at a file, and whatever an earlier run has left, a router of
\* this run has the header it includes, whole and of the same contract, where no
\* Solidity file is named with a directory.
THEOREM RoutersHaveHeaders == Spec => []RouterHasItsHeader
BY Always, InvPaired, PTL

\* When the command succeeds each contract has its files, its own, below the name
\* of its Solidity file, if none of those is named with a directory.
THEOREM FilesAreFound == Spec => []OutputsFound
BY Always, InvOutputs, PTL
=============================================================================
