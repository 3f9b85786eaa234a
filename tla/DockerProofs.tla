---------------------------- MODULE DockerProofs ----------------------------
(***************************************************************************)
(* Proofs about Docker: what printing, splitting and parsing again make of *)
(* any command line, and from it what runs in a container.                 *)
(***************************************************************************)
EXTENDS Docker, SequenceFacts, SequenceTheorems

Texts == Atoms \cup Switches \cup {"--constructor-args"}
Flags == OptionNames \cup {"", "source-files-for-project-hash", "constructor-value",
                            "constructor-signature"}
AWord == [flag : Flags, text : Seq(Texts), quoted : BOOLEAN, number : Nat]
ArgsFlag == Bare("--constructor-args")

-----------------------------------------------------------------------------
(* Sets of names, spelled out.                                              *)

\* What each command takes: the sets of Docker, element by element.
LEMMA OptionsExplicit ==
  /\ OptionsOf("deploy") = {"endpoint", "max-fee-per-gas-gwei", "features",
       "data-fee-bump-percent", "wasm-file", "contract-address",
       "private-key-path", "private-key", "keystore-path",
       "keystore-password-path", "cargo-stylus-version", "deployer-address",
       "deployer-salt"}
  /\ OptionsOf("verify") = {"endpoint", "max-fee-per-gas-gwei", "features",
       "deployment-tx", "cargo-stylus-version"}
  /\ OptionNames = OptionsOf("deploy") \cup OptionsOf("verify")
<1>1. ToSet(DeployOptions) = {"endpoint", "max-fee-per-gas-gwei", "features",
       "data-fee-bump-percent", "wasm-file", "contract-address",
       "private-key-path", "private-key", "keystore-path",
       "keystore-password-path", "cargo-stylus-version", "deployer-address",
       "deployer-salt"}
  BY DEF ToSet, DeployOptions
<1>2. ToSet(VerifyOptions) = {"endpoint", "max-fee-per-gas-gwei", "features",
       "deployment-tx", "cargo-stylus-version"}
  BY DEF ToSet, VerifyOptions
<1>3. QED BY <1>1, <1>2 DEF OptionsOf, OptionNames

-----------------------------------------------------------------------------
(* Words.                                                                   *)

\* A literal is a word, and only itself.
LEMMA BareWord ==
  ASSUME NEW a \in Texts
  PROVE  /\ Bare(a) \in AWord
         /\ Bare(a).flag = "" /\ Bare(a).text = <<a>> /\ Bare(a).quoted = FALSE
         /\ \A b : Bare(b) = Bare(a) <=> a = b
<1> DEFINE t == <<a>>
<1>2. t \in Seq(Texts)
  BY Singleton
<1>3. \A b : Bare(b).text = <<b>>
  BY DEF Bare, Word
<1>4. \A b : <<b>> = <<a>> => a = b
  OBVIOUS
<1>5. Bare(a) \in AWord /\ Bare(a).flag = "" /\ Bare(a).text = t /\ Bare(a).quoted = FALSE
  <2>1. ASSUME NEW u \in Seq(Texts)
        PROVE  LET r == [flag |-> "", text |-> u, quoted |-> FALSE, number |-> 0]
               IN  r \in AWord /\ r.flag = "" /\ r.text = u /\ r.quoted = FALSE
    BY DEF AWord, Flags
  <2>2. QED BY <1>2, <2>1 DEF Bare, Word
<1>6. \A b : Bare(b) = Bare(a) <=> a = b
  BY <1>3, <1>4
<1>7. QED BY <1>5, <1>6

\* An option is printed as words: the flag is on the first.
LEMMA WordsOf ==
  ASSUME NEW n \in Flags, NEW v \in Text
  PROVE  /\ Words(n, v) \in Seq(AWord) /\ Len(Words(n, v)) = Len(v)
         /\ Len(v) \in Nat \ {0} /\ v[1] \in Atoms
         /\ Words(n, v)[1] = Word(n, <<v[1]>>)
         /\ \A i \in 2 .. Len(v) : Words(n, v)[i] = Bare(v[i]) /\ v[i] \in Atoms
<1> DEFINE first == <<Word(n, <<v[1]>>)>>
           rest == [i \in 1 .. Len(v) - 1 |-> Bare(v[i + 1])]
<1>1. v \in Seq(Atoms) /\ Len(v) \in Nat \ {0} /\ \A i \in 1 .. Len(v) : v[i] \in Atoms
  BY DEF Text
<1>2. Word(n, <<v[1]>>) \in AWord
  <2>1. v[1] \in Texts
    BY <1>1 DEF Texts
  <2>2. <<v[1]>> \in Seq(Texts)
    BY <2>1
  <2>3. QED BY <2>2 DEF Word, AWord
<1>3. \A i \in 1 .. Len(v) - 1 : Bare(v[i + 1]) \in AWord
  <2> SUFFICES ASSUME NEW i \in 1 .. Len(v) - 1 PROVE Bare(v[i + 1]) \in AWord
    OBVIOUS
  <2>1. v[i + 1] \in Texts
    BY <1>1 DEF Texts
  <2>2. QED BY <2>1, BareWord
<1>4. rest \in Seq(AWord) /\ Len(rest) = Len(v) - 1
  BY <1>1, <1>3
<1>5. first \in Seq(AWord) /\ Len(first) = 1 /\ first[1] = Word(n, <<v[1]>>)
  BY <1>2, Singleton
<1>6. \A i \in 2 .. Len(v) : rest[i - 1] = Bare(v[i])
  BY <1>1
<1>7. Words(n, v) = first \o rest
  BY DEF Words
<1> HIDE DEF first, rest
<1>8. /\ first \o rest \in Seq(AWord)
      /\ Len(first \o rest) = Len(first) + Len(rest)
      /\ \A i \in 1 .. Len(first) + Len(rest) :
           (first \o rest)[i] = IF i <= Len(first) THEN first[i] ELSE rest[i - Len(first)]
  BY <1>4, <1>5, ConcatProperties
<1>9. /\ (first \o rest)[1] = first[1]
      /\ \A i \in 2 .. Len(v) : (first \o rest)[i] = rest[i - 1]
  <2>1. Len(first) + Len(rest) = Len(v)
    BY <1>1, <1>4, <1>5
  <2>2. \A i \in 1 .. Len(v) :
           (first \o rest)[i] = IF i <= 1 THEN first[i] ELSE rest[i - 1]
    BY <1>5, <1>8, <2>1
  <2> DEFINE z == first \o rest
  <2> HIDE DEF z
  <2>3. \A i \in 1 .. Len(v) : z[i] = IF i <= 1 THEN first[i] ELSE rest[i - 1]
    BY <2>2 DEF z
  <2>4. z[1] = first[1] /\ \A i \in 2 .. Len(v) : z[i] = rest[i - 1]
    BY <1>1, <2>3
  <2>5. QED BY <2>4 DEF z
<1>10. QED BY <1>1, <1>4, <1>5, <1>6, <1>7, <1>8, <1>9

\* So is a flag with its value.
LEMMA GluedWord ==
  ASSUME NEW n \in Flags, NEW t \in Seq(Texts)
  PROVE  /\ Word(n, t) \in AWord
         /\ Word(n, t).flag = n /\ Word(n, t).text = t
         /\ Word(n, t).quoted = FALSE /\ Word(n, t).number = 0
BY DEF Word, AWord

\* The parts of a command line are sequences of words.
LEMMA PartTypes ==
  ASSUME NEW x, IsConfig(x)
  PROVE  /\ \A n : Option(x, n) \in Seq(AWord)
         /\ \A s \in Switches : Switch(x, s) \in Seq(AWord)
         /\ Sources(x) \in Seq(AWord)
         /\ Value(x) \in Seq(AWord)
         /\ Signature(x) \in Seq(AWord)
         /\ Args(x) \in Seq(AWord)
<1>0. <<>> \in Seq(AWord)
  OBVIOUS
<1>1. ASSUME NEW n PROVE Option(x, n) \in Seq(AWord)
  <2>1. CASE n \notin DOMAIN x.options
    BY <1>0, <2>1 DEF Option
  <2>2. CASE n \in DOMAIN x.options
    <3>1. n \in Flags /\ x.options[n] \in Text
      BY <2>2, OptionsExplicit DEF IsConfig, Flags
    <3>2. QED BY <2>2, <3>1, WordsOf DEF Option
  <2>3. QED BY <2>1, <2>2
<1>2. ASSUME NEW s \in Switches PROVE Switch(x, s) \in Seq(AWord)
  <2>1. Bare(s) \in AWord
    BY BareWord DEF Texts
  <2>2. QED BY <1>0, <2>1, Singleton DEF Switch
<1>3. Sources(x) \in Seq(AWord)
  <2>1. "source-files-for-project-hash" \in Flags /\ x.sources \in Seq(Texts)
    BY DEF Flags, IsConfig, Texts
  <2>2. Word("source-files-for-project-hash", x.sources) \in AWord
    BY <2>1, GluedWord
  <2>3. QED BY <1>0, <2>2, Singleton DEF Sources
<1>4. Value(x) \in Seq(AWord)
  <2>1. "constructor-value" \in Flags /\ <<>> \in Seq(Texts) /\ x.value \in Nat
    BY DEF Flags, IsConfig
  <2>2. [Word("constructor-value", <<>>) EXCEPT !.number = x.value] \in AWord
    BY <2>1 DEF Word, AWord
  <2>3. QED BY <2>2, Singleton DEF Value
<1>5. Signature(x) \in Seq(AWord)
  <2>1. CASE x.signature = <<>>
    BY <1>0, <2>1 DEF Signature
  <2>2. CASE x.signature # <<>>
    <3> DEFINE w == Words("constructor-signature", x.signature)
               q(i) == [w[i] EXCEPT !.quoted = i \in {1, Len(w)}]
    <3>1. "constructor-signature" \in Flags /\ x.signature \in Text
      BY <2>2 DEF Flags, IsConfig, Text
    <3>2. w \in Seq(AWord)
      BY <3>1, WordsOf
    <3>3. Signature(x) = [i \in DOMAIN w |-> q(i)]
      BY <2>2 DEF Signature
    <3> HIDE DEF w
    <3>4. \A i \in DOMAIN w : q(i) \in AWord
      <4> SUFFICES ASSUME NEW i \in DOMAIN w PROVE q(i) \in AWord
        OBVIOUS
      <4>1. w[i] \in AWord /\ (i \in {1, Len(w)}) \in BOOLEAN
        BY <3>2
      <4>2. QED BY <4>1 DEF AWord
    <3> HIDE DEF q
    <3>5. QED BY <3>2, <3>3, <3>4
  <2>3. QED BY <2>1, <2>2
<1>6. Args(x) \in Seq(AWord)
  <2> DEFINE bare(i) == [j \in DOMAIN x.args[i] |-> Bare(x.args[i][j])]
             seqs == [i \in DOMAIN x.args |-> bare(i)]
  <2>1. ArgsFlag \in AWord
    BY BareWord DEF Texts, ArgsFlag
  <2>2. seqs \in Seq(Seq(AWord))
    <3>1. \A i \in DOMAIN x.args : bare(i) \in Seq(AWord)
      <4> SUFFICES ASSUME NEW i \in DOMAIN x.args PROVE bare(i) \in Seq(AWord)
        OBVIOUS
      <4>1. x.args[i] \in Seq(Atoms)
        BY DEF IsConfig, Text
      <4>2. \A j \in DOMAIN x.args[i] : Bare(x.args[i][j]) \in AWord
        <5> SUFFICES ASSUME NEW j \in DOMAIN x.args[i] PROVE Bare(x.args[i][j]) \in AWord
          OBVIOUS
        <5>1. x.args[i][j] \in Texts
          BY <4>1 DEF Texts
        <5>2. QED BY <5>1, BareWord
      <4>3. QED BY <4>1, <4>2
    <3>2. x.args \in Seq(Text)
      BY DEF IsConfig
    <3> HIDE DEF bare
    <3>3. QED BY <3>1, <3>2
  <2>3. FlattenSeq(seqs) \in Seq(AWord)
    BY <2>2, FlattenElements
  <2>4. <<ArgsFlag>> \o FlattenSeq(seqs) \in Seq(AWord)
    BY <2>1, <2>3, Singleton, ConcatProperties
  <2>5. QED BY <1>0, <2>4 DEF Args, ArgsFlag
<1>7. QED BY <1>1, <1>2, <1>3, <1>4, <1>5, <1>6

-----------------------------------------------------------------------------
(* Splitting.                                                               *)

Keeps == [w \in AWord |-> Kept(w)]

\* Splitting maps every word to the pieces that are kept of it and joins them, so
\* that the laws of sequences apply.
LEMMA SplitIsMap ==
  /\ Maps(Keeps, AWord, Seq(AWord))
  /\ \A w \in AWord : ToSet(Keeps[w]) = {w} \ {Bare("")}
  /\ \A s \in Seq(AWord) : Split(s) = FlattenSeq(Mapped(Keeps, s))
<1>1. ASSUME NEW w \in AWord
      PROVE  Kept(w) \in Seq(AWord) /\ ToSet(Kept(w)) = {w} \ {Bare("")}
  <2>1. CASE w = Bare("")
    <3>1. ToSet(<<>>) = {} /\ <<>> \in Seq(AWord)
      BY DEF ToSet
    <3>2. Kept(w) = <<>>
      BY <2>1 DEF Kept
    <3>3. QED BY <2>1, <3>1, <3>2
  <2>2. CASE w # Bare("")
    <3>1. <<w>> \in Seq(AWord) /\ ToSet(<<w>>) = {w}
      BY Singleton
    <3>2. Kept(w) = <<w>>
      BY <2>2 DEF Kept
    <3>3. QED BY <2>2, <3>1, <3>2
  <2>3. QED BY <2>1, <2>2
<1>2. ASSUME NEW s \in Seq(AWord) PROVE Split(s) = FlattenSeq(Mapped(Keeps, s))
  <2>1. \A i \in DOMAIN s : s[i] \in AWord
    BY SeqParts
  <2>2. [i \in DOMAIN s |-> Kept(s[i])] = Mapped(Keeps, s)
    BY <2>1 DEF Mapped, Keeps
  <2>3. QED BY <2>2 DEF Split
<1>3. QED BY <1>1, <1>2 DEF Maps, Keeps

\* Only the empty words go.
LEMMA SplitElements ==
  ASSUME NEW s \in Seq(AWord)
  PROVE  /\ Split(s) \in Seq(AWord)
         /\ ToSet(Split(s)) = ToSet(s) \ {Bare("")}
<1>1. Maps(Keeps, AWord, Seq(AWord))
  BY SplitIsMap
<1>2. /\ FlattenSeq(Mapped(Keeps, s)) \in Seq(AWord)
      /\ ToSet(FlattenSeq(Mapped(Keeps, s))) = UNION {ToSet(Keeps[w]) : w \in ToSet(s)}
  BY <1>1, FlatMap
<1>3. ToSet(s) \subseteq AWord
  BY DEF ToSet
<1>4. \A w \in AWord : ToSet(Keeps[w]) = {w} \ {Bare("")}
  BY SplitIsMap
<1>5. UNION {ToSet(Keeps[w]) : w \in ToSet(s)} = ToSet(s) \ {Bare("")}
  <2> DEFINE e == Bare("")
             S == ToSet(s)
             F(w) == ToSet(Keeps[w])
  <2>1. S \subseteq AWord /\ \A w \in AWord : F(w) = {w} \ {e}
    BY <1>3, <1>4
  <2> HIDE DEF e, S, F
  <2>2. UNION {F(w) : w \in S} = S \ {e}
    BY <2>1
  <2>3. QED BY <2>2 DEF e, S, F
<1>6. Split(s) = FlattenSeq(Mapped(Keeps, s))
  BY SplitIsMap
<1>7. QED BY <1>2, <1>5, <1>6

\* Two parts of a line are split each on its own.
LEMMA SplitConcat ==
  ASSUME NEW s \in Seq(AWord), NEW t \in Seq(AWord)
  PROVE  Split(s \o t) = Split(s) \o Split(t)
<1> DEFINE st == s \o t
<1>1. st \in Seq(AWord)
  BY ConcatProperties
<1>2. Maps(Keeps, AWord, Seq(AWord))
  BY SplitIsMap
<1>3. FlattenSeq(Mapped(Keeps, st))
        = FlattenSeq(Mapped(Keeps, s)) \o FlattenSeq(Mapped(Keeps, t))
  BY <1>2, FlatMapConcat
<1> HIDE DEF st
<1>4. /\ Split(st) = FlattenSeq(Mapped(Keeps, st))
      /\ Split(s) = FlattenSeq(Mapped(Keeps, s))
      /\ Split(t) = FlattenSeq(Mapped(Keeps, t))
  BY <1>1, SplitIsMap
<1>5. Split(st) = Split(s) \o Split(t)
  BY <1>3, <1>4
<1>6. QED BY <1>5 DEF st

\* What splitting keeps of each word, by position.
LEMMA KeptParts ==
  ASSUME NEW s \in Seq(AWord)
  PROVE  /\ Mapped(Keeps, s) \in Seq(Seq(AWord))
         /\ DOMAIN Mapped(Keeps, s) = DOMAIN s
         /\ \A i \in DOMAIN s : s[i] \in AWord /\ Mapped(Keeps, s)[i] = Keeps[s[i]]
         /\ s = [i \in DOMAIN s |-> s[i]]
<1>1. Maps(Keeps, AWord, Seq(AWord))
  BY SplitIsMap
<1>2. \A i \in DOMAIN s : Mapped(Keeps, s)[i] = Keeps[s[i]]
  BY <1>1, MapType
<1>3. Mapped(Keeps, s) \in Seq(Seq(AWord)) /\ DOMAIN Mapped(Keeps, s) = DOMAIN s
  BY <1>1, MapType
<1>4. s = [i \in DOMAIN s |-> s[i]] /\ \A i \in DOMAIN s : s[i] \in AWord
  OBVIOUS
<1>5. QED BY <1>2, <1>3, <1>4

\* Without empty words nothing changes.
LEMMA SplitSame ==
  ASSUME NEW s \in Seq(AWord), Bare("") \notin ToSet(s)
  PROVE  Split(s) = s
<1> DEFINE m == Mapped(Keeps, s)
<1>1. \A i \in DOMAIN s : s[i] \in AWord
  BY KeptParts
<1>2. s = [i \in DOMAIN s |-> s[i]]
  BY KeptParts, Zenon
<1>3. \A i \in DOMAIN s : s[i] # Bare("")
  BY DEF ToSet
<1>4. \A i \in DOMAIN s : Keeps[s[i]] = <<s[i]>>
  BY <1>1, <1>3 DEF Keeps, Kept
<1>6. m \in Seq(Seq(AWord)) /\ DOMAIN m = DOMAIN s /\ \A i \in DOMAIN s : m[i] = Keeps[s[i]]
  BY KeptParts
<1>7. Split(s) = FlattenSeq(m)
  BY SplitIsMap
<1> HIDE DEF m
<1>8. \A i \in DOMAIN m : Len(m[i]) = 1 /\ m[i][1] = s[i]
  <2> SUFFICES ASSUME NEW i \in DOMAIN m PROVE Len(m[i]) = 1 /\ m[i][1] = s[i]
    OBVIOUS
  <2>1. m[i] = <<s[i]>> /\ s[i] \in AWord
    BY <1>1, <1>4, <1>6
  <2>2. QED BY <2>1, Singleton
<1>9. FlattenSeq(m) = [i \in DOMAIN m |-> m[i][1]]
  BY <1>6, <1>8, FlattenSingletons
<1>10. [i \in DOMAIN m |-> m[i][1]] = [i \in DOMAIN s |-> s[i]]
  BY <1>6, <1>8
<1>11. QED BY <1>2, <1>7, <1>9, <1>10

-----------------------------------------------------------------------------
(* Where the arguments start.                                               *)

\* ArgsAt is the first occurrence of the flag, or past the end.
LEMMA ArgsAtIsFirst ==
  ASSUME NEW words \in Seq(AWord)
  PROVE  /\ ArgsAt(words) \in 1 .. Len(words) + 1
         /\ ArgsAt(words) <= Len(words) => words[ArgsAt(words)] = ArgsFlag
         /\ \A i \in 1 .. Len(words) : words[i] = ArgsFlag => ArgsAt(words) <= i
<1> DEFINE at == {i \in DOMAIN words : words[i] = ArgsFlag}
<1>1. DOMAIN words = 1 .. Len(words) /\ Len(words) \in Nat
  OBVIOUS
<1>2. ArgsAt(words) = IF at = {} THEN Len(words) + 1
                                 ELSE CHOOSE i \in at : \A j \in at : i <= j
  BY DEF ArgsAt, ArgsFlag
<1>3. CASE at = {}
  BY <1>1, <1>2, <1>3
<1>4. CASE at # {}
  <2>1. at \in SUBSET Nat
    BY <1>1
  <2>2. \E i \in at : \A j \in at : i <= j
    <3> HIDE DEF at
    <3>1. QED BY <1>4, <2>1, LeastNatural
  <2>3. ArgsAt(words) \in at /\ \A j \in at : ArgsAt(words) <= j
    <3> HIDE DEF at
    <3>1. QED BY <1>2, <1>4, <2>2
  <2>4. QED BY <1>1, <2>3
<1>5. QED BY <1>3, <1>4

\* A word is among those before the arguments.
IsRead(words, w) == \E i \in 1 .. ArgsAt(words) - 1 : words[i] = w
NoneRequired(kind, words) == \A w \in ToSet(words) : w.flag \notin Required(kind)

\* Words that are read although --constructor-args may be among those before:
\* the option the command requires comes after them, and is read.
LEMMA ReadIfRequired ==
  ASSUME NEW kind, NEW a \in Seq(AWord), NEW k \in Seq(AWord), NEW r \in Seq(AWord),
         Parses(kind, Cat(Cat(a, k), r)),
         NoneRequired(kind, a), ArgsFlag \notin ToSet(k),
         NEW w, w \in ToSet(a) \cup ToSet(k)
  PROVE  IsRead(Cat(Cat(a, k), r), w)
<1> DEFINE ak == a \o k
           words == ak \o r
           p == ArgsAt(words)
<1>1. /\ ak \in Seq(AWord) /\ Len(ak) = Len(a) + Len(k)
      /\ \A i \in 1 .. Len(a) + Len(k) : ak[i] = IF i <= Len(a) THEN a[i] ELSE k[i - Len(a)]
  BY ConcatParts
<1>2. ToSet(ak) = ToSet(a) \cup ToSet(k)
  BY ConcatElements
<1>3. Parses(kind, words)
  BY DEF Cat
<1> HIDE DEF ak
<1>4. /\ words \in Seq(AWord) /\ Len(words) = Len(ak) + Len(r)
      /\ \A i \in 1 .. Len(ak) + Len(r) :
           words[i] = IF i <= Len(ak) THEN ak[i] ELSE r[i - Len(ak)]
  <2>1. ak \in Seq(AWord)
    BY <1>1
  <2>2. QED BY <2>1, ConcatProperties
<1> HIDE DEF words
<1>5. /\ Len(a) \in Nat /\ Len(k) \in Nat /\ Len(r) \in Nat
      /\ DOMAIN a = 1 .. Len(a) /\ DOMAIN k = 1 .. Len(k)
  BY SeqParts
<1>6. /\ p \in 1 .. Len(words) + 1
      /\ p <= Len(words) => words[p] = ArgsFlag
  BY <1>4, ArgsAtIsFirst
<1>7. PICK q \in 1 .. p - 1 : words[q].flag \in Required(kind)
  BY <1>3 DEF Parses
<1> HIDE DEF p
<1>8. p > Len(a) + Len(k)
  <2> SUFFICES ASSUME p <= Len(a) + Len(k) PROVE FALSE
    BY <1>5, <1>6
  <2>1. p \in 1 .. Len(a) + Len(k) /\ words[p] = ak[p] /\ ak[p] = ArgsFlag
    BY <1>1, <1>4, <1>5, <1>6
  <2>2. p <= Len(a)
    <3> SUFFICES ASSUME p > Len(a) PROVE FALSE
      BY <1>5, <1>6
    <3>1. p - Len(a) \in DOMAIN k
      BY <1>5, <2>1
    <3>2. k[p - Len(a)] = ArgsFlag
      BY <1>1, <1>5, <2>1
    <3>3. QED BY <3>1, <3>2 DEF ToSet
  <2>3. q \in DOMAIN a /\ words[q] = a[q]
    BY <1>1, <1>4, <1>5, <1>6, <1>7, <2>2
  <2>4. QED BY <1>7, <2>3 DEF ToSet, NoneRequired
<1>9. \A v \in ToSet(ak) : \E i \in 1 .. p - 1 : words[i] = v
  <2> SUFFICES ASSUME NEW i \in 1 .. Len(ak) PROVE i \in 1 .. p - 1 /\ words[i] = ak[i]
    <3>1. DOMAIN ak = 1 .. Len(ak)
      BY <1>1
    <3>2. QED BY <3>1 DEF ToSet
  <2>1. QED BY <1>1, <1>4, <1>5, <1>6, <1>8
<1>10. QED BY <1>2, <1>9 DEF p, words, ak, IsRead, Cat

-----------------------------------------------------------------------------
(* The words of each part.                                                  *)

\* An option is its flag with its value, or its value alone, or nothing.
LEMMA OptionElements ==
  ASSUME NEW x, IsConfig(x), NEW n
  PROVE  /\ \A w \in ToSet(Option(x, n)) : w.flag \in {n, ""}
         /\ n \notin DOMAIN x.options => ToSet(Option(x, n)) = {}
         /\ n \in DOMAIN x.options /\ OneWord(x.options[n]) =>
              ToSet(Option(x, n)) = {Word(n, x.options[n])}
<1>1. CASE n \notin DOMAIN x.options
  <2>1. Option(x, n) = <<>> /\ ToSet(<<>>) = {}
    BY <1>1 DEF Option, ToSet
  <2>2. QED BY <1>1, <2>1
<1>2. CASE n \in DOMAIN x.options
  <2> DEFINE v == x.options[n]
             o == Words(n, v)
  <2>1. n \in Flags /\ v \in Text
    BY <1>2, OptionsExplicit DEF IsConfig, Flags
  <2>2. Option(x, n) = o
    BY <1>2 DEF Option
  <2> HIDE DEF v
  <2>3. /\ o \in Seq(AWord) /\ Len(o) = Len(v) /\ Len(v) \in Nat \ {0} /\ v[1] \in Atoms
        /\ o[1] = Word(n, <<v[1]>>)
        /\ \A i \in 2 .. Len(v) : o[i] = Bare(v[i]) /\ v[i] \in Atoms
    BY <2>1, WordsOf
  <2> HIDE DEF o
  <2>4. DOMAIN o = 1 .. Len(v)
    BY <2>3
  <2>5. ASSUME NEW i \in DOMAIN o PROVE o[i].flag \in {n, ""}
    <3>1. CASE i = 1
      <4>1. Word(n, <<v[1]>>).flag = n
        BY DEF Word
      <4>2. QED BY <2>3, <3>1, <4>1
    <3>2. CASE i # 1
      <4>1. i \in 2 .. Len(v)
        BY <2>3, <2>4, <3>2
      <4>2. v[i] \in Texts /\ o[i] = Bare(v[i])
        BY <2>3, <4>1 DEF Texts
      <4>3. QED BY <4>2, BareWord
    <3>3. QED BY <3>1, <3>2
  <2>6. ASSUME OneWord(v) PROVE ToSet(o) = {Word(n, v)}
    <3>1. Len(v) = 1 /\ v \in Seq(Atoms)
      BY <2>1, <2>6 DEF OneWord, Text
    <3>2. v = <<v[1]>>
      BY <3>1, OneElement
    <3>3. o[1] = Word(n, v) /\ DOMAIN o = {1}
      BY <2>3, <2>4, <3>1, <3>2
    <3>4. QED BY <3>3 DEF ToSet
  <2>7. QED BY <1>2, <2>2, <2>5, <2>6 DEF v, ToSet
<1>3. QED BY <1>1, <1>2

\* A switch is written exactly if it is set.
LEMMA SwitchElements ==
  ASSUME NEW x, IsConfig(x), NEW s \in Switches
  PROVE  ToSet(Switch(x, s)) = {Bare(t) : t \in {s} \cap x.switches}
<1>1. CASE s \in x.switches
  <2>1. Switch(x, s) = <<Bare(s)>> /\ {s} \cap x.switches = {s}
    BY <1>1 DEF Switch
  <2>2. QED BY <2>1 DEF ToSet
<1>2. CASE s \notin x.switches
  <2>1. Switch(x, s) = <<>> /\ {s} \cap x.switches = {}
    BY <1>2 DEF Switch
  <2>2. QED BY <2>1 DEF ToSet
<1>3. QED BY <1>1, <1>2

\* A switch is at most one word.
LEMMA OneSwitch ==
  ASSUME NEW x, IsConfig(x), NEW s \in Switches
  PROVE  /\ ToSet(Switch(x, s)) \subseteq {Bare(s)}
         /\ s \in x.switches => Bare(s) \in ToSet(Switch(x, s))
<1>1. ToSet(Switch(x, s)) = {Bare(t) : t \in {s} \cap x.switches}
  BY SwitchElements
<1>2. QED BY <1>1

\* The parts that are neither options nor switches.
LEMMA OtherElements ==
  ASSUME NEW x, IsConfig(x)
  PROVE  /\ x.sources = <<>> => ToSet(Sources(x)) = {}
         /\ x.sources # <<>> =>
              ToSet(Sources(x)) = {Word("source-files-for-project-hash", x.sources)}
         /\ ToSet(Value(x)) = {[Word("constructor-value", <<>>) EXCEPT !.number = x.value]}
         /\ x.signature = <<>> => ToSet(Signature(x)) = {}
<1>1. ToSet(Value(x)) = {[Word("constructor-value", <<>>) EXCEPT !.number = x.value]}
  BY FewElements DEF Value
<1>2. x.sources # <<>> =>
        ToSet(Sources(x)) = {Word("source-files-for-project-hash", x.sources)}
  BY FewElements DEF Sources
<1>3. x.sources = <<>> => ToSet(Sources(x)) = {}
  BY FewElements DEF Sources
<1>4. x.signature = <<>> => ToSet(Signature(x)) = {}
  BY FewElements DEF Signature
<1>5. QED BY <1>1, <1>2, <1>3, <1>4

\* The parts that both commands share.
LEMMA CommonElements ==
  ASSUME NEW x, IsConfig(x)
  PROVE  /\ Common(x) \in Seq(AWord)
         /\ ToSet(Common(x)) = ToSet(Option(x, "endpoint")) \cup ToSet(Switch(x, "--verbose"))
              \cup ToSet(Sources(x)) \cup ToSet(Option(x, "max-fee-per-gas-gwei"))
              \cup ToSet(Option(x, "features"))
<1>1. "--verbose" \in Switches
  BY DEF Switches
<1>2. /\ Option(x, "endpoint") \in Seq(AWord) /\ Switch(x, "--verbose") \in Seq(AWord)
      /\ Sources(x) \in Seq(AWord) /\ Option(x, "max-fee-per-gas-gwei") \in Seq(AWord)
      /\ Option(x, "features") \in Seq(AWord)
  BY <1>1, PartTypes
<1>3. Common(x) = Cat(Cat(Cat(Cat(Option(x, "endpoint"), Switch(x, "--verbose")), Sources(x)),
                          Option(x, "max-fee-per-gas-gwei")), Option(x, "features"))
  BY DEF Common, Cat
<1>4. QED BY <1>2, <1>3, FiveParts

\* The flags of the key.
LEMMA AuthElements ==
  ASSUME NEW x, IsConfig(x)
  PROVE  /\ AuthFlags(x) \in Seq(AWord)
         /\ ToSet(AuthFlags(x)) = UNION {ToSet(Option(x, n)) : n \in AuthOptions}
<1> DEFINE opt(n) == ToSet(Option(x, n))
<1>1. /\ Option(x, "private-key-path") \in Seq(AWord) /\ Option(x, "private-key") \in Seq(AWord)
      /\ Option(x, "keystore-path") \in Seq(AWord)
      /\ Option(x, "keystore-password-path") \in Seq(AWord)
  BY PartTypes
<1>2. AuthFlags(x) = Cat(Cat(Cat(Option(x, "private-key-path"), Option(x, "private-key")),
                             Option(x, "keystore-path")), Option(x, "keystore-password-path"))
  BY DEF AuthFlags, Cat
<1>3. /\ AuthFlags(x) \in Seq(AWord)
      /\ ToSet(AuthFlags(x)) = opt("private-key-path") \cup opt("private-key")
           \cup opt("keystore-path") \cup opt("keystore-password-path")
  BY <1>1, <1>2, FourParts
<1> HIDE DEF opt
<1>4. UNION {opt(n) : n \in AuthOptions} = opt("private-key-path") \cup opt("private-key")
           \cup opt("keystore-path") \cup opt("keystore-password-path")
  BY DEF AuthOptions, KeyOptions
<1>5. QED BY <1>3, <1>4 DEF opt

\* The parts of deploy's flags: before the key, from the key on, and after the
\* last switch.
Ahead(x) == Option(x, "data-fee-bump-percent") \o Option(x, "wasm-file")
              \o Option(x, "contract-address")
Kernel(x) == AuthFlags(x) \o Switch(x, "--estimate-gas")
               \o Option(x, "cargo-stylus-version") \o Switch(x, "--no-activate")
Behind(x) == Option(x, "deployer-address") \o Option(x, "deployer-salt")
               \o Value(x) \o Signature(x)

\* Their words.
LEMMA DeployPartElements ==
  ASSUME NEW x, IsConfig(x)
  PROVE  /\ Ahead(x) \in Seq(AWord) /\ Kernel(x) \in Seq(AWord) /\ Behind(x) \in Seq(AWord)
         /\ ToSet(Ahead(x)) = ToSet(Option(x, "data-fee-bump-percent"))
              \cup ToSet(Option(x, "wasm-file")) \cup ToSet(Option(x, "contract-address"))
         /\ ToSet(Kernel(x)) = ToSet(AuthFlags(x))
              \cup ToSet(Switch(x, "--estimate-gas"))
              \cup ToSet(Option(x, "cargo-stylus-version"))
              \cup ToSet(Switch(x, "--no-activate"))
         /\ ToSet(Behind(x)) = ToSet(Option(x, "deployer-address"))
              \cup ToSet(Option(x, "deployer-salt")) \cup ToSet(Value(x))
              \cup ToSet(Signature(x))
<1>1. /\ \A n : Option(x, n) \in Seq(AWord) /\ AuthFlags(x) \in Seq(AWord)
      /\ Switch(x, "--estimate-gas") \in Seq(AWord) /\ Switch(x, "--no-activate") \in Seq(AWord)
      /\ Value(x) \in Seq(AWord) /\ Signature(x) \in Seq(AWord)
  BY AuthElements, PartTypes DEF Switches
<1>2. Ahead(x) = Cat(Cat(Option(x, "data-fee-bump-percent"), Option(x, "wasm-file")),
                     Option(x, "contract-address"))
  BY DEF Ahead, Cat
<1>3. Kernel(x) = Cat(Cat(Cat(AuthFlags(x), Switch(x, "--estimate-gas")),
                          Option(x, "cargo-stylus-version")), Switch(x, "--no-activate"))
  BY DEF Kernel, Cat
<1>4. Behind(x) = Cat(Cat(Cat(Option(x, "deployer-address"), Option(x, "deployer-salt")),
                          Value(x)), Signature(x))
  BY DEF Behind, Cat
<1>5. QED
  <2>1. /\ Ahead(x) \in Seq(AWord)
        /\ ToSet(Ahead(x)) = ToSet(Option(x, "data-fee-bump-percent"))
             \cup ToSet(Option(x, "wasm-file")) \cup ToSet(Option(x, "contract-address"))
    BY <1>1, <1>2, ThreeParts
  <2>2. /\ Kernel(x) \in Seq(AWord)
        /\ ToSet(Kernel(x)) = ToSet(AuthFlags(x))
             \cup ToSet(Switch(x, "--estimate-gas"))
             \cup ToSet(Option(x, "cargo-stylus-version"))
             \cup ToSet(Switch(x, "--no-activate"))
    BY <1>1, <1>3, FourParts
  <2>3. /\ Behind(x) \in Seq(AWord)
        /\ ToSet(Behind(x)) = ToSet(Option(x, "deployer-address"))
             \cup ToSet(Option(x, "deployer-salt")) \cup ToSet(Value(x))
             \cup ToSet(Signature(x))
    BY <1>1, <1>4, FourParts
  <2>4. QED BY <2>1, <2>2, <2>3

\* Together they are deploy's flags.
LEMMA DeployParts ==
  ASSUME NEW x, IsConfig(x)
  PROVE  /\ DeployFlags(x) = Cat(Cat(Ahead(x), Kernel(x)), Behind(x))
         /\ DeployFlags(x) \in Seq(AWord)
         /\ ToSet(DeployFlags(x)) = ToSet(Ahead(x)) \cup ToSet(Kernel(x)) \cup ToSet(Behind(x))
<1> DEFINE a == Ahead(x)
           k == AuthFlags(x)
           e == Switch(x, "--estimate-gas")
           v == Option(x, "cargo-stylus-version")
           n == Switch(x, "--no-activate")
           o4 == Option(x, "deployer-address")
           o5 == Option(x, "deployer-salt")
           val == Value(x)
           sig == Signature(x)
           ak == Cat(a, Kernel(x))
<1>1. /\ k \in Seq(AWord) /\ e \in Seq(AWord) /\ v \in Seq(AWord) /\ n \in Seq(AWord)
      /\ o4 \in Seq(AWord) /\ o5 \in Seq(AWord) /\ val \in Seq(AWord) /\ sig \in Seq(AWord)
  BY AuthElements, PartTypes DEF Switches
<1>2. a \in Seq(AWord) /\ Kernel(x) \in Seq(AWord) /\ Behind(x) \in Seq(AWord)
  BY DeployPartElements
<1>3. ak \in Seq(AWord)
  BY <1>2, TwoParts
<1>4. Kernel(x) = Cat(Cat(Cat(k, e), v), n)
  BY DEF Kernel, Cat
<1>5. Behind(x) = Cat(Cat(Cat(o4, o5), val), sig)
  BY DEF Behind, Cat
<1>6. DeployFlags(x)
        = Cat(Cat(Cat(Cat(Cat(Cat(Cat(Cat(a, k), e), v), n), o4), o5), val), sig)
  BY DEF DeployFlags, Ahead, Cat
<1> HIDE DEF a, k, e, v, n, o4, o5, val, sig
<1>7. Cat(Cat(Cat(Cat(a, k), e), v), n) = ak
  BY SMTT(30), <1>1, <1>2, <1>4, FirstApart
<1> HIDE DEF ak
<1>8. Cat(Cat(Cat(Cat(ak, o4), o5), val), sig) = Cat(ak, Behind(x))
  BY <1>1, <1>3, <1>5, FirstApart
<1>9. DeployFlags(x) = Cat(ak, Behind(x))
  BY <1>6, <1>7, <1>8
<1>10. DeployFlags(x) = Cat(Cat(Ahead(x), Kernel(x)), Behind(x))
  BY <1>9 DEF ak, a
<1>11. QED BY <1>2, <1>10, ThreeParts DEF a

\* verify's flags.
LEMMA VerifyElements ==
  ASSUME NEW x, IsConfig(x)
  PROVE  /\ VerifyFlags(x) \in Seq(AWord)
         /\ ToSet(VerifyFlags(x)) = ToSet(Option(x, "deployment-tx"))
              \cup ToSet(Option(x, "cargo-stylus-version"))
<1>1. Option(x, "deployment-tx") \in Seq(AWord) /\ Option(x, "cargo-stylus-version") \in Seq(AWord)
  BY PartTypes
<1>2. VerifyFlags(x) = Cat(Option(x, "deployment-tx"), Option(x, "cargo-stylus-version"))
  BY DEF VerifyFlags, Cat
<1>3. QED BY <1>1, <1>2, TwoParts
\* The flags of the words before the key; the option that is required, which
\* is not among them.
LEMMA AheadOfRequired ==
  ASSUME NEW x, IsConfig(x)
  PROVE  /\ \A w \in ToSet(Common(x)) : w.flag \notin KeyOptions /\ w.flag # "deployment-tx"
         /\ \A w \in ToSet(Ahead(x)) : w.flag \notin KeyOptions
<1>1. \A n : \A w \in ToSet(Option(x, n)) : w.flag \in {n, ""}
  BY OptionElements
<1>2. \A w \in ToSet(Switch(x, "--verbose")) : w.flag = ""
  <2>1. "--verbose" \in Switches /\ \A s \in Switches : Bare(s).flag = ""
    BY BareWord DEF Texts, Switches
  <2>2. ToSet(Switch(x, "--verbose")) \subseteq {Bare("--verbose")}
    BY <2>1, OneSwitch
  <2>3. QED BY <2>1, <2>2
<1>3. \A w \in ToSet(Sources(x)) : w.flag = "source-files-for-project-hash"
  <2>1. ToSet(Sources(x)) \subseteq {Word("source-files-for-project-hash", x.sources)}
    BY OtherElements
  <2>2. QED BY <2>1 DEF Word
<1>4. \A w \in ToSet(Common(x)) :
        w.flag \in {"endpoint", "", "source-files-for-project-hash", "max-fee-per-gas-gwei", "features"}
  <2> SUFFICES ASSUME NEW w \in ToSet(Common(x))
               PROVE  w.flag \in {"endpoint", "", "source-files-for-project-hash",
                                  "max-fee-per-gas-gwei", "features"}
    OBVIOUS
  <2>1. \/ w \in ToSet(Option(x, "endpoint")) \/ w \in ToSet(Switch(x, "--verbose"))
        \/ w \in ToSet(Sources(x)) \/ w \in ToSet(Option(x, "max-fee-per-gas-gwei"))
        \/ w \in ToSet(Option(x, "features"))
    BY CommonElements
  <2>2. QED BY <1>1, <1>2, <1>3, <2>1
<1>5. \A w \in ToSet(Ahead(x)) :
        w.flag \in {"data-fee-bump-percent", "", "wasm-file", "contract-address"}
  <2> SUFFICES ASSUME NEW w \in ToSet(Ahead(x))
               PROVE  w.flag \in {"data-fee-bump-percent", "", "wasm-file", "contract-address"}
    OBVIOUS
  <2>1. \/ w \in ToSet(Option(x, "data-fee-bump-percent")) \/ w \in ToSet(Option(x, "wasm-file"))
        \/ w \in ToSet(Option(x, "contract-address"))
    BY DeployPartElements
  <2>2. QED BY <1>1, <2>1
<1>6. QED BY <1>4, <1>5 DEF KeyOptions

\* With a key and a version of one word each, no word between the key and the
\* last switch is taken for the start of the arguments.
LEMMA NoArgsInKernel ==
  ASSUME NEW x, IsConfig(x),
         \A n \in AuthOptions \cup {"cargo-stylus-version"} :
           n \in DOMAIN x.options => OneWord(x.options[n])
  PROVE  ArgsFlag \notin ToSet(Kernel(x))
<1>1. ArgsFlag.flag = "" /\ \A s \in Switches : Bare(s) # ArgsFlag
  <2>1. "--constructor-args" \in Texts /\ "--constructor-args" \notin Switches
    BY DEF Texts, Switches
  <2>2. QED BY <2>1, BareWord DEF ArgsFlag
<1>2. \A n \in AuthOptions \cup {"cargo-stylus-version"} : ArgsFlag \notin ToSet(Option(x, n))
  <2> SUFFICES ASSUME NEW n \in AuthOptions \cup {"cargo-stylus-version"}
               PROVE  ArgsFlag \notin ToSet(Option(x, n))
    OBVIOUS
  <2>1. CASE n \notin DOMAIN x.options
    BY <2>1, OptionElements
  <2>2. CASE n \in DOMAIN x.options
    <3>1. ToSet(Option(x, n)) = {Word(n, x.options[n])}
      BY <2>2, OptionElements
    <3>2. Word(n, x.options[n]).flag = n /\ n # ""
      BY DEF Word, AuthOptions, KeyOptions
    <3>3. QED BY <1>1, <3>1, <3>2
  <2>3. QED BY <2>1, <2>2
<1>3. \A s \in Switches : ArgsFlag \notin ToSet(Switch(x, s))
  <2> SUFFICES ASSUME NEW s \in Switches PROVE ArgsFlag \notin ToSet(Switch(x, s))
    OBVIOUS
  <2>1. ToSet(Switch(x, s)) \subseteq {Bare(s)}
    BY OneSwitch
  <2>2. QED BY <1>1, <2>1
<1>4. ArgsFlag \notin ToSet(AuthFlags(x))
  BY <1>2, AuthElements
<1>5. QED BY <1>2, <1>3, <1>4, DeployPartElements DEF Switches

\* SplitConcat with the concatenation kept opaque.
LEMMA SplitCat ==
  ASSUME NEW s \in Seq(AWord), NEW t \in Seq(AWord)
  PROVE  /\ Split(Cat(s, t)) = Cat(Split(s), Split(t))
         /\ Cat(s, t) \in Seq(AWord)
         /\ Split(s) \in Seq(AWord)
         /\ ToSet(Split(s)) = ToSet(s) \ {Bare("")}
<1>1. Split(Cat(s, t)) = Cat(Split(s), Split(t))
  BY SplitConcat DEF Cat
<1>2. QED BY <1>1, TwoParts, SplitElements

\* A switch that is among the words before the arguments is read.
LEMMA SwitchIsRead ==
  ASSUME NEW words, NEW s \in Switches,
         IsRead(words, Bare(s))
  PROVE  s \in Parsed(words).switches
<1> DEFINE flags == {words[i] : i \in 1 .. ArgsAt(words) - 1}
           of(flag) == {w \in flags : w.flag = flag}
<1>1. Parsed(words).switches = {w.text[1] : w \in of("")}
  BY DEF Parsed
<1>2. Bare(s).flag = "" /\ Bare(s).text = <<s>> /\ Bare(s).text[1] = s
  <2>1. s \in Texts
    BY DEF Texts
  <2>2. <<s>>[1] = s
    OBVIOUS
  <2>3. QED BY <2>1, <2>2, BareWord
<1>3. Bare(s) \in of("")
  BY <1>2 DEF IsRead
<1> HIDE DEF flags, of
<1>4. QED BY <1>1, <1>2, <1>3
\* A deploy that parses has read the switches its flags are printed with.
LEMMA DeploySwitchesRead ==
  ASSUME NEW x, IsConfig(x), x.kind = "deploy", Parses(x.kind, CommandLine(x)),
         \A n \in AuthOptions \cup {"cargo-stylus-version"} :
           n \in DOMAIN x.options => OneWord(x.options[n])
  PROVE  x.switches \subseteq Parsed(CommandLine(x)).switches
<1> DEFINE ca == Cat(Common(x), Ahead(x))
           ba == Cat(Behind(x), Args(x))
           a == Split(ca)
           k == Split(Kernel(x))
           r == Split(ba)
<1>1. /\ Common(x) \in Seq(AWord) /\ Ahead(x) \in Seq(AWord) /\ Kernel(x) \in Seq(AWord)
      /\ Behind(x) \in Seq(AWord) /\ Args(x) \in Seq(AWord)
  BY CommonElements, DeployPartElements, PartTypes
<1>2. /\ ca \in Seq(AWord) /\ ToSet(ca) = ToSet(Common(x)) \cup ToSet(Ahead(x))
      /\ ba \in Seq(AWord)
  BY <1>1, TwoParts
<1>3. Printed(x) = Cat(Common(x), Cat(Cat(Cat(Ahead(x), Kernel(x)), Behind(x)), Args(x)))
  <2>1. Printed(x) = Cat(Common(x), Cat(DeployFlags(x), Args(x)))
    BY DEF Printed, Cat
  <2>2. QED BY <2>1, DeployParts
<1>4. Printed(x) = Cat(Cat(ca, Kernel(x)), ba)
  BY <1>1, <1>3, Regrouped
<1> HIDE DEF ca, ba
<1>5. CommandLine(x) = Cat(Cat(a, k), r)
  <2>1. Cat(ca, Kernel(x)) \in Seq(AWord) /\ Split(Cat(ca, Kernel(x))) = Cat(a, k)
    BY <1>1, <1>2, SplitCat
  <2>2. Split(Cat(Cat(ca, Kernel(x)), ba)) = Cat(Split(Cat(ca, Kernel(x))), r)
    BY <1>2, <2>1, SplitCat
  <2>3. QED BY <1>4, <2>1, <2>2 DEF CommandLine
<1>6. /\ a \in Seq(AWord) /\ ToSet(a) = ToSet(ca) \ {Bare("")}
      /\ k \in Seq(AWord) /\ ToSet(k) = ToSet(Kernel(x)) \ {Bare("")}
      /\ r \in Seq(AWord)
  BY <1>1, <1>2, SplitCat
<1> HIDE DEF a, k, r
<1>7. NoneRequired("deploy", a)
  BY <1>2, <1>6, AheadOfRequired DEF Required, NoneRequired
<1>8. ArgsFlag \notin ToSet(k)
  BY <1>6, NoArgsInKernel
<1>9. \A w \in ToSet(a) \cup ToSet(k) :
        IsRead(CommandLine(x), w)
  <2>1. Parses("deploy", Cat(Cat(a, k), r))
    BY <1>5
  <2> SUFFICES ASSUME NEW w \in ToSet(a) \cup ToSet(k) PROVE IsRead(Cat(Cat(a, k), r), w)
    BY <1>5
  <2>2. a \in Seq(AWord) /\ k \in Seq(AWord) /\ r \in Seq(AWord)
    BY <1>6
  <2>3. QED BY <1>7, <1>8, <2>1, <2>2, ReadIfRequired, Zenon
<1>10. ASSUME NEW s \in x.switches PROVE Bare(s) \in ToSet(a) \cup ToSet(k)
  <2>1. s \in Switches /\ Bare(s) \in ToSet(Switch(x, s))
    BY OneSwitch DEF IsConfig, SwitchesOf, Switches
  <2>2. Bare(s) # Bare("")
    <3>1. s \in Texts /\ s # ""
      BY <2>1 DEF Texts, Switches
    <3>2. QED BY <3>1, BareWord
  <2>3. Bare(s) \in ToSet(Common(x)) \cup ToSet(Kernel(x))
    <3>1. s \in {"--verbose", "--estimate-gas", "--no-activate"}
      BY <2>1 DEF Switches
    <3>2. CASE s = "--verbose"
      BY <2>1, <3>2, CommonElements
    <3>3. CASE s # "--verbose"
      BY <2>1, <3>1, <3>3, DeployPartElements
    <3>4. QED BY <3>2, <3>3
  <2>4. QED BY <1>2, <1>6, <2>2, <2>3
<1>11. ASSUME NEW s \in x.switches PROVE s \in Parsed(CommandLine(x)).switches
  <2>1. s \in Switches
    BY DEF IsConfig, SwitchesOf
  <2>2. IsRead(CommandLine(x), Bare(s))
    BY <1>9, <1>10
  <2>3. QED BY <2>1, <2>2, SwitchIsRead
<1>12. QED BY <1>11

\* So has a verify, whose only switch is printed before its transaction.
LEMMA VerifySwitchesRead ==
  ASSUME NEW x, IsConfig(x), x.kind = "verify", Parses(x.kind, CommandLine(x))
  PROVE  x.switches \subseteq Parsed(CommandLine(x)).switches
<1> DEFINE a == Split(Common(x))
           r == Split(VerifyFlags(x))
<1>1. Common(x) \in Seq(AWord) /\ VerifyFlags(x) \in Seq(AWord)
  BY CommonElements, VerifyElements
<1>2. Printed(x) = Cat(Common(x), VerifyFlags(x))
  BY DEF Printed, Cat
<1>3. CommandLine(x) = Cat(a, r)
  BY <1>1, <1>2, SplitCat DEF CommandLine
<1>4. a \in Seq(AWord) /\ ToSet(a) = ToSet(Common(x)) \ {Bare("")} /\ r \in Seq(AWord)
  BY <1>1, SplitCat
<1> HIDE DEF a, r
<1>5. <<>> \in Seq(AWord) /\ Cat(a, <<>>) = a /\ ToSet(<<>>) = {}
  BY <1>4, NoPart, FewElements
<1>6. NoneRequired("verify", a)
  BY <1>4, AheadOfRequired DEF Required, NoneRequired
<1>7. \A w \in ToSet(a) : IsRead(CommandLine(x), w)
  <2>1. CommandLine(x) = Cat(Cat(a, <<>>), r)
    BY <1>3, <1>5
  <2>2. Parses("verify", Cat(Cat(a, <<>>), r))
    BY <2>1
  <2>3. ArgsFlag \notin ToSet(<<>>)
    BY <1>5
  <2> SUFFICES ASSUME NEW w \in ToSet(a) PROVE IsRead(Cat(Cat(a, <<>>), r), w)
    BY <2>1
  <2>4. a \in Seq(AWord) /\ <<>> \in Seq(AWord) /\ r \in Seq(AWord)
    BY <1>4, <1>5
  <2>5. w \in ToSet(a) \cup ToSet(<<>>)
    OBVIOUS
  <2>6. QED BY <1>6, <2>2, <2>3, <2>4, <2>5, ReadIfRequired, Zenon
<1>8. ASSUME NEW s \in x.switches PROVE s \in Parsed(CommandLine(x)).switches
  <2>1. s = "--verbose" /\ s \in Switches
    BY DEF IsConfig, Switches, SwitchesOf
  <2>2. Bare(s) \in ToSet(Switch(x, s))
    BY <2>1, OneSwitch
  <2>3. Bare(s) # Bare("")
    <3>1. s \in Texts /\ s # ""
      BY <2>1 DEF Texts
    <3>2. QED BY <3>1, BareWord
  <2>4. Bare(s) \in ToSet(a)
    BY <1>4, <2>1, <2>2, <2>3, CommonElements
  <2>5. QED BY <1>7, <2>1, <2>4, SwitchIsRead
<1>9. QED BY <1>8
-----------------------------------------------------------------------------
(* A plain command line survives.                                           *)

AllFlags(x) ==
  Cat(Common(x), IF x.kind = "deploy" THEN DeployFlags(x) ELSE VerifyFlags(x))

\* The words the flags of a plain command line are printed as.
PlainWords(x) ==
  {Word(n, x.options[n]) : n \in DOMAIN x.options}
    \cup {Bare(s) : s \in x.switches}
    \cup (IF x.sources = <<>> THEN {} ELSE {Word("source-files-for-project-hash", x.sources)})
    \cup (IF x.kind = "deploy" THEN {Word("constructor-value", <<>>)} ELSE {})

\* For any command, the flags come first and the arguments after them.
LEMMA FlagsThenArgs ==
  ASSUME NEW x, IsConfig(x)
  PROVE  /\ AllFlags(x) \in Seq(AWord) /\ Args(x) \in Seq(AWord)
         /\ Printed(x) = Cat(AllFlags(x), Args(x)) /\ Printed(x) \in Seq(AWord)
<1>1. /\ Common(x) \in Seq(AWord) /\ DeployFlags(x) \in Seq(AWord)
      /\ VerifyFlags(x) \in Seq(AWord) /\ Args(x) \in Seq(AWord)
  BY CommonElements, DeployParts, VerifyElements, PartTypes
<1>2. AllFlags(x) \in Seq(AWord)
  BY <1>1, TwoParts DEF AllFlags
<1>3. Printed(x) = Cat(AllFlags(x), Args(x))
  <2>1. CASE x.kind = "deploy"
    <3>1. Printed(x) = Cat(Common(x), Cat(DeployFlags(x), Args(x)))
      BY <2>1 DEF Printed, Cat
    <3>2. Cat(Cat(Common(x), DeployFlags(x)), Args(x))
            = Cat(Common(x), Cat(DeployFlags(x), Args(x)))
      BY <1>1, CatLaws
    <3>3. QED BY <2>1, <3>1, <3>2 DEF AllFlags
  <2>2. CASE x.kind # "deploy"
    <3>1. Args(x) = <<>>
      BY <2>2 DEF IsConfig, Args
    <3>2. Printed(x) = AllFlags(x)
      BY <2>2 DEF Printed, AllFlags, Cat
    <3>3. QED BY <1>2, <3>1, <3>2, NoPart
  <2>3. QED BY <2>1, <2>2
<1>4. QED BY <1>1, <1>2, <1>3, TwoParts

\* The words of the options of a plain command line.
LEMMA PlainOptions ==
  ASSUME NEW x, IsConfig(x), Plain(x), NEW N, DOMAIN x.options \subseteq N
  PROVE  UNION {ToSet(Option(x, n)) : n \in N}
           = {Word(n, x.options[n]) : n \in DOMAIN x.options}
<1>1. \A n \in DOMAIN x.options : ToSet(Option(x, n)) = {Word(n, x.options[n])}
  BY OptionElements DEF Plain
<1>2. \A n : n \notin DOMAIN x.options => ToSet(Option(x, n)) = {}
  BY OptionElements
<1>3. QED BY <1>1, <1>2

\* The words of all the flags of one.
LEMMA PlainElements ==
  ASSUME NEW x, IsConfig(x), Plain(x)
  PROVE  ToSet(AllFlags(x)) = PlainWords(x)
<1> DEFINE opt(n) == ToSet(Option(x, n))
           O == {Word(n, x.options[n]) : n \in DOMAIN x.options}
           sw(s) == ToSet(Switch(x, s))
           So == ToSet(Sources(x))
           V == ToSet(Value(x))
<1>1. So = IF x.sources = <<>> THEN {} ELSE {Word("source-files-for-project-hash", x.sources)}
  BY OtherElements
<1>2. V = {Word("constructor-value", <<>>)} /\ ToSet(Signature(x)) = {}
  <2>1. x.value = 0 /\ x.signature = <<>>
    BY DEF Plain
  <2>2. [Word("constructor-value", <<>>) EXCEPT !.number = 0] = Word("constructor-value", <<>>)
    BY DEF Word
  <2>3. QED BY <2>1, <2>2, OtherElements
<1>3. sw("--verbose") \cup sw("--estimate-gas") \cup sw("--no-activate")
        = {Bare(s) : s \in x.switches}
  <2>1. \A s \in Switches : sw(s) = {Bare(t) : t \in {s} \cap x.switches}
    BY SwitchElements
  <2>2. x.switches \subseteq Switches
    BY DEF IsConfig, SwitchesOf, Switches
  <2> HIDE DEF sw
  <2>3. QED BY <2>1, <2>2 DEF Switches
<1>4. ToSet(Common(x)) = opt("endpoint") \cup opt("max-fee-per-gas-gwei") \cup opt("features")
                           \cup sw("--verbose") \cup So
  BY CommonElements
<1>5. CASE x.kind = "deploy"
  <2>1. ToSet(AllFlags(x)) = ToSet(Common(x)) \cup ToSet(DeployFlags(x))
    <3>1. Common(x) \in Seq(AWord) /\ DeployFlags(x) \in Seq(AWord)
      BY CommonElements, DeployParts
    <3>2. QED BY <1>5, <3>1, TwoParts DEF AllFlags
  <2>2. ToSet(DeployFlags(x))
          = opt("data-fee-bump-percent") \cup opt("wasm-file") \cup opt("contract-address")
              \cup opt("private-key-path") \cup opt("private-key")
              \cup opt("keystore-path") \cup opt("keystore-password-path")
              \cup opt("cargo-stylus-version") \cup opt("deployer-address") \cup opt("deployer-salt")
              \cup sw("--estimate-gas") \cup sw("--no-activate") \cup V
    <3>1. ToSet(DeployFlags(x)) = ToSet(Ahead(x)) \cup ToSet(Kernel(x)) \cup ToSet(Behind(x))
      BY DeployParts
    <3>2. /\ ToSet(Ahead(x)) = opt("data-fee-bump-percent") \cup opt("wasm-file")
                                 \cup opt("contract-address")
          /\ ToSet(Kernel(x)) = ToSet(AuthFlags(x)) \cup sw("--estimate-gas")
               \cup opt("cargo-stylus-version") \cup sw("--no-activate")
          /\ ToSet(Behind(x)) = opt("deployer-address") \cup opt("deployer-salt") \cup V
      BY <1>2, DeployPartElements
    <3>3. ToSet(AuthFlags(x)) = UNION {opt(n) : n \in AuthOptions}
      BY AuthElements
    <3> HIDE DEF opt, sw, V
    <3>4. ToSet(AuthFlags(x)) = opt("private-key-path") \cup opt("private-key")
            \cup opt("keystore-path") \cup opt("keystore-password-path")
      BY <3>3 DEF AuthOptions, KeyOptions
    <3>5. QED BY <3>1, <3>2, <3>4
  <2>3. UNION {opt(n) : n \in OptionsOf("deploy")} = O
    BY <1>5, PlainOptions DEF IsConfig
  <2> HIDE DEF opt, sw, So, V, O
  <2>4. UNION {opt(n) : n \in OptionsOf("deploy")}
          = opt("endpoint") \cup opt("max-fee-per-gas-gwei") \cup opt("features")
              \cup opt("data-fee-bump-percent") \cup opt("wasm-file")
              \cup opt("contract-address") \cup opt("private-key-path")
              \cup opt("private-key") \cup opt("keystore-path")
              \cup opt("keystore-password-path")
              \cup opt("cargo-stylus-version") \cup opt("deployer-address")
              \cup opt("deployer-salt")
    BY OptionsExplicit
  <2>5. ToSet(AllFlags(x)) = O \cup {Bare(s) : s \in x.switches} \cup So \cup V
    BY <1>3, <1>4, <2>1, <2>2, <2>3, <2>4
  <2>6. QED BY <1>1, <1>2, <1>5, <2>5 DEF PlainWords, O
<1>6. CASE x.kind # "deploy"
  <2>1. x.kind = "verify" /\ x.switches \subseteq {"--verbose"}
    BY <1>6 DEF IsConfig, SwitchesOf
  <2>2. ToSet(AllFlags(x)) = ToSet(Common(x)) \cup ToSet(VerifyFlags(x))
    <3>1. Common(x) \in Seq(AWord) /\ VerifyFlags(x) \in Seq(AWord)
      BY CommonElements, VerifyElements
    <3>2. QED BY <1>6, <3>1, TwoParts DEF AllFlags
  <2>3. ToSet(VerifyFlags(x)) = opt("deployment-tx") \cup opt("cargo-stylus-version")
    BY VerifyElements
  <2>4. UNION {opt(n) : n \in OptionsOf("verify")} = O
    BY <2>1, PlainOptions DEF IsConfig
  <2>5. sw("--verbose") = {Bare(s) : s \in x.switches}
    <3>1. sw("--verbose") = {Bare(t) : t \in {"--verbose"} \cap x.switches}
      BY SwitchElements DEF Switches
    <3>2. {"--verbose"} \cap x.switches = x.switches
      BY <2>1
    <3>3. QED BY <3>1, <3>2
  <2> HIDE DEF opt, sw, So, V, O
  <2>6. UNION {opt(n) : n \in OptionsOf("verify")}
          = opt("endpoint") \cup opt("max-fee-per-gas-gwei") \cup opt("features")
              \cup opt("deployment-tx") \cup opt("cargo-stylus-version")
    BY OptionsExplicit
  <2>7. ToSet(AllFlags(x)) = O \cup {Bare(s) : s \in x.switches} \cup So
    BY <1>4, <2>2, <2>3, <2>4, <2>5, <2>6
  <2>8. QED BY <1>1, <1>6, <2>7 DEF PlainWords, O
<1>7. QED BY <1>5, <1>6

\* The words of an argument.
Bares == [v \in Text |-> [j \in DOMAIN v |-> Bare(v[j])]]

\* A value of one atom is one word, and not an empty one.
LEMMA BareWords ==
  /\ Maps(Bares, Text, Seq(AWord))
  /\ \A v \in Text : OneWord(v) =>
       Len(Bares[v]) = 1 /\ Bares[v][1].text = v /\ Bares[v][1] # Bare("")
<1>1. ASSUME NEW v \in Text PROVE [j \in DOMAIN v |-> Bare(v[j])] \in Seq(AWord)
  <2>1. v \in Seq(Atoms) /\ \A j \in DOMAIN v : v[j] \in Texts
    BY DEF Text, Texts
  <2>2. \A j \in DOMAIN v : Bare(v[j]) \in AWord
    BY <2>1, BareWord
  <2>3. QED BY <2>1, <2>2
<1>2. ASSUME NEW v \in Text, OneWord(v)
      PROVE  Len(Bares[v]) = 1 /\ Bares[v][1].text = v /\ Bares[v][1] # Bare("")
  <2> DEFINE a == v[1]
  <2>1. v \in Seq(Atoms) /\ Len(v) = 1 /\ v # <<"">>
    BY <1>2 DEF Text, OneWord
  <2>2. a \in Atoms /\ v = <<a>>
    BY <2>1, OneElement
  <2>3. Bares[v] = [j \in DOMAIN v |-> Bare(v[j])]
    BY DEF Bares
  <2>4. Bares[v] \in Seq(AWord) /\ Len(Bares[v]) = 1 /\ Bares[v][1] = Bare(a)
    <3>1. DOMAIN v = 1 .. 1
      BY <2>1, SeqParts
    <3>2. QED BY <1>1, <2>3, <3>1
  <2> HIDE DEF a
  <2>5. a \in Texts /\ a # ""
    BY <2>1, <2>2 DEF Texts
  <2>6. Bare(a).text = <<a>> /\ \A b : Bare(b) = Bare(a) <=> a = b
    BY <2>5, BareWord
  <2>7. QED BY <2>2, <2>4, <2>5, <2>6
<1>3. QED BY <1>1, <1>2 DEF Maps, Bares

\* The words of a plain command's arguments.
LEMMA PlainArgs ==
  ASSUME NEW x, IsConfig(x), Plain(x)
  PROVE  /\ Len(x.args) \in Nat
         /\ x.args = <<>> => Args(x) = <<>>
         /\ x.args # <<>> =>
              /\ Len(Args(x)) = Len(x.args) + 1 /\ Args(x)[1] = ArgsFlag
              /\ \A i \in 1 .. Len(x.args) :
                   Args(x)[i + 1].text = x.args[i] /\ Args(x)[i + 1] # Bare("")
<1> DEFINE args == x.args
           heads == FlattenSeq(Mapped(Bares, args))
<1>1. args \in Seq(Text) /\ \A i \in DOMAIN args : OneWord(args[i])
  BY DEF IsConfig, Plain
<1>2. args = <<>> => Args(x) = <<>>
  BY DEF Args
<1>3. args # <<>> => Args(x) = Cat(<<ArgsFlag>>, heads)
  <2>1. \A i \in DOMAIN args : args[i] \in Text
    BY <1>1
  <2>2. [i \in DOMAIN args |-> [j \in DOMAIN args[i] |-> Bare(args[i][j])]] = Mapped(Bares, args)
    BY <2>1 DEF Mapped, Bares
  <2>3. QED BY <2>2 DEF Args, ArgsFlag, Cat
<1> HIDE DEF args
<1>4. DOMAIN args = 1 .. Len(args) /\ Len(args) \in Nat /\ \A i \in DOMAIN args : args[i] \in Text
  BY <1>1, SeqParts
<1>5. \A i \in DOMAIN args :
        /\ Len(Bares[args[i]]) = 1
        /\ Bares[args[i]][1].text = args[i] /\ Bares[args[i]][1] # Bare("")
  BY <1>1, <1>4, BareWords
<1>6. /\ heads \in Seq(AWord) /\ Len(heads) = Len(args)
      /\ \A i \in DOMAIN args : heads[i] = Bares[args[i]][1]
  <2>1. Maps(Bares, Text, Seq(AWord))
    BY BareWords
  <2>2. \A i \in DOMAIN args : Len(Bares[args[i]]) = 1
    BY <1>5
  <2>3. QED BY <1>1, <2>1, <2>2, FlatMapSingle
<1> HIDE DEF heads
<1>7. ArgsFlag \in AWord
  BY BareWord DEF Texts, ArgsFlag
<1> DEFINE z == Cat(<<ArgsFlag>>, heads)
<1>8. /\ Len(z) = Len(heads) + 1 /\ z[1] = ArgsFlag
      /\ \A i \in 1 .. Len(heads) : z[i + 1] = heads[i]
  BY <1>6, <1>7, FirstThen
<1> HIDE DEF z
<1>9. \A i \in 1 .. Len(args) : z[i + 1].text = args[i] /\ z[i + 1] # Bare("")
  <2> SUFFICES ASSUME NEW i \in 1 .. Len(args)
               PROVE  z[i + 1].text = args[i] /\ z[i + 1] # Bare("")
    OBVIOUS
  <2>1. z[i + 1] = Bares[args[i]][1]
    BY <1>4, <1>6, <1>8
  <2>2. QED BY <1>4, <1>5, <2>1
<1>10. Len(z) = Len(args) + 1
  BY <1>6, <1>8
<1>11. args # <<>> => Args(x) = z
  BY <1>3 DEF z
<1>12. QED BY <1>2, <1>4, <1>8, <1>9, <1>10, <1>11 DEF args
\* The arguments start behind flags of which none is mistaken for their start.
LEMMA ArgsStart ==
  ASSUME NEW f \in Seq(AWord), NEW r \in Seq(AWord), ArgsFlag \notin ToSet(f),
         r # <<>> => r[1] = ArgsFlag
  PROVE  /\ Len(Cat(f, r)) = Len(f) + Len(r) /\ Len(f) \in Nat /\ Len(r) \in Nat
         /\ ArgsAt(Cat(f, r)) = Len(f) + 1
         /\ {Cat(f, r)[i] : i \in 1 .. Len(f)} = ToSet(f)
         /\ \A i \in 1 .. Len(r) : Cat(f, r)[Len(f) + i] = r[i]
<1> DEFINE z == Cat(f, r)
<1>1. /\ DOMAIN f = 1 .. Len(f) /\ Len(f) \in Nat /\ Len(r) \in Nat
      /\ (r # <<>> <=> Len(r) > 0)
  BY SeqParts, EmptySeq
<1>2. /\ z \in Seq(AWord) /\ Len(z) = Len(f) + Len(r)
      /\ \A i \in 1 .. Len(f) + Len(r) : z[i] = IF i <= Len(f) THEN f[i] ELSE r[i - Len(f)]
  <2>1. z = f \o r
    BY DEF Cat
  <2> HIDE DEF z
  <2>2. QED BY <2>1, ConcatProperties
<1> HIDE DEF z
<1>3. \A i \in 1 .. Len(f) : z[i] = f[i]
  BY <1>1, <1>2
<1>4. \A i \in 1 .. Len(r) : z[Len(f) + i] = r[i]
  BY <1>1, <1>2
<1>5. {z[i] : i \in 1 .. Len(f)} = ToSet(f)
  BY <1>1, <1>3 DEF ToSet
<1> DEFINE p == ArgsAt(z)
<1>6. /\ p \in 1 .. Len(z) + 1
      /\ p <= Len(z) => z[p] = ArgsFlag
      /\ \A i \in 1 .. Len(z) : z[i] = ArgsFlag => p <= i
  BY <1>2, ArgsAtIsFirst
<1> HIDE DEF p
<1>7. p > Len(f)
  <2> SUFFICES ASSUME p <= Len(f) PROVE FALSE
    BY <1>1, <1>6
  <2>1. p \in 1 .. Len(f) /\ z[p] = ArgsFlag
    BY <1>1, <1>2, <1>6
  <2>2. z[p] \in ToSet(f)
    BY <1>5, <2>1
  <2>3. QED BY <2>1, <2>2
<1>8. p <= Len(f) + 1
  <2>1. CASE r = <<>>
    BY <1>1, <1>2, <1>6, <2>1
  <2>2. CASE r # <<>>
    <3>1. 1 \in 1 .. Len(r) /\ r[1] = ArgsFlag
      BY <1>1, <2>2
    <3>2. z[Len(f) + 1] = ArgsFlag /\ Len(f) + 1 \in 1 .. Len(z)
      BY <1>1, <1>2, <1>4, <3>1
    <3>3. QED BY <1>6, <3>2
  <2>3. QED BY <2>1, <2>2
<1>9. p = Len(f) + 1
  BY <1>1, <1>6, <1>7, <1>8
<1>10. QED BY <1>1, <1>2, <1>4, <1>5, <1>9 DEF p, z

\* What is special about no word of plain flags: none starts the arguments,
\* and none is empty.
LEMMA PlainWordsAreFlags ==
  ASSUME NEW x, IsConfig(x), Plain(x)
  PROVE  ArgsFlag \notin PlainWords(x) /\ Bare("") \notin PlainWords(x)
<1>1. ArgsFlag.flag = "" /\ Bare("").flag = ""
  BY BareWord DEF Texts, ArgsFlag, Bare, Word
<1>2. \A n \in DOMAIN x.options : Word(n, x.options[n]).flag # ""
  <2>1. \A n \in OptionNames : n # ""
    BY OptionsExplicit
  <2>2. DOMAIN x.options \subseteq OptionNames
    BY OptionsExplicit DEF IsConfig
  <2>3. \A n : Word(n, x.options[n]).flag = n
    BY DEF Word
  <2>4. QED BY <2>1, <2>2, <2>3
<1>3. \A s \in x.switches : Bare(s) # ArgsFlag /\ Bare(s) # Bare("")
  <2> SUFFICES ASSUME NEW s \in x.switches PROVE Bare(s) # ArgsFlag /\ Bare(s) # Bare("")
    OBVIOUS
  <2>1. s \in Texts /\ s # "" /\ s # "--constructor-args"
    BY DEF IsConfig, Texts, Switches, SwitchesOf
  <2>2. \A b : Bare(b) = Bare(s) <=> s = b
    BY <2>1, BareWord
  <2>3. QED BY <2>1, <2>2 DEF ArgsFlag
<1>4. /\ Word("source-files-for-project-hash", x.sources).flag # ""
      /\ Word("constructor-value", <<>>).flag # ""
  BY DEF Word
<1>5. QED BY <1>1, <1>2, <1>3, <1>4 DEF PlainWords

\* How the words of a plain command line are divided when they are read.
LEMMA PlainLine ==
  ASSUME NEW x, IsConfig(x), Plain(x)
  PROVE  LET words == CommandLine(x) IN
         /\ {words[i] : i \in 1 .. ArgsAt(words) - 1} = PlainWords(x)
         /\ [i \in 1 .. Len(words) - ArgsAt(words) |-> words[ArgsAt(words) + i].text] = x.args
<1> DEFINE f == AllFlags(x)
           r == Args(x)
           z == Cat(f, r)
           n == Len(x.args)
<1>1. f \in Seq(AWord) /\ r \in Seq(AWord) /\ Printed(x) = z /\ z \in Seq(AWord)
  BY FlagsThenArgs
<1>2. ToSet(f) = PlainWords(x) /\ ArgsFlag \notin ToSet(f) /\ Bare("") \notin ToSet(f)
  BY PlainElements, PlainWordsAreFlags
<1>3. /\ n \in Nat
      /\ x.args = <<>> => r = <<>>
      /\ x.args # <<>> =>
           /\ Len(r) = n + 1 /\ r[1] = ArgsFlag
           /\ \A i \in 1 .. n : r[i + 1].text = x.args[i] /\ r[i + 1] # Bare("")
  BY PlainArgs
<1>4. x.args \in Seq(Text) /\ x.args = [i \in 1 .. n |-> x.args[i]]
  BY DEF IsConfig
<1> HIDE DEF f, r, n
<1>5. ArgsFlag # Bare("")
  <2>1. "--constructor-args" \in Texts /\ "--constructor-args" # ""
    BY DEF Texts
  <2>2. QED BY <2>1, BareWord DEF ArgsFlag
<1>6. Bare("") \notin ToSet(r)
  <2>1. CASE x.args = <<>>
    BY <1>3, <2>1, FewElements
  <2>2. CASE x.args # <<>>
    <3>1. DOMAIN r = 1 .. n + 1 /\ n \in Nat
      BY <1>1, <1>3, <2>2, SeqParts
    <3>2. \A i \in 1 .. n : r[i + 1] # Bare("")
      BY <1>3, <2>2
    <3>3. ASSUME NEW i \in DOMAIN r PROVE r[i] # Bare("")
      <4>1. CASE i = 1
        BY <1>3, <1>5, <2>2, <4>1
      <4>2. CASE i # 1
        <5>1. i - 1 \in 1 .. n /\ (i - 1) + 1 = i
          BY <3>1, <4>2
        <5>2. QED BY <3>2, <5>1
      <4>3. QED BY <4>1, <4>2
    <3>4. QED BY <3>3 DEF ToSet
  <2>3. QED BY <2>1, <2>2
<1>7. r # <<>> => r[1] = ArgsFlag
  BY <1>3
<1>8. /\ Len(z) = Len(f) + Len(r) /\ Len(f) \in Nat /\ Len(r) \in Nat
      /\ ArgsAt(z) = Len(f) + 1
      /\ {z[i] : i \in 1 .. Len(f)} = ToSet(f)
      /\ \A i \in 1 .. Len(r) : z[Len(f) + i] = r[i]
  BY <1>1, <1>2, <1>7, ArgsStart
<1>9. CommandLine(x) = z
  <2>1. ToSet(z) = ToSet(f) \cup ToSet(r)
    BY <1>1, TwoParts
  <2>2. Bare("") \notin ToSet(z)
    BY <1>2, <1>6, <2>1
  <2> HIDE DEF z
  <2>3. QED BY <1>1, <2>2, SplitSame DEF CommandLine
<1> HIDE DEF z
<1>10. {z[i] : i \in 1 .. ArgsAt(z) - 1} = PlainWords(x)
  <2>1. ArgsAt(z) - 1 = Len(f)
    BY <1>8
  <2>2. QED BY <1>2, <1>8, <2>1
<1>11. [i \in 1 .. Len(z) - ArgsAt(z) |-> z[ArgsAt(z) + i].text] = x.args
  <2>1. Len(z) - ArgsAt(z) = Len(r) - 1
    BY <1>8
  <2>2. CASE x.args = <<>>
    <3>1. Len(r) = 0
      BY <1>3, <2>2
    <3>2. 1 .. Len(z) - ArgsAt(z) = {}
      BY <2>1, <3>1
    <3>3. QED BY <2>2, <3>2
  <2>3. CASE x.args # <<>>
    <3>1. Len(r) = n + 1 /\ n \in Nat
      BY <1>3, <2>3
    <3>2. Len(z) - ArgsAt(z) = n
      BY <2>1, <3>1
    <3>3. \A i \in 1 .. n : r[i + 1].text = x.args[i]
      BY <1>3, <2>3
    <3>4. ASSUME NEW i \in 1 .. n PROVE z[ArgsAt(z) + i].text = x.args[i]
      <4>1. i + 1 \in 1 .. Len(r) /\ ArgsAt(z) + i = Len(f) + (i + 1)
        BY <1>8, <3>1
      <4>2. z[ArgsAt(z) + i] = r[i + 1]
        BY <1>8, <4>1
      <4>3. QED BY <3>3, <4>2
    <3>5. QED BY <1>4, <3>2, <3>4
  <2>4. QED BY <2>2, <2>3
<1>12. QED BY <1>9, <1>10, <1>11
\* The words of each flag among the words of a plain command line.
LEMMA PlainByFlag ==
  ASSUME NEW x, IsConfig(x), Plain(x)
  PROVE  LET of(flag) == {w \in PlainWords(x) : w.flag = flag} IN
         /\ of("") = {Bare(s) : s \in x.switches}
         /\ of("source-files-for-project-hash")
              = IF x.sources = <<>> THEN {}
                ELSE {Word("source-files-for-project-hash", x.sources)}
         /\ of("constructor-value") \subseteq {Word("constructor-value", <<>>)}
         /\ of("constructor-signature") = {}
         /\ {w \in PlainWords(x) : w.flag \in OptionNames}
              = {Word(n, x.options[n]) : n \in DOMAIN x.options}
<1> DEFINE src == "source-files-for-project-hash"
           cv == "constructor-value"
           O == {Word(n, x.options[n]) : n \in DOMAIN x.options}
           B == {Bare(s) : s \in x.switches}
           S == IF x.sources = <<>> THEN {} ELSE {Word(src, x.sources)}
           V == IF x.kind = "deploy" THEN {Word(cv, <<>>)} ELSE {}
           N == OptionNames
<1>1. \A w \in O : w.flag \in N
  <2>1. \A n \in DOMAIN x.options : n \in N /\ Word(n, x.options[n]).flag = n
    BY OptionsExplicit DEF IsConfig, Word
  <2>2. QED BY <2>1
<1>2. \A w \in B : w.flag = ""
  <2>1. \A s : Bare(s).flag = ""
    BY DEF Bare, Word
  <2>2. QED BY <2>1
<1>3. \A w \in S : w.flag = src
  BY DEF Word
<1>4. V \subseteq {Word(cv, <<>>)} /\ \A w \in V : w.flag = cv
  BY DEF Word
<1>5. "" \notin N /\ src \notin N /\ cv \notin N /\ "constructor-signature" \notin N
  BY OptionsExplicit
<1>6. PlainWords(x) = O \cup B \cup S \cup V
  BY DEF PlainWords
<1> HIDE DEF O, B, S, V, N
<1> DEFINE P == PlainWords(x)
<1> HIDE DEF P
<1>7. P = O \cup B \cup S \cup V
  BY <1>6 DEF P
<1>8. {w \in P : w.flag = ""} = B
  BY <1>1, <1>2, <1>3, <1>4, <1>5, <1>7
<1>9. {w \in P : w.flag = src} = S
  BY <1>1, <1>2, <1>3, <1>4, <1>5, <1>7
<1>10. {w \in P : w.flag = cv} = V
  BY <1>1, <1>2, <1>3, <1>4, <1>5, <1>7
<1>11. {w \in P : w.flag = "constructor-signature"} = {}
  BY <1>1, <1>2, <1>3, <1>4, <1>5, <1>7
<1>12. {w \in P : w.flag \in N} = O
  BY <1>1, <1>2, <1>3, <1>4, <1>5, <1>7
<1>13. QED BY <1>4, <1>8, <1>9, <1>10, <1>11, <1>12 DEF O, B, S, N, P

\* What is read of a plain command line is what was asked.
LEMMA PlainRead ==
  ASSUME NEW x, IsConfig(x), Plain(x)
  PROVE  Parsed(CommandLine(x)) = Asked(x)
<1> DEFINE words == CommandLine(x)
           flags == {words[i] : i \in 1 .. ArgsAt(words) - 1}
           of(flag) == {w \in flags : w.flag = flag}
           list(flag) == SetToSeq({w.text : w \in of(flag)})
           v == {w.number : w \in of("constructor-value")}
           src == "source-files-for-project-hash"
           r1 == {w.text[1] : w \in of("")}
           r2 == {<<n, w.text>> : n \in OptionNames, w \in flags}
                   \cap {<<w.flag, w.text>> : w \in flags}
           r3 == list(src)
           r4 == WeiPerEther * (IF v = {} THEN 0 ELSE CHOOSE n \in v : TRUE)
           r5 == list("constructor-signature")
           r6 == \E w \in of("constructor-signature") : w.quoted
           r7 == [i \in 1 .. Len(words) - ArgsAt(words) |-> words[ArgsAt(words) + i].text]
           a2 == {<<n, x.options[n]>> : n \in DOMAIN x.options}
           a3 == [i \in DOMAIN x.sources |-> <<x.sources[i]>>]
<1>1. flags = PlainWords(x)
  BY PlainLine
<1>2. r7 = x.args
  BY PlainLine
<1>3. /\ of("") = {Bare(s) : s \in x.switches}
      /\ of(src) = IF x.sources = <<>> THEN {} ELSE {Word(src, x.sources)}
      /\ of("constructor-value") \subseteq {Word("constructor-value", <<>>)}
      /\ of("constructor-signature") = {}
      /\ {w \in flags : w.flag \in OptionNames}
           = {Word(n, x.options[n]) : n \in DOMAIN x.options}
  BY <1>1, PlainByFlag
<1>4. Parsed(words) = [switches |-> r1, options |-> r2, sources |-> r3, value |-> r4,
                       signature |-> r5, quoted |-> r6, args |-> r7]
  BY DEF Parsed
<1> HIDE DEF words, flags, of
<1>5. r1 = x.switches
  <2>1. \A s : Bare(s).text[1] = s
    BY DEF Bare, Word
  <2>2. {w.text[1] : w \in {Bare(s) : s \in x.switches}} = x.switches
    BY <2>1
  <2>3. QED BY <1>3, <2>2
<1>6. r2 = a2
  <2> DEFINE N == OptionNames
             O == {w \in flags : w.flag \in N}
  <2>1. {<<n, w.text>> : n \in N, w \in flags} \cap {<<w.flag, w.text>> : w \in flags}
          = {<<w.flag, w.text>> : w \in O}
    <3> HIDE DEF N
    <3>1. QED OBVIOUS
  <2>2. O = {Word(n, x.options[n]) : n \in DOMAIN x.options}
    BY <1>3
  <2>3. \A n : Word(n, x.options[n]).flag = n /\ Word(n, x.options[n]).text = x.options[n]
    BY DEF Word
  <2>4. {<<w.flag, w.text>> : w \in {Word(n, x.options[n]) : n \in DOMAIN x.options}}
          = {<<n, x.options[n]>> : n \in DOMAIN x.options}
    BY <2>3
  <2>5. QED BY <2>1, <2>2, <2>4
<1>7. r3 = a3
  <2>1. x.sources \in Seq(Atoms) /\ Len(x.sources) <= 1
    BY DEF IsConfig, Plain
  <2>2. CASE x.sources = <<>>
    <3>1. {w.text : w \in of(src)} = {}
      BY <1>3, <2>2
    <3>2. list(src) = <<>>
      BY <3>1, SmallSetToSeq
    <3>3. QED BY <2>2, <3>2
  <2>3. CASE x.sources # <<>>
    <3>1. Word(src, x.sources).text = x.sources
      BY DEF Word
    <3>2. {w.text : w \in of(src)} = {x.sources}
      BY <1>3, <2>3, <3>1
    <3>3. list(src) = <<x.sources>>
      BY <3>2, SmallSetToSeq
    <3>4. Len(x.sources) = 1 /\ DOMAIN x.sources = 1 .. 1
      <4>1. Len(x.sources) \in Nat \ {0}
        BY <2>1, <2>3, EmptySeq
      <4>2. \A l \in Nat \ {0} : l <= 1 => l = 1
        OBVIOUS
      <4>3. Len(x.sources) = 1
        BY <2>1, <4>1, <4>2, Zenon
      <4>4. DOMAIN x.sources = 1 .. Len(x.sources)
        BY <2>1, SeqParts
      <4>5. QED BY <4>3, <4>4
    <3>5. x.sources = <<x.sources[1]>>
      BY <2>1, <3>4, OneElement
    <3> DEFINE y == x.sources
               g == [i \in DOMAIN y |-> <<y[i]>>]
    <3>6. g \in Seq({<<y[1]>>}) /\ Len(g) = 1 /\ g[1] = <<y[1]>>
      BY <3>4
    <3> HIDE DEF g, y
    <3>7. g = <<<<y[1]>>>>
      BY <3>6, OneElement
    <3>8. QED BY <3>3, <3>5, <3>7 DEF g, y
  <2>4. QED BY <2>2, <2>3
<1>8. r4 = x.value
  <2>1. x.value = 0 /\ WeiPerEther \in Nat
    BY DockerAssumption DEF Plain
  <2>2. Word("constructor-value", <<>>).number = 0
    BY DEF Word
  <2>3. v \subseteq {0}
    BY <1>3, <2>2
  <2> HIDE DEF v
  <2>4. (IF v = {} THEN 0 ELSE CHOOSE n \in v : TRUE) = 0
    BY <2>3
  <2> DEFINE e == IF v = {} THEN 0 ELSE CHOOSE n \in v : TRUE
  <2>5. e = 0
    BY <2>4
  <2> HIDE DEF e
  <2>6. WeiPerEther * e = x.value
    BY <2>1, <2>5
  <2>7. QED BY <2>6 DEF e
<1>9. r5 = <<>>
  <2>1. {w.text : w \in of("constructor-signature")} = {}
    BY <1>3
  <2>2. QED BY <2>1, SmallSetToSeq
<1>10. r6 = FALSE
  BY <1>3
<1>11. x.signature = <<>>
  BY DEF Plain
<1>12. Asked(x) = [switches |-> x.switches, options |-> a2, sources |-> a3,
                   value |-> x.value, signature |-> <<>>, quoted |-> FALSE,
                   args |-> x.args]
  BY <1>11 DEF Asked
<1> HIDE DEF list, v, src, r1, r2, r3, r4, r5, r6, r7, a2, a3
<1>13. Parsed(words) = Asked(x)
  BY <1>2, <1>4, <1>5, <1>6, <1>7, <1>8, <1>9, <1>10, <1>12
<1>14. QED BY <1>13 DEF words
\* The switches that are read of a line that parses are switches.
LEMMA ParsedSwitches ==
  ASSUME NEW kind, NEW words, Parses(kind, words)
  PROVE  Parsed(words).switches \subseteq Switches
<1> DEFINE flags == {words[i] : i \in 1 .. ArgsAt(words) - 1}
           of(flag) == {w \in flags : w.flag = flag}
<1>1. Parsed(words).switches = {w.text[1] : w \in of("")}
  BY DEF Parsed
<1>2. \A i \in 1 .. ArgsAt(words) - 1 : words[i].flag = "" => words[i].text[1] \in Switches
  BY DEF Parses, SwitchesOf, Switches
<1>3. \A w \in of("") : w.text[1] \in Switches
  BY <1>2
<1> HIDE DEF flags, of
<1>4. QED BY <1>1, <1>3

-----------------------------------------------------------------------------
(* What holds in every state.                                               *)

\* A request is what was asked, of a command that does its own work; or what
\* was read of the printed line, of one that works in a container.
Came(c) ==
  \/ request[c] = NoRequest
  \/ cfg[c].local /\ request[c] = Asked(cfg[c])
  \/ /\ ~cfg[c].local /\ Parses(cfg[c].kind, CommandLine(cfg[c]))
     /\ request[c] = Parsed(CommandLine(cfg[c]))

\* Only without --no-verify is there an image and a container, and no command
\* has worked or ended before the step in which it does.
Quiet(c) ==
  /\ pc[c] \in {"image", "build", "run"} => ~cfg[c].local
  /\ pc[c] # "ended" => exit[c] = "none"
  /\ pc[c] \notin {"inside", "ended"} => inner[c] = "none"

Types ==
  /\ daemon \in BOOLEAN
  /\ images \subseteq {ImageOf(x) : x \in Configs}
  /\ cfg \in [Commands -> Configs]
  /\ pc \in [Commands -> {"start", "image", "build", "run", "inside", "ended"}]
  /\ image \in [Commands -> {ImageOf(x) : x \in Configs} \cup {NoImage}]
  /\ request \in [Commands -> {NoRequest} \cup {Asked(x) : x \in Configs}
                                \cup {Parsed(CommandLine(x)) : x \in Configs}]
  /\ inner \in [Commands -> {"none", "runs", "ok", "failed"}]
  /\ exit \in [Commands -> {"none", "ok", "error"}]

IInv == Types /\ \A c \in Commands : Came(c) /\ Quiet(c)

\* It holds at first.
LEMMA InitIInv == Init => IInv
<1> SUFFICES ASSUME Init PROVE IInv
  OBVIOUS
<1>1. Types
  BY DEF Init, Types
<1>2. ASSUME NEW c \in Commands PROVE Came(c) /\ Quiet(c)
  BY DEF Init, Came, Quiet
<1>3. QED BY <1>1, <1>2 DEF IInv

\* What a step of one command leaves of the others.
Others(c) == \A d \in Commands : d # c =>
  /\ cfg'[d] = cfg[d] /\ pc'[d] = pc[d] /\ request'[d] = request[d]
  /\ inner'[d] = inner[d] /\ exit'[d] = exit[d]

\* They keep the invariant.
LEMMA OthersKeep ==
  ASSUME NEW c \in Commands, Others(c), cfg' = cfg, NEW d \in Commands, d # c,
         Came(d), Quiet(d)
  PROVE  Came(d)' /\ Quiet(d)'
<1>1. /\ cfg'[d] = cfg[d] /\ pc'[d] = pc[d] /\ request'[d] = request[d]
      /\ inner'[d] = inner[d] /\ exit'[d] = exit[d]
  BY DEF Others
<1>2. Came(d)'
  BY <1>1 DEF Came
<1>3. QED BY <1>1, <1>2 DEF Quiet

\* Start, with and without Docker.
LEMMA StartKeeps ==
  ASSUME IInv, NEW c \in Commands, Start(c)
  PROVE  Types' /\ Others(c) /\ cfg' = cfg /\ Came(c)' /\ Quiet(c)'
<1>1. cfg[c] \in Configs /\ exit[c] = "none" /\ inner[c] = "none" /\ Came(c)
  BY DEF IInv, Types, Start, Quiet
<1>2. CASE cfg[c].local
  <2>1. /\ request' = [request EXCEPT ![c] = Asked(cfg[c])]
        /\ inner' = [inner EXCEPT ![c] = "runs"]
        /\ pc' = [pc EXCEPT ![c] = "inside"] /\ exit' = exit
        /\ UNCHANGED <<daemon, images, cfg, image>>
    BY <1>2 DEF Start, Goes
  <2>2. Types'
    BY <1>1, <2>1 DEF IInv, Types
  <2>3. Others(c) /\ cfg' = cfg
    BY <2>1 DEF Others, IInv, Types
  <2>4. Came(c)'
    BY <1>2, <2>1 DEF Came, IInv, Types
  <2>5. Quiet(c)'
    BY <1>1, <1>2, <2>1 DEF Quiet, IInv, Types
  <2>6. QED BY <2>2, <2>3, <2>4, <2>5
<1>3. CASE ~cfg[c].local
  <2>1. UNCHANGED <<daemon, images, cfg, image, request, inner>>
    BY <1>3 DEF Start
  <2>2. \/ pc' = [pc EXCEPT ![c] = "image"] /\ exit' = exit
        \/ pc' = [pc EXCEPT ![c] = "ended"] /\ exit' = [exit EXCEPT ![c] = "error"]
    BY <1>3 DEF Start, Goes, Ends
  <2>3. Types'
    BY <2>1, <2>2 DEF IInv, Types
  <2>4. Others(c) /\ cfg' = cfg
    BY <2>1, <2>2 DEF Others, IInv, Types
  <2>5. Came(c)'
    BY <1>1, <2>1 DEF Came
  <2>6. Quiet(c)'
    BY <1>1, <1>3, <2>1, <2>2 DEF Quiet, IInv, Types
  <2>7. QED BY <2>3, <2>4, <2>5, <2>6
<1>4. QED BY <1>2, <1>3

\* The image, looked for and built.
LEMMA ImageKeeps ==
  ASSUME IInv, NEW c \in Commands, LookForImage(c) \/ BuildImage(c)
  PROVE  Types' /\ Others(c) /\ cfg' = cfg /\ Came(c)' /\ Quiet(c)'
<1>1. /\ cfg[c] \in Configs /\ exit[c] = "none" /\ inner[c] = "none" /\ Came(c)
      /\ ~cfg[c].local
  BY DEF IInv, Types, LookForImage, BuildImage, Quiet
<1>2. UNCHANGED <<daemon, cfg, image, request, inner>>
  BY DEF LookForImage, BuildImage
<1>3. images' = images \/ images' = images \cup {ImageOf(cfg[c])}
  BY DEF LookForImage, BuildImage
<1>4. \/ pc' = [pc EXCEPT ![c] = "build"] /\ exit' = exit
      \/ pc' = [pc EXCEPT ![c] = "run"] /\ exit' = exit
      \/ pc' = [pc EXCEPT ![c] = "ended"] /\ exit' = [exit EXCEPT ![c] = "error"]
  BY DEF LookForImage, BuildImage, Goes, Ends
<1>5. Types'
  BY <1>1, <1>2, <1>3, <1>4 DEF IInv, Types
<1>6. Others(c) /\ cfg' = cfg
  BY <1>2, <1>4 DEF Others, IInv, Types
<1>7. Came(c)'
  BY <1>1, <1>2 DEF Came
<1>8. Quiet(c)'
  BY <1>1, <1>2, <1>4 DEF Quiet, IInv, Types
<1>9. QED BY <1>5, <1>6, <1>7, <1>8

\* The container, which only a command without --no-verify comes to.
LEMMA RunKeeps ==
  ASSUME IInv, NEW c \in Commands, Run(c)
  PROVE  Types' /\ Others(c) /\ cfg' = cfg /\ Came(c)' /\ Quiet(c)'
<1>1. /\ cfg[c] \in Configs /\ exit[c] = "none" /\ inner[c] = "none" /\ Came(c)
      /\ ~cfg[c].local
  BY DEF IInv, Types, Run, Quiet
<1>2. UNCHANGED <<daemon, images, cfg>>
  BY DEF Run
<1>3. CASE pc' = [pc EXCEPT ![c] = "ended"]
           /\ \E how \in {"ok", "error"} : exit' = [exit EXCEPT ![c] = how]
           /\ (image' = image \/ image' = [image EXCEPT ![c] = ImageOf(cfg[c])])
           /\ UNCHANGED <<request, inner>>
  <2>1. Types'
    BY <1>1, <1>2, <1>3 DEF IInv, Types
  <2>2. Others(c) /\ cfg' = cfg
    BY <1>2, <1>3 DEF Others, IInv, Types
  <2>3. Came(c)'
    BY <1>1, <1>2, <1>3 DEF Came
  <2>4. Quiet(c)'
    BY <1>1, <1>2, <1>3 DEF Quiet, IInv, Types
  <2>5. QED BY <2>1, <2>2, <2>3, <2>4
<1>4. CASE /\ Parses(cfg[c].kind, CommandLine(cfg[c]))
           /\ image' = [image EXCEPT ![c] = ImageOf(cfg[c])]
           /\ request' = [request EXCEPT ![c] = Parsed(CommandLine(cfg[c]))]
           /\ inner' = [inner EXCEPT ![c] = "runs"]
           /\ pc' = [pc EXCEPT ![c] = "inside"] /\ exit' = exit
  <2>1. Types'
    BY <1>1, <1>2, <1>4 DEF IInv, Types
  <2>2. Others(c) /\ cfg' = cfg
    BY <1>2, <1>4 DEF Others, IInv, Types
  <2>3. Came(c)'
    <3>1. request'[c] = Parsed(CommandLine(cfg[c])) /\ cfg' = cfg
      BY <1>2, <1>4 DEF IInv, Types
    <3>2. QED BY <1>1, <1>4, <3>1 DEF Came
  <2>4. Quiet(c)'
    BY <1>1, <1>2, <1>4 DEF Quiet, IInv, Types
  <2>5. QED BY <2>1, <2>2, <2>3, <2>4
<1>5. QED BY <1>3, <1>4 DEF Run, Goes, Ends

\* The work, and a container that is not waited for.
LEMMA WorkKeeps ==
  ASSUME IInv, NEW c \in Commands, Work(c) \/ WaitFails(c)
  PROVE  Types' /\ Others(c) /\ cfg' = cfg /\ Came(c)' /\ Quiet(c)'
<1>1. /\ \E how \in {"runs", "ok", "failed"} : inner' = [inner EXCEPT ![c] = how]
      /\ pc' = [pc EXCEPT ![c] = "ended"]
      /\ \E how \in {"ok", "error"} : exit' = [exit EXCEPT ![c] = how]
  BY DEF Work, WaitFails, Ends
<1>2. UNCHANGED <<daemon, images, cfg, image, request>>
  BY DEF Work, WaitFails
<1>3. Types'
  BY <1>1, <1>2 DEF IInv, Types
<1>4. Others(c) /\ cfg' = cfg
  BY <1>1, <1>2 DEF Others, IInv, Types
<1>5. Came(c)'
  BY <1>2 DEF IInv, Came
<1>6. Quiet(c)'
  BY <1>1, <1>2 DEF Quiet, IInv, Types
<1>7. QED BY <1>3, <1>4, <1>5, <1>6

\* Every step keeps it.
LEMMA NextIInv == IInv /\ [Next]_vars => IInv'
<1> SUFFICES ASSUME IInv, [Next]_vars PROVE IInv'
  OBVIOUS
<1>1. ASSUME NEW c \in Commands, Step(c) PROVE IInv'
  <2>1. Types' /\ Others(c) /\ cfg' = cfg /\ Came(c)' /\ Quiet(c)'
    BY <1>1, StartKeeps, ImageKeeps, RunKeeps, WorkKeeps DEF Step
  <2>2. ASSUME NEW d \in Commands PROVE Came(d)' /\ Quiet(d)'
    <3>1. CASE d = c
      BY <2>1, <3>1
    <3>2. CASE d # c
      BY <2>1, <3>2, OthersKeep DEF IInv
    <3>3. QED BY <3>1, <3>2
  <2>3. QED BY <2>1, <2>2 DEF IInv
<1>2. CASE DaemonMoves \/ ImageRemoved
  <2>1. UNCHANGED <<cfg, pc, image, request, inner, exit>>
    BY <1>2 DEF DaemonMoves, ImageRemoved
  <2>2. daemon' \in BOOLEAN /\ images' \subseteq {ImageOf(x) : x \in Configs}
    BY <1>2 DEF DaemonMoves, ImageRemoved, IInv, Types
  <2>3. Types'
    BY <2>1, <2>2 DEF IInv, Types
  <2>4. \A d \in Commands : Came(d)' /\ Quiet(d)'
    BY <2>1 DEF IInv, Came, Quiet
  <2>5. QED BY <2>3, <2>4 DEF IInv
<1>3. CASE UNCHANGED vars
  <2>1. Types'
    BY <1>3 DEF vars, IInv, Types
  <2>2. \A d \in Commands : Came(d)' /\ Quiet(d)'
    BY <1>3 DEF vars, IInv, Came, Quiet
  <2>3. QED BY <2>1, <2>2 DEF IInv
<1>4. QED BY <1>1, <1>2, <1>3 DEF Next

\* It holds in every state.
LEMMA Invariant == Spec => []IInv
BY InitIInv, NextIInv, PTL DEF Spec

\* The variables have their types: main_impl, docker.rs.
THEOREM TypesOfDocker == Spec => []TypeOK
<1>1. IInv => TypeOK
  <2> SUFFICES ASSUME IInv PROVE TypeOK
    OBVIOUS
  <2>1. ASSUME NEW c \in Commands
        PROVE  request[c] = NoRequest \/ request[c].switches \subseteq Switches
    <3>1. cfg[c] \in Configs /\ Came(c)
      BY DEF IInv, Types
    <3>2. CASE cfg[c].local /\ request[c] = Asked(cfg[c])
      BY <3>1, <3>2, DockerAssumption DEF IsConfig, Asked, SwitchesOf, Switches
    <3>3. CASE /\ Parses(cfg[c].kind, CommandLine(cfg[c]))
               /\ request[c] = Parsed(CommandLine(cfg[c]))
      BY <3>3, ParsedSwitches
    <3>4. QED BY <3>1, <3>2, <3>3 DEF Came
  <2>2. QED BY <2>1 DEF TypeOK, IInv, Types
<1>2. QED BY <1>1, Invariant, PTL

\* However many commands there are and whatever they are started with: what a
\* plain command line comes to, printed, split at spaces and parsed in the
\* container, is what was asked (the Display impls and run_in_docker_container).
THEOREM PlainLinesSurvive == Spec => []PlainSurvives
<1>1. IInv => PlainSurvives
  <2> SUFFICES ASSUME IInv, NEW c \in Commands, Plain(cfg[c]), request[c] # NoRequest
               PROVE  request[c] = Asked(cfg[c])
    BY DEF PlainSurvives
  <2>1. IsConfig(cfg[c]) /\ Came(c)
    BY DockerAssumption DEF IInv, Types
  <2>2. Parsed(CommandLine(cfg[c])) = Asked(cfg[c])
    BY <2>1, PlainRead
  <2>3. QED BY <2>1, <2>2 DEF Came
<1>2. QED BY <1>1, Invariant, PTL

\* A command that was told only to estimate, or not to activate, has been told
\* so in the container as well, whatever values the rest of its options and its
\* arguments have: all but the key, the keystore and its password and the
\* version of cargo stylus, which are of one word each (the Display impls,
\* run_in_docker_container).
THEOREM AllSwitchesSurvive == Spec => []SwitchesSurvive
<1>1. IInv => SwitchesSurvive
  <2> SUFFICES ASSUME IInv, NEW c \in Commands, request[c] # NoRequest,
                      \A n \in AuthOptions \cup {"cargo-stylus-version"} :
                        n \in DOMAIN cfg[c].options => OneWord(cfg[c].options[n])
               PROVE  cfg[c].switches \subseteq request[c].switches
    BY DEF SwitchesSurvive
  <2> DEFINE x == cfg[c]
  <2>1. IsConfig(x) /\ Came(c)
    BY DockerAssumption DEF IInv, Types
  <2>2. x.kind \in {"deploy", "verify"}
    BY <2>1 DEF IsConfig
  <2>3. Parses(x.kind, CommandLine(x)) => x.switches \subseteq Parsed(CommandLine(x)).switches
    BY <2>1, <2>2, DeploySwitchesRead, VerifySwitchesRead
  <2>4. Asked(x).switches = x.switches
    BY DEF Asked
  <2>5. QED BY <2>1, <2>3, <2>4 DEF Came
<1>2. QED BY <1>1, Invariant, PTL
=============================================================================
