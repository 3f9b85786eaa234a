----------------------------- MODULE HashProofs -----------------------------
(***************************************************************************)
(* Proofs about HashFiles: its types, the inductive invariant that relates *)
(* the digest, the channel and the reader, and what follows from it, for   *)
(* every project tree, every list of files and every edit; and that it     *)
(* implements HashPromise for every project that is a tree: the walk finds *)
(* each selected file once, the list has it once, and what is digested are *)
(* contents that the files had.                                            *)
(***************************************************************************)
EXTENDS HashFiles, SequenceTheorems, FiniteSetTheorems, TLAPS

\* What the reader sends keeps the type of the channel.
LEMMA SentType ==
  ASSUME TypeOK, NEW x \in Preimage \cup {Failed}, Sends(x)
  PROVE  /\ channel' \in Seq(Preimage \cup {Failed}) /\ next' \in Nat \ {0}
         /\ reader' \in ReaderStates /\ opened' = Missing /\ length' \in Nat
         /\ got' \in Seq(Contents)
<1>1. /\ channel \in Seq(Preimage \cup {Failed}) /\ next \in Nat \ {0}
      /\ reader \in ReaderStates
  BY DEF TypeOK
<1>2. Append(channel, x) \in Seq(Preimage \cup {Failed})
  BY <1>1, AppendProperties
<1>3. QED BY <1>1, <1>2 DEF Sends, ReaderStates

\* An edit keeps the types.
LEMMA EditType ==
  ASSUME TypeOK, Edit
  PROVE  /\ disk' \in [Files -> States] /\ seen' \in [Files -> SUBSET States]
         /\ patterns' \in Patterns /\ faulty' \in BOOLEAN
BY DEF TypeOK, Edit

\* The list that is sorted is a list of files.
LEMMA SpawnType ==
  ASSUME TypeOK, Spawn
  PROVE  paths' \in Seq(Files)
<1>1. Append(files, Toolchain) \in Seq(Files)
  BY HashConstants DEF TypeOK
<1>2. PICK t \in [1 .. Len(Append(files, Toolchain)) -> Files] : paths' = t
  BY DEF Spawn
<1>3. Len(Append(files, Toolchain)) \in Nat
  BY <1>1, LenProperties
<1>4. QED BY <1>2, <1>3, SeqDef

\* The thread that hashes keeps the types.
LEMMA MainType == ASSUME TypeOK, MainStep PROVE TypeOK'
<1> USE DEF TypeOK, projectVars, promiseVars, walkVars, readVars, openVars, Returns
<1>1. CASE CallFails
  BY <1>1 DEF CallFails
<1>2. CASE CheckToolchain
  BY <1>2 DEF CheckToolchain
<1>3. CASE ExpandGlobs
  <2>1. globPaths' \subseteq Spelled
    BY <1>3, HashConstants DEF ExpandGlobs
  <2>2. directories' \in Seq(Dirs)
    BY <1>3, TreeConstants DEF ExpandGlobs
  <2>3. QED BY <1>3, <2>1, <2>2 DEF ExpandGlobs
<1>4. CASE ReadDir
  <2>1. directories[Len(directories)] \in Dirs
    BY <1>4 DEF ReadDir
  <2>2. entries' \subseteq Dirs \cup Files
    BY <1>4, <2>1, TreeConstants DEF ReadDir
  <2>3. directories' \in Seq(Dirs)
    BY <1>4 DEF ReadDir
  <2>4. QED BY <1>4, <2>2, <2>3 DEF ReadDir
<1>5. ASSUME NEW e \in entries, Entry(e) PROVE TypeOK'
  <2>1. directories' \in Seq(Dirs)
    BY <1>5 DEF Entry
  <2>2. files' \in Seq(Files)
    BY <1>5 DEF Entry
  <2>3. entries' \subseteq Dirs \cup Files
    BY <1>5 DEF Entry
  <2>4. QED BY <1>5, <2>1, <2>2, <2>3 DEF Entry
<1>6. CASE EndOfWalk
  BY <1>6 DEF EndOfWalk
<1>7. CASE Spawn
  BY <1>7, SpawnType DEF Spawn, ReaderStates
<1>8. CASE Receive
  <2>1. channel' \in Seq(Preimage \cup {Failed}) /\ Head(channel) \in Preimage \cup {Failed}
    BY <1>8 DEF Receive
  <2>2. keccak' \in Seq(Preimage)
    <3>1. CASE Head(channel) \in Preimage
      <4>1. Append(keccak, Head(channel)) \in Seq(Preimage)
        BY <3>1, AppendProperties
      <4>2. QED BY <1>8, <4>1 DEF Receive
    <3>2. CASE Head(channel) = Failed
      BY <1>8, <3>2 DEF Receive
    <3>3. QED BY <2>1, <3>1, <3>2
  <2>3. QED BY <1>8, <2>1, <2>2 DEF Receive
<1>9. CASE Finalize
  BY <1>9 DEF Finalize
<1>10. CASE Exit
  BY <1>10 DEF Exit
<1>11. QED
  BY <1>1, <1>2, <1>3, <1>4, <1>5, <1>6, <1>7, <1>8, <1>9, <1>10 DEF MainStep

\* A piece that is read is of a file that is open.
LEMMA PieceType ==
  ASSUME TypeOK, opened # Missing
  PROVE  WithPiece(got) \in Seq(Contents)
BY AppendProperties DEF TypeOK, WithPiece

\* So does the thread that reads.
LEMMA ReaderType == ASSUME TypeOK, HashInv, ReaderStep PROVE TypeOK'
<1> USE DEF projectVars, promiseVars, walkVars, readVars, openVars
<1>1. CASE Open
  <2>1. next \in 1 .. Len(paths) /\ paths[next] \in Files
    BY <1>1 DEF Open, TypeOK
  <2>2. CASE CanOpen(paths[next])
    BY <1>1, <2>1, <2>2 DEF Open, CanOpen, TypeOK, ReaderStates
  <2>3. CASE ~CanOpen(paths[next])
    <3>1. Sends(Failed)
      BY <1>1, <2>3 DEF Open
    <3>2. QED BY <1>1, <3>1, SentType DEF Open, TypeOK
  <2>4. QED BY <2>2, <2>3
<1>2. CASE Measure
  <2>1. opened \in Contents
    BY <1>2 DEF Measure, HashInv, TypeOK
  <2>2. QED BY <1>2, <2>1, HashConstants DEF Measure, TypeOK, ReaderStates
<1>3. CASE Read
  <2>1. next \in 1 .. Len(paths) /\ paths[next] \in Files /\ opened # Missing
    BY <1>3 DEF Read, TypeOK, HashInv
  <2>2. WithPiece(got) \in Seq(Contents)
    BY <2>1, PieceType
  <2>3. [file |-> paths[next], length |-> length, contents |-> WithPiece(got)] \in Preimage
    BY <2>1, <2>2 DEF Preimage, TypeOK
  <2>4. CASE UNCHANGED <<next, opened, length, reader, channel>> /\ got' = WithPiece(got)
    BY <1>3, <2>2, <2>4 DEF Read, TypeOK
  <2>5. ASSUME NEW x \in Preimage \cup {Failed}, Sends(x) PROVE TypeOK'
    BY <1>3, <2>5, SentType DEF Read, TypeOK
  <2>6. QED BY <1>3, <2>3, <2>4, <2>5 DEF Read
<1>4. CASE Done
  BY <1>4 DEF Done, TypeOK, ReaderStates
<1>5. QED BY <1>1, <1>2, <1>3, <1>4 DEF ReaderStep

-----------------------------------------------------------------------------
(* The inductive invariant.                                                *)

\* What is in the channel stays in its place in the list when it is sent.
LEMMA SentInPlace ==
  ASSUME TypeOK, HashInv, ReaderRuns, next <= Len(paths),
         NEW x \in Preimage \cup {Failed}, Sends(x),
         x # Failed => x.file = paths[next],
         UNCHANGED <<pc, paths, receiver, keccak, outcome>>
  PROVE  HashInv'
<1>1. /\ channel \in Seq(Preimage \cup {Failed}) /\ keccak \in Seq(Preimage)
      /\ next \in Nat /\ paths \in Seq(Files)
      /\ Len(channel) \in Nat /\ Len(keccak) \in Nat /\ Len(paths) \in Nat
  BY LenProperties DEF TypeOK
<1>2. CASE receiver
  <2>1. /\ channel' = Append(channel, x) /\ next' = next + 1 /\ reader' = "opens"
        /\ opened' = Missing
    BY <1>2 DEF Sends
  <2>2. /\ Len(channel') = Len(channel) + 1 /\ channel'[Len(channel) + 1] = x
        /\ \A i \in 1 .. Len(channel) : channel'[i] = channel[i]
    BY <1>1, <2>1, AppendProperties
  <2>3. Len(keccak) + Len(channel) = next - 1
    BY <1>2 DEF HashInv
  <2>4. ASSUME NEW i \in 1 .. Len(channel'), channel'[i] # Failed
        PROVE  channel'[i].file = paths[Len(keccak) + i]
    <3>1. CASE i = Len(channel) + 1
      <4>1. Len(keccak) + i = next
        BY <1>1, <2>3, <3>1
      <4>2. QED BY <2>2, <2>4, <3>1, <4>1
    <3>2. CASE i # Len(channel) + 1
      <4>1. i \in 1 .. Len(channel) /\ channel'[i] = channel[i]
        BY <1>1, <2>2, <2>4, <3>2
      <4>2. QED BY <1>2, <2>4, <4>1 DEF HashInv
    <3>3. QED BY <3>1, <3>2
  <2>5. pc \notin {"start", "glob", "walk", "sort"}
    BY DEF HashInv, ReaderRuns
  <2>6. QED BY <1>1, <1>2, <2>1, <2>2, <2>3, <2>4, <2>5 DEF HashInv
<1>3. CASE ~receiver
  <2>1. outcome = Failed
    BY <1>3 DEF HashInv, ReaderRuns
  <2>2. reader' = "unheard" /\ UNCHANGED <<channel, next>> /\ opened' = Missing
    BY <1>3 DEF Sends
  <2>3. pc \notin {"start", "glob", "walk", "sort"}
    BY DEF HashInv, ReaderRuns
  <2>4. QED BY <1>1, <1>3, <2>1, <2>2, <2>3 DEF HashInv
<1>4. QED BY <1>2, <1>3 DEF TypeOK

\* A step of the reader keeps the invariant.
LEMMA ReaderKeeps == ASSUME TypeOK, HashInv, ReaderStep PROVE HashInv'
<1>1. CASE Open
  <2>1. next \in 1 .. Len(paths) /\ paths[next] \in Files
    BY <1>1 DEF Open, TypeOK
  <2>2. UNCHANGED <<pc, paths, receiver, keccak, outcome>>
    BY <1>1 DEF Open, promiseVars
  <2>3. CASE CanOpen(paths[next])
    <3>1. /\ opened' # Missing /\ reader' = "measures" /\ reader = "opens"
          /\ UNCHANGED <<next, channel>>
      BY <1>1, <2>3, HashConstants DEF Open, CanOpen
    <3>2. QED BY <2>1, <2>2, <3>1 DEF HashInv, TypeOK
  <2>4. CASE ~CanOpen(paths[next])
    <3>1. Sends(Failed) /\ ReaderRuns
      BY <1>1, <2>4 DEF Open
    <3>2. QED BY <2>1, <2>2, <3>1, SentInPlace
  <2>5. QED BY <2>3, <2>4
<1>2. CASE Measure
  <2>1. /\ reader = "measures" /\ UNCHANGED <<pc, paths, receiver, keccak, outcome, next, channel>>
        /\ \/ reader' = "reads" /\ opened' = opened
           \/ reader' = "unmeasured" /\ opened' = Missing
    BY <1>2 DEF Measure, promiseVars
  <2>2. QED BY <2>1 DEF HashInv
<1>3. CASE Read
  <2>1. next \in 1 .. Len(paths) /\ paths[next] \in Files /\ opened # Missing
    BY <1>3 DEF Read, TypeOK, HashInv
  <2>2. WithPiece(got) \in Seq(Contents)
    BY <2>1, PieceType
  <2> DEFINE x == [file |-> paths[next], length |-> length, contents |-> WithPiece(got)]
  <2>3. x \in Preimage /\ x.file = paths[next]
    BY <2>1, <2>2 DEF Preimage, TypeOK
  <2>4. UNCHANGED <<pc, paths, receiver, keccak, outcome>> /\ ReaderRuns
    BY <1>3 DEF Read, promiseVars
  <2>5. \/ UNCHANGED <<next, opened, reader, channel>>
        \/ Sends(x) \/ Sends(Failed)
    BY <1>3 DEF Read
  <2> HIDE DEF x
  <2>6. CASE UNCHANGED <<next, opened, reader, channel>>
    BY <2>4, <2>6 DEF HashInv
  <2>7. CASE Sends(x)
    BY <2>1, <2>3, <2>4, <2>7, SentInPlace
  <2>8. CASE Sends(Failed)
    BY <2>1, <2>4, <2>8, SentInPlace
  <2>9. QED BY <2>5, <2>6, <2>7, <2>8
<1>4. CASE Done
  BY <1>4 DEF Done, HashInv, ReaderRuns, TypeOK, promiseVars, openVars
<1>5. QED BY <1>1, <1>2, <1>3, <1>4 DEF ReaderStep

\* hash_files can give up at any time.
LEMMA GivesUp ==
  ASSUME TypeOK, HashInv, receiver, Returns(Failed),
         UNCHANGED <<paths, next, opened, reader, keccak>>
  PROVE  HashInv'
BY DEF HashInv, Returns, TypeOK

\* Receiving moves the head of the channel to the digest.
LEMMA ReceiveKeeps == ASSUME TypeOK, HashInv, Receive PROVE HashInv'
<1>1. /\ channel \in Seq(Preimage \cup {Failed}) /\ channel # <<>>
      /\ keccak \in Seq(Preimage) /\ next \in Nat
      /\ Len(channel) \in Nat /\ Len(keccak) \in Nat
  BY LenProperties DEF TypeOK, Receive
<1>2. /\ channel' = Tail(channel) /\ Len(channel') = Len(channel) - 1
      /\ \A i \in 1 .. Len(channel') : channel'[i] = channel[i + 1]
      /\ Head(channel) = channel[1] /\ Head(channel) \in Preimage \cup {Failed}
      /\ Len(channel) >= 1
  BY <1>1, HeadTailProperties, EmptySeq DEF Receive
<1>3. receiver /\ pc = "receive"
  BY DEF HashInv, Receive
<1>4. CASE Head(channel) = Failed
  BY <1>3, <1>4, GivesUp DEF Receive, StopsAt, openVars
<1>5. CASE Head(channel) # Failed
  <2>1. /\ keccak' = Append(keccak, Head(channel))
        /\ UNCHANGED <<outcome, pc, receiver, paths, next, opened, reader>>
    BY <1>5 DEF Receive, StopsAt, openVars
  <2>2. /\ Len(keccak') = Len(keccak) + 1 /\ keccak'[Len(keccak) + 1] = Head(channel)
        /\ \A i \in 1 .. Len(keccak) : keccak'[i] = keccak[i]
    BY <1>1, <1>2, <1>5, <2>1, AppendProperties
  <2>3. /\ Len(keccak) + Len(channel) = next - 1
        /\ \A i \in 1 .. Len(channel) :
             channel[i] # Failed => channel[i].file = paths[Len(keccak) + i]
        /\ \A i \in 1 .. Len(keccak) : keccak[i].file = paths[i]
    BY <1>3 DEF HashInv
  <2>4. ASSUME NEW i \in 1 .. Len(keccak') PROVE keccak'[i].file = paths[i]
    <3>1. 1 \in 1 .. Len(channel)
      BY <1>1, <1>2
    <3>2. keccak'[Len(keccak) + 1].file = paths[Len(keccak) + 1]
      BY <1>2, <1>5, <2>2, <2>3, <3>1
    <3>3. CASE i = Len(keccak) + 1
      BY <3>2, <3>3
    <3>4. CASE i # Len(keccak) + 1
      BY <1>1, <2>2, <2>3, <3>4
    <3>5. QED BY <3>3, <3>4
  <2>5. ASSUME NEW i \in 1 .. Len(channel'), channel'[i] # Failed
        PROVE  channel'[i].file = paths[Len(keccak') + i]
    <3>1. i + 1 \in 1 .. Len(channel) /\ channel'[i] = channel[i + 1]
      BY <1>1, <1>2
    <3>2. Len(keccak') + i = Len(keccak) + (i + 1)
      BY <1>1, <2>2
    <3>3. QED BY <2>3, <2>5, <3>1, <3>2
  <2>6. Len(keccak') + Len(channel') = next - 1
    BY <1>1, <1>2, <2>2, <2>3
  <2>7. QED BY <1>3, <2>1, <2>4, <2>5, <2>6 DEF HashInv
<1>6. QED BY <1>4, <1>5

\* Every step of the hashing thread keeps the invariant.
LEMMA MainKeeps == ASSUME TypeOK, HashInv, MainStep PROVE HashInv'
<1> USE DEF projectVars, promiseVars, walkVars, readVars, openVars
<1>1. CASE CallFails \/ (CheckToolchain /\ disk[Toolchain] = Missing)
  <2>1. receiver
    BY <1>1 DEF CallFails, CheckToolchain, HashInv
  <2>2. QED BY <1>1, <2>1, GivesUp DEF CallFails, CheckToolchain
<1>2. CASE CheckToolchain /\ disk[Toolchain] # Missing
  BY <1>2 DEF CheckToolchain, HashInv
<1>3. CASE ExpandGlobs
  BY <1>3 DEF ExpandGlobs, HashInv
<1>4. CASE ReadDir \/ \E e \in entries : Entry(e)
  BY <1>4 DEF ReadDir, Entry, HashInv
<1>5. CASE EndOfWalk
  BY <1>5 DEF EndOfWalk, HashInv
<1>6. CASE Spawn
  <2>1. Len(paths') \in Nat
    BY <1>6, SpawnType, LenProperties
  <2>2. /\ keccak = <<>> /\ channel = <<>> /\ next = 1 /\ opened = Missing
        /\ receiver /\ outcome = NoHash
    BY <1>6 DEF Spawn, HashInv
  <2>3. /\ UNCHANGED <<outcome, next, opened, channel, receiver, keccak>>
        /\ reader' = "opens" /\ pc' = "receive"
    BY <1>6 DEF Spawn
  <2>4. QED BY <2>1, <2>2, <2>3 DEF HashInv
<1>7. CASE Receive
  BY <1>7, ReceiveKeeps
<1>8. CASE Finalize
  <2>1. receiver /\ channel = <<>> /\ reader \in {"done", "unmeasured"}
    BY <1>8 DEF Finalize, Closed, HashInv
  <2>2. IF reader = "done" THEN Len(keccak) = Len(paths) ELSE Len(keccak) < Len(paths)
    <3>1. Len(keccak) \in Nat /\ Len(paths) \in Nat /\ next \in Nat
      BY LenProperties DEF TypeOK
    <3>2. QED BY <2>1, <3>1 DEF HashInv
  <2>3. /\ UNCHANGED <<paths, next, opened, reader, channel, keccak>>
        /\ outcome' = keccak /\ pc' = "returned" /\ ~receiver'
    BY <1>8 DEF Finalize, Returns
  <2>4. QED BY <2>1, <2>2, <2>3 DEF HashInv
<1>9. CASE Exit
  BY <1>9 DEF Exit, HashInv
<1>10. QED
  BY <1>1, <1>2, <1>3, <1>4, <1>5, <1>6, <1>7, <1>8, <1>9 DEF MainStep

\* The hash command's variables have their types and its invariant holds,
\* whatever is edited: the list, the channel and the digest never disagree.
THEOREM HashInvariant == Spec => [](TypeOK /\ HashInv)
<1>1. Init => TypeOK /\ HashInv
  <2> SUFFICES ASSUME Init PROVE TypeOK /\ HashInv
    OBVIOUS
  <2>1. /\ disk \in [Files -> States] /\ patterns \in Patterns /\ faulty \in BOOLEAN
        /\ seen \in [Files -> SUBSET States]
    BY HashConstants DEF Init, PromiseInit, ProjectInit
  <2>2. TypeOK
    BY <2>1 DEF Init, PromiseInit, TypeOK, ReaderStates
  <2>3. HashInv
    BY DEF Init, PromiseInit, HashInv
  <2>4. QED BY <2>2, <2>3
<1>2. TypeOK /\ HashInv /\ [Next]_vars => TypeOK' /\ HashInv'
  <2> SUFFICES ASSUME TypeOK, HashInv, [Next]_vars PROVE TypeOK' /\ HashInv'
    OBVIOUS
  <2>1. CASE MainStep
    BY <2>1, MainType, MainKeeps
  <2>2. CASE ReaderStep
    BY <2>2, ReaderType, ReaderKeeps
  <2>3. CASE Disturb
    <3>1. TypeOK'
      BY <2>3, EditType DEF Disturb, TypeOK, walkVars
    <3>2. opened' # Missing <=> opened # Missing
      BY <2>3, HashConstants DEF Disturb
    <3> HIDE DEF Disturb
    <3>4. UNCHANGED <<outcome, pc, paths, next, reader, channel, receiver, keccak>>
      BY <2>3 DEF Disturb
    <3>5. HashInv'
      BY <3>2, <3>4 DEF HashInv
    <3>6. QED BY <3>1, <3>5
  <2>4. CASE UNCHANGED vars
    BY <2>4
    DEF vars, promiseVars, projectVars, hashVars, walkVars, readVars, openVars, TypeOK,
        HashInv
  <2>5. QED BY <2>1, <2>2, <2>3, <2>4 DEF Next
<1>3. QED BY <1>1, <1>2, PTL DEF Spec

\* The types alone.
THEOREM HashTypes == Spec => []TypeOK
BY HashInvariant, PTL

\* A project hash is of the listed files, once, in order, for every project: the
\* two threads and the channel double and reorder nothing, and lose files only
\* with the panic of a reader that could not take the length of an open file.
THEOREM EveryPathDigested == Spec => []DigestsEveryPath
<1>1. TypeOK /\ HashInv => DigestsEveryPath
  <2> SUFFICES ASSUME TypeOK, HashInv, outcome \notin {NoHash, Failed}
               PROVE  DigestsEveryPath
    BY DEF DigestsEveryPath
  <2>1. Len(keccak) \in Nat /\ Len(paths) \in Nat
    BY LenProperties DEF TypeOK
  <2>2. ~receiver
    BY DEF HashInv, TypeOK
  <2>3. /\ outcome = keccak
        /\ \/ reader = "done" /\ Len(keccak) = Len(paths)
           \/ reader = "unmeasured" /\ Len(keccak) < Len(paths)
    BY <2>2 DEF HashInv
  <2>4. QED BY <2>1, <2>3 DEF HashInv, DigestsEveryPath
<1>2. QED BY <1>1, HashInvariant, PTL

\* The "impossible" panic of the reader is possible only after hash_files has
\* returned an error: it never replaces a hash.
THEOREM UnheardIsTooLate == Spec => []UnheardAfterError
<1>1. TypeOK /\ HashInv => UnheardAfterError
  BY DEF HashInv, UnheardAfterError, TypeOK
<1>2. QED BY <1>1, HashInvariant, PTL

-----------------------------------------------------------------------------
(* The refinement.                                                         *)

\* What the walk descends into.
Descended(d) == (Children[d] \cap Dirs) \ Skipped

InSeq(s) == {s[i] : i \in 1 .. Len(s)}

\* The directories still to be read.
Pending == InSeq(directories) \cup ((entries \cap Dirs) \ Skipped)
Injective(s) == \A i, j \in 1 .. Len(s) : s[i] = s[j] => i = j

\* A file the walk has not come to.
Ahead(f) == f \in entries \/ \E o \in Pending : \E d \in Under(o) : f \in Children[d]

\* What a file holds now it has held.
SeenInv == \A f \in Files : disk[f] \in seen[f]

\* The patterns were expanded to what they may match.
GlobInv == pc \in {"walk", "sort", "receive"} => globPaths \in Matches

\* The walk is in the tree, below no directory twice, ...
TreeInv ==
  pc = "walk" =>
    /\ Injective(directories) /\ entries \cap InSeq(directories) = {}
    /\ \A o \in Pending : o \in Under(Root)
    /\ \A o, p \in Pending : o # p => Under(o) \cap Under(p) = {}
    /\ entries # {} =>
         \E d \in Under(Root) :
           entries \subseteq Children[d] /\ \A o \in Pending : d \notin Under(o)

\* ... it has found selected files only, each once, and has passed by none.
FoundInv ==
  /\ pc \in {"start", "glob"} => files = <<>> /\ entries = {}
  /\ pc \in {"walk", "sort", "receive"} =>
       /\ Injective(files)
       /\ \A f \in InSeq(files) : f \in Selected(globPaths) /\ seen[f] # {Missing}
       /\ pc = "walk" => \A f \in InSeq(files) : ~Ahead(f)
       /\ \A f \in Selected(globPaths) :
            Missing \notin seen[f] => f \in InSeq(files) \/ (pc = "walk" /\ Ahead(f))

\* The list is sorted, and has the files found and the toolchain file.
ListInv ==
  pc = "receive" =>
    /\ IsSorted(paths)
    /\ \A f \in Files : Occurrences(paths, f) = Copies(f, InSeq(files))

\* A list of pieces of a file.
ArePieces(s, f) == \A k \in 1 .. Len(s) : s[k] \in seen[f] \cap Contents

\* An error that was sent stands for a file that could not be opened, or for a
\* system call that failed.
IsTrueOf(f) == faulty \/ seen[f] \cap {Unreadable, Missing} # {}

\* What was read is what the file has held.
ReadInv ==
  /\ opened # Missing =>
       opened \in seen[paths[next]] \cap Contents /\ ArePieces(got, paths[next])
  /\ reader = "reads" =>
       \E c \in seen[paths[next]] \cap Contents : length = LengthOf[c]
  /\ reader = "unmeasured" => faulty
  /\ reader # "reads" => got = <<>>
  /\ \A i \in 1 .. Len(keccak) : IsPreimage(keccak[i])
  /\ receiver =>
       \A i \in 1 .. Len(channel) :
         IF channel[i] = Failed THEN IsTrueOf(paths[Len(keccak) + i])
                                ELSE IsPreimage(channel[i])

RefineInv == SeenInv /\ GlobInv /\ TreeInv /\ FoundInv /\ ListInv /\ ReadInv
-----------------------------------------------------------------------------
(* The tree.                                                               *)

\* Closed under descending.
Closes(S) == S \subseteq Dirs /\ \A y \in S : Descended(y) \subseteq S

\* A directory is under itself, and what it descends into with it; no other
\* set that is closed is smaller.
LEMMA UnderIsLeast ==
  ASSUME NEW d \in Dirs
  PROVE  /\ d \in Under(d) /\ Closes(Under(d))
         /\ \A S : d \in S /\ Closes(S) => Under(d) \subseteq S
<1>1. d \in Under(d)
  BY DEF Under
<1>2. ASSUME NEW y \in Under(d), NEW x \in Descended(y) PROVE x \in Under(d)
  <2>1. x \in Dirs
    BY <1>2 DEF Descended
  <2>2. ASSUME NEW S \in SUBSET Dirs, d \in S,
               \A z \in S : (Children[z] \cap Dirs) \ Skipped \subseteq S
        PROVE  x \in S
    <3>1. y \in S
      BY <2>2 DEF Under
    <3>2. QED BY <3>1, <2>2, <1>2 DEF Descended
  <2>3. QED BY <2>1, <2>2 DEF Under
<1>3. Under(d) \subseteq Dirs
  BY DEF Under
<1>4. ASSUME NEW S, d \in S, Closes(S) PROVE Under(d) \subseteq S
  BY <1>4 DEF Under, Closes, Descended
<1>5. QED BY <1>1, <1>2, <1>3, <1>4 DEF Closes

\* What a directory descends into is under it, with all that is under that.
LEMMA UnderDown ==
  ASSUME NEW d \in Dirs, NEW e \in Descended(d)
  PROVE  e \in Dirs /\ Under(e) \subseteq Under(d)
<1>1. e \in Dirs
  BY DEF Descended
<1>2. e \in Under(d) /\ Closes(Under(d))
  BY UnderIsLeast DEF Closes
<1>3. QED BY <1>1, <1>2, UnderIsLeast

\* The walk from below leads nowhere else: what is under a directory is the
\* directory, or under one that it descends into.
LEMMA UnderSplit ==
  ASSUME NEW d \in Dirs, NEW x \in Under(d), x # d
  PROVE  \E e \in Descended(d) : x \in Under(e)
<1> DEFINE S == {d} \cup UNION {Under(e) : e \in Descended(d)}
<1>1. \A e \in Descended(d) : e \in Dirs /\ e \in Under(e) /\ Closes(Under(e))
  BY UnderIsLeast DEF Descended
<1>2. Closes(S)
  <2>1. S \subseteq Dirs
    BY <1>1 DEF Closes
  <2>2. ASSUME NEW y \in S PROVE Descended(y) \subseteq S
    <3>1. CASE y = d
      BY <1>1, <3>1
    <3>2. CASE y # d
      <4>1. PICK e \in Descended(d) : y \in Under(e)
        BY <2>2, <3>2
      <4>2. Descended(y) \subseteq Under(e)
        BY <1>1, <4>1 DEF Closes
      <4>3. QED BY <4>2
    <3>3. QED BY <3>1, <3>2
  <2> HIDE DEF S
  <2>3. QED BY <2>1, <2>2 DEF Closes
<1>3. x \in S
  <2>1. d \in S
    OBVIOUS
  <2> HIDE DEF S
  <2>2. QED BY <1>2, <2>1, UnderIsLeast
<1>4. QED BY <1>3

\* A directory has one parent.
LEMMA OneParent ==
  ASSUME NEW d \in Dirs, NEW e \in Dirs, NEW x \in Children[d] \cap Children[e]
  PROVE  d = e
BY TreeAssumption

\* What is under a directory is the directory or a child of one under it.
LEMMA UnderUp ==
  ASSUME NEW d \in Dirs, NEW x \in Under(d), x # d
  PROVE  \E y \in Under(d) : x \in Descended(y)
<1> DEFINE S == {z \in Under(d) : z = d \/ \E y \in Under(d) : z \in Descended(y)}
<1>1. Closes(S) /\ d \in S
  BY UnderIsLeast DEF Closes
<1>2. x \in S
  <2> HIDE DEF S
  <2>1. QED BY <1>1, UnderIsLeast
<1>3. QED BY <1>2

\* There are no cycles: no directory is under one that it descends into.
LEMMA NoCycle ==
  ASSUME NEW d \in Under(Root), NEW e \in Descended(d)
  PROVE  d \notin Under(e)
<1>1. Root \in Dirs /\ d \in Dirs /\ e \in Dirs
  BY TreeConstants DEF Descended, Under
<1> SUFFICES ASSUME d \in Under(e) PROVE FALSE
  OBVIOUS
<1>2. Root \notin Under(e)
  <2>1. Root # e
    BY <1>1, TreeAssumption DEF Descended
  <2>2. ASSUME NEW y \in Under(e) PROVE Root \notin Descended(y)
    BY <1>1, UnderIsLeast, TreeAssumption DEF Descended, Closes
  <2>3. QED BY <1>1, <2>1, <2>2, UnderUp
<1> DEFINE S == Under(Root) \ Under(e)
<1>3. Closes(S)
  <2>1. Closes(Under(Root)) /\ Closes(Under(e))
    BY <1>1, UnderIsLeast
  <2>2. ASSUME NEW y \in S, NEW z \in Descended(y), z \in Under(e) PROVE FALSE
    <3>1. y \in Dirs /\ z \in Children[y]
      BY <2>1 DEF Closes, Descended
    <3>2. PICK w \in Under(e) : z \in Children[w]
      <4>1. CASE z = e
        BY <4>1 DEF Descended
      <4>2. CASE z # e
        BY <1>1, <2>2, <4>2, UnderUp DEF Descended
      <4>3. QED BY <4>1, <4>2
    <3>3. w \in Dirs
      BY <2>1 DEF Closes
    <3>4. y = w
      BY <3>1, <3>2, <3>3, OneParent
    <3>5. QED BY <3>4, <3>2
  <2>3. QED BY <2>1, <2>2 DEF Closes
<1>4. Root \in S
  BY <1>1, <1>2, UnderIsLeast
<1>5. Under(Root) \subseteq S
  <2> HIDE DEF S
  <2>1. QED BY <1>1, <1>3, <1>4, UnderIsLeast
<1>6. QED BY <1>5

\* Two directories that one descends into have nothing in common.
LEMMA ApartBelow ==
  ASSUME NEW d \in Under(Root), NEW e \in Descended(d), NEW f \in Descended(d), e # f
  PROVE  Under(e) \cap Under(f) = {}
<1>1. d \in Dirs /\ e \in Dirs /\ f \in Dirs
  BY DEF Descended, Under
<1>2. Closes(Under(e)) /\ Closes(Under(f)) /\ e \in Under(e) /\ f \in Under(f)
  BY <1>1, UnderIsLeast
<1>3. d \notin Under(e) /\ d \notin Under(f)
  BY NoCycle
<1>4. e \notin Under(f)
  <2> SUFFICES ASSUME e \in Under(f) PROVE FALSE
    OBVIOUS
  <2>1. PICK y \in Under(f) : e \in Descended(y)
    BY <1>1, UnderUp
  <2>2. y \in Dirs
    BY <1>2 DEF Closes
  <2>3. QED BY <1>1, <1>3, <2>1, <2>2, OneParent DEF Descended
<1> DEFINE S == Under(e) \ Under(f)
<1>5. Closes(S)
  <2>1. ASSUME NEW y \in S, NEW z \in Descended(y), z \in Under(f) PROVE FALSE
    <3>1. y \in Dirs /\ z \in Children[y]
      BY <1>2 DEF Closes, Descended
    <3>2. PICK w \in Under(f) \cup {d} : z \in Children[w]
      <4>1. CASE z = f
        BY <4>1 DEF Descended
      <4>2. CASE z # f
        BY <1>1, <2>1, <4>2, UnderUp DEF Descended
      <4>3. QED BY <4>1, <4>2
    <3>3. w \in Dirs
      BY <1>1, <1>2 DEF Closes
    <3>4. y = w
      BY <3>1, <3>2, <3>3, OneParent
    <3>5. QED BY <1>3, <3>2, <3>4
  <2>2. QED BY <1>2, <2>1 DEF Closes
<1>6. Under(e) \subseteq S
  <2>1. e \in S
    BY <1>2, <1>4
  <2> HIDE DEF S
  <2>2. QED BY <1>1, <1>5, <2>1, UnderIsLeast
<1>7. QED BY <1>6
-----------------------------------------------------------------------------
(* The list of directories to be read, and that of the files found.        *)

\* Adding to the end of a list.
LEMMA AppendInSeq ==
  ASSUME NEW T, NEW s \in Seq(T), NEW x \in T
  PROVE  /\ InSeq(Append(s, x)) = InSeq(s) \cup {x}
         /\ Injective(s) /\ x \notin InSeq(s) => Injective(Append(s, x))
<1>1. /\ Len(Append(s, x)) = Len(s) + 1 /\ Len(s) \in Nat
      /\ \A i \in 1 .. Len(s) : Append(s, x)[i] = s[i]
      /\ Append(s, x)[Len(s) + 1] = x
  BY AppendProperties, LenProperties
<1>2. \A i : i \in 1 .. Len(s) + 1 <=> i \in 1 .. Len(s) \/ i = Len(s) + 1
  BY <1>1
<1>3. InSeq(Append(s, x)) = InSeq(s) \cup {x}
  BY <1>1, <1>2 DEF InSeq
<1>4. ASSUME Injective(s), x \notin InSeq(s) PROVE Injective(Append(s, x))
  <2>1. \A i \in 1 .. Len(s) : s[i] # x
    BY <1>4 DEF InSeq
  <2>2. QED BY <1>1, <1>2, <1>4, <2>1 DEF Injective
<1>5. QED BY <1>3, <1>4

\* Taking the last off a list without repetitions.
LEMMA FrontInSeq ==
  ASSUME NEW T, NEW s \in Seq(T), s # <<>>, Injective(s)
  PROVE  /\ s[Len(s)] \in InSeq(s)
         /\ InSeq(SubSeq(s, 1, Len(s) - 1)) = InSeq(s) \ {s[Len(s)]}
         /\ Injective(SubSeq(s, 1, Len(s) - 1))
<1> DEFINE t == SubSeq(s, 1, Len(s) - 1)
<1>1. Len(s) \in Nat /\ Len(s) > 0
  BY LenProperties, EmptySeq
<1>2. /\ Len(t) = Len(s) - 1
      /\ \A i \in 1 .. Len(t) : t[i] = s[i]
  <2>1. \A i \in 1 .. Len(s) - 1 : s[i] \in T
    BY <1>1
  <2>2. /\ Len(s) - 1 >= 1 => Len(t) = Len(s) - 1 - 1 + 1
        /\ ~(Len(s) - 1 >= 1) => Len(t) = 0
        /\ \A i \in 1 .. Len(s) - 1 - 1 + 1 : t[i] = s[1 + i - 1]
    BY <1>1, <2>1, SubSeqProperties
  <2> HIDE DEF t
  <2>3. Len(t) = Len(s) - 1
    BY <1>1, <2>2
  <2>4. ASSUME NEW i \in 1 .. Len(t) PROVE t[i] = s[i]
    <3>1. i \in 1 .. Len(s) - 1 - 1 + 1 /\ 1 + i - 1 = i
      BY <1>1, <2>3
    <3>2. t[i] = s[1 + i - 1]
      BY <2>2, <3>1
    <3>3. QED BY <3>1, <3>2
  <2>5. QED BY <2>3, <2>4
<1> HIDE DEF t
<1>3. \A i : i \in 1 .. Len(s) <=> i \in 1 .. Len(t) \/ i = Len(s)
  BY <1>1, <1>2
<1>4. ASSUME NEW i \in 1 .. Len(t) PROVE s[i] # s[Len(s)]
  <2>1. i # Len(s) /\ i \in 1 .. Len(s) /\ Len(s) \in 1 .. Len(s)
    BY <1>1, <1>2
  <2>2. QED BY <2>1 DEF Injective
<1>5. s[Len(s)] \in InSeq(s) /\ InSeq(t) = InSeq(s) \ {s[Len(s)]}
  BY <1>1, <1>2, <1>3, <1>4 DEF InSeq
<1>6. Injective(t)
  BY <1>2, <1>3 DEF Injective
<1>7. QED BY <1>5, <1>6 DEF t

-----------------------------------------------------------------------------
(* The walk.                                                               *)

\* The walk starts with all of the tree ahead.
LEMMA WalkStarts ==
  ASSUME TypeOK, RefineInv, ExpandGlobs
  PROVE  RefineInv'
<1>1. /\ pc = "glob" /\ pc' = "walk" /\ globPaths' = {p \in patterns : Exists(p[2])}
      /\ directories' = <<Root>> /\ entries' = {} /\ files' = <<>>
      /\ UNCHANGED <<disk, seen, patterns, faulty, outcome, paths, next, opened,
                      length, got, reader, channel, receiver, keccak>>
  BY DEF ExpandGlobs, RefineInv, FoundInv, promiseVars, projectVars, readVars, openVars
<1>2. Root \in Dirs /\ Root \in Under(Root)
  BY TreeConstants, UnderIsLeast
<1>3. Pending' = {Root} /\ Injective(directories') /\ InSeq(files') = {}
      /\ Injective(files')
  BY <1>1 DEF Pending, InSeq, Injective
<1>4. TreeInv'
  BY <1>1, <1>2, <1>3 DEF TreeInv
<1>5. GlobInv'
  <2>1. patterns \subseteq Spelled
    BY HashConstants DEF TypeOK
  <2>2. \A p \in patterns : p[2] \in Files
    BY <2>1 DEF Spelled
  <2>3. \A p \in patterns : disk[p[2]] \in seen[p[2]]
    BY <2>2 DEF RefineInv, SeenInv
  <2>4. QED BY <1>1, <2>3 DEF GlobInv, Matches, Exists
<1>6. FoundInv'
  <2>1. ASSUME NEW f \in Selected(globPaths)' PROVE Ahead(f)'
    <3>1. f \in Reachable
      BY <2>1 DEF Selected
    <3>2. \E d \in Under(Root) : f \in Children[d]
      BY <3>1, TreeAssumption
    <3>3. QED BY <1>3, <3>2 DEF Ahead
  <2>2. QED BY <1>1, <1>3, <2>1 DEF FoundInv
<1>7. QED
  BY <1>1, <1>4, <1>5, <1>6 DEF RefineInv, SeenInv, ListInv, ReadInv, IsPreimage, ArePieces, IsTrueOf

\* Reading a directory replaces it by what it lists.
LEMMA WalkReads ==
  ASSUME TypeOK, RefineInv, ReadDir
  PROVE  RefineInv'
<1> DEFINE d == directories[Len(directories)]
<1>1. /\ pc = "walk" /\ pc' = "walk" /\ entries = {} /\ directories # <<>>
      /\ directories \in Seq(Dirs)
      /\ entries' = Children[d] /\ directories' = SubSeq(directories, 1, Len(directories) - 1)
      /\ UNCHANGED <<disk, seen, patterns, faulty, globPaths, files, paths, next, opened,
                      length, got, reader, channel, receiver, keccak>>
  BY DEF ReadDir, promiseVars, projectVars, readVars, openVars, TypeOK
<1>2. /\ d \in InSeq(directories) /\ InSeq(directories') = InSeq(directories) \ {d}
      /\ Injective(directories')
  BY <1>1, FrontInSeq DEF RefineInv, TreeInv
<1> HIDE DEF d
<1>3. /\ Pending = InSeq(directories)
      /\ Pending' = (Pending \ {d}) \cup Descended(d)
  BY <1>1, <1>2 DEF Pending, Descended
<1>4. /\ d \in Pending /\ \A o \in Pending : o \in Under(Root) /\ o \in Dirs
      /\ \A o, p \in Pending : o # p => Under(o) \cap Under(p) = {}
  BY <1>1, <1>2, <1>3 DEF RefineInv, TreeInv, Under
<1>5. \A e \in Descended(d) :
        e \in Dirs /\ Under(e) \subseteq Under(d) /\ e \in Under(e) /\ d \notin Under(e)
  BY <1>4, UnderDown, UnderIsLeast, NoCycle
<1>6. \A o \in Pending' : o \in Under(Root) /\ o \in Dirs /\ d \notin Under(o)
  <2>1. ASSUME NEW o \in Descended(d) PROVE o \in Under(Root)
    <3>1. Closes(Under(Root))
      BY TreeConstants, UnderIsLeast
    <3>2. QED BY <1>4, <3>1 DEF Closes
  <2>2. d \in Under(d)
    BY <1>4, UnderIsLeast
  <2>3. QED BY <1>3, <1>4, <1>5, <2>1, <2>2
<1>7. \A o, p \in Pending' : o # p => Under(o) \cap Under(p) = {}
  BY <1>3, <1>4, <1>5, ApartBelow
<1>8. entries' \cap InSeq(directories') = {}
  <2> SUFFICES ASSUME NEW e \in Children[d], e \in InSeq(directories') PROVE FALSE
    BY <1>1
  <2>1. e \in Pending /\ e # d
    BY <1>2, <1>3
  <2>2. e \in Dirs /\ e \in Under(e) /\ e \in Under(Root)
    BY <1>4, <2>1, UnderIsLeast
  <2>3. Root # e
    BY <1>4, TreeAssumption
  <2>4. PICK y \in Under(Root) : e \in Descended(y)
    BY <2>2, <2>3, TreeConstants, UnderUp
  <2>5. y = d
    BY <1>4, <2>4, OneParent DEF Descended, Under
  <2>6. e \in Under(d)
    BY <1>5, <2>4, <2>5
  <2>7. QED BY <1>4, <2>1, <2>2, <2>6
<1>9. TreeInv'
  BY <1>1, <1>2, <1>4, <1>6, <1>7, <1>8 DEF TreeInv
<1>10. ASSUME NEW f \in Files PROVE Ahead(f)' <=> Ahead(f)
  <2>1. ASSUME Ahead(f) PROVE Ahead(f)'
    <3>1. PICK o \in Pending : \E x \in Under(o) : f \in Children[x]
      BY <1>1, <2>1 DEF Ahead
    <3>2. PICK x \in Under(o) : f \in Children[x]
      BY <3>1
    <3>3. CASE o # d
      BY <1>3, <3>2, <3>3 DEF Ahead
    <3>4. CASE o = d /\ x = d
      BY <1>1, <3>2, <3>4 DEF Ahead
    <3>5. CASE o = d /\ x # d
      <4>1. PICK e \in Descended(d) : x \in Under(e)
        BY <1>4, <3>2, <3>5, UnderSplit
      <4>2. QED BY <1>3, <3>2, <4>1 DEF Ahead
    <3>6. QED BY <3>3, <3>4, <3>5
  <2>2. ASSUME Ahead(f)' PROVE Ahead(f)
    <3>1. CASE f \in entries'
      BY <1>1, <1>4, <3>1, UnderIsLeast DEF Ahead
    <3>2. CASE \E o \in Pending' : \E x \in Under(o) : f \in Children[x]
      BY <1>3, <1>4, <1>5, <3>2 DEF Ahead
    <3>3. QED BY <2>2, <3>1, <3>2 DEF Ahead
  <2>3. QED BY <2>1, <2>2
<1>11. FoundInv'
  <2>1. InSeq(files) \subseteq Files
    BY DEF InSeq, TypeOK
  <2>2. Selected(globPaths) \subseteq Files /\ Selected(globPaths)' = Selected(globPaths)
    BY <1>1, HashConstants DEF Selected
  <2>3. QED BY <1>1, <1>10, <2>1, <2>2 DEF RefineInv, FoundInv
<1>12. QED
  BY <1>1, <1>9, <1>11
  DEF RefineInv, SeenInv, GlobInv, Matches, ListInv, ReadInv, IsPreimage, ArePieces, IsTrueOf
\* An entry is a directory to be read later, a file that is found, or nothing.
LEMMA WalkYields ==
  ASSUME TypeOK, RefineInv, NEW e \in entries, Entry(e)
  PROVE  RefineInv'
<1>1. /\ pc = "walk" /\ pc' = "walk" /\ entries' = entries \ {e}
      /\ directories \in Seq(Dirs) /\ files \in Seq(Files)
      /\ entries \subseteq Dirs \cup Files /\ Dirs \cap Files = {}
      /\ UNCHANGED <<disk, seen, patterns, faulty, globPaths, paths, next, opened,
                      length, got, reader, channel, receiver, keccak>>
  BY TreeConstants DEF Entry, promiseVars, projectVars, readVars, openVars, TypeOK
<1>2. PICK d \in Under(Root) :
        entries \subseteq Children[d] /\ \A o \in Pending : d \notin Under(o)
  BY <1>1 DEF RefineInv, TreeInv
<1>3. d \in Dirs /\ Root \in Dirs
  BY TreeConstants DEF Under
<1>4. /\ Pending' = Pending /\ Injective(directories')
      /\ entries' \cap InSeq(directories') = {}
  <2>1. CASE e \in Dirs \ Skipped
    <3>1. directories' = Append(directories, e)
      BY <2>1 DEF Entry, Descends
    <3>2. InSeq(directories') = InSeq(directories) \cup {e} /\ Injective(directories')
      BY <1>1, <2>1, <3>1, AppendInSeq DEF RefineInv, TreeInv
    <3>3. QED BY <1>1, <2>1, <3>2 DEF Pending, RefineInv, TreeInv
  <2>2. CASE e \notin Dirs \ Skipped
    <3>1. directories' = directories
      BY <2>2 DEF Entry, Descends
    <3>2. QED BY <1>1, <2>2, <3>1 DEF Pending, RefineInv, TreeInv
  <2>3. QED BY <2>1, <2>2
<1>5. TreeInv'
  BY <1>1, <1>2, <1>4 DEF RefineInv, TreeInv
<1>6. ASSUME NEW f \in Files PROVE Ahead(f)' <=> Ahead(f) /\ f # e
  <2>1. ASSUME f = e, NEW o \in Pending, NEW x \in Under(o), f \in Children[x]
        PROVE  FALSE
    <3>1. x \in Dirs
      BY DEF Under
    <3>2. x = d
      BY <1>2, <1>3, <2>1, <3>1, OneParent
    <3>3. QED BY <1>2, <3>2
  <2>2. QED BY <1>1, <1>4, <2>1 DEF Ahead
<1>7. Selected(globPaths)' = Selected(globPaths) /\ Selected(globPaths) \subseteq Files
  BY <1>1, HashConstants DEF Selected
<1>8. InSeq(files) \subseteq Files /\ \A f \in InSeq(files) : f # e
  <2>1. InSeq(files) \subseteq Files
    BY <1>1 DEF InSeq
  <2>2. Ahead(e)
    BY DEF Ahead
  <2>3. QED BY <1>1, <2>1, <2>2 DEF RefineInv, FoundInv
<1>9. FoundInv'
  <2>1. CASE e \in Files /\ Exists(e) /\ Includes(e)
    <3>1. files' = Append(files, e)
      BY <2>1 DEF Entry
    <3>2. InSeq(files') = InSeq(files) \cup {e} /\ Injective(files')
      BY <1>1, <1>8, <2>1, <3>1, AppendInSeq DEF RefineInv, FoundInv
    <3>3. e \in Selected(globPaths) /\ seen[e] # {Missing}
      <4>1. e \in Reachable
        BY <1>2, <2>1, TreeAssumption
      <4>2. disk[e] \in seen[e] /\ disk[e] # Missing
        BY <2>1 DEF RefineInv, SeenInv, Exists
      <4>3. QED BY <2>1, <4>1, <4>2 DEF Includes, Selected
    <3>4. QED BY <1>1, <1>6, <1>7, <1>8, <3>2, <3>3 DEF RefineInv, FoundInv
  <2>2. CASE ~(e \in Files /\ Exists(e) /\ Includes(e))
    <3>1. files' = files
      BY <2>2 DEF Entry
    <3>2. e \in Selected(globPaths) => Missing \in seen[e]
      <4> SUFFICES ASSUME e \in Selected(globPaths) PROVE Missing \in seen[e]
        OBVIOUS
      <4>1. e \in Files /\ Includes(e)
        BY <1>7 DEF Includes, Selected
      <4>2. disk[e] = Missing /\ disk[e] \in seen[e]
        BY <2>2, <4>1 DEF RefineInv, SeenInv, Exists
      <4>3. QED BY <4>2
    <3>3. QED BY <1>1, <1>6, <1>7, <1>8, <3>1, <3>2 DEF RefineInv, FoundInv
  <2>3. QED BY <2>1, <2>2
<1>10. QED
  BY <1>1, <1>5, <1>9
  DEF RefineInv, SeenInv, GlobInv, Matches, ListInv, ReadInv, IsPreimage, ArePieces, IsTrueOf

\* At its end nothing is ahead.
LEMMA WalkEnds ==
  ASSUME TypeOK, RefineInv, EndOfWalk
  PROVE  RefineInv'
<1>1. /\ pc = "walk" /\ pc' = "sort" /\ entries = {} /\ directories = <<>>
      /\ UNCHANGED <<disk, seen, patterns, faulty, globPaths, files, paths, next, opened,
                      length, got, reader, channel, receiver, keccak>>
  BY DEF EndOfWalk, promiseVars, projectVars, walkVars, readVars, openVars
<1>2. \A f : ~Ahead(f)
  BY <1>1 DEF Ahead, Pending, InSeq
<1>3. Selected(globPaths)' = Selected(globPaths)
  BY <1>1 DEF Selected
<1>4. QED
  BY <1>1, <1>2, <1>3
  DEF RefineInv, SeenInv, GlobInv, Matches, TreeInv, FoundInv, ListInv, ReadInv, IsPreimage, ArePieces, IsTrueOf

-----------------------------------------------------------------------------
(* The list.                                                               *)

\* The places of a file in a list are finitely many.
LEMMA PlacesFinite ==
  ASSUME NEW s \in Seq(Files), NEW f
  PROVE  IsFiniteSet({i \in 1 .. Len(s) : s[i] = f})
<1>1. IsFiniteSet(1 .. Len(s))
  BY FS_Interval, LenProperties
<1>2. QED BY <1>1, FS_Subset

\* A file found is listed once, the toolchain file once more.
LEMMA ListCopies ==
  ASSUME NEW s \in Seq(Files), Injective(s), NEW f \in Files
  PROVE  Occurrences(Append(s, Toolchain), f) = Copies(f, InSeq(s))
<1> DEFINE t == Append(s, Toolchain)
           n == Len(s) + 1
           P == {i \in 1 .. Len(t) : t[i] = f}
<1>1. /\ Len(t) = n /\ Len(s) \in Nat /\ t[n] = Toolchain
      /\ \A i \in 1 .. Len(s) : t[i] = s[i]
  BY HashConstants, AppendProperties, LenProperties
<1>2. \A i : i \in 1 .. Len(t) <=> i \in 1 .. Len(s) \/ i = n
  BY <1>1
<1>3. n \notin 1 .. Len(s)
  BY <1>1
<1>4. Occurrences(Append(s, Toolchain), f) = Cardinality(P)
  BY DEF Occurrences
<1>5. \A x : x \in P <=> x \in 1 .. Len(t) /\ t[x] = f
  OBVIOUS
<1> HIDE DEF t, n, P
<1>6. CASE f \notin InSeq(s)
  <2>1. P = IF f = Toolchain THEN {n} ELSE {}
    BY <1>1, <1>2, <1>6, <1>5 DEF InSeq
  <2>2. Cardinality(P) = IF f = Toolchain THEN 1 ELSE 0
    BY <2>1, FS_EmptySet, FS_Singleton
  <2>3. QED BY <1>6, <1>4, <2>2 DEF Copies
<1>7. CASE f \in InSeq(s)
  <2>1. PICK k \in 1 .. Len(s) : s[k] = f
    BY <1>7 DEF InSeq
  <2>2. \A i \in 1 .. Len(s) : s[i] = f <=> i = k
    BY <2>1 DEF Injective
  <2>3. P = IF f = Toolchain THEN {k} \cup {n} ELSE {k}
    BY <1>1, <1>2, <1>5, <2>1, <2>2
  <2>4. IsFiniteSet({k}) /\ Cardinality({k}) = 1 /\ n \notin {k}
    BY <1>3, <2>1, FS_Singleton
  <2>5. Cardinality({k} \cup {n}) = 1 + 1
    BY <2>4, FS_AddElement
  <2>6. CASE f = Toolchain
    <3>1. Cardinality(P) = 1 + 1
      BY <2>3, <2>5, <2>6
    <3>2. QED BY <1>7, <1>4, <2>6, <3>1 DEF Copies
  <2>7. CASE f # Toolchain
    <3>1. Cardinality(P) = 1
      BY <2>3, <2>4, <2>7
    <3>2. QED BY <1>7, <1>4, <2>7, <3>1 DEF Copies
  <2>8. QED BY <2>6, <2>7
<1>8. QED BY <1>6, <1>7

\* What is listed was found, or is the toolchain file.
LEMMA ListedIsFound ==
  ASSUME TypeOK, ListInv, pc = "receive", NEW i \in 1 .. Len(paths)
  PROVE  paths[i] \in Files /\ paths[i] \in InSeq(files) \cup {Toolchain}
<1>1. paths \in Seq(Files) /\ paths[i] \in Files
  BY DEF TypeOK
<1> DEFINE P == {j \in 1 .. Len(paths) : paths[j] = paths[i]}
<1>2. IsFiniteSet(P) /\ i \in P
  BY <1>1, PlacesFinite
<1> HIDE DEF P
<1>3. Cardinality(P) # 0
  BY <1>2, FS_EmptySet
<1>4. Copies(paths[i], InSeq(files)) # 0
  BY <1>1, <1>3 DEF ListInv, Occurrences, P
<1>5. QED BY <1>1, <1>4 DEF Copies

\* The list that the reader gets.
LEMMA SpawnKeeps ==
  ASSUME TypeOK, HashInv, RefineInv, Spawn
  PROVE  RefineInv'
<1>1. /\ pc = "sort" /\ pc' = "receive" /\ files \in Seq(Files)
      /\ UNCHANGED <<disk, seen, patterns, globPaths, files, entries, directories,
                      opened, length, got, channel, receiver, keccak>>
      /\ opened = Missing /\ channel = <<>> /\ keccak = <<>>
      /\ reader' = "opens" /\ got = <<>>
  BY DEF Spawn, promiseVars, projectVars, walkVars, openVars, TypeOK, HashInv, RefineInv,
         ReadInv
<1>2. IsSorted(paths') /\ \A f \in Files :
        Occurrences(paths', f) = Occurrences(Append(files, Toolchain), f)
  BY DEF Spawn, Sorts
<1>3. Injective(files)
  BY <1>1 DEF RefineInv, FoundInv
<1>4. ListInv'
  <2>1. ASSUME NEW f \in Files PROVE Occurrences(paths', f) = Copies(f, InSeq(files'))
    <3>1. Occurrences(paths', f) = Copies(f, InSeq(files)) /\ files' = files
      BY <1>1, <1>2, <1>3, ListCopies
    <3>2. QED BY <3>1
  <2>2. IsSorted(paths)'
    BY <1>2 DEF IsSorted
  <2>3. QED BY <2>1, <2>2 DEF ListInv
<1>5. ReadInv'
  BY <1>1 DEF ReadInv
<1>6. Selected(globPaths)' = Selected(globPaths)
  BY <1>1 DEF Selected
<1>7. QED
  BY <1>1, <1>4, <1>5, <1>6
  DEF RefineInv, SeenInv, GlobInv, Matches, TreeInv, FoundInv
-----------------------------------------------------------------------------
(* The reader, the digest and the end.                                     *)

\* The parts that speak of the project and of the walk alone.
WalkInv == SeenInv /\ GlobInv /\ TreeInv /\ FoundInv /\ ListInv

\* They stay when the threads have but the channel to work on.
LEMMA WalkStays ==
  ASSUME RefineInv, UNCHANGED <<pc, disk, seen, patterns, walkVars, paths>>
  PROVE  WalkInv'
BY SMTT(30) DEF RefineInv, WalkInv, SeenInv, GlobInv, Matches, TreeInv, Injective, InSeq, Pending,
       FoundInv, Selected, Ahead, ListInv, IsSorted, Occurrences, Copies, walkVars

\* Nothing is expected of the walk once hash_files has returned, or before it
\* has begun.
LEMMA WalkIdle ==
  ASSUME RefineInv, UNCHANGED <<disk, seen, paths, files, entries>>,
         \/ pc' \in {"returned", "exited"}
         \/ pc = "start" /\ pc' = "glob"
  PROVE  WalkInv'
BY DEF RefineInv, WalkInv, SeenInv, GlobInv, TreeInv, FoundInv, ListInv

\* What a file could not be read for, or what was read of it, is sent.
LEMMA SendKeeps ==
  ASSUME TypeOK, HashInv, RefineInv, next \in 1 .. Len(paths),
         NEW x \in Preimage \cup {Failed}, Sends(x),
         IF x = Failed THEN IsTrueOf(paths[next]) ELSE IsPreimage(x),
         UNCHANGED <<seen, faulty, paths, receiver, keccak>>
  PROVE  ReadInv'
<1>1. /\ channel \in Seq(Preimage \cup {Failed}) /\ Len(channel) \in Nat
      /\ keccak \in Seq(Preimage) /\ Len(keccak) \in Nat /\ next \in Nat
  BY LenProperties DEF TypeOK
<1>2. ASSUME receiver, NEW i \in 1 .. Len(channel')
      PROVE  IF channel'[i] = Failed THEN IsTrueOf(paths[Len(keccak) + i])
                                     ELSE IsPreimage(channel'[i])
  <2>1. channel' = Append(channel, x) /\ Len(keccak) + Len(channel) = next - 1
    BY <1>2 DEF Sends, HashInv
  <2>2. /\ Len(channel') = Len(channel) + 1 /\ channel'[Len(channel) + 1] = x
        /\ \A k \in 1 .. Len(channel) : channel'[k] = channel[k]
    BY <1>1, <2>1, AppendProperties
  <2>3. CASE i = Len(channel) + 1
    <3>1. Len(keccak) + i = next /\ channel'[i] = x
      BY <1>1, <2>1, <2>2, <2>3
    <3>2. QED BY <3>1
  <2>4. CASE i # Len(channel) + 1
    <3>1. i \in 1 .. Len(channel) /\ channel'[i] = channel[i]
      BY <1>1, <2>2, <2>4
    <3>2. QED BY <1>2, <3>1 DEF RefineInv, ReadInv
  <2>5. QED BY <2>3, <2>4
<1>3. reader' \in {"opens", "unheard"} /\ opened' = Missing /\ got' = <<>>
  BY DEF Sends
<1>4. QED BY <1>2, <1>3 DEF RefineInv, ReadInv, IsPreimage, IsTrueOf

\* One more piece, of what the file holds now.
LEMMA PieceKeeps ==
  ASSUME TypeOK, RefineInv, opened # Missing
  PROVE  ArePieces(WithPiece(got), paths[next])
<1>1. /\ opened \in seen[paths[next]] \cap Contents /\ ArePieces(got, paths[next])
      /\ got \in Seq(Contents)
  BY DEF RefineInv, ReadInv, TypeOK
<1>2. /\ Len(WithPiece(got)) = Len(got) + 1 /\ Len(got) \in Nat
      /\ \A k \in 1 .. Len(got) : WithPiece(got)[k] = got[k]
      /\ WithPiece(got)[Len(got) + 1] = opened
  BY <1>1, AppendProperties, LenProperties DEF WithPiece
<1>3. \A k : k \in 1 .. Len(got) + 1 <=> k \in 1 .. Len(got) \/ k = Len(got) + 1
  BY <1>2
<1>4. QED BY <1>1, <1>2, <1>3 DEF ArePieces

\* The reader opens a file for what it holds, and reads what it holds by then.
LEMMA ReaderRefines ==
  ASSUME TypeOK, HashInv, RefineInv, ReaderStep
  PROVE  RefineInv' /\ UNCHANGED promiseVars
<1>1. UNCHANGED <<promiseVars, pc, walkVars, paths, receiver, keccak>>
  BY DEF ReaderStep, Open, Measure, Read, Done
<1>2. WalkInv' /\ UNCHANGED <<seen, faulty, paths, receiver, keccak>>
  BY <1>1, WalkStays DEF promiseVars, projectVars
<1> SUFFICES ReadInv'
  BY <1>1, <1>2 DEF RefineInv, WalkInv
<1>3. CASE Open
  <2>1. next \in 1 .. Len(paths) /\ paths[next] \in Files
    BY <1>3 DEF Open, TypeOK
  <2>2. disk[paths[next]] \in seen[paths[next]] /\ disk[paths[next]] \in States
    BY <2>1 DEF RefineInv, SeenInv, TypeOK
  <2>3. CASE CanOpen(paths[next])
    <3>1. /\ opened' = disk[paths[next]] /\ reader' = "measures"
          /\ UNCHANGED <<next, got, channel>> /\ got = <<>>
      BY <1>3, <2>3 DEF Open, RefineInv, ReadInv, HashInv
    <3>2. opened' \in seen[paths[next]] \cap Contents /\ ArePieces(got, paths[next])
      BY <2>2, <2>3, <3>1 DEF CanOpen, ArePieces
    <3> HIDE DEF CanOpen
    <3>3. QED BY <1>2, <3>1, <3>2 DEF RefineInv, ReadInv, IsPreimage, ArePieces, IsTrueOf
  <2>4. CASE ~CanOpen(paths[next])
    <3>1. Sends(Failed)
      BY <1>3, <2>4 DEF Open
    <3>2. IsTrueOf(paths[next])
      BY <2>2, <2>4 DEF CanOpen, States, IsTrueOf
    <3>3. QED BY <1>2, <2>1, <3>1, <3>2, SendKeeps
  <2>5. QED BY <2>3, <2>4
<1>4. CASE Measure
  <2>1. /\ UNCHANGED <<next, got, channel>> /\ opened # Missing
        /\ \/ /\ reader' = "reads" /\ length' = LengthOf[opened] /\ opened' = opened
           \/ /\ reader' = "unmeasured" /\ faulty /\ opened' = Missing
    BY <1>4 DEF Measure, HashInv
  <2>2. opened \in seen[paths[next]] \cap Contents /\ got = <<>>
    BY <1>4, <2>1 DEF RefineInv, ReadInv, Measure
  <2>3. QED BY <1>2, <2>1, <2>2 DEF RefineInv, ReadInv, IsPreimage, ArePieces, IsTrueOf
<1>5. CASE Read
  <2>1. /\ next \in 1 .. Len(paths) /\ paths[next] \in Files /\ opened # Missing
        /\ reader = "reads"
    BY <1>5 DEF Read, TypeOK, HashInv
  <2>2. WithPiece(got) \in Seq(Contents) /\ ArePieces(WithPiece(got), paths[next])
    BY <2>1, PieceType, PieceKeeps
  <2> DEFINE x == [file |-> paths[next], length |-> length, contents |-> WithPiece(got)]
  <2>3. x \in Preimage /\ IsPreimage(x)
    BY <2>1, <2>2 DEF Preimage, IsPreimage, ArePieces, RefineInv, ReadInv, TypeOK
  <2>4. \/ UNCHANGED <<next, opened, length, reader, channel>> /\ got' = WithPiece(got)
        \/ Sends(x)
        \/ faulty /\ Sends(Failed)
    BY <1>5 DEF Read
  <2> HIDE DEF x
  <2>5. x # Failed
    BY <2>3, OutcomesAssumption
  <2>6. CASE UNCHANGED <<next, opened, length, reader, channel>> /\ got' = WithPiece(got)
    <3>1. ArePieces(got, paths[next])'
      BY <1>2, <2>2, <2>6 DEF ArePieces
    <3>2. QED BY <1>2, <2>1, <2>6, <3>1 DEF RefineInv, ReadInv, IsPreimage, IsTrueOf
  <2>7. CASE Sends(x)
    BY <1>2, <2>1, <2>3, <2>5, <2>7, SendKeeps
  <2>8. CASE faulty /\ Sends(Failed)
    BY <1>2, <2>1, <2>8, SendKeeps DEF IsTrueOf
  <2>9. QED BY <2>4, <2>6, <2>7, <2>8
<1>6. CASE Done
  BY <1>2, <1>6
  DEF Done, openVars, RefineInv, ReadInv, IsPreimage, ArePieces, IsTrueOf
<1>7. QED BY <1>3, <1>4, <1>5, <1>6 DEF ReaderStep

\* When hash_files returns, the reader is all that goes on.
LEMMA ReturnKeeps ==
  ASSUME HashInv, RefineInv, pc' \in {"returned", "exited"}, ~receiver',
         UNCHANGED <<disk, seen, faulty, paths, files, entries, next, opened, length, got,
                     reader, keccak>>
  PROVE  RefineInv'
<1>1. WalkInv'
  BY WalkIdle
<1>2. ReadInv'
  BY DEF RefineInv, ReadInv, IsPreimage, ArePieces, IsTrueOf
<1>3. QED BY <1>1, <1>2 DEF RefineInv, WalkInv

\* What is received was read, and the digest is of that.
LEMMA ReceiveRefines ==
  ASSUME TypeOK, HashInv, RefineInv, Receive, Head(channel) # Failed
  PROVE  RefineInv' /\ UNCHANGED promiseVars
<1>1. /\ keccak' = Append(keccak, Head(channel)) /\ channel' = Tail(channel)
      /\ UNCHANGED <<promiseVars, pc, walkVars, paths, next, openVars, reader, receiver>>
  BY DEF Receive, StopsAt, promiseVars
<1>2. /\ channel \in Seq(Preimage \cup {Failed}) /\ channel # <<>>
      /\ keccak \in Seq(Preimage) /\ Len(channel) \in Nat /\ Len(keccak) \in Nat
  BY LenProperties DEF TypeOK, Receive
<1>3. /\ Len(channel') = Len(channel) - 1 /\ Len(channel) >= 1
      /\ \A i \in 1 .. Len(channel') : channel'[i] = channel[i + 1]
      /\ Head(channel) = channel[1] /\ Head(channel) \in Preimage
  BY <1>1, <1>2, HeadTailProperties, EmptySeq
<1>4. /\ Len(keccak') = Len(keccak) + 1 /\ keccak'[Len(keccak) + 1] = Head(channel)
      /\ \A i \in 1 .. Len(keccak) : keccak'[i] = keccak[i]
  BY <1>1, <1>2, <1>3, AppendProperties
<1>5. receiver
  BY DEF HashInv, Receive
<1>6. IsPreimage(Head(channel))
  <2>1. 1 \in 1 .. Len(channel)
    BY <1>2, <1>3
  <2>2. QED BY <1>3, <1>5, <2>1 DEF RefineInv, ReadInv
<1>7. ASSUME NEW i \in 1 .. Len(keccak') PROVE IsPreimage(keccak'[i])
  <2>1. CASE i = Len(keccak) + 1
    BY <1>4, <1>6, <2>1
  <2>2. CASE i # Len(keccak) + 1
    <3>1. i \in 1 .. Len(keccak) /\ keccak'[i] = keccak[i]
      BY <1>2, <1>4, <2>2
    <3>2. QED BY <3>1 DEF RefineInv, ReadInv
  <2>3. QED BY <2>1, <2>2
<1>8. ASSUME NEW i \in 1 .. Len(channel')
      PROVE  IF channel'[i] = Failed THEN IsTrueOf(paths[Len(keccak') + i])
                                     ELSE IsPreimage(channel'[i])
  <2>1. i + 1 \in 1 .. Len(channel) /\ channel'[i] = channel[i + 1]
    BY <1>2, <1>3
  <2>2. Len(keccak') + i = Len(keccak) + (i + 1)
    BY <1>2, <1>4
  <2>3. QED BY <1>5, <2>1, <2>2 DEF RefineInv, ReadInv
<1>9. ReadInv'
  <2>1. UNCHANGED <<seen, faulty, opened, length, got, reader, paths, next, receiver>>
    BY <1>1 DEF promiseVars, projectVars, openVars
  <2>2. QED
    BY <1>7, <1>8, <2>1 DEF RefineInv, ReadInv, IsPreimage, ArePieces, IsTrueOf
<1>10. WalkInv'
  BY <1>1, WalkStays DEF promiseVars, projectVars
<1>11. QED BY <1>1, <1>9, <1>10 DEF RefineInv, WalkInv

-----------------------------------------------------------------------------
(* The refinement.                                                         *)

\* Patterns and files may always be matched as they are.
LEMMA SomeMatch ==
  ASSUME TypeOK, SeenInv
  PROVE  Matches # {}
<1> DEFINE m == {p \in patterns : disk[p[2]] # Missing}
<1>1. \A p \in patterns : p[2] \in Files
  BY ZenonT(40), HashConstants DEF TypeOK, Spelled
<1>2. \A p \in patterns : disk[p[2]] \in seen[p[2]]
  BY <1>1 DEF SeenInv
<1>3. m \in Matches
  BY <1>2 DEF Matches
<1>4. QED BY <1>3

\* An error that is received is of a file of the list.
LEMMA FailureIsTrue ==
  ASSUME TypeOK, HashInv, RefineInv, Receive, Head(channel) = Failed
  PROVE  Fails
<1>1. /\ outcome' = Failed /\ UNCHANGED projectVars
      /\ channel # <<>> /\ pc = "receive" /\ receiver /\ outcome = NoHash
  BY DEF Receive, StopsAt, Returns, HashInv
<1>2. /\ channel \in Seq(Preimage \cup {Failed}) /\ next \in Nat
      /\ Len(channel) \in Nat /\ Len(keccak) \in Nat /\ Len(paths) \in Nat
  BY LenProperties DEF TypeOK
<1>3. Head(channel) = channel[1] /\ Len(channel) >= 1
  BY <1>1, <1>2, HeadTailProperties, EmptySeq
<1>4. Len(keccak) + 1 \in 1 .. Len(paths)
  <2>1. Len(keccak) + Len(channel) = next - 1 /\ next <= Len(paths) + 1
    BY <1>1 DEF HashInv
  <2>2. QED BY <1>2, <1>3, <2>1
<1> DEFINE f == paths[Len(keccak) + 1]
<1>5. IsTrueOf(f)
  <2>1. 1 \in 1 .. Len(channel)
    BY <1>2, <1>3
  <2>2. QED BY <1>1, <1>3, <2>1 DEF RefineInv, ReadInv
<1>6. f \in Files /\ f \in InSeq(files) \cup {Toolchain}
  BY <1>1, <1>4, ListedIsFound DEF RefineInv
<1>7. f \in Selected(globPaths) \cup {Toolchain} /\ globPaths \in Matches
  BY <1>1, <1>6 DEF RefineInv, FoundInv, GlobInv
<1> HIDE DEF f
<1>8. QED BY <1>1, <1>5, <1>6, <1>7 DEF Fails, IsTrueOf

\* A hash that is returned is of the files selected, or, where the reader could
\* not measure one, of those before it.
LEMMA HashIsTrue ==
  ASSUME TypeOK, HashInv, RefineInv, Finalize
  PROVE  Hashes
<1>1. /\ outcome' = keccak /\ UNCHANGED projectVars /\ pc = "receive"
      /\ receiver /\ channel = <<>> /\ outcome = NoHash
      /\ reader = "done" \/ (reader = "unmeasured" /\ faulty)
      /\ keccak \in Seq(Preimage) /\ paths \in Seq(Files)
  BY DEF Finalize, Closed, Returns, HashInv, TypeOK, RefineInv, ReadInv
<1>2. /\ Len(keccak) \in Nat /\ Len(paths) \in Nat /\ Len(keccak) <= Len(paths)
      /\ reader = "done" => Len(keccak) = Len(paths)
  <2>1. Len(keccak) \in Nat /\ Len(paths) \in Nat /\ next \in Nat /\ Len(channel) = 0
    BY <1>1, LenProperties, EmptySeq DEF TypeOK
  <2>2. /\ Len(keccak) + Len(channel) = next - 1 /\ next <= Len(paths) + 1
        /\ reader = "done" => next = Len(paths) + 1
    BY <1>1 DEF HashInv
  <2>3. QED BY <2>1, <2>2
<1>3. \A i \in 1 .. Len(keccak) : keccak[i].file = paths[i] /\ i \in 1 .. Len(paths)
  BY <1>2 DEF HashInv
<1>4. keccak \notin {NoHash, Failed}
  BY <1>1, OutcomesAssumption
<1>5. globPaths \in Matches
  BY <1>1 DEF RefineInv, GlobInv
<1>6. InSeq(files) \in Found(globPaths)
  BY <1>1 DEF RefineInv, FoundInv, Found
<1>7. IsSorted(paths) /\ \A f \in Files : Occurrences(paths, f) = Copies(f, InSeq(files))
  BY <1>1 DEF RefineInv, ListInv
<1>8. Digests(keccak, InSeq(files))
  <2>1. \A i \in 1 .. Len(keccak) : IsPreimage(keccak[i])
    BY DEF RefineInv, ReadInv
  <2>2. \A i, j \in 1 .. Len(keccak) :
          i < j => Rank[keccak[i].file] <= Rank[keccak[j].file]
    BY <1>3, <1>7 DEF IsSorted
  <2>3. ASSUME NEW f \in Files
        PROVE  \/ Count(keccak, f) = Copies(f, InSeq(files))
               \/ /\ faulty /\ Count(keccak, f) <= Copies(f, InSeq(files))
                  /\ \A i \in 1 .. Len(keccak) : Rank[keccak[i].file] <= Rank[f]
    <3> DEFINE H == {i \in 1 .. Len(keccak) : keccak[i].file = f}
               P == {i \in 1 .. Len(paths) : paths[i] = f}
    <3>1. /\ H = P \cap (1 .. Len(keccak)) /\ IsFiniteSet(P)
          /\ Count(keccak, f) = Cardinality(H)
          /\ Cardinality(P) = Copies(f, InSeq(files))
      BY <1>1, <1>3, <1>7, PlacesFinite DEF Count, Occurrences
    <3>2. CASE H = P
      BY <3>1, <3>2
    <3>3. CASE H # P
      <4>1. PICK j \in 1 .. Len(paths) : paths[j] = f /\ j > Len(keccak)
        BY <1>2, <3>1, <3>3
      <4>2. ASSUME NEW i \in 1 .. Len(keccak) PROVE Rank[keccak[i].file] <= Rank[f]
        <5>1. i < j /\ i \in 1 .. Len(paths) /\ keccak[i].file = paths[i]
          BY <1>2, <1>3, <4>1
        <5>2. QED BY <1>7, <4>1, <5>1 DEF IsSorted
      <4>3. reader # "done"
        BY <1>2, <4>1
      <4>4. Cardinality(H) <= Cardinality(P)
        <5>1. H \subseteq P
          BY <3>1
        <5> HIDE DEF H, P
        <5>2. QED BY <3>1, <5>1, FS_Subset
      <4>5. QED BY <1>1, <3>1, <4>2, <4>3, <4>4
    <3>4. QED BY <3>2, <3>3
  <2>4. QED BY <2>1, <2>2, <2>3 DEF Digests
<1>9. QED BY <1>1, <1>4, <1>5, <1>6, <1>8 DEF Hashes

\* An edit adds to what files have held: what was read stays true.
LEMMA EditRefines ==
  ASSUME TypeOK, HashInv, RefineInv, Disturb
  PROVE  RefineInv'
<1>1. /\ Edit
      /\ UNCHANGED <<outcome, pc, globPaths, directories, entries, files, paths, next,
                      length, got, reader, channel, receiver, keccak>>
      /\ \/ opened' = opened
         \/ opened # Missing /\ opened' = disk'[paths[next]] /\ opened' \in Contents
  BY DEF Disturb, walkVars
<1>2. PICK f \in Files, s \in States :
        /\ disk' = [disk EXCEPT ![f] = s]
        /\ seen' = [seen EXCEPT ![f] = @ \cup {s}]
        /\ patterns' = patterns /\ faulty' = faulty
  BY <1>1 DEF Edit
<1>3. /\ \A g \in Files : seen[g] \subseteq seen'[g] /\ disk'[g] \in seen'[g]
      /\ \A g \in Files : seen[g] # {Missing} => seen'[g] # {Missing}
  <2>1. \A g \in Files : seen'[g] = IF g = f THEN seen[g] \cup {s} ELSE seen[g]
    BY <1>2 DEF TypeOK
  <2>2. \A g \in Files : disk'[g] = IF g = f THEN s ELSE disk[g]
    BY <1>2 DEF TypeOK
  <2>3. \A g \in Files : disk[g] \in seen[g]
    BY DEF RefineInv, SeenInv
  <2>4. ASSUME NEW g \in Files, seen[g] # {Missing} PROVE seen'[g] # {Missing}
    <3>1. PICK z \in seen[g] : z # Missing
      BY <2>3, <2>4
    <3>2. z \in seen'[g]
      BY <2>1, <3>1
    <3>3. QED BY <3>1, <3>2
  <2>5. \A g \in Files : seen[g] \subseteq seen'[g] /\ disk'[g] \in seen'[g]
    BY <2>1, <2>2, <2>3
  <2>6. QED BY <2>4, <2>5
<1>4. GlobInv'
  <2>1. \A p \in patterns : p[2] \in Files
    BY ZenonT(40), HashConstants DEF TypeOK, Spelled
  <2>2. QED BY <1>1, <1>2, <1>3, <2>1 DEF RefineInv, GlobInv, Matches
<1>5. TreeInv'
  BY <1>1 DEF RefineInv, TreeInv, Pending, Injective, InSeq
<1>6. FoundInv'
  <2>1. Selected(globPaths)' = Selected(globPaths) /\ Selected(globPaths) \subseteq Files
    BY <1>1, HashConstants DEF Selected
  <2>2. InSeq(files)' = InSeq(files) /\ InSeq(files) \subseteq Files
    BY <1>1 DEF InSeq, TypeOK
  <2>3. /\ Injective(files)' <=> Injective(files)
        /\ \A g : Ahead(g)' <=> Ahead(g)
    BY <1>1 DEF Injective, Ahead, Pending, InSeq
  <2>4. QED BY <1>1, <1>3, <2>1, <2>2, <2>3 DEF RefineInv, FoundInv
<1>7. ListInv'
  BY <1>1 DEF RefineInv, ListInv, IsSorted, Occurrences, Copies, InSeq
<1>8. ReadInv'
  <2>1. \A x \in Preimage : IsPreimage(x) => IsPreimage(x)'
    BY <1>3 DEF IsPreimage, Preimage
  <2>2. \A i \in 1 .. Len(keccak) : keccak[i] \in Preimage
    BY DEF TypeOK
  <2>3. \A i \in 1 .. Len(channel) : channel[i] \in Preimage \cup {Failed}
    BY DEF TypeOK
  <2>4. ASSUME receiver, NEW i \in 1 .. Len(channel)
        PROVE  paths[Len(keccak) + i] \in Files
    <3>1. /\ Len(keccak) \in Nat /\ Len(channel) \in Nat /\ Len(paths) \in Nat
          /\ next \in Nat /\ paths \in Seq(Files)
      BY LenProperties DEF TypeOK
    <3>2. Len(keccak) + Len(channel) = next - 1 /\ next <= Len(paths) + 1
      BY <2>4 DEF HashInv
    <3>3. Len(keccak) + i \in 1 .. Len(paths)
      BY <3>1, <3>2
    <3>4. QED BY <3>1, <3>3
  <2>5. opened # Missing => paths[next] \in Files
    BY DEF HashInv, TypeOK
  <2>6. opened' # Missing =>
          opened' \in seen'[paths[next]] \cap Contents /\ ArePieces(got, paths[next])'
    BY <1>1, <1>3, <2>5 DEF RefineInv, ReadInv, ArePieces
  <2>7. reader = "reads" => \E c \in seen'[paths[next]] \cap Contents : length = LengthOf[c]
    <3>1. reader = "reads" => opened # Missing
      BY DEF HashInv
    <3>2. QED BY <1>3, <2>5, <3>1 DEF RefineInv, ReadInv
  <2>8. \A i \in 1 .. Len(keccak) : IsPreimage(keccak[i])'
    BY <1>1, <2>1, <2>2 DEF RefineInv, ReadInv
  <2>9. ASSUME receiver, NEW i \in 1 .. Len(channel)
        PROVE  IF channel[i] = Failed THEN IsTrueOf(paths[Len(keccak) + i])'
                                      ELSE IsPreimage(channel[i])'
    <3>1. CASE channel[i] = Failed
      <4>1. IsTrueOf(paths[Len(keccak) + i])
        BY <2>9, <3>1 DEF RefineInv, ReadInv
      <4>2. seen[paths[Len(keccak) + i]] \subseteq seen'[paths[Len(keccak) + i]]
        BY <1>3, <2>4, <2>9
      <4>3. paths' = paths /\ keccak' = keccak /\ faulty' = faulty
        BY <1>1, <1>2
      <4>4. QED BY <3>1, <4>1, <4>2, <4>3 DEF IsTrueOf
    <3>2. CASE channel[i] # Failed
      <4>1. IsPreimage(channel[i]) /\ channel[i] \in Preimage
        BY <2>3, <2>9, <3>2 DEF RefineInv, ReadInv
      <4>2. channel' = channel
        BY <1>1
      <4>3. QED BY <2>1, <3>2, <4>1, <4>2
    <3>3. QED BY <3>1, <3>2
  <2>10. reader' # "reads" => got' = <<>>
    BY <1>1 DEF RefineInv, ReadInv
  <2>11. reader' = "unmeasured" => faulty'
    BY <1>1, <1>2 DEF RefineInv, ReadInv
  <2>12. QED
    BY <1>1, <2>6, <2>7, <2>8, <2>9, <2>10, <2>11 DEF ReadInv, IsPreimage, IsTrueOf
<1>9. QED BY <1>3, <1>4, <1>5, <1>6, <1>7, <1>8 DEF RefineInv, SeenInv

\* What a step of the promise is.
PromiseStep == (Edit /\ UNCHANGED outcome) \/ Hashes \/ Fails

\* Each step of the hashing thread makes a step of the promise, or none.
LEMMA MainRefines ==
  ASSUME TypeOK, HashInv, RefineInv, MainStep
  PROVE  RefineInv' /\ (PromiseStep \/ UNCHANGED promiseVars)
<1> USE DEF walkVars, readVars, openVars, Returns
<1>1. CASE CallFails
  <2>1. RefineInv'
    BY <1>1, ReturnKeeps DEF CallFails, projectVars
  <2>2. outcome = NoHash
    BY <1>1 DEF CallFails, HashInv
  <2>3. Fails
    BY <1>1, <2>2 DEF CallFails, Fails, projectVars
  <2>4. QED BY <2>1, <2>3 DEF PromiseStep
<1>2. CASE CheckToolchain /\ disk[Toolchain] = Missing
  <2>1. RefineInv'
    BY <1>2, ReturnKeeps DEF CheckToolchain, projectVars
  <2>2. outcome = NoHash
    BY <1>2 DEF CheckToolchain, HashInv
  <2>3. Missing \in seen[Toolchain] /\ Toolchain \in Files
    BY <1>2, HashConstants DEF RefineInv, SeenInv
  <2>4. PICK m \in Matches : TRUE
    BY SomeMatch DEF RefineInv
  <2>5. Fails
    BY <1>2, <2>2, <2>3, <2>4 DEF CheckToolchain, Fails
  <2>6. QED BY <2>1, <2>5 DEF PromiseStep
<1>3. CASE CheckToolchain /\ disk[Toolchain] # Missing
  <2>1. /\ pc = "start" /\ pc' = "glob" /\ UNCHANGED promiseVars
        /\ UNCHANGED <<walkVars, paths, readVars, receiver, keccak>>
    BY <1>3 DEF CheckToolchain, promiseVars
  <2>2. WalkInv'
    BY <2>1, WalkIdle DEF promiseVars, projectVars
  <2>3. ReadInv'
    BY <2>1
    DEF RefineInv, ReadInv, IsPreimage, ArePieces, IsTrueOf, promiseVars, projectVars
  <2>4. QED BY <2>1, <2>2, <2>3 DEF RefineInv, WalkInv
<1>4. CASE ExpandGlobs
  BY <1>4, WalkStarts DEF ExpandGlobs
<1>5. CASE ReadDir
  BY <1>5, WalkReads DEF ReadDir
<1>6. ASSUME NEW e \in entries, Entry(e)
      PROVE  RefineInv' /\ (PromiseStep \/ UNCHANGED promiseVars)
  BY <1>6, WalkYields DEF Entry
<1>7. CASE EndOfWalk
  BY <1>7, WalkEnds DEF EndOfWalk
<1>8. CASE Spawn
  BY <1>8, SpawnKeeps DEF Spawn
<1>9. CASE Receive /\ Head(channel) # Failed
  BY <1>9, ReceiveRefines
<1>10. CASE Receive /\ Head(channel) = Failed
  <2>1. RefineInv'
    BY <1>10, ReturnKeeps DEF Receive, StopsAt, projectVars
  <2>2. QED BY <1>10, <2>1, FailureIsTrue DEF PromiseStep
<1>11. CASE Finalize
  <2>1. RefineInv'
    BY <1>11, ReturnKeeps DEF Finalize, projectVars
  <2>2. QED BY <1>11, <2>1, HashIsTrue DEF PromiseStep
<1>12. CASE Exit
  <2>1. ~receiver
    BY <1>12 DEF Exit, HashInv
  <2>2. RefineInv'
    BY <1>12, <2>1, ReturnKeeps DEF Exit, promiseVars, projectVars
  <2>3. QED BY <1>12, <2>2 DEF Exit
<1>13. QED
  BY <1>1, <1>2, <1>3, <1>4, <1>5, <1>6, <1>7, <1>8, <1>9, <1>10, <1>11, <1>12 DEF MainStep

\* So does each step of the whole.
LEMMA StepRefines ==
  ASSUME TypeOK, HashInv, RefineInv, [Next]_vars
  PROVE  RefineInv' /\ [PromiseStep]_promiseVars
<1>1. CASE MainStep
  BY <1>1, MainRefines
<1>2. CASE ReaderStep
  BY <1>2, ReaderRefines
<1>3. CASE Disturb
  BY <1>3, EditRefines DEF Disturb, PromiseStep
<1>4. CASE UNCHANGED vars
  <2>1. WalkInv'
    BY <1>4, WalkStays DEF vars, promiseVars, projectVars, hashVars
  <2>2. ReadInv'
    BY <1>4
    DEF vars, promiseVars, projectVars, hashVars, readVars, openVars, RefineInv, ReadInv,
        IsPreimage, ArePieces, IsTrueOf
  <2>3. QED BY <1>4, <2>1, <2>2 DEF vars, RefineInv, WalkInv
<1>5. QED BY <1>1, <1>2, <1>3, <1>4 DEF Next

\* HashFiles implements HashPromise: the walk in any order, the sort, the two
\* threads and their channel make of the project's files the one hash that
\* HashPromise speaks of, or fail over a file that could not be read or a call
\* that failed, for every tree of files, every set of patterns and any number
\* of edits, also of the file that is being read.
THEOREM HashImplementsPromise == Spec => KeepsPromise
<1>1. Init => PromiseInit /\ RefineInv
  BY HashConstants
  DEF Init, PromiseInit, ProjectInit, RefineInv, SeenInv, GlobInv, TreeInv, FoundInv,
      ListInv, ReadInv
<1>2. TypeOK /\ HashInv /\ RefineInv /\ [Next]_vars
        => RefineInv' /\ [PromiseStep]_promiseVars
  BY StepRefines
<1>3. PromiseInit /\ [][PromiseStep]_promiseVars => KeepsPromise
  BY DEF PromiseStep, KeepsPromise, PromiseSpec
<1>4. QED BY <1>1, <1>2, <1>3, HashInvariant, PTL DEF Spec
=============================================================================
