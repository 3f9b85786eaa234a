-------------------------- MODULE ReproduceProofs ---------------------------
(***************************************************************************)
(* Proofs about Reproduce, for every project, every sequence of its        *)
(* versions, and any number of commands and working copies: what is        *)
(* verified, deployed and printed is what the sources compile to.          *)
(***************************************************************************)
EXTENDS Reproduce, TLAPS

\* The wasm files of every build of the project.
AllMade == UNION {Builds[v][f] : v \in Versions, f \in Features}

\* The steps between a command's own build and the compressing of its file, and
\* those at which it holds the code.
Reading == {"measure", "hash", "compress"}
Coded == {"check", "export", "submit", "compare"}
Told == {"deployed", "printed", "verified", "mismatch", "refused"}

HasCode(c) == pc[c] \in Coded \/ said[c] \in Told

\* A command works in its copy alone, and on sources.
Alone(c) == ~disturbed[c] /\ cfg[c].wasm = None

\* Where a command is, by what it is and what it has said.
PathInv(c) ==
  /\ pc[c] # "ended" => said[c] = "none"
  /\ pc[c] \in {"lookup", "clean", "compare"} => cfg[c].kind = "verify"
  /\ pc[c] = "submit" => cfg[c].kind # "verify"
  /\ pc[c] \in {"check", "export"} => cfg[c].kind # "initcode"
  /\ said[c] \in {"verified", "mismatch", "refused"} => cfg[c].kind = "verify"
  /\ said[c] \in {"deployed", "printed"} => cfg[c].kind # "verify"
  /\ said[c] = "deployed" => cfg[c].kind = "deploy"
  /\ cfg[c].kind = "verify" /\ (pc[c] \notin {"lookup", "ended"} \/ said[c] \in Told)
       => subject[c] \in txs

\* What it has built is in its copy, with the sources that it was built from.
BuildInv(c) ==
  LET made == Builds[built[c]][cfg[c].features] IN
  Alone(c) =>
    /\ pc[c] = "build" /\ cfg[c].kind = "verify" => deps[Copy(c)] = {}
    /\ pc[c] \in {"find"} \cup Reading \cup Coded =>
         built[c] \in Versions /\ source[Copy(c)] = built[c]
    /\ pc[c] \in {"find"} \cup Reading =>
         /\ crate[c] = CrateOf[built[c]]
         /\ made # {} /\ made \subseteq deps[Copy(c)]
         /\ cfg[c].kind = "verify" => deps[Copy(c)] = made
    /\ pc[c] \in Reading => <<path[c], crate[c]>> \in EndsWith

\* Its code is the body of a file whose name fits; in the contract's own name
\* there is no file but that of its build, and verify has no others at all.
CodeInv(c) ==
  LET made == Builds[built[c]][cfg[c].features] IN
  /\ HasCode(c) => code[c] \in Module /\ code[c].section = NoHash
  /\ Alone(c) /\ HasCode(c) =>
       /\ built[c] \in Versions
       /\ \E a \in AllMade :
            /\ code[c].body = a.body /\ a.crate = path[c]
            /\ <<a.crate, CrateOf[built[c]]>> \in EndsWith
            /\ cfg[c].kind = "verify" \/ a.crate = CrateOf[built[c]] => a \in made

\* A command that has looked for the constructor has done so in the sources that
\* it has built: deploy always, verify unless it is about a creation.
CtorInv(c) ==
  /\ cfg[c].kind = "initcode" => ctor[c] = None
  /\ (pc[c] \in {"submit", "compare"} \/ said[c] \in Told) /\ Alone(c) =>
       \/ ctor[c] = CtorOf[built[c]][NoFeatures]
       \/ cfg[c].kind = "initcode"
       \/ cfg[c].kind = "verify" /\ subject[c].via = "create"

\* What verify has said it has compared.
VerdictInv(c) ==
  LET t == subject[c] IN
  /\ said[c] = "verified" => t.code = code[c]
  /\ said[c] = "mismatch" => t.code # code[c] /\ t.code # None
  /\ said[c] = "refused" =>
       /\ t.via # "create"
       /\ \/ ctor[c] = None \/ t.via # "deployer"
          \/ t.code # code[c] \/ t.init # ctor[c]

\* What a command has put on chain.
Sent(d, t) ==
  /\ said[d] \in {"deployed", "printed"}
  /\ t.code = code[d] /\ t.init = ctor[d]
  /\ t.via = IF ctor[d] = None THEN "create" ELSE "deployer"

SentInv == \A t \in txs : t.by # None => Sent(t.by, t)

\* No wasm on chain has a project hash.
StrippedInv == \A t \in txs : t.code # None => t.code.section = NoHash

CmdInv(c) == PathInv(c) /\ BuildInv(c) /\ CodeInv(c) /\ CtorInv(c) /\ VerdictInv(c)

ReproduceInv ==
  /\ TypeOK
  /\ \A k \in Copies : deps[k] \subseteq AllMade
  /\ StrippedInv /\ SentInv
  /\ \A c \in Commands : CmdInv(c)

-----------------------------------------------------------------------------
(* Types.                                                                  *)

Steps == {"lookup", "clean", "build", "find", "measure", "hash", "compress", "check",
          "export", "submit", "compare", "ended"}

\* The code of a command is a module without a project hash.
LEMMA CompressedStripped ==
  ASSUME NEW m \in Module, NEW h \in Hashes
  PROVE  /\ Compressed(m, h) \in Module
         /\ Compressed(m, h).body = m.body /\ Compressed(m, h).section = NoHash
BY DEF Compressed, Strip, AddHash, Module

\* What compress_wasm reads is a module.
LEMMA WasmIsModule ==
  ASSUME TypeOK, NEW c \in Commands
  PROVE  Wasm(c) \subseteq Module
<1>1. cfg[c] \in Config /\ Copy(c) \in Copies
  BY ReproduceConstants DEF TypeOK, Config, Copy
<1>2. CASE cfg[c].wasm # None
  BY <1>1, <1>2 DEF Wasm, Config
<1>3. CASE cfg[c].wasm = None
  <2>1. \A a \in Picked(c) : a.body \in Bodies
    BY <1>1 DEF TypeOK, Picked, Artefact
  <2>2. Wasm(c) = {[body |-> a.body, section |-> NoHash] : a \in Picked(c)}
    BY <1>3 DEF Wasm
  <2>3. QED BY <2>1, <2>2 DEF Module
<1>4. QED BY <1>2, <1>3

\* A command's line, its copy and the files of its build.
LEMMA LineTypes ==
  ASSUME TypeOK, NEW c \in Commands
  PROVE  /\ cfg[c] \in Configs /\ cfg[c] \in Config /\ Copy(c) \in Copies
         /\ cfg[c].features \in Features /\ cfg[c].signature \in Ctors \cup {None}
         /\ cfg[c].wasm # None => cfg[c].kind = "deploy"
         /\ source[Copy(c)] \in Versions
         /\ \A v \in Versions : Builds[v][cfg[c].features] \subseteq Artefact
BY ReproduceConstants DEF TypeOK, Config, Copy

\* cargo leaves one file of a name.
LEMMA UpdatedUnique ==
  ASSUME NEW old \in SUBSET Artefact, NEW v \in Versions, NEW f \in Features,
         \A a, b \in old : a.crate = b.crate => a = b
  PROVE  /\ Updated(old, Builds[v][f]) \in SUBSET Artefact
         /\ \A a, b \in Updated(old, Builds[v][f]) : a.crate = b.crate => a = b
BY ReproduceConstants, BuildsAssumption DEF Updated

\* Where a step leads.
LEMMA WentTo ==
  ASSUME TypeOK, NEW c \in Commands, NEW step \in Steps, Goes(c, step)
  PROVE  /\ pc' \in [Commands -> Steps] /\ pc'[c] = step /\ said' = said
         /\ \A d \in Commands : d # c => pc'[d] = pc[d]
BY DEF TypeOK, Goes, Steps

\* How a command ends.
LEMMA EndedWith ==
  ASSUME TypeOK, NEW c \in Commands, NEW what \in Ended, Ends(c, what)
  PROVE  /\ pc' \in [Commands -> Steps] /\ pc'[c] = "ended"
         /\ said' \in [Commands -> Ended \cup {"none"}] /\ said'[c] = what
         /\ \A d \in Commands : d # c => pc'[d] = pc[d] /\ said'[d] = said[d]
BY DEF TypeOK, Ends, Steps

\* A command that fails says so.
LEMMA FailedWith ==
  ASSUME TypeOK, NEW c \in Commands, Fails(c)
  PROVE  \E what \in {"error", "panic"} : Ends(c, what)
BY DEF Fails

\* Every step of a command keeps the types.
LEMMA StepTypes ==
  ASSUME TypeOK, NEW c \in Commands, Step(c)
  PROVE  TypeOK'
<1> USE DEF Ended
<1>0. pc \in [Commands -> Steps] /\ said \in [Commands -> Ended \cup {"none"}]
  BY DEF TypeOK, Steps
<1>1. CASE Build(c)
  <2> DEFINE made == Builds[source[Copy(c)]][cfg[c].features]
  <2>1. crate' \in [Commands -> Crates \cup {None}]
    BY <1>1, LineTypes, ReproduceConstants DEF Build, TypeOK
  <2>2. CASE made = {}
    BY <1>0, <1>1, <2>1, <2>2, EndedWith DEF Build, TypeOK, Steps
  <2>3. CASE made # {}
    <3>1. /\ deps' = [deps EXCEPT ![Copy(c)] = Updated(@, made)]
          /\ built' = [built EXCEPT ![c] = source[Copy(c)]]
          /\ Disturbs(Copy(c), c) /\ Goes(c, "find")
      BY <1>1, <2>3 DEF Build
    <3>2. /\ deps' \in [Copies -> SUBSET Artefact]
          /\ \A k \in Copies : \A a, b \in deps'[k] : a.crate = b.crate => a = b
      <4>1. deps[Copy(c)] \in SUBSET Artefact
            /\ \A a, b \in deps[Copy(c)] : a.crate = b.crate => a = b
        BY LineTypes DEF TypeOK
      <4>2. /\ Updated(deps[Copy(c)], made) \in SUBSET Artefact
            /\ \A a, b \in Updated(deps[Copy(c)], made) : a.crate = b.crate => a = b
        <5>1. source[Copy(c)] \in Versions /\ cfg[c].features \in Features
          BY LineTypes
        <5> DEFINE v == source[Copy(c)]
                   f == cfg[c].features
                   old == deps[Copy(c)]
        <5>2. /\ old \in SUBSET Artefact /\ v \in Versions /\ f \in Features
              /\ \A a, b \in old : a.crate = b.crate => a = b
          BY <4>1, <5>1
        <5> HIDE DEF v, f, old
        <5>3. /\ Updated(old, Builds[v][f]) \in SUBSET Artefact
              /\ \A a, b \in Updated(old, Builds[v][f]) : a.crate = b.crate => a = b
          BY <5>2, UpdatedUnique
        <5>4. QED BY <5>3 DEF v, f, old
      <4> HIDE DEF made
      <4>3. QED BY <3>1, <4>2 DEF TypeOK
    <3>3. built' \in [Commands -> Versions \cup {None}]
      BY <3>1, LineTypes DEF TypeOK
    <3>4. disturbed' \in [Commands -> BOOLEAN]
      BY <3>1 DEF Disturbs, TypeOK
    <3>5. pc' \in [Commands -> Steps] /\ said' = said
      BY <3>1, WentTo DEF Steps
    <3>6. QED BY <1>1, <2>1, <3>2, <3>3, <3>4, <3>5 DEF Build, TypeOK, Steps
  <2>4. QED BY <2>2, <2>3
<1>2. CASE Find(c)
  <2>1. path' \in [Commands -> Crates \cup {None}]
    <3>1. CASE path' = path
      BY <3>1 DEF TypeOK
    <3>2. CASE path' # path
      <4>1. PICK a \in deps[Copy(c)] : path' = [path EXCEPT ![c] = a.crate]
        BY <1>2, <3>2 DEF Find
      <4>2. a \in Artefact
        BY <4>1, LineTypes DEF TypeOK
      <4>3. a.crate \in Crates
        BY <4>2 DEF Artefact
      <4>4. QED BY <4>1, <4>3 DEF TypeOK
    <3>3. QED BY <3>1, <3>2
  <2>2. pc' \in [Commands -> Steps] /\ said' \in [Commands -> Ended \cup {"none"}]
    BY <1>0, <1>2, FailedWith, EndedWith, WentTo DEF Find, Steps
  <2>3. QED BY <1>2, <2>1, <2>2 DEF Find, TypeOK, copyVars, Steps
<1>3. CASE Measure(c)
  <2>2. pc' \in [Commands -> Steps] /\ said' \in [Commands -> Ended \cup {"none"}]
    BY <1>0, <1>3, FailedWith, EndedWith, WentTo DEF Measure, Steps
  <2>3. QED BY <1>3, <2>2 DEF Measure, TypeOK, copyVars, Steps
<1>4. CASE Hash(c)
  <2>1. hash' \in [Commands -> Hashes]
    <3>1. hash' = hash \/ hash' = [hash EXCEPT ![c] = HashOf[source[Copy(c)]]]
      BY <1>4 DEF Hash
    <3>2. HashOf[source[Copy(c)]] \in Hashes
      BY LineTypes DEF Hashes
    <3>3. QED BY <3>1, <3>2 DEF TypeOK
  <2>2. pc' \in [Commands -> Steps] /\ said' \in [Commands -> Ended \cup {"none"}]
    BY <1>0, <1>4, FailedWith, EndedWith, WentTo DEF Hash, Steps
  <2>3. QED BY <1>4, <2>1, <2>2 DEF Hash, TypeOK, copyVars, Steps
<1>5. CASE Compress(c)
  <2>1. code' \in [Commands -> Module \cup {None}]
    <3>1. CASE code' = code
      BY <3>1 DEF TypeOK
    <3>2. CASE code' # code
      <4>1. PICK m \in Wasm(c) : code' = [code EXCEPT ![c] = Compressed(m, hash[c])]
        BY <1>5, <3>2 DEF Compress
      <4>2. m \in Module /\ hash[c] \in Hashes
        BY <4>1, WasmIsModule DEF TypeOK
      <4>3. Compressed(m, hash[c]) \in Module
        BY <4>2, CompressedStripped
      <4>4. QED BY <4>1, <4>3 DEF TypeOK
    <3>3. QED BY <3>1, <3>2
  <2>2. pc' \in [Commands -> Steps] /\ said' \in [Commands -> Ended \cup {"none"}]
    <3>1. AfterCompress(c) \in Steps
      BY DEF AfterCompress, Steps
    <3>2. QED BY <1>0, <1>5, <3>1, FailedWith, EndedWith, WentTo DEF Compress
  <2>3. QED BY <1>5, <2>1, <2>2 DEF Compress, TypeOK, copyVars, Steps
<1>6. CASE Check(c)
  <2>2. pc' \in [Commands -> Steps] /\ said' \in [Commands -> Ended \cup {"none"}]
    BY <1>0, <1>6, FailedWith, EndedWith, WentTo DEF Check, Steps
  <2>3. QED BY <1>6, <2>2 DEF Check, TypeOK, copyVars, Steps
<1>7. CASE Export(c)
  <2>1. ctor' \in [Commands -> Ctors \cup {None}]
    <3>1. ExportsCtor(c) \in Ctors \cup {None}
      <4>1. CASE cfg[c].wasm # None
        BY <4>1, LineTypes DEF ExportsCtor
      <4>2. CASE cfg[c].wasm = None
        <5>1. source[Copy(c)] \in Versions
          BY LineTypes
        <5>2. CtorOf[source[Copy(c)]][NoFeatures] \in Ctors \cup {None}
          BY <5>1, ReproduceConstants
        <5>3. QED BY <4>2, <5>2 DEF ExportsCtor
      <4>3. QED BY <4>1, <4>2
    <3>2. ctor' = ctor \/ ctor' = [ctor EXCEPT ![c] = ExportsCtor(c)]
      BY <1>7 DEF Export
    <3>3. QED BY <3>1, <3>2 DEF TypeOK
  <2>2. pc' \in [Commands -> Steps] /\ said' \in [Commands -> Ended \cup {"none"}]
    BY <1>0, <1>7, EndedWith, WentTo DEF Export, Steps
  <2>3. QED BY <1>7, <2>1, <2>2 DEF Export, TypeOK, copyVars, Steps
<1>8. CASE Submit(c)
  <2>1. txs' \subseteq Tx
    BY <1>8 DEF Submit, TypeOK, Tx
  <2>2. pc' \in [Commands -> Steps] /\ said' \in [Commands -> Ended \cup {"none"}]
    BY <1>0, <1>8, EndedWith DEF Submit
  <2>3. QED BY <1>8, <2>1, <2>2 DEF Submit, TypeOK, copyVars, Steps
<1>9. CASE Lookup(c)
  <2>1. subject' \in [Commands -> Tx \cup {None}]
    BY <1>9 DEF Lookup, TypeOK
  <2>2. pc' \in [Commands -> Steps] /\ said' \in [Commands -> Ended \cup {"none"}]
    BY <1>0, <1>9, EndedWith, WentTo DEF Lookup, Steps
  <2>3. QED BY <1>9, <2>1, <2>2 DEF Lookup, TypeOK, copyVars, Steps
<1>10. CASE Clean(c)
  <2>1. /\ deps' \in [Copies -> SUBSET Artefact]
        /\ \A k \in Copies : \A a, b \in deps'[k] : a.crate = b.crate => a = b
    BY <1>10 DEF Clean, Cleaned, TypeOK
  <2>2. pc' \in [Commands -> Steps] /\ said' \in [Commands -> Ended \cup {"none"}]
    BY <1>0, <1>10, EndedWith, WentTo DEF Clean, Steps
  <2>3. disturbed' \in [Commands -> BOOLEAN]
    BY <1>10 DEF Clean, Disturbs, TypeOK
  <2>4. QED BY <1>10, <2>1, <2>2, <2>3 DEF Clean, TypeOK, Steps
<1>11. CASE Compare(c)
  <2>1. pc' \in [Commands -> Steps] /\ said' \in [Commands -> Ended \cup {"none"}]
    BY <1>11, EndedWith DEF Compare, CompareCreation, CompareDeployment
  <2>2. QED BY <1>11, <2>1 DEF Compare, TypeOK, copyVars, Steps
<1>12. QED
  BY <1>1, <1>2, <1>3, <1>4, <1>5, <1>6, <1>7, <1>8, <1>9, <1>10, <1>11 DEF Step

\* So does an edit.
LEMMA EditTypes == ASSUME TypeOK, NEW k \in Copies, Edit(k) PROVE TypeOK'
<1>1. source' \in [Copies -> Versions] /\ edits' \in 0 .. MaxEdits
  BY ReproduceConstants DEF Edit, TypeOK
<1>2. disturbed' \in [Commands -> BOOLEAN]
  BY DEF Edit, TypeOK
<1>3. QED BY <1>1, <1>2 DEF Edit, TypeOK, cmdVars

-----------------------------------------------------------------------------
(* A command that does not move.                                           *)

\* Its variables are as they were, and what it counts on too, or it knows.
Rests(d) ==
  /\ pc'[d] = pc[d] /\ subject'[d] = subject[d] /\ crate'[d] = crate[d]
  /\ path'[d] = path[d] /\ hash'[d] = hash[d] /\ code'[d] = code[d]
  /\ ctor'[d] = ctor[d] /\ said'[d] = said[d] /\ built'[d] = built[d]
  /\ cfg' = cfg /\ txs \subseteq txs'
  /\ disturbed[d] => disturbed'[d]
  /\ ~disturbed'[d] /\ Working(d) => deps'[Copy(d)] = deps[Copy(d)]
  /\ ~disturbed'[d] /\ pc[d] # "ended" /\ built[d] # None =>
       source'[Copy(d)] = source[Copy(d)]

\* A step of one command leaves the others at rest.
LEMMA StepRests ==
  ASSUME TypeOK, NEW c \in Commands, Step(c), NEW d \in Commands, d # c
  PROVE  Rests(d)
<1>0. Copy(c) \in Copies /\ Copy(d) \in Copies
  BY LineTypes
<1> USE DEF TypeOK, Rests, copyVars, Goes, Ends, Fails
<1>1. CASE Build(c)
  BY ZenonT(40), <1>0, <1>1 DEF Build, Disturbs
<1>2. CASE Find(c)
  BY <1>2 DEF Find
<1>3. CASE Measure(c)
  BY <1>3 DEF Measure
<1>4. CASE Hash(c)
  BY <1>4 DEF Hash
<1>5. CASE Compress(c)
  BY <1>5 DEF Compress
<1>6. CASE Check(c)
  BY <1>6 DEF Check
<1>7. CASE Export(c)
  BY <1>7 DEF Export
<1>8. CASE Submit(c)
  BY <1>8 DEF Submit
<1>9. CASE Lookup(c)
  BY <1>9 DEF Lookup
<1>10. CASE Clean(c)
  BY <1>0, <1>10 DEF Clean, Disturbs
<1>11. CASE Compare(c)
  BY <1>11 DEF Compare, CompareCreation, CompareDeployment
<1>12. QED
  BY <1>1, <1>2, <1>3, <1>4, <1>5, <1>6, <1>7, <1>8, <1>9, <1>10, <1>11 DEF Step

\* An edit leaves all of them at rest.
LEMMA EditRests ==
  ASSUME TypeOK, NEW k \in Copies, Edit(k), NEW d \in Commands
  PROVE  Rests(d)
<1>1. Copy(d) \in Copies
  BY LineTypes
<1>2. QED BY <1>1 DEF Edit, Rests, cmdVars, TypeOK

\* A command at rest keeps its invariant.
LEMMA RestingKeeps ==
  ASSUME ReproduceInv, NEW d \in Commands, Rests(d)
  PROVE  CmdInv(d)'
<1>1. PathInv(d) /\ BuildInv(d) /\ CodeInv(d) /\ CtorInv(d) /\ VerdictInv(d)
  BY DEF ReproduceInv, CmdInv
<1>2. /\ PathInv(d)' /\ CtorInv(d)' /\ VerdictInv(d)'
  BY <1>1 DEF Rests, PathInv, CtorInv, VerdictInv, Alone
<1>3. CodeInv(d)'
  BY <1>1 DEF Rests, CodeInv, HasCode, Alone
<1>4. BuildInv(d)'
  <2>1. SUFFICES ASSUME Alone(d)' PROVE BuildInv(d)'
    BY DEF BuildInv
  <2>2. Alone(d) /\ ~disturbed'[d] /\ Copy(d)' = Copy(d)
    BY <2>1 DEF Alone, Rests, Copy
  <2>3. pc[d] \in {"find"} \cup Reading => Working(d)
    BY DEF Reading, Working
  <2>4. pc[d] = "build" /\ cfg[d].kind = "verify" => Working(d)
    BY DEF Working
  <2>5. pc[d] \in {"find"} \cup Reading \cup Coded => built[d] # None /\ pc[d] # "ended"
    BY <1>1, <2>2, ReproduceConstants DEF BuildInv, Reading, Coded
  <2>6. QED BY <1>1, <2>1, <2>2, <2>3, <2>4, <2>5 DEF BuildInv, Rests
<1>5. QED BY <1>2, <1>3, <1>4 DEF CmdInv

-----------------------------------------------------------------------------
(* A command that moves.                                                   *)

\* What a file of the build is, told from its name.
LEMMA OwnFile ==
  ASSUME TypeOK, NEW c \in Commands, NEW v \in Versions,
         Builds[v][cfg[c].features] # {},
         Builds[v][cfg[c].features] \subseteq deps[Copy(c)],
         NEW a \in deps[Copy(c)], a.crate = CrateOf[v]
  PROVE  a \in Builds[v][cfg[c].features]
<1>1. cfg[c].features \in Features /\ Copy(c) \in Copies
  BY LineTypes
<1>2. PICK b \in Builds[v][cfg[c].features] : b.crate = CrateOf[v]
  BY <1>1, BuildsAssumption
<1>3. a = b
  BY <1>1, <1>2 DEF TypeOK
<1>4. QED BY <1>2, <1>3

\* A command that ends with an error says nothing that has to be true.
LEMMA FailingKeeps ==
  ASSUME ReproduceInv, NEW c \in Commands, NEW what \in {"error", "panic"},
         Ends(c, what), UNCHANGED <<cfg, ctor>>
  PROVE  CmdInv(c)'
<1>1. /\ pc'[c] = "ended" /\ said'[c] = what
      /\ cfg[c].kind = "initcode" => ctor[c] = None
  BY EndedWith DEF ReproduceInv, Ended, CmdInv, CtorInv
<1>2. QED
  BY <1>1 DEF CmdInv, PathInv, BuildInv, CodeInv, CtorInv, VerdictInv, HasCode, Told,
              Reading, Coded

\* Cargo runs: what it makes is in the copy.
LEMMA BuildKeeps ==
  ASSUME ReproduceInv, NEW c \in Commands, Build(c)
  PROVE  CmdInv(c)'
<1> DEFINE made == Builds[source[Copy(c)]][cfg[c].features]
<1>0. TypeOK /\ CmdInv(c) /\ Copy(c) \in Copies /\ source[Copy(c)] \in Versions
      /\ cfg[c].features \in Features
  BY LineTypes DEF ReproduceInv
<1>1. CASE made = {}
  BY <1>1, FailingKeeps DEF Build
<1>2. CASE made # {}
  <2>1. /\ deps' = [deps EXCEPT ![Copy(c)] = Updated(@, made)]
        /\ built' = [built EXCEPT ![c] = source[Copy(c)]]
        /\ crate' = [crate EXCEPT ![c] = CrateOf[source[Copy(c)]]]
        /\ Disturbs(Copy(c), c) /\ Goes(c, "find") /\ pc[c] = "build"
        /\ UNCHANGED <<source, txs, cfg, subject, path, hash, code, ctor, edits>>
    BY <1>2 DEF Build
  <2>2. pc'[c] = "find" /\ said'[c] = "none"
    <3>1. "find" \in Steps
      BY DEF Steps
    <3>2. QED BY <1>0, <2>1, <3>1, WentTo DEF CmdInv, PathInv
  <2>3. deps'[Copy(c)] = Updated(deps[Copy(c)], made) /\ Copy(c)' = Copy(c)
        /\ built'[c] = source[Copy(c)] /\ crate'[c] = CrateOf[source[Copy(c)]]
    BY <1>0, <2>1 DEF TypeOK, Copy
  <2>4. made \subseteq Updated(deps[Copy(c)], made)
    BY DEF Updated
  <2>5. disturbed'[c] = disturbed[c]
    BY <1>0, <2>1 DEF Disturbs, TypeOK
  <2>6. deps[Copy(c)] = {} => Updated(deps[Copy(c)], made) = made
    BY DEF Updated
  <2>7. PathInv(c)'
    BY <1>0, <2>1, <2>2 DEF CmdInv, PathInv, Told
  <2>8. BuildInv(c)'
    <3>1. SUFFICES ASSUME Alone(c)' PROVE BuildInv(c)'
      BY DEF BuildInv
    <3>2. Alone(c)
      BY <2>1, <2>5, <3>1 DEF Alone
    <3>3. cfg[c].kind = "verify" => deps[Copy(c)] = {}
      BY <1>0, <2>1, <3>2 DEF CmdInv, BuildInv
    <3>4. Builds[built'[c]][cfg'[c].features] = made /\ cfg' = cfg
      BY <2>1, <2>3
    <3> HIDE DEF made
    <3>5. QED
      BY <1>0, <1>2, <2>1, <2>2, <2>3, <2>4, <2>6, <3>3, <3>4
         DEF BuildInv, Reading, Coded
  <2>9. CodeInv(c)' /\ CtorInv(c)' /\ VerdictInv(c)'
    BY <1>0, <2>1, <2>2 DEF CmdInv, CodeInv, HasCode, Coded, Told, CtorInv, VerdictInv
  <2>10. QED BY <2>7, <2>8, <2>9 DEF CmdInv
<1>3. QED BY <1>1, <1>2

\* A step before the code is there, which changes no file.
LEMMA ReadingKeeps ==
  ASSUME ReproduceInv, NEW c \in Commands, NEW step \in Reading,
         pc[c] \in {"find"} \cup Reading, Goes(c, step),
         UNCHANGED <<source, deps, txs, cfg, subject, crate, built, ctor, disturbed>>,
         Alone(c) => <<path'[c], crate[c]>> \in EndsWith
  PROVE  CmdInv(c)'
<1>1. TypeOK /\ CmdInv(c) /\ step \in Steps
  BY DEF ReproduceInv, Reading, Steps
<1>2. pc'[c] = step /\ said' = said /\ said[c] = "none"
  <2>1. said[c] = "none"
    BY <1>1 DEF CmdInv, PathInv, Reading
  <2>2. QED BY <1>1, <2>1, WentTo
<1>3. PathInv(c)'
  BY <1>1, <1>2 DEF CmdInv, PathInv, Reading, Told
<1>4. BuildInv(c)'
  <2>1. Copy(c)' = Copy(c) /\ Alone(c)' = Alone(c)
    BY DEF Copy, Alone
  <2>2. step # "build"
    BY DEF Reading
  <2>3. QED BY <1>1, <1>2, <2>1, <2>2 DEF CmdInv, BuildInv
<1>5. CodeInv(c)' /\ CtorInv(c)' /\ VerdictInv(c)'
  BY <1>1, <1>2 DEF CmdInv, CodeInv, HasCode, Coded, Told, CtorInv, VerdictInv, Reading
<1>6. QED BY <1>3, <1>4, <1>5 DEF CmdInv

\* The file found has a name that fits.
LEMMA FindKeeps ==
  ASSUME ReproduceInv, NEW c \in Commands, Find(c)
  PROVE  CmdInv(c)'
<1>1. CASE Fails(c)
  BY <1>1, FailedWith, FailingKeeps DEF Find, ReproduceInv
<1>2. CASE ~Fails(c)
  <2>1. PICK a \in deps[Copy(c)] : /\ IsWanted(a.crate, crate[c])
                                   /\ path' = [path EXCEPT ![c] = a.crate]
                                   /\ Goes(c, "measure")
    BY <1>2 DEF Find
  <2>2. <<path'[c], crate[c]>> \in EndsWith
    BY <2>1 DEF IsWanted, ReproduceInv, TypeOK
  <2>3. QED BY <2>1, <2>2, ReadingKeeps DEF Find, copyVars, Reading
<1>3. QED BY <1>1, <1>2

\* The first reading of the file.
LEMMA MeasureKeeps ==
  ASSUME ReproduceInv, NEW c \in Commands, Measure(c)
  PROVE  CmdInv(c)'
<1>1. CASE Fails(c)
  BY <1>1, FailedWith, FailingKeeps DEF Measure, ReproduceInv
<1>2. CASE ~Fails(c)
  <2>1. Goes(c, "hash") /\ path' = path
    BY <1>2 DEF Measure
  <2>2. Alone(c) => <<path'[c], crate[c]>> \in EndsWith
    BY <2>1 DEF ReproduceInv, CmdInv, BuildInv, Measure, Reading
  <2>3. QED BY <2>1, <2>2, ReadingKeeps DEF Measure, copyVars, Reading
<1>3. QED BY <1>1, <1>2

\* The hash of the sources.
LEMMA HashKeeps ==
  ASSUME ReproduceInv, NEW c \in Commands, Hash(c)
  PROVE  CmdInv(c)'
<1>1. CASE Fails(c)
  BY <1>1, FailedWith, FailingKeeps DEF Hash, ReproduceInv
<1>2. CASE ~Fails(c)
  <2>1. Goes(c, "compress") /\ path' = path
    BY <1>2 DEF Hash
  <2>2. Alone(c) => <<path'[c], crate[c]>> \in EndsWith
    BY <2>1 DEF ReproduceInv, CmdInv, BuildInv, Hash, Reading
  <2>3. QED BY <2>1, <2>2, ReadingKeeps DEF Hash, copyVars, Reading
<1>3. QED BY <1>1, <1>2

\* The second reading: the file is of the command's own build, unless others
\* have a name that fits, too.
LEMMA CompressKeeps ==
  ASSUME ReproduceInv, NEW c \in Commands, Compress(c)
  PROVE  CmdInv(c)'
<1>0. /\ TypeOK /\ CmdInv(c) /\ Copy(c) \in Copies
      /\ cfg[c].wasm # None => cfg[c].kind = "deploy"
  BY LineTypes DEF ReproduceInv
<1>1. CASE Fails(c)
  BY <1>1, FailedWith, FailingKeeps DEF Compress, ReproduceInv
<1>2. CASE ~Fails(c)
  <2>1. PICK m \in Wasm(c) : /\ code' = [code EXCEPT ![c] = Compressed(m, hash[c])]
                             /\ Goes(c, AfterCompress(c))
    BY <1>2 DEF Compress
  <2>2. /\ m \in Module /\ code'[c] = Compressed(m, hash[c])
        /\ code'[c] \in Module /\ code'[c].body = m.body /\ code'[c].section = NoHash
    <3>1. m \in Module /\ hash[c] \in Hashes
      BY <1>0, <2>1, WasmIsModule DEF TypeOK
    <3>2. code'[c] = Compressed(m, hash[c])
      BY <1>0, <2>1 DEF TypeOK
    <3>3. QED BY <3>1, <3>2, CompressedStripped
  <2>3. /\ pc'[c] \in {"submit", "check"} /\ said' = said /\ said[c] = "none"
        /\ pc'[c] = "submit" <=> cfg[c].kind = "initcode"
    <3>1. /\ AfterCompress(c) \in Steps /\ AfterCompress(c) \in {"submit", "check"}
          /\ AfterCompress(c) = "submit" <=> cfg[c].kind = "initcode"
      BY DEF AfterCompress, Steps
    <3>2. pc'[c] = AfterCompress(c) /\ said' = said
      BY <1>0, <2>1, <3>1, WentTo
    <3>3. said[c] = "none"
      BY <1>0 DEF CmdInv, PathInv, Compress
    <3>4. QED BY <3>1, <3>2, <3>3
  <2>4. UNCHANGED <<source, deps, txs, cfg, subject, path, ctor, built, disturbed>>
        /\ pc[c] = "compress"
    BY DEF Compress, copyVars
  <2>5. Copy(c)' = Copy(c) /\ Alone(c)' = Alone(c)
    BY <2>4 DEF Copy, Alone
  <2>6. PathInv(c)'
    BY <1>0, <2>3, <2>4 DEF CmdInv, PathInv, Told
  <2>7. BuildInv(c)'
    BY <1>0, <2>3, <2>4, <2>5 DEF CmdInv, BuildInv, Reading, Coded
  <2>8. CodeInv(c)'
    <3>1. ASSUME Alone(c)
          PROVE  /\ built[c] \in Versions
                 /\ \E a \in AllMade :
                      /\ m.body = a.body /\ a.crate = path[c]
                      /\ <<a.crate, CrateOf[built[c]]>> \in EndsWith
                      /\ cfg[c].kind = "verify" \/ a.crate = CrateOf[built[c]] =>
                           a \in Builds[built[c]][cfg[c].features]
      <4>1. /\ built[c] \in Versions /\ crate[c] = CrateOf[built[c]]
            /\ Builds[built[c]][cfg[c].features] # {}
            /\ Builds[built[c]][cfg[c].features] \subseteq deps[Copy(c)]
            /\ cfg[c].kind = "verify" =>
                 deps[Copy(c)] = Builds[built[c]][cfg[c].features]
            /\ <<path[c], crate[c]>> \in EndsWith
        BY <1>0, <2>4, <3>1 DEF CmdInv, BuildInv, Reading
      <4>2. PICK a \in Picked(c) : m = [body |-> a.body, section |-> NoHash]
        BY <2>1, <3>1 DEF Wasm, Alone
      <4>3. a \in deps[Copy(c)] /\ a.crate = path[c] /\ a \in AllMade /\ m.body = a.body
        BY <1>0, <4>2 DEF Picked, ReproduceInv
      <4>4. a.crate = CrateOf[built[c]] => a \in Builds[built[c]][cfg[c].features]
        BY <1>0, <4>1, <4>3, OwnFile
      <4>5. QED BY <4>1, <4>3, <4>4
    <3>2. QED BY <2>2, <2>4, <2>5, <3>1 DEF CodeInv
  <2>9. CtorInv(c)' /\ VerdictInv(c)'
    BY <1>0, <2>3, <2>4 DEF CmdInv, CtorInv, VerdictInv, Told
  <2>10. QED BY <2>6, <2>7, <2>8, <2>9 DEF CmdInv
<1>3. QED BY <1>1, <1>2

\* A step that keeps the code and says nothing.
LEMMA CodedKeeps ==
  ASSUME ReproduceInv, NEW c \in Commands, NEW step \in Coded \ {"check"},
         pc[c] \in Coded \ {"submit"}, Goes(c, step),
         UNCHANGED <<source, deps, txs, cfg, subject, path, code, built, disturbed>>,
         step = "compare" => cfg[c].kind = "verify",
         step = "submit" => cfg[c].kind # "verify",
         cfg[c].kind # "initcode",
         \/ step = "export" \/ ctor'[c] = ExportsCtor(c)
         \/ cfg[c].kind = "verify" /\ subject[c].via = "create"
  PROVE  CmdInv(c)'
<1>1. TypeOK /\ CmdInv(c) /\ step \in Steps
  BY DEF ReproduceInv, Coded, Steps
<1>2. pc'[c] = step /\ said' = said /\ said[c] = "none"
  <2>1. said[c] = "none"
    BY <1>1 DEF CmdInv, PathInv, Coded
  <2>2. QED BY <1>1, <2>1, WentTo
<1>3. Copy(c)' = Copy(c) /\ Alone(c)' = Alone(c)
  BY DEF Copy, Alone
<1>4. PathInv(c)'
  BY <1>1, <1>2 DEF CmdInv, PathInv, Coded, Told
<1>5. Alone(c) => built[c] \in Versions /\ source[Copy(c)] = built[c]
  BY <1>1 DEF CmdInv, BuildInv, Coded
<1>6. BuildInv(c)'
  BY <1>2, <1>3, <1>5 DEF BuildInv, Coded, Reading
<1>7. CodeInv(c)'
  BY <1>1, <1>2, <1>3 DEF CmdInv, CodeInv, HasCode
<1>8. CtorInv(c)'
  BY <1>2, <1>3, <1>5 DEF CtorInv, Alone, ExportsCtor, Coded, Told
<1>9. VerdictInv(c)'
  BY <1>2 DEF VerdictInv
<1>10. QED BY <1>4, <1>6, <1>7, <1>8, <1>9 DEF CmdInv

\* The chain answers.
LEMMA CheckKeeps ==
  ASSUME ReproduceInv, NEW c \in Commands, Check(c)
  PROVE  CmdInv(c)'
<1>1. CASE Fails(c)
  BY <1>1, FailedWith, FailingKeeps DEF Check, ReproduceInv
<1>2. CASE ~Fails(c)
  <2>1. cfg[c].kind # "initcode"
    BY DEF ReproduceInv, CmdInv, PathInv, Check
  <2>2. QED BY <1>2, <2>1, CodedKeeps DEF Check, copyVars, Coded
<1>3. QED BY <1>1, <1>2

\* The constructor is looked for in the sources that were built.
LEMMA ExportKeeps ==
  ASSUME ReproduceInv, NEW c \in Commands, Export(c)
  PROVE  CmdInv(c)'
<1>1. CASE Ends(c, "error") /\ UNCHANGED ctor
  BY <1>1, FailingKeeps DEF Export
<1>2. CASE ~(Ends(c, "error") /\ UNCHANGED ctor)
  <2>1. cfg[c].kind # "initcode" /\ ctor'[c] = ExportsCtor(c)
    BY <1>2 DEF Export, ReproduceInv, TypeOK, CmdInv, PathInv
  <2>2. QED BY <1>2, <2>1, CodedKeeps DEF Export, copyVars, Coded
<1>3. QED BY <1>1, <1>2

\* A deployment is sent, or printed.
LEMMA SubmitKeeps ==
  ASSUME ReproduceInv, NEW c \in Commands, Submit(c)
  PROVE  CmdInv(c)'
<1>1. TypeOK /\ CmdInv(c) /\ pc[c] = "submit" /\ cfg[c].kind # "verify"
  BY DEF ReproduceInv, CmdInv, PathInv, Submit
<1>2. /\ pc'[c] = "ended" /\ said'[c] \in {"deployed", "printed"}
      /\ said'[c] = "deployed" => cfg[c].kind = "deploy"
  <2>1. PICK what \in {"deployed", "printed"} :
          Ends(c, what) /\ (what = "deployed" => cfg[c].kind = "deploy")
    BY DEF Submit
  <2>2. QED BY <1>1, <2>1, EndedWith DEF Ended
<1>3. UNCHANGED <<source, deps, cfg, subject, path, code, ctor, built, disturbed>>
  BY DEF Submit, copyVars
<1>4. Alone(c)' = Alone(c)
  BY <1>3 DEF Alone
<1>5. PathInv(c)'
  BY <1>1, <1>2, <1>3 DEF PathInv
<1>6. BuildInv(c)' /\ VerdictInv(c)'
  BY <1>2 DEF BuildInv, VerdictInv, Reading, Coded
<1>7. CodeInv(c)'
  <2>1. HasCode(c)
    BY <1>1 DEF HasCode, Coded
  <2>2. QED BY <1>1, <1>3, <1>4, <2>1 DEF CmdInv, CodeInv
<1>8. CtorInv(c)'
  BY <1>1, <1>3, <1>4 DEF CmdInv, CtorInv
<1>9. QED BY <1>5, <1>6, <1>7, <1>8 DEF CmdInv

\* verify has its transaction.
LEMMA LookupKeeps ==
  ASSUME ReproduceInv, NEW c \in Commands, Lookup(c)
  PROVE  CmdInv(c)'
<1>0. TypeOK /\ CmdInv(c) /\ pc[c] = "lookup"
  BY DEF ReproduceInv, Lookup
<1>1. CASE Ends(c, "error")
  BY <1>1, FailingKeeps DEF Lookup
<1>2. CASE ~Ends(c, "error")
  <2>1. PICK t \in txs : subject' = [subject EXCEPT ![c] = t] /\ Goes(c, "clean")
    BY <1>2 DEF Lookup
  <2>2. pc'[c] = "clean" /\ said'[c] = "none" /\ subject'[c] = t
    <3>1. "clean" \in Steps
      BY DEF Steps
    <3>2. QED BY <1>0, <2>1, <3>1, WentTo DEF CmdInv, PathInv, TypeOK
  <2>3. QED
    BY <1>0, <2>1, <2>2
       DEF Lookup, CmdInv, PathInv, BuildInv, CodeInv, CtorInv, VerdictInv, HasCode,
           Told, Reading, Coded
<1>3. QED BY <1>1, <1>2

\* verify has an empty directory.
LEMMA CleanKeeps ==
  ASSUME ReproduceInv, NEW c \in Commands, Clean(c)
  PROVE  CmdInv(c)'
<1>0. TypeOK /\ CmdInv(c) /\ pc[c] = "clean" /\ Copy(c) \in Copies
  BY LineTypes DEF ReproduceInv, Clean
<1>1. CASE Ends(c, "error")
  BY <1>1, FailingKeeps DEF Clean
<1>2. CASE ~Ends(c, "error")
  <2>1. /\ pc'[c] = "build" /\ said'[c] = "none" /\ deps'[Copy(c)] = {}
        /\ Copy(c)' = Copy(c)
    <3>1. Goes(c, "build") /\ deps' = [deps EXCEPT ![Copy(c)] = {}] /\ cfg' = cfg
      BY <1>2 DEF Clean, Cleaned
    <3>2. "build" \in Steps
      BY DEF Steps
    <3>3. pc'[c] = "build" /\ said'[c] = "none"
      BY <1>0, <3>1, <3>2, WentTo DEF CmdInv, PathInv
    <3>4. QED BY <1>0, <3>1, <3>3 DEF TypeOK, Copy
  <2>2. PathInv(c)'
    BY <1>0, <2>1 DEF Clean, CmdInv, PathInv, Told
  <2>3. BuildInv(c)'
    BY <2>1 DEF BuildInv, Reading, Coded
  <2>4. CodeInv(c)' /\ CtorInv(c)' /\ VerdictInv(c)'
    BY <1>0, <2>1
       DEF Clean, CmdInv, CodeInv, CtorInv, VerdictInv, HasCode, Told, Coded
  <2>5. QED BY <2>2, <2>3, <2>4 DEF CmdInv
<1>3. QED BY <1>1, <1>2

\* verify says what it has compared.
LEMMA CompareKeeps ==
  ASSUME ReproduceInv, NEW c \in Commands, Compare(c)
  PROVE  CmdInv(c)'
<1>1. TypeOK /\ CmdInv(c) /\ pc[c] = "compare" /\ cfg[c].kind = "verify"
      /\ subject[c] \in txs
  BY DEF ReproduceInv, CmdInv, PathInv, Compare
<1>2. UNCHANGED <<source, deps, txs, cfg, subject, path, code, ctor, built, disturbed>>
  BY DEF Compare, copyVars
<1>3. PICK what \in {"panic", "verified", "mismatch", "refused"} :
        /\ Ends(c, what)
        /\ what = "verified" => subject[c].code = code[c]
        /\ what = "mismatch" => subject[c].code # code[c] /\ subject[c].code # None
        /\ what = "refused" =>
             /\ subject[c].via # "create"
             /\ \/ ctor[c] = None \/ subject[c].via # "deployer"
                \/ subject[c].code # code[c] \/ subject[c].init # ctor[c]
  <2>1. CASE CompareCreation(c)
    BY <2>1 DEF CompareCreation
  <2>2. CASE CompareDeployment(c)
    BY <2>2 DEF CompareDeployment
  <2>3. QED BY <2>1, <2>2 DEF Compare
<1>4. pc'[c] = "ended" /\ said'[c] = what
  BY <1>1, <1>3, EndedWith DEF Ended
<1>5. Alone(c)' = Alone(c)
  BY <1>2 DEF Alone
<1>6. PathInv(c)'
  BY <1>1, <1>2, <1>4 DEF PathInv
<1>7. BuildInv(c)' /\ CtorInv(c)'
  BY <1>1, <1>2, <1>4, <1>5 DEF CmdInv, BuildInv, CtorInv, Reading, Coded
<1>8. CodeInv(c)'
  <2>1. HasCode(c)
    BY <1>1 DEF HasCode, Coded
  <2>2. QED BY <1>1, <1>2, <1>5, <2>1 DEF CmdInv, CodeInv
<1>9. VerdictInv(c)'
  BY <1>2, <1>3, <1>4 DEF VerdictInv
<1>10. QED BY <1>6, <1>7, <1>8, <1>9 DEF CmdInv

-----------------------------------------------------------------------------
(* The invariant.                                                          *)

\* A command that moves keeps its own invariant.
LEMMA MovingKeeps ==
  ASSUME ReproduceInv, NEW c \in Commands, Step(c)
  PROVE  CmdInv(c)'
BY BuildKeeps, FindKeeps, MeasureKeeps, HashKeeps, CompressKeeps, CheckKeeps,
   ExportKeeps, SubmitKeeps, LookupKeeps, CleanKeeps, CompareKeeps DEF Step

\* Files come from builds only, and what is sent has no hash.
LEMMA SharedKeeps ==
  ASSUME ReproduceInv, NEW c \in Commands, Step(c)
  PROVE  (\A k \in Copies : deps'[k] \subseteq AllMade) /\ StrippedInv' /\ SentInv'
<1>0. TypeOK /\ Copy(c) \in Copies /\ source[Copy(c)] \in Versions
      /\ cfg[c].features \in Features
  BY LineTypes DEF ReproduceInv
<1>1. ASSUME NEW k \in Copies PROVE deps'[k] \subseteq AllMade
  <2> DEFINE made == Builds[source[Copy(c)]][cfg[c].features]
  <2>1. deps' = deps
        \/ deps' = [deps EXCEPT ![Copy(c)] = Updated(@, made)]
        \/ \E left \in SUBSET deps[Copy(c)] : deps' = [deps EXCEPT ![Copy(c)] = left]
    BY DEF Step, Build, Find, Measure, Hash, Compress, Check, Export, Submit, Lookup,
           Clean, Cleaned, Compare, copyVars
  <2>2. made \subseteq AllMade
    BY <1>0 DEF AllMade
  <2> HIDE DEF made
  <2>3. Updated(deps[Copy(c)], made) \subseteq made \cup deps[Copy(c)]
    BY DEF Updated
  <2>4. deps[k] \subseteq AllMade /\ deps[Copy(c)] \subseteq AllMade
    BY <1>0 DEF ReproduceInv
  <2>5. QED BY <1>0, <2>1, <2>2, <2>3, <2>4 DEF TypeOK
<1>2. StrippedInv'
  <2>1. CASE Submit(c)
    <3>1. code[c].section = NoHash
      BY <2>1 DEF ReproduceInv, CmdInv, CodeInv, HasCode, Coded, Submit
    <3>2. PICK via \in {"deployer", "create"} :
            txs' = txs \cup {[via |-> via, code |-> code[c], init |-> ctor[c], by |-> c]}
      BY <2>1 DEF Submit
    <3>3. \A t \in txs' : t \in txs \/ t.code = code[c]
      BY <3>2
    <3>4. QED BY <3>1, <3>3 DEF ReproduceInv, StrippedInv
  <2>2. CASE ~Submit(c)
    <3>1. txs' = txs
      BY <2>2 DEF Step, Build, Find, Measure, Hash, Compress, Check, Export, Lookup,
                  Clean, Compare
    <3>2. QED BY <3>1 DEF ReproduceInv, StrippedInv
  <2>3. QED BY <2>1, <2>2
<1>3. SentInv'
  <2>1. CASE Submit(c)
    <3>1. PICK what \in {"deployed", "printed"} : Ends(c, what)
      BY <2>1 DEF Submit
    <3>2. said'[c] \in {"deployed", "printed"} /\ code' = code /\ ctor' = ctor
      BY <1>0, <2>1, <3>1, EndedWith DEF Submit, Ended
    <3>3. ASSUME NEW t \in txs', t.by # None PROVE Sent(t.by, t)'
      <4>1. CASE t \in txs
        <5>1. Sent(t.by, t)
          BY <3>3, <4>1 DEF ReproduceInv, SentInv
        <5>2. said'[t.by] \in {"deployed", "printed"}
          BY <1>0, <3>1, <3>2, <3>3, <4>1, <5>1, EndedWith
             DEF Ended, Sent, TypeOK, Tx
        <5>3. QED BY <3>2, <5>1, <5>2 DEF Sent
      <4>2. CASE t \notin txs
        <5>1. t = [via |-> IF ctor[c] = None THEN "create" ELSE "deployer",
                   code |-> code[c], init |-> ctor[c], by |-> c]
          BY <2>1, <3>3, <4>2 DEF Submit
        <5>2. QED BY <3>2, <5>1 DEF Sent
      <4>3. QED BY <4>1, <4>2
    <3>4. QED BY <3>3 DEF SentInv
  <2>2. CASE ~Submit(c)
    <3>1. txs' = txs
      BY <2>2 DEF Step, Build, Find, Measure, Hash, Compress, Check, Export, Lookup,
                  Clean, Compare
    <3>2. ASSUME NEW t \in txs, t.by # None PROVE Sent(t.by, t)'
      <4>1. Sent(t.by, t) /\ t.by \in Commands
        BY <1>0, <3>2 DEF ReproduceInv, SentInv, TypeOK, Tx
      <4>2. pc[t.by] = "ended"
        BY <4>1 DEF ReproduceInv, CmdInv, PathInv, Sent
      <4>3. t.by # c
        BY <4>2 DEF Step, Build, Find, Measure, Hash, Compress, Check, Export, Submit,
                    Lookup, Clean, Compare
      <4>4. Rests(t.by)
        BY <1>0, <4>1, <4>3, StepRests
      <4>5. QED BY <4>1, <4>4 DEF Sent, Rests
    <3>3. QED BY <3>1, <3>2 DEF SentInv
  <2>3. QED BY <2>1, <2>2
<1>4. QED BY <1>1, <1>2, <1>3

\* Every step keeps the invariant.
LEMMA NextKeeps == ASSUME ReproduceInv, [Next]_vars PROVE ReproduceInv'
<1>1. ASSUME NEW c \in Commands, Step(c) PROVE ReproduceInv'
  <2>1. TypeOK'
    BY <1>1, StepTypes DEF ReproduceInv
  <2>2. ASSUME NEW d \in Commands PROVE CmdInv(d)'
    <3>1. CASE d = c
      BY <1>1, <3>1, MovingKeeps
    <3>2. CASE d # c
      BY <1>1, <3>2, StepRests, RestingKeeps DEF ReproduceInv
    <3>3. QED BY <3>1, <3>2
  <2>3. AllMade' = AllMade
    BY DEF AllMade
  <2>4. QED BY <1>1, <2>1, <2>2, <2>3, SharedKeeps DEF ReproduceInv
<1>2. ASSUME NEW k \in Copies, Edit(k) PROVE ReproduceInv'
  <2>1. TypeOK'
    BY <1>2, EditTypes DEF ReproduceInv
  <2>2. \A d \in Commands : CmdInv(d)'
    BY <1>2, EditRests, RestingKeeps DEF ReproduceInv
  <2>3. UNCHANGED <<deps, txs, said, code, ctor>>
    BY <1>2 DEF Edit, cmdVars
  <2>4. QED BY <2>1, <2>2, <2>3 DEF ReproduceInv, StrippedInv, SentInv, Sent
<1>3. CASE UNCHANGED vars
  <2>1. UNCHANGED <<source, deps, txs, cfg, pc, subject, crate, path, hash, code, ctor,
                    said, built, disturbed, edits>>
    BY <1>3 DEF vars, copyVars, cmdVars
  <2>2. TypeOK' /\ StrippedInv' /\ SentInv'
    BY <2>1 DEF ReproduceInv, TypeOK, StrippedInv, SentInv, Sent
  <2>3. ASSUME NEW d \in Commands PROVE CmdInv(d)'
    <3>1. Rests(d)
      BY <2>1 DEF Rests
    <3>2. QED BY <3>1, RestingKeeps
  <2>4. QED BY <2>1, <2>2, <2>3 DEF ReproduceInv
<1>4. QED BY <1>1, <1>2, <1>3 DEF Next

\* It holds at the start.
LEMMA InitHolds == ASSUME Init PROVE ReproduceInv
<1>1. \A c \in Commands :
        /\ FirstStep(cfg[c]) \in {"lookup", "compress", "build"}
        /\ FirstStep(cfg[c]) = "lookup" <=> cfg[c].kind = "verify"
  <2>1. \A c \in Commands : cfg[c].wasm # None => cfg[c].kind # "verify"
    BY ReproduceConstants DEF Init
  <2>2. QED BY <2>1 DEF FirstStep
<1>2. \A c \in Commands : FirstStep(cfg[c]) = "compress" => cfg[c].wasm # None
  BY DEF FirstStep
<1>3. /\ Foreign \subseteq Tx
      /\ \A t \in Foreign : t.by = None /\ (t.code # None => t.code.section = NoHash)
  BY DEF Foreign, Tx, Module
<1>4. TypeOK
  BY <1>1, <1>3, ReproduceConstants DEF Init, TypeOK, Hashes
<1>5. StrippedInv /\ SentInv /\ \A k \in Copies : deps[k] \subseteq AllMade
  BY <1>3 DEF Init, StrippedInv, SentInv
<1>6. ASSUME NEW c \in Commands PROVE CmdInv(c)
  <2>1. /\ pc[c] = FirstStep(cfg[c]) /\ said[c] = "none"
    BY DEF Init
  <2>2. PathInv(c)
    BY <1>1, <2>1 DEF PathInv, Told
  <2>3. BuildInv(c)
    BY <1>1, <1>2, <2>1 DEF BuildInv, Reading, Coded, Alone
  <2>4. CodeInv(c) /\ CtorInv(c) /\ VerdictInv(c)
    BY <1>1, <2>1 DEF Init, CodeInv, CtorInv, VerdictInv, HasCode, Coded, Told
  <2>5. QED BY <2>2, <2>3, <2>4 DEF CmdInv
<1>7. QED BY <1>4, <1>5, <1>6 DEF ReproduceInv

\* What is proved of builds and verifications rests on this: what a command
\* alone in its copy has built is there, fits, and is what it has compressed.
THEOREM ReproduceHolds == Spec => []ReproduceInv
<1>1. Init => ReproduceInv
  BY InitHolds
<1>2. ReproduceInv /\ [Next]_vars => ReproduceInv'
  BY NextKeeps
<1>3. QED BY <1>1, <1>2, PTL DEF Spec

\* The state of builds, deployments and verifications keeps its types.
THEOREM ReproduceTypes == Spec => []TypeOK
<1>1. ReproduceInv => TypeOK
  BY DEF ReproduceInv
<1>2. QED BY <1>1, ReproduceHolds, PTL

\* The code of a command is of its own build if its file is its own.
LEMMA OwnCode ==
  ASSUME ReproduceInv, NEW c \in Commands, said[c] \in Told, Alone(c),
         \/ cfg[c].kind = "verify" /\ OneFits(built[c], cfg[c].features)
         \/ NoClash(c)
  PROVE  code[c].body \in Own(built[c], cfg[c].features)
<1>1. PICK a \in AllMade :
        /\ code[c].body = a.body /\ a.crate = path[c]
        /\ <<a.crate, CrateOf[built[c]]>> \in EndsWith
        /\ cfg[c].kind = "verify" \/ a.crate = CrateOf[built[c]] =>
             a \in Builds[built[c]][cfg[c].features]
  BY DEF ReproduceInv, CmdInv, CodeInv, HasCode
<1>2. a.crate = CrateOf[built[c]]
  BY <1>1 DEF OneFits, NoClash
<1>3. QED BY <1>1, <1>2 DEF Own

\* VERIFIED is about the sources: what is on chain is what the compiler makes of
\* the sources verified, whatever was in the target directory before.
THEOREM VerifiedMeansBuilt == Spec => []VerifiedIsBuilt
<1>1. ASSUME ReproduceInv PROVE VerifiedIsBuilt
  <2>1. SUFFICES ASSUME NEW c \in Commands, said[c] = "verified", ~disturbed[c],
                        OneFits(built[c], cfg[c].features)
                 PROVE  subject[c].code.body \in Own(built[c], cfg[c].features)
    BY DEF VerifiedIsBuilt
  <2>2. cfg[c].kind = "verify" /\ subject[c].code = code[c]
    BY <1>1, <2>1 DEF ReproduceInv, CmdInv, PathInv, VerdictInv
  <2>3. Alone(c)
    BY <1>1, <2>1, <2>2, LineTypes DEF ReproduceInv, Alone
  <2>4. QED BY <1>1, <2>1, <2>2, <2>3, OwnCode DEF Told
<1>2. QED BY <1>1, ReproduceHolds, PTL

\* What deploy and get-initcode send is what their own build made.
THEOREM DeploymentsAreBuilt == Spec => []DeploysOwnBuild
<1>1. ASSUME ReproduceInv PROVE DeploysOwnBuild
  BY <1>1, OwnCode DEF DeploysOwnBuild, Told, Alone
<1>2. QED BY <1>1, ReproduceHolds, PTL

\* Two builds of one version with the same features, neither meddled with nor
\* mistaken for another library's, are not told apart by verify, hash section or
\* not, and neither is the constructor that both have looked for.
THEOREM RoundTrips == Spec => []RoundTrip
<1>1. ASSUME ReproduceInv PROVE RoundTrip
  <2>1. SUFFICES ASSUME NEW c \in Commands, NEW d, d = subject[c].by,
                        said[c] \in {"mismatch", "refused"}, d # None,
                        cfg[d].wasm = None, ~disturbed[c], ~disturbed[d],
                        NoClash(c), NoClash(d),
                        built[c] = built[d], cfg[c].features = cfg[d].features
                 PROVE  FALSE
    BY DEF RoundTrip
  <2>2. /\ cfg[c].kind = "verify" /\ subject[c] \in txs
        /\ d \in Commands /\ Sent(d, subject[c])
    BY <1>1, <2>1 DEF ReproduceInv, CmdInv, PathInv, Told, TypeOK, Tx, SentInv
  <2>3. Alone(c) /\ Alone(d)
    BY <1>1, <2>1, <2>2, LineTypes DEF ReproduceInv, Alone
  <2>4. said[c] \in Told /\ said[d] \in Told
    BY <2>1, <2>2 DEF Sent, Told
  <2>5. code[c] = code[d]
    <3>1. /\ code[c].body \in Own(built[c], cfg[c].features)
          /\ code[d].body \in Own(built[d], cfg[d].features)
      BY <1>1, <2>1, <2>2, <2>3, <2>4, OwnCode
    <3>2. /\ code[c] \in Module /\ code[c].section = NoHash
          /\ code[d] \in Module /\ code[d].section = NoHash
          /\ built[c] \in Versions /\ cfg[c].features \in Features
      BY <1>1, <2>2, <2>3, <2>4, LineTypes DEF ReproduceInv, CmdInv, CodeInv, HasCode
    <3>3. code[c].body = code[d].body
      <4>1. PICK a \in Builds[built[c]][cfg[c].features] :
              code[c].body = a.body /\ a.crate = CrateOf[built[c]]
        BY <3>1 DEF Own
      <4>2. PICK b \in Builds[built[d]][cfg[d].features] :
              code[d].body = b.body /\ b.crate = CrateOf[built[d]]
        BY <3>1 DEF Own
      <4>3. b \in Builds[built[c]][cfg[c].features] /\ a.crate = b.crate
        BY <2>1, <4>1, <4>2
      <4>4. a = b
        BY <3>2, <4>1, <4>3, BuildsAssumption
      <4>5. QED BY <4>1, <4>2, <4>4
    <3>4. QED BY <3>2, <3>3 DEF Module
  <2>6. CASE said[c] = "mismatch"
    BY <1>1, <2>2, <2>5, <2>6 DEF ReproduceInv, CmdInv, VerdictInv, Sent
  <2>7. CASE said[c] = "refused"
    <3>1. /\ subject[c].via # "create"
          /\ \/ ctor[c] = None \/ subject[c].via # "deployer"
             \/ subject[c].code # code[c] \/ subject[c].init # ctor[c]
      BY <1>1, <2>7 DEF ReproduceInv, CmdInv, VerdictInv
    <3>2. /\ ctor[d] # None /\ subject[c].via = "deployer"
          /\ subject[c].code = code[d] /\ subject[c].init = ctor[d]
      BY <2>2, <3>1 DEF Sent
    <3>3. ctor[d] = CtorOf[built[d]][NoFeatures]
      <4>1. cfg[d].kind \notin {"initcode", "verify"}
        BY <1>1, <2>2, <3>2 DEF ReproduceInv, CmdInv, CtorInv, PathInv, Sent
      <4>2. QED BY <1>1, <2>2, <2>3, <2>4, <4>1 DEF ReproduceInv, CmdInv, CtorInv
    <3>4. ctor[c] = CtorOf[built[c]][NoFeatures]
      BY <1>1, <2>2, <2>3, <2>4, <3>1 DEF ReproduceInv, CmdInv, CtorInv
    <3>5. QED BY <2>1, <2>5, <3>1, <3>2, <3>3, <3>4
  <2>8. QED BY <2>1, <2>6, <2>7
<1>2. QED BY <1>1, ReproduceHolds, PTL
=============================================================================
