----------------------------- MODULE Reproduce ------------------------------
(***************************************************************************)
(* From sources to a deployment and back: deploy, get-initcode and verify  *)
(* build the project, pick a wasm file from cargo's output directory, hash *)
(* the sources, read that file again and turn it into the bytes that are   *)
(* sent, or compared with what was sent.  Commands of different people run *)
(* in one working copy or in several, while the sources are edited.        *)
(*                                                                         *)
(* A wasm module is its body (what the compiler made) and the project hash *)
(* in its custom section, if any.  The brotli stream and the prelude, which *)
(* holds its length, are functions of the module, so the module stands for *)
(* the calldata.                                                           *)
(***************************************************************************)
EXTENDS Naturals

CONSTANTS
  Commands,    \* runs of the tool
  Configs,     \* their command lines
  Copies,      \* working copies of the project
  Versions,    \* versions of the sources
  Features,    \* values of --features, with the absence of the flag
  NoFeatures,
  Crates,      \* names of libraries
  Bodies,      \* what the compiler can make
  Builds,      \* the wasm files a build of a version with features leaves
  CrateOf,     \* the library name in Cargo.toml
  Ctors,       \* signatures of constructors
  CtorOf,      \* the constructor of the contract so built, or None
  HashOf,      \* the project hash of each version's sources
  EndsWith,    \* <<c, d>>: the file name of crate c ends with that of crate d
  NoHash, ZeroHash,
  None,        \* no file, no transaction, no constructor
  MaxEdits     \* bound: changes of the sources

Artefact == [crate : Crates, body : Bodies]
Hashes == {HashOf[v] : v \in Versions} \cup {ZeroHash}
Module == [body : Bodies, section : Hashes \cup {NoHash}]

\* `wasm` is the file of --wasm-file, `signature` what --constructor-signature
\* says then; only deploy takes a file (verify has none, verify.rs).
Config == [kind : {"deploy", "initcode", "verify"}, copy : Copies,
           features : Features, wasm : Module \cup {None},
           signature : Ctors \cup {None}]

ASSUME ReproduceConstants ==
  /\ Configs \subseteq Config
  /\ \A x \in Configs : x.wasm # None => x.kind = "deploy"
  /\ NoFeatures \in Features
  /\ Builds \in [Versions -> [Features -> SUBSET Artefact]]
  /\ CrateOf \in [Versions -> Crates]
  /\ CtorOf \in [Versions -> [Features -> Ctors \cup {None}]]
  /\ EndsWith \subseteq Crates \X Crates
  /\ \A c \in Crates : <<c, c>> \in EndsWith
  /\ NoHash \notin Hashes /\ None \notin Versions \cup Ctors
  /\ MaxEdits \in Nat

\* A directory has one file of a name, and a build that succeeds leaves the
\* library that Cargo.toml names.
ASSUME BuildsAssumption ==
  \A v \in Versions, f \in Features :
    /\ \A a, b \in Builds[v][f] : a.crate = b.crate => a = b
    /\ Builds[v][f] # {} => \E a \in Builds[v][f] : a.crate = CrateOf[v]

VARIABLES
  source,    \* the version in each working copy
  deps,      \* the wasm files in its target/.../release/deps
  txs,       \* deployments on chain: the way they went, and their calldata
  cfg,       \* each command's line
  pc,        \* its next step
  subject,   \* the transaction that verify is about
  crate,     \* the library name it has read from Cargo.toml
  path,      \* the wasm file it has picked: the crate it is named after
  hash,      \* the project hash it has computed
  code,      \* the module it has compressed
  ctor,      \* the constructor it has found, or None
  said,      \* how it ended
  built,     \* history: version its own build has compiled
  disturbed, \* history: its copy was edited, built or cleaned by others since
  edits

copyVars == <<source, deps>>
cmdVars == <<pc, subject, crate, path, hash, code, ctor, said, built>>
vars == <<copyVars, txs, cfg, cmdVars, disturbed, edits>>

\* What is on chain: the way it went, its code, the constructor whose arguments
\* its init data holds (None for less than a selector), and the command that
\* deployed it, if one did.
Tx == [via : {"create", "deployer", "call"}, code : Module \cup {None},
       init : Ctors \cup {None}, by : Commands \cup {None}]

\* Transactions that no command made: a call of some contract, the creation of
\* one by less code than a prelude has, and a call of the deployer by hand that
\* has no init data.
Foreign ==
  {[via |-> v, code |-> None, init |-> None, by |-> None] : v \in {"call", "create"}}
    \cup {[via |-> "deployer", code |-> [body |-> b, section |-> NoHash],
           init |-> None, by |-> None] : b \in Bodies}

Ended == {"deployed", "printed", "verified", "mismatch", "refused", "error", "panic"}

TypeOK ==
  /\ source \in [Copies -> Versions]
  /\ deps \in [Copies -> SUBSET Artefact]
  /\ \A k \in Copies : \A a, b \in deps[k] : a.crate = b.crate => a = b
  /\ txs \subseteq Tx
  /\ cfg \in [Commands -> Configs]
  /\ pc \in [Commands -> {"lookup", "clean", "build", "find", "measure", "hash",
                           "compress", "check", "export", "submit", "compare",
                           "ended"}]
  /\ subject \in [Commands -> Tx \cup {None}]
  /\ crate \in [Commands -> Crates \cup {None}]
  /\ path \in [Commands -> Crates \cup {None}]
  /\ hash \in [Commands -> Hashes]
  /\ code \in [Commands -> Module \cup {None}]
  /\ ctor \in [Commands -> Ctors \cup {None}]
  /\ said \in [Commands -> Ended \cup {"none"}]
  /\ built \in [Commands -> Versions \cup {None}]
  /\ disturbed \in [Commands -> BOOLEAN]
  /\ edits \in 0 .. MaxEdits

FirstStep(x) == CASE x.kind = "verify" -> "lookup"
                  [] x.wasm # None     -> "compress"
                  [] OTHER             -> "build"

Init ==
  /\ source \in [Copies -> Versions]
  /\ deps = [k \in Copies |-> {}]
  /\ txs = Foreign
  /\ cfg \in [Commands -> Configs]
  /\ pc = [c \in Commands |-> FirstStep(cfg[c])]
  /\ subject = [c \in Commands |-> None]
  /\ crate = [c \in Commands |-> None]
  /\ path = [c \in Commands |-> None]
  /\ hash = [c \in Commands |-> ZeroHash]
  /\ code = [c \in Commands |-> None]
  /\ ctor = [c \in Commands |-> None]
  /\ said = [c \in Commands |-> "none"]
  /\ built = [c \in Commands |-> None]
  /\ disturbed = [c \in Commands |-> FALSE]
  /\ edits = 0

-----------------------------------------------------------------------------
Goes(c, step) ==
  /\ pc' = [pc EXCEPT ![c] = step]
  /\ UNCHANGED said

Ends(c, what) ==
  /\ pc' = [pc EXCEPT ![c] = "ended"]
  /\ said' = [said EXCEPT ![c] = what]

\* build_dylib, hash_project or compress_wasm returns an error, and so does
\* check; deploy has an `expect` around it.
Fails(c) == Ends(c, IF cfg[c].kind = "deploy" THEN "panic" ELSE "error")

Copy(c) == cfg[c].copy

\* The command counts on what it has built, or cleaned, in its copy.
Working(c) ==
  /\ pc[c] \notin {"ended", "lookup", "clean"}
  /\ pc[c] = "build" => cfg[c].kind = "verify"

Disturbs(k, by) ==
  disturbed' = [c \in Commands |->
                  disturbed[c] \/ (Copy(c) = k /\ c # by /\ Working(c))]

-----------------------------------------------------------------------------
(* Building, common to the three commands.                                 *)

\* Mutant: older files of the same library are kept beside the new one.
KeptBeside(old, made) == made \cup old

\* cargo replaces the files of the crates it compiles and leaves all others.
Updated(old, made) == made \cup {a \in old : \A b \in made : a.crate # b.crate}

\* build_dylib as far as cargo: a failed build ends the process.
Build(c) ==
  LET k == Copy(c)
      made == Builds[source[k]][cfg[c].features]
  IN
  /\ pc[c] = "build"
  /\ crate' = [crate EXCEPT ![c] = CrateOf[source[k]]]
  /\ IF made = {}
       THEN Ends(c, "error") /\ UNCHANGED <<deps, built, disturbed>>
       ELSE /\ deps' = [deps EXCEPT ![k] = Updated(@, made)]
            /\ built' = [built EXCEPT ![c] = source[k]]
            /\ Disturbs(k, c)
            /\ Goes(c, "find")
  /\ UNCHANGED <<source, txs, cfg, subject, path, hash, code, ctor, edits>>

\* Mutant: any file of the directory will do.
AnyFile(name, wanted) == TRUE

\* The file is called <something><wanted>.wasm.
IsWanted(name, wanted) == <<name, wanted>> \in EndsWith

\* The directory is listed in any order and the first match is taken.
Find(c) ==
  LET found == {a \in deps[Copy(c)] : IsWanted(a.crate, crate[c])} IN
  /\ pc[c] = "find"
  /\ \/ found = {} /\ Fails(c) /\ UNCHANGED path
     \/ \E a \in found : path' = [path EXCEPT ![c] = a.crate] /\ Goes(c, "measure")
  /\ UNCHANGED <<copyVars, txs, cfg, subject, crate, hash, code, ctor, built,
                 disturbed, edits>>

Picked(c) == {a \in deps[Copy(c)] : a.crate = path[c]}

\* build_dylib compresses the file once, to print its size.
Measure(c) ==
  /\ pc[c] = "measure"
  /\ IF Picked(c) = {} THEN Fails(c) ELSE Goes(c, "hash")
  /\ UNCHANGED <<copyVars, txs, cfg, subject, crate, path, hash, code, ctor, built,
                 disturbed, edits>>

\* hash_project (module HashFiles), which may fail.
Hash(c) ==
  /\ pc[c] = "hash"
  /\ \/ Fails(c) /\ UNCHANGED hash
     \/ hash' = [hash EXCEPT ![c] = HashOf[source[Copy(c)]]] /\ Goes(c, "compress")
  /\ UNCHANGED <<copyVars, txs, cfg, subject, crate, path, code, ctor, built,
                 disturbed, edits>>

\* add_project_hash_to_wasm_file: a section that is there is not overwritten.
AddHash(m, h) == IF m.section = NoHash THEN [m EXCEPT !.section = h] ELSE m

\* strip_user_metadata drops every custom section, the project hash with them.
Strip(m) == [m EXCEPT !.section = NoHash]

\* compress_wasm
Compressed(m, h) == Strip(AddHash(m, h))

\* What compress_wasm reads: the file given, or the one picked, as it is now.
Wasm(c) ==
  IF cfg[c].wasm # None THEN {cfg[c].wasm}
  ELSE {[body |-> a.body, section |-> NoHash] : a \in Picked(c)}

AfterCompress(c) == IF cfg[c].kind = "initcode" THEN "submit" ELSE "check"

Compress(c) ==
  /\ pc[c] = "compress"
  /\ \/ Wasm(c) = {} /\ Fails(c) /\ UNCHANGED code
     \/ \E m \in Wasm(c) :
          /\ code' = [code EXCEPT ![c] = Compressed(m, hash[c])]
          /\ Goes(c, AfterCompress(c))
  /\ UNCHANGED <<copyVars, txs, cfg, subject, crate, path, hash, ctor, built,
                 disturbed, edits>>

-----------------------------------------------------------------------------
(* What becomes of the code.                                               *)

\* check: the chain is asked whether the program is active, or could be
\* activated; verify does not need to know, and fails if the answer is no.
Check(c) ==
  /\ pc[c] = "check"
  /\ \/ Fails(c)
     \/ Goes(c, IF cfg[c].kind = "verify" /\ subject[c].via = "create"
                  THEN "compare" ELSE "export")
  /\ UNCHANGED <<copyVars, txs, cfg, subject, crate, path, hash, code, ctor, built,
                 disturbed, edits>>

\* Mutant: deploy asks with the features it builds with, verify without.
AskedWithFeatures(c) ==
  IF cfg[c].wasm # None THEN cfg[c].signature
  ELSE CtorOf[source[Copy(c)]][IF cfg[c].kind = "deploy" THEN cfg[c].features
                                                        ELSE NoFeatures]

\* get_constructor_signature runs the contract natively, without --features;
\* a wasm file has no sources, only the flag.
ExportsCtor(c) ==
  IF cfg[c].wasm # None THEN cfg[c].signature
                        ELSE CtorOf[source[Copy(c)]][NoFeatures]

\* An export that fails ends the process, a signature that does not parse the
\* command.
Export(c) ==
  /\ pc[c] = "export"
  /\ \/ Ends(c, "error") /\ UNCHANGED ctor
     \/ /\ ctor' = [ctor EXCEPT ![c] = ExportsCtor(c)]
        /\ Goes(c, IF cfg[c].kind = "verify" THEN "compare" ELSE "submit")
  /\ UNCHANGED <<copyVars, txs, cfg, subject, crate, path, hash, code, built,
                 disturbed, edits>>

\* deploy sends the code, to the deployer and with the constructor's arguments if
\* there is one; get-initcode prints it, and somebody sends it.
Submit(c) ==
  /\ pc[c] = "submit"
  /\ txs' = txs \cup {[via |-> IF ctor[c] = None THEN "create" ELSE "deployer",
                       code |-> code[c], init |-> ctor[c], by |-> c]}
  /\ Ends(c, IF cfg[c].kind = "deploy" THEN "deployed" ELSE "printed")
  /\ UNCHANGED <<copyVars, cfg, subject, crate, path, hash, code, ctor, built,
                 disturbed, edits>>

-----------------------------------------------------------------------------
(* verify.                                                                 *)

\* get_transaction_by_hash; the transaction's receipt is not asked for.
Lookup(c) ==
  /\ pc[c] = "lookup"
  /\ \/ Ends(c, "error") /\ UNCHANGED subject
     \/ \E t \in txs : subject' = [subject EXCEPT ![c] = t] /\ Goes(c, "clean")
  /\ UNCHANGED <<copyVars, txs, cfg, crate, path, hash, code, ctor, built,
                 disturbed, edits>>

\* Mutant: verify builds on top of what is there.
KeepsArtefacts(k) == deps[k]

\* cargo clean
Cleaned(k) == {}

\* If it fails it may have removed some of the files.
Clean(c) ==
  LET k == Copy(c) IN
  /\ pc[c] = "clean"
  /\ \/ deps' = [deps EXCEPT ![k] = Cleaned(k)] /\ Goes(c, "build")
     \/ \E left \in SUBSET deps[k] :
          deps' = [deps EXCEPT ![k] = left] /\ Ends(c, "error")
  /\ Disturbs(k, c)
  /\ UNCHANGED <<source, txs, cfg, subject, crate, path, hash, code, ctor, built,
                 edits>>

\* A creation is compared as a whole, and a mismatch is only printed; slicing
\* off the prelude of less than 43 bytes panics.
CompareCreation(c) ==
  LET t == subject[c] IN
  /\ t.via = "create"
  /\ Ends(c, IF t.code = None THEN "panic"
             ELSE IF t.code = code[c] THEN "verified" ELSE "mismatch")

\* Any other transaction must be a call of deploy(), of a project with a
\* constructor, by whose parameters the init data decodes: it does if it was
\* encoded by them, and may if it was encoded by others.
CompareDeployment(c) ==
  LET t == subject[c] IN
  /\ t.via # "create"
  /\ \/ /\ ctor[c] # None /\ t.via = "deployer" /\ t.code = code[c]
        /\ t.init # None
        /\ Ends(c, "verified")
     \/ /\ \/ ctor[c] = None \/ t.via # "deployer" \/ t.code # code[c]
           \/ t.init # ctor[c]
        /\ Ends(c, "refused")

Compare(c) ==
  /\ pc[c] = "compare"
  /\ CompareCreation(c) \/ CompareDeployment(c)
  /\ UNCHANGED <<copyVars, txs, cfg, subject, crate, path, hash, code, ctor, built,
                 disturbed, edits>>

-----------------------------------------------------------------------------
Step(c) ==
  \/ Build(c) \/ Find(c) \/ Measure(c) \/ Hash(c) \/ Compress(c) \/ Check(c)
  \/ Export(c) \/ Submit(c) \/ Lookup(c) \/ Clean(c) \/ Compare(c)

\* Somebody changes the sources of a copy.
Edit(k) ==
  /\ edits < MaxEdits /\ edits' = edits + 1
  /\ \E v \in Versions \ {source[k]} : source' = [source EXCEPT ![k] = v]
  /\ disturbed' = [c \in Commands |->
                     disturbed[c] \/ (Copy(c) = k /\ built[c] # None
                                                  /\ pc[c] # "ended")]
  /\ UNCHANGED <<deps, txs, cfg, cmdVars>>

Next == (\E c \in Commands : Step(c)) \/ \E k \in Copies : Edit(k)

Spec == Init /\ [][Next]_vars

-----------------------------------------------------------------------------
\* The body of the contract's own library, built from a version.
Own(v, f) == {a.body : a \in {b \in Builds[v][f] : b.crate = CrateOf[v]}}

\* The build of this version leaves only one file whose name fits.
OneFits(v, f) ==
  \A a \in Builds[v][f] :
    <<a.crate, CrateOf[v]>> \in EndsWith => a.crate = CrateOf[v]

\* VERIFIED is a statement about the sources: unless somebody worked in the
\* verifier's copy meanwhile, what is on chain is what the compiler makes of
\* the sources verified, never a file left there by an earlier build.
VerifiedIsBuilt ==
  \A c \in Commands :
    said[c] = "verified" /\ ~disturbed[c] /\ OneFits(built[c], cfg[c].features) =>
      subject[c].code.body \in Own(built[c], cfg[c].features)

\* The file it has picked is no other library's whose name happens to fit.
NoClash(c) ==
  <<path[c], CrateOf[built[c]]>> \in EndsWith => path[c] = CrateOf[built[c]]

\* The code a deployment sends is what its own build made of its sources,
\* whatever older files the directory holds, unless it has picked one of another
\* library with a name that fits, or others worked in the copy meanwhile.
DeploysOwnBuild ==
  \A c \in Commands :
    said[c] \in {"deployed", "printed"} /\ cfg[c].wasm = None /\ ~disturbed[c]
                                       /\ NoClash(c) =>
      code[c].body \in Own(built[c], cfg[c].features)

\* verify does not turn down what deploy or get-initcode made, from sources, of
\* the version and with the features that it verifies: neither the code nor, of a
\* contract that went through the deployer, the constructor that both have looked
\* for, whichever copies they ran in and whatever lay in their directories.
\* (Others working in a copy meanwhile, and a clash of names, may spoil either.)
RoundTrip ==
  \A c \in Commands :
    LET d == subject[c].by IN
    /\ said[c] \in {"mismatch", "refused"} /\ d # None
    /\ cfg[d].wasm = None /\ ~disturbed[c] /\ ~disturbed[d]
    /\ NoClash(c) /\ NoClash(d)
    => <<built[c], cfg[c].features>> # <<built[d], cfg[d].features>>

-----------------------------------------------------------------------------
(* What the source says of itself and the code does not keep to.           *)

\* verify.rs, main.rs: what is VERIFIED was deployed from files of the same
\* project hash, which goes with the code.
VerifiedMatchesHashes ==
  \A c \in Commands :
    LET d == subject[c].by IN
    /\ said[c] = "verified" /\ d # None
    /\ cfg[d].wasm = None /\ ~disturbed[c] /\ ~disturbed[d]
    => hash[c] = hash[d]
=============================================================================
