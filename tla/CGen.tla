-------------------------------- MODULE CGen --------------------------------
(***************************************************************************)
(* c_gen: from the output of solc, one header and one router in C for each *)
(* contract.  Solidity overloads functions and C does not, so overloads    *)
(* are numbered; files go to a directory per Solidity file, by pushing     *)
(* onto one path and popping it.                                           *)
(*                                                                         *)
(* A name is the sequence of the parts between its underscores: "f_1" is   *)
(* <<"f", 1>>, whoever has chosen it.  A line of C is a record.            *)
(***************************************************************************)
EXTENDS Naturals, SequencesExt

CONSTANTS
  Inputs,    \* outputs of solc
  OutDir,    \* the directory to write to
  Left       \* files an earlier run may have left: <<directory, name, suffix>>

\* A Solidity file has a path and contracts; a contract has a name, functions
\* and variables.  `rank` is the order of signatures, which are all different,
\* and `slotFits` says that the slot is below 2^64.
Mutability == {"pure", "view", "nonpayable", "payable"}
Kinds == {"array", "dyn_array", "mapping", "other"}

IsList(s) == Len(s) \in Nat /\ s = [i \in 1 .. Len(s) |-> s[i]]

IsContract(c) ==
  /\ IsFiniteSet(c.functions)
  /\ \A f \in c.functions : f.rank \in Nat /\ IsList(f.name)
  /\ \A f, g \in c.functions : f.rank = g.rank => f = g
  /\ IsList(c.variables)

\* An absolute path begins with it.
Root == "/"

\* Files have different paths and the contracts of a file different names: they
\* are the keys of JSON objects.
IsOutput(in) ==
  /\ IsList(in)
  /\ \A i \in DOMAIN in :
       /\ IsList(in[i].path) /\ in[i].path \notin {<<>>, <<Root>>}
       /\ IsList(in[i].contracts)
       /\ \A k \in DOMAIN in[i].contracts : IsContract(in[i].contracts[k])
       /\ \A k, l \in DOMAIN in[i].contracts :
            in[i].contracts[k].name = in[i].contracts[l].name => k = l
  /\ \A i, j \in DOMAIN in : in[i].path = in[j].path => i = j

\* The key of a file, in a directory below the output directory or the root.
IsKey(x) == /\ x = <<x[1], x[2], x[3]>> /\ x[1][1] \in {OutDir, Root}
            /\ x[3] \in {".h", "_main.c"}

ASSUME CGenAssumption == /\ \A in \in Inputs : IsOutput(in)
                         /\ \A x \in Left : IsKey(x)

VARIABLES
  input,    \* what solc has written
  pc,       \* what is done next
  file,     \* the place of the Solidity file in hand
  contract, \* the place of its contract in hand
  pathbuf,  \* the path under construction
  methods,  \* names of functions that have not been written
  header, router, \* lines of the contract in hand
  disk,     \* files: <<directory, contract name, suffix>> to contents
  exit      \* how the command ended

vars == <<input, pc, file, contract, pathbuf, methods, header, router, disk, exit>>

Files == input
Contracts == Files[file].contracts
This == Contracts[contract]

TypeOK ==
  /\ input \in Inputs
  /\ pc \in {"open", "next", "methods", "storage", "header", "router", "ended"}
  /\ file \in 1 .. Len(Files) + 1
  /\ contract \in Nat
  /\ Len(pathbuf) >= 1 /\ pathbuf[1] \in {OutDir, Root}
  /\ pc \in {"methods", "storage", "header", "router"} =>
       methods \subseteq {f.name : f \in This.functions}
  /\ \A x \in DOMAIN disk : IsKey(x)
  /\ exit \in {"none", "ok", "error"}

\* What is not, or not all, of a contract in hand: of an earlier run, or torn.
Other == [from |-> <<0, 0>>, lines |-> <<>>]

Init ==
  /\ input \in Inputs
  /\ pc = "open" /\ file = 1 /\ contract = 0
  /\ pathbuf = <<OutDir>>
  /\ methods = {} /\ header = <<>> /\ router = <<>>
  /\ \E left \in SUBSET Left : disk = [x \in left |-> Other]
  /\ exit = "none"

Ends(how) == pc' = "ended" /\ exit' = how

-----------------------------------------------------------------------------
\* PathBuf::push: an absolute path replaces what there was.
Pushed(path, name) == IF name[1] = Root THEN name ELSE path \o name

OpenFile ==
  /\ pc = "open"
  /\ IF file > Len(Files)
       THEN Ends("ok") /\ UNCHANGED <<pathbuf, contract>>
       ELSE /\ pathbuf' = Pushed(pathbuf, Files[file].path)
            /\ contract' = 1 /\ pc' = "next"
            /\ UNCHANGED exit
  /\ UNCHANGED <<input, file, methods, header, router, disk>>

\* Mutant: the path is popped twice for one push.
PoppedTwice(path) == SubSeq(path, 1, Len(path) - 2)

\* Mutant: the path is not popped.
NotPopped(path) == path

\* PathBuf::pop removes one component, however many were pushed.
Popped(path) == Front(path)

CloseFile ==
  /\ pc = "next" /\ contract > Len(Contracts)
  /\ pathbuf' = Popped(pathbuf)
  /\ file' = file + 1 /\ pc' = "open"
  /\ UNCHANGED <<input, contract, methods, header, router, disk, exit>>

BeginContract ==
  /\ pc = "next" /\ contract <= Len(Contracts)
  /\ methods' = {f.name : f \in This.functions}
  /\ header' = <<>> /\ router' = <<>>
  /\ pc' = "methods"
  /\ UNCHANGED <<input, file, contract, pathbuf, disk, exit>>

\* Mutant: overloads are not told apart.
CNameWithoutIndex(name, index) == name

\* The first overload keeps the name, the next is name_1.
CName(name, index) == IF index = 1 THEN name ELSE Append(name, index - 1)

\* The functions of one name, sorted by signature.
Overloads(c, name) ==
  LET fs == {f \in c.functions : f.name = name}
  IN  CHOOSE s \in [1 .. Cardinality(fs) -> fs] :
        /\ ToSet(s) = fs
        /\ \A i, j \in DOMAIN s : i < j => s[i].rank < s[j].rank

Params(f) == CASE f.mutability = "pure"    -> <<"input", "len">>
               [] f.mutability = "view"    -> <<"const storage", "input", "len">>
               [] f.mutability = "payable" -> <<"storage", "input", "len", "value">>
               [] OTHER                    -> <<"storage", "input", "len">>

\* call_params
Args(f) == CASE f.mutability = "pure"    -> <<"input", "len">>
             [] f.mutability = "payable" -> <<"NULL", "input", "len", "value">>
             [] OTHER                    -> <<"NULL", "input", "len">>

\* #define SELECTOR_<name>, and the prototype
HeaderLines(f, name) ==
  <<[what |-> "SELECTOR", name |-> name, value |-> f.rank],
    [what |-> "prototype", name |-> name, value |-> Params(f)]>>

\* Mutant: the selector is tested under the name without a number.
RouterLineByName(f, name) ==
  [tests |-> f.name, refusesValue |-> f.mutability # "payable", calls |-> name,
   passes |-> Args(f)]

RouterLine(f, name) ==
  [tests |-> name, refusesValue |-> f.mutability # "payable", calls |-> name,
   passes |-> Args(f)]

\* The methods are kept in a HashMap, which yields its keys in any order.
Method(name) ==
  /\ pc = "methods" /\ name \in methods
  /\ LET fs == Overloads(This, name) IN
       /\ header' = header \o FlattenSeq([i \in DOMAIN fs |->
                                           HeaderLines(fs[i], CName(name, i))])
       /\ router' = router \o [i \in DOMAIN fs |->
                                RouterLine(fs[i], CName(name, i))]
  /\ methods' = methods \ {name}
  /\ UNCHANGED <<input, pc, file, contract, pathbuf, disk, exit>>

\* A variable with a large slot or a strange offset is skipped.
Placed(v) == v.slotFits /\ v.offset <= 32

StorageLines(v) ==
  <<[what |-> "STORAGE_SLOT", name |-> v.label, value |-> v.slot]>>
  \o (CASE v.kind = "dyn_array" ->
             <<[what |-> "STORAGE_BASE", name |-> v.label, value |-> v.slot]>>
        [] v.kind = "other" ->
             <<[what |-> "STORAGE_END_OFFSET", name |-> v.label,
                value |-> 32 - v.offset]>>
        [] OTHER -> <<>>)

PlacedLines(v) == IF Placed(v) THEN StorageLines(v) ELSE <<>>

Storage ==
  /\ pc = "methods" /\ methods = {}
  /\ header' = header \o FlattenSeq([i \in DOMAIN This.variables |->
                                       PlacedLines(This.variables[i])])
  /\ pc' = "header"
  /\ UNCHANGED <<input, file, contract, pathbuf, methods, router, disk, exit>>

PathTo(suffix) == <<pathbuf, This.name, suffix>>

\* fs::write: this file, in place of any other of that path.
Put(path, contents) ==
  disk' = [x \in DOMAIN disk \cup {path} |-> IF x = path THEN contents ELSE disk[x]]

Written(suffix, lines) ==
  Put(PathTo(suffix), [from |-> <<file, contract>>, lines |-> lines])

\* Mutant: a header is written for what is stored only.
NeededForStorage(lines) == \E i \in DOMAIN lines : lines[i].what = "STORAGE_SLOT"

Needed(lines) == lines # <<>>

WriteHeader ==
  /\ pc = "header"
  /\ IF Needed(header) THEN Written(".h", header) ELSE UNCHANGED disk
  /\ pc' = "router"
  /\ UNCHANGED <<input, file, contract, pathbuf, methods, header, router, exit>>

WriteRouter ==
  /\ pc = "router"
  /\ IF router # <<>> THEN Written("_main.c", router) ELSE UNCHANGED disk
  /\ contract' = contract + 1 /\ pc' = "next"
  /\ UNCHANGED <<input, file, pathbuf, methods, header, router, exit>>

\* A directory or a file that cannot be written, or an ABI that does not parse,
\* ends the command.  What has been written stays; of the file in hand a part
\* may have been.
Fails ==
  /\ \/ /\ \/ pc = "open" /\ file <= Len(Files)
           \/ pc = "next" /\ contract <= Len(Contracts)
           \/ pc = "header" /\ header # <<>>
           \/ pc = "router" /\ router # <<>>
        /\ UNCHANGED disk
     \/ pc = "header" /\ header # <<>> /\ Put(PathTo(".h"), Other)
     \/ pc = "router" /\ router # <<>> /\ Put(PathTo("_main.c"), Other)
  /\ Ends("error")
  /\ UNCHANGED <<input, file, contract, pathbuf, methods, header, router>>

Next ==
  \/ OpenFile \/ CloseFile \/ BeginContract
  \/ \E name \in methods : Method(name)
  \/ Storage \/ WriteHeader \/ WriteRouter \/ Fails

Spec == Init /\ [][Next]_vars

-----------------------------------------------------------------------------
ContractOf(id) == Files[id[1]].contracts[id[2]]

\* A function has the name that another one's overloads are given.
Clashes(c) ==
  \E f, g \in c.functions :
    \E i \in 1 .. Cardinality({h \in c.functions : h.name = f.name}) - 1 :
      g.name = Append(f.name, i)

SharesLabels(c) ==
  \E i, j \in DOMAIN c.variables :
    i # j /\ c.variables[i].label = c.variables[j].label

\* Every Solidity file is named without a directory.
Flat == \A i \in DOMAIN Files : Len(Files[i].path) = 1

\* The files this command has written, all of them.
Mine == {x \in DOMAIN disk : disk[x] # Other}

Headers == {x \in Mine : x[3] = ".h"}
Routers == {x \in Mine : x[3] = "_main.c"}
HeaderOf(x) == <<x[1], x[2], ".h">>

\* A header defines no macro and declares no function twice, in whatever order
\* the methods came, unless the contract has a function called like a numbered
\* overload, or two variables of one name.
NamesAreUnique ==
  \A x \in Headers :
    LET lines == disk[x].lines
        c == ContractOf(disk[x].from)
    IN ~Clashes(c) /\ ~SharesLabels(c) =>
         \A i, j \in DOMAIN lines :
           i # j => <<lines[i].what, lines[i].name>> # <<lines[j].what, lines[j].name>>

\* There is an argument for every parameter: itself, but NULL for the storage.
Fits(args, params) ==
  /\ DOMAIN args = DOMAIN params
  /\ \A n \in DOMAIN params :
       args[n] = IF params[n] \in {"storage", "const storage"} THEN "NULL" ELSE params[n]

\* The router of a contract takes each selector of its ABI, and no other, to a
\* C function of its own, which has the parameters of that Solidity function and
\* is passed arguments that fit them: the first test that succeeds decides.  Not
\* so if the contract has a function called like a numbered overload, or if a
\* Solidity file is named with a directory: then a file may be overwritten.
Dispatches ==
  \A x \in Routers :
    LET c == ContractOf(disk[x].from)
        lines == disk[x].lines
        defs == ToSet(disk[HeaderOf(x)].lines)
        takes(i, f) == [what |-> "SELECTOR", name |-> lines[i].tests,
                        value |-> f.rank] \in defs
    IN HeaderOf(x) \in Headers /\ Flat /\ ~Clashes(c) =>
         /\ Len(lines) = Cardinality(c.functions)
         /\ \A f \in c.functions : \E i \in DOMAIN lines :
              /\ takes(i, f) /\ \A j \in 1 .. i - 1 : ~takes(j, f)
              /\ [what |-> "prototype", name |-> lines[i].calls,
                  value |-> Params(f)] \in defs
              /\ Fits(lines[i].passes, Params(f))
              /\ lines[i].refusesValue = (f.mutability # "payable")
              /\ \A j \in DOMAIN lines : j # i => lines[j].calls # lines[i].calls

\* What a router of this run includes is there, whole, and of the same contract,
\* even where the command has failed at a file, or files of an earlier run were
\* there.  (A router of an earlier run may stand beside a header of this one.)
RouterHasItsHeader ==
  Flat => \A x \in Routers :
            /\ HeaderOf(x) \in Headers
            /\ disk[HeaderOf(x)].from = disk[x].from

\* At the end each contract with functions or variables has its files below the
\* name of its Solidity file, none overwritten by another's.  The path only
\* comes back to the output directory if the names have no directories.
OutputsFound ==
  exit = "ok" /\ Flat =>
    \A i \in DOMAIN Files : \A k \in DOMAIN Files[i].contracts :
      LET c == Files[i].contracts[k]
          at(suffix) == <<<<OutDir>> \o Files[i].path, c.name, suffix>>
      IN /\ c.functions # {} => /\ at("_main.c") \in Routers
                                /\ disk[at("_main.c")].from = <<i, k>>
         /\ c.functions # {} \/ (\E v \in ToSet(c.variables) : Placed(v)) =>
              /\ at(".h") \in Headers
              /\ disk[at(".h")].from = <<i, k>>
=============================================================================
