---------------------------- MODULE HashPromise -----------------------------
(***************************************************************************)
(* What the project hash promises, whatever order directories are read in, *)
(* whoever edits meanwhile and whichever thread runs when: it digests the  *)
(* selected files and the toolchain file, sorted by path, each piece of    *)
(* each with contents the file had while the command ran, and it fails     *)
(* only over a file that was not readable all the time or a system call    *)
(* that fails.  It does not promise that the pieces of a file are of one   *)
(* version; nor, where system calls fail, that the hash is of all files.   *)
(***************************************************************************)
EXTENDS Naturals, Sequences, FiniteSets

CONSTANTS
  Files,      \* the files of the project
  Toolchain,  \* rust-toolchain.toml
  Reachable,  \* the files that are not below "target" or ".git"
  Defaults,   \* those called Cargo.toml, Cargo.lock or *.rs
  Rank,       \* the place of each file's path in the order of paths
  Contents,   \* the versions of a file
  LengthOf,   \* how long they are
  Unreadable, \* the file is there and cannot be opened
  Missing,    \* it is not there
  Patterns,   \* the sets of paths a user may mean by --source-files-...
  Disks,      \* what the files may hold at first
  NoHash,     \* hash_files has not returned
  Failed      \* it has returned an error

States == Contents \cup {Unreadable, Missing}

\* Paths are compared as they are spelled: "./src/lib.rs" is the path the walk
\* from "." builds, "src/lib.rs" is another one.
Spelled == {"./", ""} \X Files

ASSUME HashConstants ==
  /\ Toolchain \in Files
  /\ Reachable \subseteq Files /\ Defaults \subseteq Files
  /\ Rank \in [Files -> Nat]
  /\ LengthOf \in [Contents -> Nat]
  /\ Unreadable \notin Contents /\ Missing \notin Contents
  /\ Patterns \subseteq SUBSET Spelled
  /\ Disks \subseteq [Files -> States]

VARIABLES
  disk,      \* what each file holds now
  seen,      \* what each file has held since the command started
  patterns,  \* the paths the user meant
  faulty,    \* system calls may fail: cargo, a pattern, a directory, an open file
  outcome    \* NoHash, Failed, or the preimages that were digested

projectVars == <<disk, seen, patterns, faulty>>
promiseVars == <<projectVars, outcome>>

ProjectInit ==
  /\ disk \in Disks
  /\ seen = [f \in Files |-> {disk[f]}]
  /\ patterns \in Patterns
  /\ faulty \in BOOLEAN

PromiseInit == ProjectInit /\ outcome = NoHash

\* Somebody edits, creates, deletes or locks a file of the project.
Edit ==
  \E f \in Files, s \in States :
    /\ s # disk[f]
    /\ disk' = [disk EXCEPT ![f] = s]
    /\ seen' = [seen EXCEPT ![f] = @ \cup {s}]
    /\ UNCHANGED <<patterns, faulty>>

\* The paths the patterns may have matched: a pattern matches what exists.
Matches ==
  {m \in SUBSET patterns :
     /\ \A p \in patterns : Missing \notin seen[p[2]] => p \in m
     /\ \A p \in m : seen[p[2]] # {Missing}}

\* Patterns that match nothing are no patterns.
Selected(m) ==
  Reachable \cap (IF m = {} THEN Defaults ELSE {f \in Files : <<"./", f>> \in m})

\* What the walk may have found of the selected files.
Found(m) ==
  {found \in SUBSET Selected(m) :
     /\ \A f \in Selected(m) : Missing \notin seen[f] => f \in found
     /\ \A f \in found : seen[f] # {Missing}}

\* The toolchain file is listed by itself, and once more if it is selected.
Copies(f, found) ==
  (IF f \in found THEN 1 ELSE 0) + (IF f = Toolchain THEN 1 ELSE 0)

\* The pieces of a file, each as it was at one time, and its length at one
\* time.
IsPreimage(x) ==
  /\ \A k \in 1 .. Len(x.contents) : x.contents[k] \in seen[x.file] \cap Contents
  /\ \E c \in seen[x.file] \cap Contents : x.length = LengthOf[c]

Count(h, f) == Cardinality({i \in 1 .. Len(h) : h[i].file = f})

\* All the files; or, where system calls may fail, the first of them.
Digests(h, found) ==
  /\ \A i \in 1 .. Len(h) : IsPreimage(h[i])
  /\ \A i, j \in 1 .. Len(h) : i < j => Rank[h[i].file] <= Rank[h[j].file]
  /\ \A f \in Files :
       \/ Count(h, f) = Copies(f, found)
       \/ /\ faulty /\ Count(h, f) <= Copies(f, found)
          /\ \A i \in 1 .. Len(h) : Rank[h[i].file] <= Rank[f]

Hashes ==
  /\ outcome = NoHash /\ outcome' \notin {NoHash, Failed}
  /\ \E m \in Matches : \E found \in Found(m) : Digests(outcome', found)
  /\ UNCHANGED projectVars

Fails ==
  /\ outcome = NoHash /\ outcome' = Failed
  /\ \/ faulty
     \/ \E m \in Matches, f \in Files :
          /\ f \in Selected(m) \cup {Toolchain}
          /\ seen[f] \cap {Unreadable, Missing} # {}
  /\ UNCHANGED projectVars

PromiseSpec ==
  PromiseInit /\ [][(Edit /\ UNCHANGED outcome) \/ Hashes \/ Fails]_promiseVars
=============================================================================
