----------------------------- MODULE HashFiles ------------------------------
(***************************************************************************)
(* hash_project: the main thread walks the project's directories, sorts    *)
(* the files it selects and spawns a thread that reads them one by one and *)
(* sends each preimage (or error) over a channel; the main thread feeds    *)
(* Keccak with what it receives and returns at the first error, which      *)
(* closes the channel under the reader, or when the channel is closed by   *)
(* the reader, which may have come to its end or have panicked.  Meanwhile *)
(* files change, the one that is open among them.                          *)
(*                                                                         *)
(* Keccak is modelled by the list of what it is fed: each preimage has the *)
(* length that the file was said to have and the pieces that were read.    *)
(* The bytes that come first, cargo's version and the optimisation level,  *)
(* are left out.                                                           *)
(***************************************************************************)
EXTENDS HashPromise

CONSTANTS
  Root, Dirs,  \* the directories of the project, "." among them
  Children,    \* the entries of each: files and directories
  Skipped,     \* the directories called "target" or ".git"
  Pieces,      \* bound: the reads that a file takes
  MaxEdits     \* bound: changes to files while the command runs

ASSUME TreeConstants ==
  /\ Root \in Dirs /\ Skipped \subseteq Dirs /\ Dirs \cap Files = {}
  /\ Children \in [Dirs -> SUBSET (Dirs \cup Files)]
  /\ Pieces \in Nat \ {0} /\ MaxEdits \in Nat

Preimage == [file : Files, length : Nat, contents : Seq(Contents)]

ASSUME OutcomesAssumption ==
  NoHash \notin Seq(Preimage) /\ Failed \notin Seq(Preimage) \cup Preimage

\* The directories that a walk from `d` reads: no others are needed for a set
\* with `d` that has the directories to descend into of each of its members.
Under(d) ==
  {x \in Dirs : \A S \in SUBSET Dirs :
     d \in S /\ (\A y \in S : (Children[y] \cap Dirs) \ Skipped \subseteq S) => x \in S}

\* No links: what a directory lists is listed in no other, and the project's
\* own directory in none.
ASSUME TreeAssumption ==
  /\ \A d, e \in Dirs : d # e => Children[d] \cap Children[e] = {}
  /\ \A d \in Dirs : Root \notin Children[d]
  /\ Reachable = UNION {Children[d] \cap Files : d \in Under(Root)}

VARIABLES
  pc,         \* what the main thread does next
  globPaths,  \* what the patterns were expanded to
  directories,\* the stack of directories still to read
  entries,    \* what the directory being read has not yielded yet
  files,      \* the files found, in the order they were
  paths,      \* the same sorted, with the toolchain file
  next,       \* the place in `paths` of the file the reader reads next
  opened,     \* what that file, once open, holds now; Missing: it is not open
  length,     \* the length it was said to have
  got,        \* the pieces read of it
  reader,     \* what the reader thread does next, or how it ended
  channel,    \* preimages and errors sent and not received
  receiver,   \* the receiver has not been dropped
  keccak,     \* what has been digested
  edits       \* changes so far

walkVars == <<globPaths, directories, entries, files>>
openVars == <<opened, length, got>>
readVars == <<next, openVars, reader, channel>>
hashVars == <<pc, walkVars, paths, readVars, receiver, keccak>>
vars == <<promiseVars, hashVars, edits>>

\* The reader has not been spawned, is about to open a file, take its length or
\* read on, has sent all; or has panicked: over a length it could not take, or
\* because nobody received what it sent.
ReaderStates == {"none", "opens", "measures", "reads", "done", "unmeasured", "unheard"}

TypeOK ==
  /\ disk \in [Files -> States] /\ seen \in [Files -> SUBSET States]
  /\ patterns \in Patterns /\ faulty \in BOOLEAN
  /\ outcome \in {NoHash, Failed} \cup Seq(Preimage)
  /\ pc \in {"start", "glob", "walk", "sort", "receive", "returned", "exited"}
  /\ globPaths \subseteq Spelled
  /\ directories \in Seq(Dirs) /\ entries \subseteq Dirs \cup Files
  /\ files \in Seq(Files) /\ paths \in Seq(Files)
  /\ next \in Nat \ {0} /\ opened \in Contents \cup {Missing}
  /\ length \in Nat /\ got \in Seq(Contents)
  /\ reader \in ReaderStates
  /\ channel \in Seq(Preimage \cup {Failed})
  /\ receiver \in BOOLEAN /\ keccak \in Seq(Preimage)
  /\ edits \in Nat

Init ==
  /\ PromiseInit
  /\ pc = "start"
  /\ globPaths = {} /\ directories = <<>> /\ entries = {} /\ files = <<>>
  /\ paths = <<>> /\ next = 1 /\ reader = "none"
  /\ opened = Missing /\ length = 0 /\ got = <<>>
  /\ channel = <<>> /\ receiver = TRUE /\ keccak = <<>>
  /\ edits = 0

-----------------------------------------------------------------------------
(* The main thread.                                                        *)

\* hash_files returns: what it still holds, the receiver included, is dropped.
Returns(what) ==
  /\ outcome' = what
  /\ pc' = "returned"
  /\ receiver' = FALSE

\* A call that fails: cargo --version, a pattern, read_dir.
CallFails ==
  /\ faulty /\ pc \in {"start", "glob", "walk"}
  /\ Returns(Failed)
  /\ UNCHANGED <<projectVars, walkVars, paths, readVars, keccak, edits>>

\* The toolchain file must exist.
CheckToolchain ==
  /\ pc = "start"
  /\ IF disk[Toolchain] = Missing
       THEN Returns(Failed)
       ELSE pc' = "glob" /\ UNCHANGED <<outcome, receiver>>
  /\ UNCHANGED <<projectVars, walkVars, paths, readVars, keccak, edits>>

Exists(f) == disk[f] # Missing

\* expand_glob_patterns, on the file system as it is now.
ExpandGlobs ==
  /\ pc = "glob" /\ pc' = "walk"
  /\ globPaths' = {p \in patterns : Exists(p[2])}
  /\ directories' = <<Root>>
  /\ UNCHANGED <<promiseVars, entries, files, paths, readVars, receiver, keccak,
                 edits>>

ReadDir ==
  /\ pc = "walk" /\ entries = {} /\ directories # <<>>
  /\ LET last == Len(directories) IN
       /\ entries' = Children[directories[last]]
       /\ directories' = SubSeq(directories, 1, last - 1)
  /\ UNCHANGED <<promiseVars, pc, globPaths, files, paths, readVars, receiver,
                 keccak, edits>>

\* Mutant: the names filter the files even where patterns are given.
IncludesByName(f) == f \in Defaults

Includes(f) == IF globPaths # {} THEN <<"./", f>> \in globPaths
                                 ELSE f \in Defaults

\* Mutant: build output and the repository's own files are walked too.
DescendsAnywhere(d) == TRUE

Descends(d) == d \notin Skipped

\* The directory yields its entries in any order.
Entry(e) ==
  /\ pc = "walk" /\ e \in entries
  /\ entries' = entries \ {e}
  /\ directories' = IF e \in Dirs /\ Descends(e) THEN Append(directories, e)
                                                 ELSE directories
  /\ files' = IF e \in Files /\ Exists(e) /\ Includes(e) THEN Append(files, e)
                                                         ELSE files
  /\ UNCHANGED <<promiseVars, pc, globPaths, paths, readVars, receiver, keccak,
                 edits>>

EndOfWalk ==
  /\ pc = "walk" /\ entries = {} /\ directories = <<>>
  /\ pc' = "sort"
  /\ UNCHANGED <<promiseVars, walkVars, paths, readVars, receiver, keccak, edits>>

Occurrences(s, f) == Cardinality({i \in 1 .. Len(s) : s[i] = f})

IsSorted(s) == \A i, j \in 1 .. Len(s) : i < j => Rank[s[i]] <= Rank[s[j]]

\* Mutant: the files are hashed in the order they were found in.
InOrderFound(s, t) == s = t

\* `t` is what sort makes of `s`.
Sorts(s, t) ==
  /\ IsSorted(t)
  /\ \A f \in Files : Occurrences(t, f) = Occurrences(s, f)

\* The toolchain file is listed, the list sorted and the reader spawned.
Spawn ==
  /\ pc = "sort" /\ pc' = "receive"
  /\ LET listed == Append(files, Toolchain) IN
       \E t \in [1 .. Len(listed) -> Files] : Sorts(listed, t) /\ paths' = t
  /\ reader' = "opens"
  /\ UNCHANGED <<promiseVars, walkVars, next, openVars, channel, receiver, keccak,
                 edits>>

\* Mutant: a file that cannot be read is left out of the hash.
SkipsErrors(x) == FALSE

StopsAt(x) == x = Failed

\* One turn of `for result in rx`; an error returns from hash_files.
Receive ==
  /\ pc = "receive" /\ channel # <<>>
  /\ channel' = Tail(channel)
  /\ IF StopsAt(Head(channel))
       THEN Returns(Failed) /\ UNCHANGED keccak
       ELSE /\ keccak' = IF Head(channel) = Failed
                           THEN keccak ELSE Append(keccak, Head(channel))
            /\ UNCHANGED <<outcome, pc, receiver>>
  /\ UNCHANGED <<projectVars, walkVars, paths, next, openVars, reader, edits>>

\* Mutant: the loop ends when the channel is empty.
ClosedWhenEmpty == channel = <<>>

\* Mutant: the main thread has kept a sender of its own until it returns.
SenderKept == channel = <<>> /\ pc = "returned"

\* The channel is empty and its sender is gone: at the reader's end, whichever
\* that was.
Closed == channel = <<>> /\ reader \in {"done", "unmeasured", "unheard"}

Finalize ==
  /\ pc = "receive" /\ Closed
  /\ Returns(keccak)
  /\ UNCHANGED <<projectVars, walkVars, paths, readVars, keccak, edits>>

\* main returns and the process ends, whatever the reader is doing.
Exit ==
  /\ pc = "returned" /\ pc' = "exited"
  /\ UNCHANGED <<promiseVars, walkVars, paths, readVars, receiver, keccak, edits>>

MainStep ==
  \/ CallFails \/ CheckToolchain \/ ExpandGlobs \/ ReadDir
  \/ \E e \in entries : Entry(e)
  \/ EndOfWalk \/ Spawn \/ Receive \/ Finalize \/ Exit

-----------------------------------------------------------------------------
(* The reader thread.                                                      *)

ReaderRuns == reader \in {"opens", "measures", "reads"} /\ pc # "exited"

\* send() fails once the receiver is gone, and `expect` makes that a panic.
Sends(x) ==
  /\ IF receiver
       THEN channel' = Append(channel, x) /\ next' = next + 1 /\ reader' = "opens"
       ELSE reader' = "unheard" /\ UNCHANGED <<channel, next>>
  /\ opened' = Missing /\ length' = 0 /\ got' = <<>>

\* Mutant: whether the file could be opened is not looked at.
CanOpenIfThere(f) == Exists(f)

CanOpen(f) == disk[f] \in Contents

\* read_file_preimage opens the next file, or fails.
Open ==
  /\ ReaderRuns /\ reader = "opens" /\ next <= Len(paths)
  /\ IF CanOpen(paths[next])
       THEN /\ opened' = disk[paths[next]] /\ reader' = "measures"
            /\ UNCHANGED <<next, length, got, channel>>
       ELSE Sends(Failed)
  /\ UNCHANGED <<promiseVars, pc, walkVars, paths, receiver, keccak, edits>>

\* metadata().unwrap(): the length, or a panic that drops the only sender.
Measure ==
  /\ ReaderRuns /\ reader = "measures"
  /\ \/ reader' = "reads" /\ length' = LengthOf[opened] /\ UNCHANGED opened
     \/ faulty /\ reader' = "unmeasured" /\ opened' = Missing /\ UNCHANGED length
  /\ UNCHANGED <<promiseVars, pc, walkVars, paths, next, got, channel, receiver,
                 keccak, edits>>

\* A read returns what the file holds by now.
WithPiece(s) == Append(s, opened)

\* read_to_end reads a piece, the last piece, or fails.
Read ==
  /\ ReaderRuns /\ reader = "reads"
  /\ \/ /\ Len(got) + 1 < Pieces
        /\ got' = WithPiece(got)
        /\ UNCHANGED <<next, opened, length, reader, channel>>
     \/ /\ Len(got) + 1 = Pieces
        /\ Sends([file |-> paths[next], length |-> length,
                  contents |-> WithPiece(got)])
     \/ faulty /\ Sends(Failed)
  /\ UNCHANGED <<promiseVars, pc, walkVars, paths, receiver, keccak, edits>>

Done ==
  /\ ReaderRuns /\ reader = "opens" /\ next > Len(paths)
  /\ reader' = "done"
  /\ UNCHANGED <<promiseVars, pc, walkVars, paths, next, openVars, channel,
                 receiver, keccak, edits>>

ReaderStep == Open \/ Measure \/ Read \/ Done

\* A file changes.  If the reader has it open, that may be a change of the file
\* it reads (a write in place) or leave it alone (another file takes the name).
Disturb ==
  /\ edits < MaxEdits /\ edits' = edits + 1 /\ pc # "exited"
  /\ Edit
  /\ opened' \in {opened} \cup
       (IF opened # Missing /\ disk'[paths[next]] # disk[paths[next]]
          THEN {disk'[paths[next]]} \cap Contents ELSE {})
  /\ UNCHANGED <<outcome, pc, walkVars, paths, next, length, got, reader, channel,
                 receiver, keccak>>

Next == MainStep \/ ReaderStep \/ Disturb

\* Both threads are scheduled.
Spec == Init /\ [][Next]_vars /\ WF_vars(MainStep) /\ WF_vars(ReaderStep)

-----------------------------------------------------------------------------
\* The threads, their channel and the arbitrary order of directory entries
\* implement the promise: what the reader of project.rs would call "the hash
\* of the project's files", with the two exceptions that HashPromise names.
KeepsPromise == PromiseSpec

\* A hash is of the listed files, each read once and in its place: nothing is
\* doubled or reordered between the reader and the digest; and of all of them,
\* unless the reader could not take the length of a file it had opened: that
\* panic closes the channel (project.rs:284), and the hash is of the files
\* before.
DigestsEveryPath ==
  outcome \notin {NoHash, Failed} =>
    /\ Len(outcome) <= Len(paths)
    /\ \A i \in 1 .. Len(outcome) : outcome[i].file = paths[i]
    /\ Len(outcome) = Len(paths) <=> reader # "unmeasured"

\* The panic of project.rs:337, "failed to send preimage (impossible)", is
\* possible, but only in a command that has already failed with the error
\* that closed the channel: unlike that of project.rs:284, it costs no file.
UnheardAfterError ==
  reader = "unheard" => outcome = Failed /\ pc \in {"returned", "exited"}

\* The inductive invariant behind the two: what has been digested, followed by
\* what is in the channel, is what the reader has read so far, in its order;
\* the channel has a receiver until hash_files returns; and nothing is read
\* before the list of files is complete.
HashInv ==
  /\ pc \in {"start", "glob", "walk", "sort"} =>
       /\ reader = "none" /\ next = 1
       /\ paths = <<>> /\ channel = <<>> /\ keccak = <<>>
  /\ next <= Len(paths) + 1
  /\ opened # Missing <=> reader \in {"measures", "reads"}
  /\ reader \in {"measures", "reads", "unmeasured"} => next <= Len(paths)
  /\ reader = "done" => next = Len(paths) + 1
  /\ \A i \in 1 .. Len(keccak) : keccak[i].file = paths[i]
  /\ receiver <=> pc \notin {"returned", "exited"}
  /\ receiver =>
       /\ outcome = NoHash /\ reader # "unheard"
       /\ Len(keccak) + Len(channel) = next - 1
       /\ \A i \in 1 .. Len(channel) :
            channel[i] # Failed => channel[i].file = paths[Len(keccak) + i]
  /\ ~receiver =>
       \/ outcome = Failed
       \/ /\ outcome = keccak
          /\ \/ reader = "done" /\ Len(keccak) = Len(paths)
             \/ reader = "unmeasured" /\ Len(keccak) < Len(paths)

\* The command ends, whatever happens to the files.
Ends == <>(pc = "exited")
=============================================================================
