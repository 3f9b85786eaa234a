# cargo-stylus in TLA+

`cargo stylus` builds Stylus contracts and deals with an Arbitrum chain over
RPC: it checks, deploys, activates and caches programs, verifies deployments,
and traces or replays transactions. This directory models the parts of
`src/main/src` that have behaviour over time, checks them with TLC, and proves
the most important results with TLAPS.

## The system

| Component | State it keeps | Operations | Talks to | What makes it correct |
|---|---|---|---|---|
| `check` (check.rs) | the answer: active, or ready with a fee | `check`, `contract_exists`, `check_activate` | ArbWasm, by calls only | the answer is used while it still holds, or nothing depends on it |
| `deploy` (deploy/mod.rs, deployer.rs) | where it is; quote, fee cap, address | `deploy`, `deploy_contract`, `activate`, `run_tx`, `parse_constructor_args`, `get_address_from_receipt` | check, the chain, StylusDeployer, the contract's own binary | what it prints is true; nothing is spent that is refused later; estimates are free; it ends |
| `activate` (activate.rs) | quote | `activate_contract` | ArbWasm | as above |
| `cache` (cache.rs) | none | `place_bid`, `suggest_bid`, `check_status` | ArbWasmCache, CacheManager | what the manager has against a bid is an error |
| tracer (query.js) | `open`, `stack`: arrays of entries, shared | `hostio`, `enter`, `exit`, `result`, `fault` | runs inside the node | the record is the execution |
| parser (trace.rs) | none | `Trace::new`, `parse_frame` | the node, the tracer's JSON | whatever the tracer writes is read |
| replay (hostio.rs, trace.rs, main.rs) | FRAME (steps left), START_INK, END_INK | 46 host functions over `next_hostio` | the parser, the contract's shared library, a debugger | the local run sees exactly the results of the run on chain |
| project hash (project.rs) | stack of directories, list of files, digest | `hash_project`, `hash_files`, `all_paths`, `read_file_preimage` | a reader thread, over a channel | one hash per source tree, whatever the schedule; it is of all files, or it is known when not; it ends |
| wasm image (project.rs) | the wasm file | `add_project_hash_to_wasm_file`, `strip_user_metadata`, `compress_wasm` | check, verify, get-initcode | the program deployed is the program built |
| verify (verify.rs) | none | `verify` | project, the chain | says "verified" only for the same program, and for what it was deployed from |
| build (project.rs, main.rs) | cargo's target directory | `build_dylib`, `build_shared_library`, `find_shared_library` | cargo | uses the artefact of this build |
| Docker (docker.rs, main.rs) | images | `run_reproducible` | docker, a second cargo stylus | the run inside is the run asked for |
| C generator (gen.rs) | a path, output files | `c_gen` | solc's ABI and storage layout | one C name per function, every selector dispatched, files that fit together |
| the rest | none | export-abi, constructor, get-initcode, new, init, simulate, trace, wallets, printing | | they print or run one process |

What is hard here: every RPC call is an `await` between which the chain and other
runs of the tool move (several of one wallet, several of one program); a
transaction has three fates (mined, reverted, reply lost) and can fail between the
creation of a contract and its activation; fees and the Stylus version change
after they were read; the tracer's callbacks swap shared arrays while nested calls
run; replay only works if three hand-written tables (the node's names, the
parser's, the host functions') agree; a build, a hash and a second reading of the
wasm file are three steps on files that others change; and a reader thread
outlives the receiver of its channel, and may panic in two places. The tool keeps
nothing on disk between runs but cargo's target directory and Docker's images, so
a crash is a run that takes no further step, and a retry is another run.
`PROJECT.json` lists the hazards, each at its line.

## The modules

```
ArbChain ── Session ──┬── Deploy ── DeployInv ── DeployRefines ─┬─ DeployProofs ─┐
 (external) (shared)  │     │                  (DeployPromise)  └─ MCDeploy      │
                      ├── Activate ─┬─ Stylus ─┬─ MCStylus                       │
                      └── CacheBid ─┘          └─ StylusProofs ──────────────────┘
Hostio ── Tracer ── Replay ─┬─ MCReplay
                            └─ ReplayProofs ──┐
Docker ─┬─ DockerProofs ──────────────────────┼── SequenceFacts
        └─ MCDocker                           │
CGen ─┬─ CGenProofs ──────────────────────────┘
      └─ MCCGen
HashPromise ── HashFiles ─┬─ HashProofs     Reproduce ─┬─ ReproduceProofs
                          └─ MCHash                    └─ MCReproduce
```

A module to the right extends the one to its left; Stylus also extends Deploy,
StylusProofs also extends DeployProofs, and three proof modules extend
SequenceFacts, which has facts about sequences that no component owns.

**ArbChain** is the chain, which is not in the repository: nonces, balances,
code at CREATE addresses `<<account, nonce>>`, the Stylus version each program
was last activated with, fees, the cache, and the transactions with their
receipts. A program is its code hash, so two deployments of one program share
its activation. A pending transaction may be mined whenever its cap covers the
base fee and its sender can pay; it executes, or reverts (also without a reason
the model knows, as a gas limit estimated earlier can be too small). Money is
counted in one unit, and each transaction burns one unit of gas.

**Session** is what the commands share. A session is one run of one command; its
`pc` names the RPC call it makes next, so the interleavings are those of the
`await`s; an estimate and the price that goes with it are two calls.
`SimulationError` and `Quotes` are `check_activate`, `Bumped` its truncating
margin, `FeePerGas` is `calculate_fee_per_gas`, `Sends`/`Mined`/`Succeeded` are
the three parts of `run_tx`, `CallFails` is the failure of any call (a panic where
the code says `expect`). Of a constructor a command line has `signature`, what is
given with `--constructor-signature`, and `exported`, what the export binary
prints, which is built without the user's features.

**Deploy** has one action per call of `deploy`: `CheckExists`, `CheckActivate`,
`ParseConstructor`, `CheckBalance`, `EstimateDeployment`, `PriceDeployment`,
`SendDeployment`, `DeploymentMined`, `EstimateActivation`, `PriceActivation`,
`SendActivation`, `ActivationMined`. `Found` is where deploy looks for a
constructor: of a wasm file only the signature on the command line, otherwise what
is exported. With one, the contract goes through the deployer in one transaction;
without one, through a creation and an activation. A constructor that is not found
is one that deploy does not know of.

**Activate** and **CacheBid** are `cargo stylus activate` and `cargo stylus cache
bid`, with actions of their own. What is `send()` in the code is two steps: the
provider fills in the gas limit by an estimate, and the fee (`FillCall`,
`FillBid`), then it submits (`SubmitActivation`, `SendBid`); the chain may move
between the two. **Stylus** composes all three commands on one chain.

**Hostio** holds the tables of the host functions: which step each looks up
(`function_name!()`), which variant it unpacks, whether it compares arguments,
what it copies out. They are translated entry by entry from hostio.rs and
trace.rs, deviations included.

**Tracer** runs a transaction (calls nest, contracts grow memory, run out of ink,
call each other or are called by EVM contracts) and calls the three handlers of
query.js as it goes. JavaScript arrays are references, so `lists` is the heap:
`open` and the elements of `stack` are numbers of lists, and an entry's `sub` is
the list of its nested steps. A frame of a type that query.js does not list
(`CALLCODE`) has an entry without a name. `log` is the ground truth, kept beside it.

**Replay** parses the outcome (`Parses`, `ParseFrame`, `NewTrace`) and runs the
local library against it: `CallHostio` is a call of a host function, `NextHostio`
one round of the loop in `next_hostio`, `ReturnLocally` the end. `right` says
that the library is the contract that ran on chain and has been told the truth
so far; then it calls what it called on chain. Otherwise it may call anything.

**DeployPromise** is a deployment as its user sees it: a contract appears at an
address of its own, it is activated, and one thing is said, once, which is then
true; a refusal or an estimate leaves nothing on chain, then or later.
**DeployRefines** reads those three variables off the chain's transactions and
instantiates the promise; all RPC calls, checks, fees and rivals are hidden.

**HashFiles** is `hash_project` with its two threads. The main thread pops
directories off a stack, takes their entries in any order (`Entry`), sorts the
list (`Spawn`) and receives. The reader opens each file (`Open`), takes its length
(`Measure`), reads it in `Pieces` pieces (`Read`) and sends a preimage or an error.
An error ends the main thread, drops the receiver, and makes the reader's next
`send` panic (`"unheard"`). The `unwrap` of the metadata may panic as well
(`"unmeasured"`): that drops the only sender, and the main thread, whose loop
ends as at the end of the list, returns the hash of the files so far. `faulty`
says that system calls may fail at all. `Disturb` edits, creates, deletes or locks
files all along, the open one too, in place or by putting another in its place, so
that the length and the pieces read may be of different versions. Keccak is the
list of what it was fed. **HashPromise** says what the hash is of, in terms of what
each file has held while the command ran (`seen`), and what may make it fail; it
allows a hash of the first files only where system calls may fail. It is the
abstract specification that HashFiles implements.

**Reproduce** follows sources to the chain and back: `deploy`, `get-initcode` and
`verify` build (`Build`), pick a file by its suffix (`Find`), read it to print a
size (`Measure`), hash the sources (`Hash`), read the file again and turn it into
code (`Compress`), look for a constructor (`Export`), and send or compare
(`CompareCreation`, `CompareDeployment`). `CtorOf` is the constructor of the
contract as built with some features; `ExportsCtor` is the one found, without
them. A transaction has the way it went, its code and the constructor its init
data is for. `deps` is cargo's output directory, one per working copy, in which
files of other crates stay until `cargo clean` (`Clean`, which may fail half-way).
`disturbed` records that somebody else edited, built or cleaned in the copy
meanwhile, so that a property can say whom it holds for.

**Docker** prints the flags of `deploy` and `verify` (`Printed`, from the
`Display` impls, keys and keystore included), splits them at spaces and parses
them as clap does in the container. A value is the sequence of the words between
its spaces, so a value with a space, an empty one, or one that looks like a flag
are cases and not strings. `LookForImage`, `BuildImage` and `Run` are the three
uses of docker; the daemon stops and images disappear between them, `docker run`
may not start, and waiting for it may fail while the container works on
(`WaitFails`).

**CGen** is `c_gen`: one action per function name (the HashMap yields them in any
order), per storage layout, per file written and per file closed, and one for a
failure: an ABI that does not parse, a directory that cannot be made, a file that
cannot be written or is cut short. Files of an earlier run may be there at first;
`Other` is what is not, or not all, of a contract of this run. Pushing an absolute
name replaces the path (`Pushed`). Lines of C are records of what they define; a
line of a router has the arguments it passes (`Args`, from `call_params`).

## The checks

| Run | Question | Properties |
|---|---|---|
| `deploy_race` | two deployments, one wallet or two, one program, both paths, fees and version moving | `TypeOK`, `ReportedIsDeployed`, `SuccessMeansActivated`, `InitializedOrAbsent`, `CheckedFundsRemain`, `IInv`, `BumpCoversRise`, `KeepsPromise` |
| `deploy_flags` | one deployment, every combination of flags, constructors declared, exported or not, a program that is invalid, funds and fees on both sides of their limits | `EstimateSendsNothing`, `RefusedBeforeSpending` |
| `live` | do commands end, when two of them (deploy, activate, cache bid) share a chain and a wallet? is the margin of `activate` a margin? | `Terminates`, `ActivateBumpCoversRise` |
| `replay` | is the record the execution, does the right contract replay to its end, and can any library be handed the wrong result? | `TypeOK`, `RightContractReplays`, `Lockstep`, `TracedAsExecuted`, `UnreadableMeansUnreported` |
| `hash_files` | is the hash the one promised, for every schedule of the threads, files that change and a reader that panics? does it end? | `TypeOK`, `HashInv`, `DigestsEveryPath`, `UnheardAfterError`, `KeepsPromise`, `Ends` |
| `reproduce` | does "verified" mean what it says, and does what was deployed verify? | `TypeOK`, `VerifiedIsBuilt`, `DeploysOwnBuild`, `RoundTrip` |
| `docker` | is the command in the container the one that was asked for? | `TypeOK`, `PlainSurvives`, `SwitchesSurvive` |
| `cgen` | does every selector reach its function, in files that fit together? | `TypeOK`, `NamesAreUnique`, `Dispatches`, `RouterHasItsHeader`, `OutputsFound` |

These pass. What they show, in short:

* deploy: whatever two deployments and the chain do to each other, an address that
  is printed is this run's contract, and a success that is printed was true of the
  Stylus version of the check (whether the program is still unexpired at the end
  is not looked at). A constructor that deploy finds runs with its contract, or
  there is no contract. A refusal costs nothing; `deploy --estimate-gas` is free;
  the fee margin means what it says. A command waits for ever only if another run
  drains its wallet. In a wallet of its own a deployment that passed the balance
  check lacks at most the gas of its creation; in a shared wallet nothing holds.
* tracer and replay: the swapping of `open` and `stack` is right; a replay never
  goes out of step silently, even with the wrong library. The right contract
  replays to its end where every frame of the transaction was reported by a host
  function other than a creation and nothing printed a number. Transactions that
  create contracts or in which EVM contracts call others do fail (see below).
* project hash: a hash is of selected files, once and in order, each piece as
  the file was at some time, not all of one time; and of all files unless the
  reader panicked over a length. The panic of project.rs:337, called impossible
  there, comes only after `hash_files` has failed; that of project.rs:284 ends in
  a hash of a prefix that is returned as if nothing had happened.
* verify: VERIFIED is about the code its own sources compile to, old files in the
  target directory or not, which needs the `cargo clean`; and what deploy or
  get-initcode made of a version is not turned down with the same features. Both
  hold only if nobody else worked in the copies meanwhile, and no file of another
  crate has a name that fits.
* Docker: a plain command line survives the trip into the container. An awkward
  one that runs there has not lost `--estimate-gas` or `--no-activate`, because
  the arguments are printed last, provided that the key, the keystore, its
  password and the version are of one word each. Of the outer exit code nothing
  follows, either way.
* C generator: every selector reaches its function with arguments for its
  parameters, in files that fit together, if no function is called like a numbered
  overload and no Solidity file is named with a directory.

The runs below end in a violation, each of one sentence that the repository says
of itself ("findings" in `PROJECT.json` quotes it):

| Run | What happens |
|---|---|
| `activate_estimate` | `activate --estimate-gas` sends the transaction |
| `bid_reverted` | a bid passes the trial call and the estimate, reverts in its block (the minimum rose, or another bid was first) and is reported as cached |
| `replay_callee` | a creation, a self-destruction or an EVM contract's call makes the default trace unreadable |
| `reproduce_hashes` | sources with another project hash verify: the hash is stripped right after it is added, and so is neither deployed nor compared |

The models show more that no run singles out, because the properties name the
case and exclude it, because the defect is a single line, or because no line of
the repository promises anything else:

* deploy: a constructor is not run that deploy does not find, that of a wasm file
  without `--constructor-signature` (deploy/mod.rs:46) or one behind a feature
  (export_abi.rs:65). Whether to activate is decided before the contract is
  created, so a deployment fails after paying if the same program is activated
  meanwhile; `--constructor-value` without a constructor is attached to the
  activation; `--no-activate` has no effect on a contract with a constructor.
* activate: a reverted activation is reported as a success (activate.rs:63).
* replay: `log_txt` looks up `log_txt`, which the parser calls
  `console_log_text` (hostio.rs:949); `math_mul_mod` unpacks the variant of
  `math_add_mod` (hostio.rs:742); `account_code` copies the 16 bytes of a pointer
  (hostio.rs:214); a printed number makes a trace unreadable unless it has 24
  characters; a transaction to an EVM contract that only makes calls is taken for
  an activation. These functions are excluded from `RightContractReplays` by
  name. A run that was out of ink on chain is reported as a divergence.
* project hash: a reader that panics over a length gives a hash of a prefix, and
  no error (project.rs:284); a pattern spelled without `./` matches no walked path,
  and patterns that match no existing file fall back to the defaults
  (project.rs:171).
* verify: a creation with less than 43 bytes panics; a reverted deployment
  verifies; FAILED exits with 0.
* Docker: the constructor's value is printed in wei and read in ether
  (main.rs:525, 290); a signature keeps its quotes; several patterns become one;
  `--constructor-args` in a key path takes the switches for arguments; the exit
  codes of docker build and docker run are dropped, and an error of `wait` says
  nothing of what the container did (docker.rs:93).
* C generator: a function called `f_1` clashes with the second `f`; two variables
  of one name (private ones of a base contract) define one macro twice; slots
  from 2^64 on are skipped; a Solidity file in a directory shifts all that
  follow it one level deeper, and an absolute name leaves the output directory
  (gen.rs:36, 272); the router of an earlier run may stay beside a new header.

### Bounds, and why they are enough

* *Deploy*: two sessions everywhere, because every hazard is between one run and
  one rival (a wallet, a program, or both, shared). Each session sends at most two
  transactions, so `MaxNonce` = 4 never stops one (3 in `activate_estimate`, where
  each sends one). `MaxVersion` = 2 lets one upgrade happen between any two steps.
  Fees 5 and 7 against a margin of 20 % are no rise and one beyond the margin
  (5 → 7 is 40 %); the quote 5 · 1.2 = 6 fits the small wallet of 7 but leaves too
  little after the creation's gas, and 7 · 1.2 = 8 does not fit. In `deploy_flags`
  the fee 11 is above `SimValue` 9 and the cap 2 lies between the base fees 1 and
  3; it has one session, because flags are about one run. In `live` the fees are
  the same, the base fee moves between 1 and 2, and a wallet holds 9, enough for one
  command and not always for two, so that one is drained; programs are not upgraded
  there (`MaxVersion` = 1), so that the chain is small enough for liveness. In
  `bid_reverted` the least bid is 1 or 2 and the bid 1.
* *Replay*: frames nest three deep (a call in a call, and a second call after the
  first returns), of the types CALL, CREATE, SELFDESTRUCT and CALLCODE, which the
  tracer treats in four ways. Up to three host functions are called on chain, with
  an argument that may differ; one copied word stands for every result. `Used` has
  one function of each way the tables treat a function: one that compares its
  argument (`storage_cache_bytes32`), one that unpacks the wrong variant
  (`math_mul_mod`), one whose step has another name and may be unreadable
  (`log_i32`).
* *HashFiles*: four files (one default, one in a subdirectory, one below `target`,
  the toolchain file) in three directories, so that the stack holds two; five
  sets of patterns (none, one, one spelled without `./`, the toolchain file
  listed twice, build output); four initial disks; two contents of different
  lengths; `Pieces` = 2, so that an edit falls between two reads of one file;
  `MaxEdits` = 2, so that a file changes and changes back, or two files change.
* *Reproduce*: two commands, since every hazard is between one command and a
  rival or between a deployment and its verification; two copies of the project;
  four versions: a plain one, one with another comment (other hash, same body),
  one that was renamed so that its file name ends with the other's and has a
  constructor and a helper crate, and one that does not compile; one feature, which
  adds the constructor; wasm files with and without a signature and a hash section;
  `MaxEdits` = 1.
* *Docker*: two commands, values of no word, one and two, among them texts that
  are the names of switches; every kind of key; three images.
* *CGen*: a Solidity file with two contracts, in the output directory, in a
  directory of its own or named absolutely, and a second file with a contract of
  the same name or none; overloads, a function called like a numbered overload,
  variables that are skipped or share a label; any of the two files of one contract
  left by an earlier run.
* `Interchangeable` (symmetry) is used for safety only: sessions and commands
  differ by the command line drawn for them and by nothing else.
* Deadlock is not checked: a command that has ended is supposed to stop.

### Fairness

Only `live` and `hash_files` assume any. In `hash_files` both threads are
scheduled by the operating system (weak fairness on each), edits are not; the
main thread waits for the channel to close, which happens when the reader has
sent its last file or has died of either panic. In `live` (`CommandFairness`) a
session takes its next step when it can (weak: the future is polled, RPC calls
answer or fail). A transaction that is includable again and again is included
(strong: while the base fee moves it is not includable all the time). The base fee
comes down again after a rise (weak). No fairness is put on upgrades, expiry, fee
moves or failing calls. A transaction whose cap is the base fee of the moment it
was sent would otherwise wait for ever, since `get_receipt` has no timeout.
`Drained` in `Terminates` is the case that remains: another run of the same
wallet spent what the pending transaction needs.

## The proofs

`DeployProofs` proves for every set of sessions, wallets, programs, fees and
every bound, with no assumptions beyond `ChainConstants`, `NoAddrIsNone` and
`SessionConstants`:

* `TypeCorrect`: `Spec => []TypeOK`;
* `Inductive`: `Spec => []IInv`;
* from it `ReportsAreTrue`, `SuccessIsTrue`, `ConstructorsRun` and
  `EstimatesAreFree`, that is `ReportedIsDeployed`, `SuccessMeansActivated`,
  `InitializedOrAbsent` (of the constructors that deploy finds) and
  `EstimateSendsNothing`.

None of those is inductive. That a printed address holds the session's program
needs to know what the pending transaction carries, which is decided when it is
sent; that no two sessions print the same address needs that a mined creation
has taken a nonce below the account's next one, so that a later one is
elsewhere; that a success is true needs that versions only rise and that the
version at the check was the chain's. `IInv` (module DeployInv) says those
things: `StageInv` where a session is, `TxInv` what it has sent, `VersionInv`
what it knows of the program, and `DistinctContracts`. The proof splits on who
moves. A step of a session changes its own variables and transactions only
(`StepIsLocal`), so the others' invariant is kept (`RestingKeeps`) and its own is
shown action by action (`StepKeeps`). A step of the chain lets versions and
nonces rise and keeps code in place (`EnvironmentGrows`); only mining changes
transactions, one at a time (`MineEffect`, `MinedKeeps`, `MinedDistinct`).

`StylusProofs` proves what the numbers of the check are worth later: `MarginHolds`
(`BumpCoversRise`) and `FundsHold` (`CheckedFundsRemain`), of Deploy alone. Both
relate a value read before the deployment to the chain as it is when it is spent.
`QuoteInv` keeps the quote equal to the bumped fee of the check for as long as it
may be spent, and `BumpedCovers` shows that what the division truncates never eats
into the margin. `FundsInv` says from which call on the wallet still holds the
data fee, and that only the gas of the creation may be missing after it is mined:
in a wallet no other run uses, the transactions that can be mined between the
check and the activation are that one creation (`ChainKeepsFunds`, with `StageInv`
and `TxInv` excluding every other), and a block takes no more gas for it than its
cap (`MinePays`).

It then proves of the composition, whatever deployments, activations and bids run
on one chain, `StylusTypes` (`TypeOK`) and `CallMarginHolds`
(`ActivateBumpCoversRise`). For the margin, `CallInv` keeps the quote of an
`activate` equal to the bumped fee of its check through both estimates, which no
other command and no block touches. Of bids nothing is proved: what could be
promised of them does not hold (`bid_reverted`).

`DeployProofs` also proves `RefusalsAreFree` (`RefusedBeforeSpending`) and
`ImplementsPromise`, `Spec => KeepsPromise`: Deploy implements DeployPromise. The
refinement needs more than `IInv`: `PromiseInv` (module DeployRefines) says that
only checked programs get on chain to be activated, that what is refused has
sent nothing, and that a contract with a constructor has no activation of its
own. Its steps are then local (`StepKeepsPromiseInv` for sessions,
`MinedKeepsPromiseInv` for the chain). A session's step only ever says something,
and the truth (`StepsOnlySay`, `SaysTheTruth`); of the chain's steps, in
`MineImplements`, a mined creation is `Deployed` because its address is new
(`DistinctContracts`), a mined deployer transaction is `DeployedAndActivated`, and
every other step of the chain is a stutter.

`HashProofs` proves for every project, every set of patterns and any number of
edits `HashTypes` (`TypeOK`), `HashInvariant` (`HashInv`), `EveryPathDigested`
(`DigestsEveryPath`) and `UnheardIsTooLate` (`UnheardAfterError`). `HashInv` is
what makes them inductive: the digest followed by the channel is what the reader
has read so far, in the order of the list; a receiver exists until `hash_files`
returns; and a hash is returned only by a reader that is done, or has panicked
over a length and then has digested less than the list. Its only assumption is
`TreeConstants` with `HashConstants`.

It also proves `HashImplementsPromise`: HashFiles implements HashPromise
(`KeepsPromise`). The invariant behind it, `RefineInv`, follows the files through
the program. `TreeInv` and `FoundInv` are about the walk, which keeps no record of
where it has been: what the directories still to be read have under them (`Under`,
the least set that has it, which needs no induction) is disjoint and does not meet
the files found, so that no file is found twice; and every selected file that was
there all the time is found or ahead, so that none is missed. The lemmas on trees
(`UnderSplit`, `NoCycle`, `ApartBelow`) say how a directory's part is divided
among those it lists. `ListInv` has the list sorted, with each file once and the
toolchain file once more (`ListCopies`, on cardinalities). `ReadInv` says that the
length and every piece read of a file are of versions it has held, and that an
error stands for a file of the list that could not be opened, unless system calls
may fail. A hash of a prefix of the sorted list meets the promise's exception: it
has each file at most as often as promised, and none that comes after a file it
lacks. The steps of the promise are then `HashIsTrue` (for `Finalize`),
`FailureIsTrue` (for an error received) and the edits; all others are stutters. It
assumes `TreeAssumption`: no directory or file is reached in two ways (the code
follows links to directories), and `Reachable` is what lies under the root and not
under `target` or `.git`; and `OutcomesAssumption`, that the marks for no hash and
for an error are not lists of preimages.

`ReplayProofs` proves `TraceIsExecution` (`TracedAsExecuted`), `ReplayTypes`
(`TypeOK`), `LockstepHolds` (`Lockstep`), `RefusalsAreKnown`
(`UnreadableMeansUnreported`) and `ReplaysToTheEnd` (`RightContractReplays`) for
every set of calls, host functions and arguments, every local library and every
bound on frames and steps, from `TracerConstants` and `ReplayConstants`.
`TracerInv` adds to `TracedAsExecuted` what it needs of the call stack
(`StackInv`): open frames have numbers of their own, each but the last waits for
the one above it, and only a Stylus frame is left with a call to report. Its proof
has one lemma per kind of step; the ones that carry it are `EndsTraced` (exit pops
the right list and the caller's last entry is the unfinished step) and
`ReportsTraced` (the entry popped by `hostio` is that of the frame just left). For
`Lockstep`, `ReaderInv` says that the steps left are the end of the outermost log,
`ProgramInv` that each call of the contract is in that log at its place and that
no other host function is, and `ProgressInv` that the answered calls are exactly
those before the step to be read next. `NextCall` is then the heart: the first
step with the name that is looked for is the next call. `Answered`, the invariant
proved, is `Lockstep` with what the reader makes of a result (`Copied`). The
theorem assumes `Plain`, that contracts do not call `pay_for_memory_grow`
themselves, which the virtual machine records too, and that they do not use
`account_code`, whose result is replaced by 16.

For `RefusalsAreKnown`, `NestInv` says that an entry with steps of its own refers to
a later list than the one it is in. `ParseFrame` is a recursive function, of which
one knows only that it solves its equation if anything does; `AllParse` gives a
solution, and shows that no solution is false at a last list, so that the parser
reads every list if each entry parses by itself. For `ReplaysToTheEnd`, `HeadInv`
says that the log of a Stylus contract has a step without an address, so that it is
neither empty nor taken for an activation, and `RightInv` that what the right
contract waits for is its next call on chain. Then a round of `next_hostio` that
meets anything meets a step of the virtual machine, a frame that no host function
reports (excluded) or that call (`RightGoesOn`), and it meets something. What it
excludes is common: creations, calls by EVM contracts and printed numbers in any
frame, misfits called by the contract itself, and a run cut short. In the first two
the replay does fail with the default tracer (`replay_callee`). This theorem assumes
`Plain` alone. Without `Plain` both are false: on an instance whose contracts call
`pay_for_memory_grow` TLC finds a growth of memory answered in its place.

`ReproduceProofs` proves for every project, any number of commands, working copies
and edits `ReproduceTypes` (`TypeOK`), `VerifiedMeansBuilt` (`VerifiedIsBuilt`),
`DeploymentsAreBuilt` (`DeploysOwnBuild`) and `RoundTrips` (`RoundTrip`).
`ReproduceInv` says of a command that nobody has disturbed what it may count on at
each step: after cargo, its copy holds the version it has built and the files of
that build, and nothing else if it is `verify`, which has cleaned the directory
(`PathInv`, `BuildInv`); the code it holds is the body of a file whose name fits
(`CodeInv`); the constructor it has looked up is that of the sources it has built
(`CtorInv`); a verdict compares that code and that constructor with the
transaction's (`VerdictInv`); a transaction is what its command held when it ended
(`SentInv`); and no code on chain has a project hash (`StrippedInv`). A command at
rest keeps its part whatever the others do (`StepRests`, `EditRests`,
`RestingKeeps`), so a step of a command is about that command alone
(`MovingKeeps`, one lemma per action). For `RoundTrips` both ends have then built
one version with the same features, each has taken the one file of the own crate,
and each has looked for the constructor in the same way. It assumes
`ReproduceConstants` and `BuildsAssumption`: a directory has one file of a name,
and a build that succeeds leaves the library that Cargo.toml names.

`DockerProofs` proves for any number of commands with any flags, values and
constructor arguments `TypesOfDocker` (`TypeOK`), `PlainLinesSurvive`
(`PlainSurvives`) and `AllSwitchesSurvive` (`SwitchesSurvive`), from
`DockerAssumption`, which says what a parsed command line is (one key of three
kinds among it). The work is in what printing, splitting and parsing do to a line: a
printed line is the flags and then the constructor's arguments; `split(' ')` drops
the empty words of each part by itself. In a plain line the first
`--constructor-args` is the one that was printed, and the line is parsed to what was
asked, option by option (`PlainRead`). In any other line it may be a word of a value;
but a line that parses has its key before it, and between the key and the last
switch only the keystore, its password and the version are printed, which are of
one word each (`DeploySwitchesRead`, `VerifySwitchesRead`). With `IInv` (what a
command has parsed is its own printed line) the theorems follow; the interleaving
of commands and of the daemon does not matter to them.

`CGenProofs` proves for every output of solc `TypesOfCGen` (`TypeOK`),
`HeadersAreUnique` (`NamesAreUnique`), `SelectorsArrive` (`Dispatches`),
`RoutersHaveHeaders` (`RouterHasItsHeader`) and `FilesAreFound` (`OutputsFound`).
`CGenAssumption` is what JSON gives: no two contracts of a file and no two files
have one name, no two functions of a contract one signature. The C functions of a
contract have different names in whatever order the HashMap yields them, because
overloads are numbered along their sorted list and `C` names of different
functions differ unless one is called like a numbered overload (`CNamesApart`).
`IInv` says how far the command is (`PlaceInv`, `PathInv`), that the lines
collected are those of the functions and variables visited (`WorkInv`), that a
file on disk is whole and from where its name says, or not of this run
(`DiskInv`), that a router's header was closed before it (`PairInv`) and that what
is done is on disk (`OutInv`). Where no Solidity file is named with a directory, a
file's name tells its contract (`KeysDecide`). The theorems but `TypesOfCGen` and
`HeadersAreUnique` assume that (`Flat`), and `HeadersAreUnique` and
`SelectorsArrive` except the contracts that clash (`Clashes`, `SharesLabels`).

`SequenceFacts` has what the three need of sequences. The library's induction
theorems take an operator as a parameter, which the provers here cannot
instantiate; `Induction` states the principle for a set of numbers instead, from the
well-foundedness of strict inclusion of finite sets. What `FlattenSeq` returns for
every sequence of sequences is proved with it (`FlattenAppend` and what follows
from it), and that sorting by `CHOOSE` enumerates a set (`SortedEnumeration`).

TLC checks two of the inductive invariants in a run, Deploy's `IInv` and `HashInv`;
those of Docker, CGen and Replay were found with TLC, on the instances of their
runs, before they were proved.

Only model-checked: `Terminates` and `Ends`, which are liveness under fairness and
out of the prover's reach, and the four violations, which are counterexamples.
`RightContractReplays` and `Lockstep` are proved under the hypotheses above on the
host functions contracts use, which the instances of the runs satisfy. All
invariants of Deploy are proved of `Spec`, in which every session deploys; that
they hold of the deployments beside other commands (`StylusSpec`) is not proved.

## What is not modelled, and why

* `suggest_bid`, `check_status`, export-abi, new, init, trace, simulate: they
  read and print, or run one process.
* `build_shared_library` and `find_shared_library`: replay may load any library in
  the model, so what they find does not matter to its properties.
* Keys, ABI and hex encoding, brotli, JSON: the data is told apart by identity.
  The layouts of steps are taken to be those the node writes, except `console_log`,
  whose reader depends on the length of a Rust type.
* One cache manager, one log per receipt, one sender nonce order per block.
* The native tracer (`stylusTracer`), which runs in the node and is assumed to
  write the same structure with `args` and `outs` on every entry.

## Plan

Done: ArbChain, Session, Deploy, Activate, CacheBid, Stylus; Hostio, Tracer, Replay;
DeployPromise, DeployRefines; HashPromise, HashFiles; Reproduce (build, image,
verify); Docker; CGen; and the proofs of all of them: every invariant and action
property that a run checks is a theorem, and so are both refinements. Left, in this
order:

1. Deploy's invariants for the deployments of `StylusSpec`, where
   activations and bids share their chain and wallets.
2. Several logs per receipt, so that `get_address_from_receipt` can meet a
   constructor that deploys; `suggest_bid` feeding a bid.
3. `build_shared_library` and `find_shared_library`, composed with Replay: the
   library replayed is the one built.
