------------------------------ MODULE Session -------------------------------
(***************************************************************************)
(* Runs of `cargo stylus` against one chain.  A session is one run of one  *)
(* command; this module has its state and what the commands share: check,  *)
(* gas estimates, sending a transaction, and the ways a run ends.  A run   *)
(* keeps nothing on disk, so a run that is killed is one that takes no     *)
(* further step, and a retry is another session.                           *)
(***************************************************************************)
EXTENDS ArbChain

CONSTANTS
  Configs,   \* the command lines the sessions are started with
  SimValue   \* what the simulated activation of `check` attaches (1 ETH)

\* A command line, the wallet it signs with, and what deploy gets to know of the
\* constructor: `signature` is the one given on the command line, `exported` the
\* one that the export binary prints, built without the user's features.
\* `given` counts the constructor arguments, `want` the parameters; `bump` is a
\* percentage; `maxFee` 0 leaves the fee cap to the tool.
Config == [cmd : {"deploy", "activate", "bid"}, user : Users, code : Codes,
           target : Addrs, estimate : BOOLEAN, noActivate : BOOLEAN,
           wasmFile : BOOLEAN, signature : {"none", "plain", "payable"},
           exported : {"none", "plain", "payable"}, given : Nat, want : Nat,
           ctorValue : Nat, bump : Nat, maxFee : Nat, bid : Nat]

ASSUME SessionConstants == Configs \subseteq Config /\ SimValue \in Nat

VARIABLES
  cfg,      \* the session's command line
  pc,       \* the call the session makes next, or how it ended
  active,   \* ContractCheck::Active
  quote,    \* the data fee `check` returned, the bump included
  cap,      \* the max fee per gas of the next transaction
  addr,     \* the contract address the session has printed
  verdict,  \* the last line it printed: its success message or its error
  seenVersion, seenFee  \* history: the chain's values at the check

sessVars == <<cfg, pc, active, quote, cap, addr, verdict, seenVersion, seenFee>>
vars == <<chainVars, sessVars>>

Calls == {"exists", "simulate", "args", "balance", "estimate", "price", "send",
          "wait", "act_estimate", "act_price", "act_fill", "act_send", "act_wait",
          "manager", "try_bid"}
Ends == {"ok", "bail", "panic"}
Successes == {"activated", "already_active", "must_activate", "initialized",
              "estimated", "cached"}
Errors == {"rpc", "lost", "invalid", "uptodate", "fee", "funds", "flags",
           "reverted", "uncachable"}

SessTypeOK ==
  /\ cfg \in [Sessions -> Configs]
  /\ pc \in [Sessions -> Calls \cup Ends]
  /\ active \in [Sessions -> BOOLEAN]
  /\ quote \in [Sessions -> Nat]
  /\ cap \in [Sessions -> Nat]
  /\ addr \in [Sessions -> Addrs \cup {NoAddr}]
  /\ verdict \in [Sessions -> {"none"} \cup Successes \cup Errors]
  /\ seenVersion \in [Sessions -> 0 .. MaxVersion]
  /\ seenFee \in [Sessions -> Nat]

TypeOK == ChainTypeOK /\ SessTypeOK

FirstCall(cmd) == CASE cmd = "deploy"   -> "exists"
                    [] cmd = "activate" -> "simulate"
                    [] cmd = "bid"      -> "manager"

Init ==
  /\ ChainInit
  /\ cfg \in [Sessions -> Configs]
  /\ pc = [s \in Sessions |-> FirstCall(cfg[s].cmd)]
  /\ active = [s \in Sessions |-> FALSE]
  /\ quote = [s \in Sessions |-> 0]
  /\ cap = [s \in Sessions |-> 0]
  /\ addr = [s \in Sessions |-> NoAddr]
  /\ verdict = [s \in Sessions |-> "none"]
  /\ seenVersion = [s \in Sessions |-> 0]
  /\ seenFee = [s \in Sessions |-> 0]
  /\ tx = [s \in Sessions |-> [k \in Kinds |->
             [status |-> "none", from |-> cfg[s].user, code |-> NoCode,
              to |-> NoAddr, value |-> 0, init |-> 0, cap |-> 0,
              at |-> NoAddr]]]

-----------------------------------------------------------------------------
Goes(s, call) ==
  /\ pc' = [pc EXCEPT ![s] = call]
  /\ UNCHANGED verdict

Stops(s, how, what) ==
  /\ pc' = [pc EXCEPT ![s] = how]
  /\ verdict' = [verdict EXCEPT ![s] = what]

\* Mutant: the division comes first and loses up to a percent of the fee.
BumpedAfterDivision(fee, bump) == (fee \div 100) * (100 + bump)

\* The data fee with the margin the user asked for; the division truncates.
Bumped(fee, bump) == (fee * (100 + bump)) \div 100

\* Mutant: the simulation is skipped and its fee taken as it is.
SimulationErrorSkipped(c) == IF UpToDate(c) THEN "uptodate" ELSE "none"

\* check_activate: activateProgram is simulated at an address that holds the
\* code, paid with SimValue out of a made-up balance.
SimulationError(c) ==
  IF c \notin ValidCodes          THEN "invalid"
  ELSE IF UpToDate(c)             THEN "uptodate"
  ELSE IF dataFee > SimValue      THEN "fee"
                                  ELSE "none"

Quotes(s) ==
  /\ quote' = [quote EXCEPT ![s] = Bumped(dataFee, cfg[s].bump)]
  /\ seenFee' = [seenFee EXCEPT ![s] = dataFee]
  /\ seenVersion' = [seenVersion EXCEPT ![s] = stylusVersion]

\* Why eth_estimateGas refuses a transaction; "none" if it answers.
EstimateError(k, x) ==
  IF balance[x.from] < x.value    THEN "funds"
  ELSE IF Executes(k, x)          THEN "none"
  ELSE IF k = "activate" /\ codeAt[x.to] \in Codes /\ UpToDate(codeAt[x.to])
                                  THEN "uptodate"
  ELSE IF k = "activate" /\ codeAt[x.to] \notin ValidCodes
                                  THEN "invalid"
  ELSE IF k = "deployer" /\ x.code \notin ValidCodes
                                  THEN "invalid"
  ELSE IF k = "bid"               THEN "uncachable"
                                  ELSE "fee"

\* Mutant: a tip is taken off the cap, with an underflow at a low base fee.
FeePerGasLessTip(s) == IF cfg[s].maxFee = 0 THEN gasPrice - 2
                                            ELSE cfg[s].maxFee

\* Mutant: the cap is rounded down to below the base fee.
FeePerGasRoundedDown(s) == IF cfg[s].maxFee = 0 THEN gasPrice \div 2
                                                ELSE cfg[s].maxFee

\* calculate_fee_per_gas: the user's cap, or the base fee as it is now.
FeePerGas(s) == IF cfg[s].maxFee = 0 THEN gasPrice ELSE cfg[s].maxFee

\* The node takes the transaction if the wallet can pay for it.
Affordable(x) == balance[x.from] >= x.value + x.cap

\* send_transaction hands the transaction to the node: it answers, or the
\* reply is lost, or the wallet cannot pay and nothing was submitted.
Sends(s, k, x, next) ==
  \/ /\ Affordable(x)
     /\ tx' = [tx EXCEPT ![s][k] = x]
     /\ Goes(s, next) \/ Stops(s, "bail", "lost")
  \/ /\ ~Affordable(x)
     /\ Stops(s, "bail", "funds")
     /\ UNCHANGED tx

\* get_receipt answers once the transaction is in a block.
Mined(x) == x.status \in {"ok", "reverted"}

\* Mutant: any receipt counts as success.
SucceededWithoutStatus(x) == Mined(x)

\* receipt.status()
Succeeded(x) == x.status = "ok"

\* The calls that fail with a panic rather than an error: deploy's check and
\* get_balance are unwrapped with expect.
Unwrapped == {"exists", "simulate", "balance"}

\* A call to the node (or, for "args", to the contract's own binary) fails.
CallFails(s) ==
  /\ pc[s] \in Calls
  /\ IF cfg[s].cmd = "deploy" /\ pc[s] \in Unwrapped
       THEN Stops(s, "panic", "rpc")
       ELSE Stops(s, "bail", IF pc[s] \in {"wait", "act_wait"} THEN "lost"
                                                               ELSE "rpc")
  /\ UNCHANGED <<chainVars, cfg, active, quote, cap, addr, seenVersion, seenFee>>

Ended(s) == pc[s] \in Ends
=============================================================================
