------------------------------ MODULE ArbChain ------------------------------
(***************************************************************************)
(* The chain as `cargo stylus` uses it: wallets with a nonce and a         *)
(* balance, code at CREATE addresses, the ArbWasm precompile's record of   *)
(* activated programs, the CacheManager, and the transactions the tool's   *)
(* sessions have submitted.  None of this code is in the repository; each  *)
(* definition says what the repository's calls, decoded errors and         *)
(* receipts rely on.                                                       *)
(*                                                                         *)
(* Money is counted in one unit; every transaction burns one unit of gas,  *)
(* so a transaction costs its value plus the base fee of its block.        *)
(***************************************************************************)
EXTENDS Naturals

CONSTANTS
  Users,        \* wallets
  Factory,      \* the StylusDeployer contract, an account that is no wallet
  Sessions,     \* runs of the command line tool
  Codes,        \* compressed programs (a program stands for its code hash)
  ValidCodes,   \* those that ArbWasm accepts for activation
  NoCode,       \* an address with no code
  NoAddr,       \* no address is known
  Fees,         \* values the data fee takes
  Prices,       \* values the base fee takes
  MinBids,      \* values the CacheManager's minimum bid takes
  Funds,        \* what a wallet may hold at first
  MaxVersion,   \* bound: the last Stylus version
  MaxNonce      \* bound: transactions of one account

ASSUME ChainConstants ==
  /\ Factory \notin Users
  /\ ValidCodes \subseteq Codes
  /\ NoCode \notin Codes
  /\ Fees \subseteq Nat /\ Prices \subseteq Nat /\ MinBids \subseteq Nat
  /\ Funds \subseteq Nat
  /\ MaxVersion \in Nat \ {0} /\ MaxNonce \in Nat

Accounts == Users \cup {Factory}
Addrs == Accounts \X (0 .. MaxNonce)

ASSUME NoAddrIsNone == NoAddr \notin Addrs

VARIABLES
  nonce,         \* next nonce of each account
  balance,       \* what each wallet holds
  codeAt,        \* the code at each address
  version,       \* Stylus version a program was last activated with; 0: never
  expired,       \* the activation has aged out
  stylusVersion, \* ArbWasm.stylusVersion()
  dataFee,       \* what an activation costs now
  gasPrice,      \* base fee now
  minBid,        \* smallest bid the CacheManager accepts now
  cached,        \* programs in the cache
  tx             \* the transactions, by session and kind

chainVars == <<nonce, balance, codeAt, version, expired, stylusVersion,
               dataFee, gasPrice, minBid, cached, tx>>

Kinds == {"create", "activate", "deployer", "bid"}
Statuses == {"none", "pending", "ok", "reverted"}

\* A transaction and, once mined, its receipt.  `code` is what a "create" or
\* "deployer" transaction carries, `to` what an "activate" or "bid" is about,
\* `init` the part of a deployer's value meant for the constructor, `cap` the
\* max fee per gas, `at` the contract address the receipt gives.
Tx == [status : Statuses, from : Users, code : Codes \cup {NoCode},
       to : Addrs \cup {NoAddr}, value : Nat, init : Nat, cap : Nat,
       at : Addrs \cup {NoAddr}]

ChainTypeOK ==
  /\ nonce \in [Accounts -> 0 .. MaxNonce]
  /\ balance \in [Users -> Nat]
  /\ codeAt \in [Addrs -> Codes \cup {NoCode}]
  /\ version \in [Codes -> 0 .. MaxVersion]
  /\ expired \in [Codes -> BOOLEAN]
  /\ stylusVersion \in 1 .. MaxVersion
  /\ dataFee \in Fees /\ gasPrice \in Prices /\ minBid \in MinBids
  /\ cached \subseteq Codes
  /\ tx \in [Sessions -> [Kinds -> Tx]]

-----------------------------------------------------------------------------
(* What the precompiles and contracts answer.                              *)

\* The program runs as it is: codehashVersion answers without an error.
UpToDate(c) == version[c] = stylusVersion /\ ~expired[c]

\* ArbWasm.activateProgram would accept the program if the fee is paid.
Activatable(c) == c \in ValidCodes /\ ~UpToDate(c)

\* The data fee a call of the deployer pays: it activates only if needed.
FactoryFee(c) == IF UpToDate(c) THEN 0 ELSE dataFee

\* CacheManager.placeBid would accept this bid on the program at an address.
Biddable(a, value) ==
  /\ codeAt[a] \in Codes
  /\ UpToDate(codeAt[a])
  /\ codeAt[a] \notin cached
  /\ value >= minBid

\* The transaction would not revert if it were executed now.
Executes(k, x) ==
  CASE k = "create"   -> TRUE
    [] k = "activate" -> /\ codeAt[x.to] \in Codes
                         /\ Activatable(codeAt[x.to])
                         /\ x.value >= dataFee
    [] k = "deployer" -> /\ UpToDate(x.code) \/ x.code \in ValidCodes
                         /\ x.value >= x.init + FactoryFee(x.code)
    [] k = "bid"      -> Biddable(x.to, x.value)

\* `tx` starts with the sessions (module Session): none of them has sent yet.
ChainInit ==
  /\ nonce = [a \in Accounts |-> 0]
  /\ balance \in [Users -> Funds]
  /\ codeAt = [a \in Addrs |-> NoCode]
  /\ version = [c \in Codes |-> 0]
  /\ expired = [c \in Codes |-> FALSE]
  /\ stylusVersion = 1
  /\ dataFee \in Fees /\ gasPrice \in Prices /\ minBid \in MinBids
  /\ cached = {}

-----------------------------------------------------------------------------
(* A block includes one transaction.  Which of the pending ones is open:   *)
(* the node orders them, and gives two of one wallet consecutive nonces.   *)

Includable(s, k) ==
  LET x == tx[s][k] IN
  /\ x.status = "pending"
  /\ x.cap >= gasPrice
  /\ balance[x.from] >= x.value + x.cap
  /\ nonce[x.from] < MaxNonce

\* The sender's side of a block: a nonce, the gas, and what the call keeps.
Included(s, k, status, kept, at) ==
  LET u == tx[s][k].from IN
  /\ balance' = [balance EXCEPT ![u] = @ - (kept + gasPrice)]
  /\ tx' = [tx EXCEPT ![s][k] = [@ EXCEPT !.status = status, !.at = at]]

MineCreate(s) ==
  LET x == tx[s]["create"]
      a == <<x.from, nonce[x.from]>>
  IN  /\ Includable(s, "create")
      /\ Included(s, "create", "ok", 0, a)
      /\ nonce' = [nonce EXCEPT ![x.from] = @ + 1]
      /\ codeAt' = [codeAt EXCEPT ![a] = x.code]
      /\ UNCHANGED <<version, expired, stylusVersion, dataFee, gasPrice,
                     minBid, cached>>

\* What the call attaches above the data fee goes back to the sender.
MineActivate(s) ==
  LET x == tx[s]["activate"]
      c == codeAt[x.to]
  IN  /\ Includable(s, "activate")
      /\ Executes("activate", x)
      /\ Included(s, "activate", "ok", dataFee, NoAddr)
      /\ nonce' = [nonce EXCEPT ![x.from] = @ + 1]
      /\ version' = [version EXCEPT ![c] = stylusVersion]
      /\ expired' = [expired EXCEPT ![c] = FALSE]
      /\ UNCHANGED <<codeAt, stylusVersion, dataFee, gasPrice, minBid, cached>>

\* StylusDeployer.deploy: create, activate if needed, call the constructor
\* with `init`, emit ContractDeployed, refund the rest; all or nothing.
MineDeployer(s) ==
  LET x == tx[s]["deployer"]
      a == <<Factory, nonce[Factory]>>
  IN  /\ Includable(s, "deployer")
      /\ Executes("deployer", x)
      /\ nonce[Factory] < MaxNonce
      /\ Included(s, "deployer", "ok", x.init + FactoryFee(x.code), a)
      /\ nonce' = [nonce EXCEPT ![x.from] = @ + 1, ![Factory] = @ + 1]
      /\ codeAt' = [codeAt EXCEPT ![a] = x.code]
      /\ version' = [version EXCEPT ![x.code] = stylusVersion]
      /\ expired' = [expired EXCEPT ![x.code] = FALSE]
      /\ UNCHANGED <<stylusVersion, dataFee, gasPrice, minBid, cached>>

MineBid(s) ==
  LET x == tx[s]["bid"] IN
  /\ Includable(s, "bid")
  /\ Executes("bid", x)
  /\ Included(s, "bid", "ok", x.value, NoAddr)
  /\ nonce' = [nonce EXCEPT ![x.from] = @ + 1]
  /\ cached' = cached \cup {codeAt[x.to]}
  /\ UNCHANGED <<codeAt, version, expired, stylusVersion, dataFee, gasPrice,
                 minBid>>

\* The transaction is included and reverts: what it needed no longer holds,
\* or its gas limit, an estimate made earlier, is too small.
MineReverted(s, k) ==
  LET x == tx[s][k] IN
  /\ Includable(s, k)
  /\ Included(s, k, "reverted", 0, NoAddr)
  /\ nonce' = [nonce EXCEPT ![x.from] = @ + 1]
  /\ UNCHANGED <<codeAt, version, expired, stylusVersion, dataFee, gasPrice,
                 minBid, cached>>

Mine(s, k) ==
  \/ k = "create" /\ MineCreate(s)
  \/ k = "activate" /\ MineActivate(s)
  \/ k = "deployer" /\ MineDeployer(s)
  \/ k = "bid" /\ MineBid(s)
  \/ MineReverted(s, k)

-----------------------------------------------------------------------------
(* The chain moves on its own.                                             *)

FeeMoves ==
  /\ dataFee' \in Fees \ {dataFee}
  /\ UNCHANGED <<nonce, balance, codeAt, version, expired, stylusVersion,
                 gasPrice, minBid, cached, tx>>

PriceMoves ==
  /\ gasPrice' \in Prices \ {gasPrice}
  /\ UNCHANGED <<nonce, balance, codeAt, version, expired, stylusVersion,
                 dataFee, minBid, cached, tx>>

PriceFalls == PriceMoves /\ gasPrice' < gasPrice

MinBidMoves ==
  /\ minBid' \in MinBids \ {minBid}
  /\ UNCHANGED <<nonce, balance, codeAt, version, expired, stylusVersion,
                 dataFee, gasPrice, cached, tx>>

\* ArbOS is upgraded: every activation made before needs renewing.
Upgrade ==
  /\ stylusVersion < MaxVersion
  /\ stylusVersion' = stylusVersion + 1
  /\ UNCHANGED <<nonce, balance, codeAt, version, expired, dataFee, gasPrice,
                 minBid, cached, tx>>

Expire(c) ==
  /\ version[c] > 0 /\ ~expired[c]
  /\ expired' = [expired EXCEPT ![c] = TRUE]
  /\ UNCHANGED <<nonce, balance, codeAt, version, stylusVersion, dataFee,
                 gasPrice, minBid, cached, tx>>

Drift == FeeMoves \/ PriceMoves \/ MinBidMoves \/ Upgrade
         \/ \E c \in Codes : Expire(c)

ChainNext == Drift \/ \E s \in Sessions, k \in Kinds : Mine(s, k)
=============================================================================
