------------------------------- MODULE Deploy -------------------------------
(***************************************************************************)
(* `cargo stylus deploy`: check whether the program is active, quote the   *)
(* data fee if it is not, look for a constructor, check the balance, then  *)
(* either one transaction to the StylusDeployer (a contract with a         *)
(* constructor) or one that creates the contract and one that activates    *)
(* it.  Between any two calls the chain and the other sessions move.       *)
(***************************************************************************)
EXTENDS Session

Deploying(s) == cfg[s].cmd = "deploy"

\* The value deploy attaches: to the call of the deployer, or to the activation.
DataFee(s) == quote[s] + cfg[s].ctorValue

\* Where deploy looks for a constructor.  A wasm file says nothing of its own, and
\* the export binary nothing of a constructor behind a feature: what a contract
\* has besides what is found here, deploy does not know of.
Found(s) == IF cfg[s].wasmFile THEN cfg[s].signature ELSE cfg[s].exported

FindsConstructor(s) == Found(s) # "none"

\* Mutant: an activation made with an older Stylus version still counts.
ContractExistsOutdated(c) == version[c] > 0

\* codehashVersion answers; ProgramNotActivated, ProgramNeedsUpgrade and
\* ProgramExpired mean that the program needs activating.
ContractExists(c) == UpToDate(c)

\* contract_exists; a program that is not active, outdated or expired goes on
\* to the simulation.
CheckExists(s) ==
  /\ Deploying(s) /\ pc[s] = "exists"
  /\ IF ContractExists(cfg[s].code)
       THEN /\ active' = [active EXCEPT ![s] = TRUE]
            /\ seenVersion' = [seenVersion EXCEPT ![s] = stylusVersion]
            /\ Goes(s, "args")
       ELSE /\ Goes(s, "simulate")
            /\ UNCHANGED <<active, seenVersion>>
  /\ UNCHANGED <<chainVars, cfg, quote, cap, addr, seenFee>>

CheckActivate(s) ==
  /\ Deploying(s) /\ pc[s] = "simulate"
  /\ LET e == SimulationError(cfg[s].code) IN
       IF e = "none"
         THEN Quotes(s) /\ Goes(s, "args")
         ELSE Stops(s, "panic", e) /\ UNCHANGED <<quote, seenFee, seenVersion>>
  /\ UNCHANGED <<chainVars, cfg, active, cap, addr>>

\* The constructor flags deploy refuses.
BadFlags(s) ==
  \/ ~cfg[s].wasmFile /\ cfg[s].signature # "none"
  \/ Found(s) = "plain" /\ cfg[s].ctorValue > 0
  \/ FindsConstructor(s) /\ cfg[s].given # cfg[s].want
  \/ ~FindsConstructor(s) /\ cfg[s].given > 0

ParseConstructor(s) ==
  /\ Deploying(s) /\ pc[s] = "args"
  /\ IF BadFlags(s)
       THEN Stops(s, "bail", "flags")
       ELSE Goes(s, IF active[s] THEN "estimate" ELSE "balance")
  /\ UNCHANGED <<chainVars, cfg, active, quote, cap, addr, seenVersion, seenFee>>

\* Mutant: a wallet that holds anything at all will do.
EnoughIfAny(s) == balance[cfg[s].user] > 0

EnoughFunds(s) == balance[cfg[s].user] >= DataFee(s)

CheckBalance(s) ==
  /\ Deploying(s) /\ pc[s] = "balance"
  /\ IF ~EnoughFunds(s) /\ ~cfg[s].estimate
       THEN Stops(s, "bail", "funds")
       ELSE Goes(s, "estimate")
  /\ UNCHANGED <<chainVars, cfg, active, quote, cap, addr, seenVersion, seenFee>>

\* Mutant: the deployer is used only for a program that needs activating.
FirstKindByActivation(s) ==
  IF FindsConstructor(s) /\ ~active[s] THEN "deployer" ELSE "create"

\* The transaction the session sends first.
FirstKind(s) == IF FindsConstructor(s) THEN "deployer" ELSE "create"

FirstTx(s) ==
  [tx[s][FirstKind(s)] EXCEPT
     !.status = "pending",
     !.code   = cfg[s].code,
     !.value  = IF FindsConstructor(s) THEN DataFee(s) ELSE 0,
     !.init   = IF FindsConstructor(s) THEN cfg[s].ctorValue ELSE 0,
     !.cap    = cap[s]]

\* Mutant: after printing the estimate the command carries on.
EstimateIsPrinted(s) == FALSE

EstimateOnly(s) == cfg[s].estimate

EstimateDeployment(s) ==
  /\ Deploying(s) /\ pc[s] = "estimate"
  /\ LET e == EstimateError(FirstKind(s), FirstTx(s)) IN
       IF e = "none" THEN Goes(s, "price") ELSE Stops(s, "bail", e)
  /\ UNCHANGED <<chainVars, cfg, active, quote, cap, addr, seenVersion, seenFee>>

\* get_gas_price; an estimate of a creation asks for the nonce as well.
PriceDeployment(s) ==
  /\ Deploying(s) /\ pc[s] = "price"
  /\ IF EstimateOnly(s)
       THEN Stops(s, "ok", "estimated") /\ UNCHANGED cap
       ELSE Goes(s, "send") /\ cap' = [cap EXCEPT ![s] = FeePerGas(s)]
  /\ UNCHANGED <<chainVars, cfg, active, quote, addr, seenVersion, seenFee>>

SendDeployment(s) ==
  /\ Deploying(s) /\ pc[s] = "send"
  /\ Sends(s, FirstKind(s), FirstTx(s), "wait")
  /\ UNCHANGED <<nonce, balance, codeAt, version, expired, stylusVersion,
                 dataFee, gasPrice, minBid, cached>>
  /\ UNCHANGED <<cfg, active, quote, cap, addr, seenVersion, seenFee>>

\* What deploy says once its first transaction is mined, and what it does next.
AfterDeployment(s) ==
  IF FindsConstructor(s)     THEN Stops(s, "ok", "initialized")
  ELSE IF active[s]          THEN Stops(s, "ok", "already_active")
  ELSE IF cfg[s].noActivate  THEN Stops(s, "ok", "must_activate")
                             ELSE Goes(s, "act_estimate")

\* Mutant: the address is computed from the wallet's nonce.
PredictedAddress(x) == <<x.from, nonce[x.from]>>

\* The receipt's contract_address, or the address in its ContractDeployed log.
ReportedAddress(x) == x.at

\* run_tx reads the receipt; a reverted transaction is an error, and so is a
\* receipt without an address.
DeploymentMined(s) ==
  LET x == tx[s][FirstKind(s)] IN
  /\ Deploying(s) /\ pc[s] = "wait" /\ Mined(x)
  /\ IF Succeeded(x) /\ ReportedAddress(x) \in Addrs
       THEN /\ addr' = [addr EXCEPT ![s] = ReportedAddress(x)]
            /\ AfterDeployment(s)
       ELSE Stops(s, "bail", "reverted") /\ UNCHANGED addr
  /\ UNCHANGED <<chainVars, cfg, active, quote, cap, seenVersion, seenFee>>

ActivationTx(s) ==
  [tx[s]["activate"] EXCEPT
     !.status = "pending", !.to = addr[s], !.value = DataFee(s), !.cap = cap[s]]

EstimateActivation(s) ==
  /\ Deploying(s) /\ pc[s] = "act_estimate"
  /\ LET e == EstimateError("activate", ActivationTx(s)) IN
       IF e = "none" THEN Goes(s, "act_price") ELSE Stops(s, "bail", e)
  /\ UNCHANGED <<chainVars, cfg, active, quote, cap, addr, seenVersion, seenFee>>

PriceActivation(s) ==
  /\ Deploying(s) /\ pc[s] = "act_price"
  /\ Goes(s, "act_send")
  /\ cap' = [cap EXCEPT ![s] = FeePerGas(s)]
  /\ UNCHANGED <<chainVars, cfg, active, quote, addr, seenVersion, seenFee>>

SendActivation(s) ==
  /\ Deploying(s) /\ pc[s] = "act_send"
  /\ Sends(s, "activate", ActivationTx(s), "act_wait")
  /\ UNCHANGED <<nonce, balance, codeAt, version, expired, stylusVersion,
                 dataFee, gasPrice, minBid, cached>>
  /\ UNCHANGED <<cfg, active, quote, cap, addr, seenVersion, seenFee>>

ActivationMined(s) ==
  /\ Deploying(s) /\ pc[s] = "act_wait"
  /\ Mined(tx[s]["activate"])
  /\ IF Succeeded(tx[s]["activate"])
       THEN Stops(s, "ok", "activated")
       ELSE Stops(s, "bail", "reverted")
  /\ UNCHANGED <<chainVars, cfg, active, quote, cap, addr, seenVersion, seenFee>>

DeployStep(s) ==
  \/ CheckExists(s) \/ CheckActivate(s) \/ ParseConstructor(s) \/ CheckBalance(s)
  \/ EstimateDeployment(s) \/ PriceDeployment(s)
  \/ SendDeployment(s) \/ DeploymentMined(s)
  \/ EstimateActivation(s) \/ PriceActivation(s)
  \/ SendActivation(s) \/ ActivationMined(s)

Environment == ChainNext /\ UNCHANGED sessVars

Next == Environment \/ \E s \in Sessions : DeployStep(s) \/ CallFails(s)

Spec == Init /\ [][Next]_vars

-----------------------------------------------------------------------------
(* Safety.                                                                 *)

\* Every address a session prints holds the program it was started with, no
\* two sessions print the same one, and a contract that was created is
\* printed unless its receipt is still awaited or was never received: after a
\* later failure the user can still activate it by its address.
ReportedIsDeployed ==
  \A s \in Sessions :
    /\ addr[s] # NoAddr =>
         /\ codeAt[addr[s]] = cfg[s].code
         /\ \A t \in Sessions \ {s} : addr[t] # addr[s]
    /\ \A k \in {"create", "deployer"} : tx[s][k].status = "ok" =>
         \/ addr[s] = tx[s][k].at
         \/ pc[s] = "wait" \/ verdict[s] = "lost"

\* A deployment that ends by saying that the contract is activated, was active
\* already, or is initialised is right: the program was activated with the
\* Stylus version of the check or a later one, whatever the other sessions,
\* upgrades and fee changes did in between.
SuccessMeansActivated ==
  \A s \in Sessions :
    verdict[s] \in {"activated", "already_active", "initialized"} =>
      /\ seenVersion[s] > 0
      /\ version[cfg[s].code] >= seenVersion[s]

\* Where deploy finds a constructor it is all or nothing, also when the program is
\* active already, and wherever the session ends or loses touch: either none of
\* its transactions has taken effect, or the one that has also ran the
\* constructor and left the program activated, and the session has printed that
\* address with the words that it is initialised, unless it never got the
\* receipt.  (Of a constructor that deploy does not find nothing is said.)
InitializedOrAbsent ==
  \A s \in Sessions : FindsConstructor(s) =>
    \/ addr[s] = NoAddr /\ \A k \in Kinds : tx[s][k].status # "ok"
    \/ /\ \A k \in Kinds : tx[s][k].status = "ok" <=> k = "deployer"
       /\ codeAt[tx[s]["deployer"].at] = cfg[s].code
       /\ version[cfg[s].code] >= seenVersion[s]
       /\ \/ verdict[s] = "initialized" /\ addr[s] = tx[s]["deployer"].at
          \/ addr[s] = NoAddr /\ (pc[s] = "wait" \/ verdict[s] = "lost")

\* With --estimate-gas deploy submits nothing, whichever way it ends.
EstimateSendsNothing ==
  \A s \in Sessions : cfg[s].estimate =>
    \A k \in Kinds : tx[s][k].status = "none"

\* A deployment that is refused, for its flags or for its program, or that
\* panics, is refused before anything is paid: what the check and the parsing
\* of the constructor let through is not found wrong after the first
\* transaction.
RefusedBeforeSpending ==
  \A s \in Sessions :
    verdict[s] \in {"flags", "invalid"} \/ pc[s] = "panic" =>
      \A k \in Kinds : tx[s][k].status = "none"

\* No other session signs with this wallet.
Alone(s) == \A t \in Sessions \ {s} : cfg[t].user # cfg[s].user

\* The early balance check is worth something: in a wallet nobody else uses,
\* what the check saw is still there when the activation is prepared, except
\* for the gas of the deployment.  (The check ignores that gas: the activation
\* can still fail for funds, but never by more.)
CheckedFundsRemain ==
  \A s \in Sessions :
    Alone(s) /\ pc[s] \in {"act_estimate", "act_price", "act_send"} =>
      balance[cfg[s].user] + tx[s]["create"].cap >= DataFee(s)

\* The activation fee margin holds what it says: a fee error after the check
\* means that the fee rose by more than the chosen percentage.
BumpCoversRise ==
  [][\A s \in Sessions :
       pc[s] \in {"estimate", "act_estimate"} /\ pc'[s] = "bail"
                                             /\ verdict'[s] = "fee" =>
         \/ dataFee * 100 > seenFee[s] * (100 + cfg[s].bump)
         \/ active[s]]_vars

-----------------------------------------------------------------------------
(* Liveness.                                                               *)

\* A transaction of the session is pending and its wallet can't pay for it.
Drained(s) ==
  \E k \in Kinds : tx[s][k].status = "pending" /\ ~Affordable(tx[s][k])

\* Every run ends, if the base fee keeps returning to what its transaction
\* offers: the tool never waits forever for a receipt, except in a wallet that
\* another session has drained in the meantime.
Terminates == \A s \in Sessions : <>Ended(s) \/ <>[]Drained(s)
=============================================================================
