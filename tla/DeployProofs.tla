---------------------------- MODULE DeployProofs ----------------------------
(***************************************************************************)
(* Proofs about Deploy, for any number of sessions, wallets, programs,     *)
(* fees and prices: its types, its inductive invariant and the safety      *)
(* properties that follow, and that it implements DeployPromise: each of   *)
(* its steps, and each step of the chain, is one of the promise's actions  *)
(* or changes nothing there.                                               *)
(***************************************************************************)
EXTENDS DeployRefines, TLAPS

-----------------------------------------------------------------------------
(* Types.                                                                  *)

\* The bumped fee is a number.
LEMMA BumpedIsNat ==
  ASSUME NEW fee \in Nat, NEW bump \in Nat
  PROVE  Bumped(fee, bump) \in Nat
<1>1. fee * (100 + bump) \in Nat
  OBVIOUS
<1>2. ASSUME NEW n \in Nat PROVE n \div 100 \in Nat
  OBVIOUS
<1>3. QED BY <1>1, <1>2 DEF Bumped

\* The cap of the next transaction is a number.
LEMMA FeePerGasIsNat ==
  ASSUME TypeOK, NEW s \in Sessions
  PROVE  FeePerGas(s) \in Nat
BY ChainConstants, SessionConstants
   DEF TypeOK, ChainTypeOK, SessTypeOK, FeePerGas, Config

\* What a session prepares to send first is a transaction of its own wallet.
LEMMA FirstTxType ==
  ASSUME TypeOK, NEW s \in Sessions
  PROVE  /\ FirstKind(s) \in Kinds
         /\ FirstTx(s) \in Tx
         /\ FirstTx(s).from = tx[s][FirstKind(s)].from
         /\ FirstTx(s).status = "pending"
         /\ FirstTx(s).at = tx[s][FirstKind(s)].at
<1>1. FirstKind(s) \in Kinds
  BY DEF FirstKind, Kinds
<1>2. tx[s][FirstKind(s)] \in Tx
  BY <1>1 DEF TypeOK, ChainTypeOK
<1>3. cfg[s] \in Config /\ quote[s] \in Nat /\ cap[s] \in Nat
  BY SessionConstants DEF TypeOK, SessTypeOK
<1>4. cfg[s].code \in Codes /\ cfg[s].ctorValue \in Nat
  BY <1>3 DEF Config
<1>5. DataFee(s) \in Nat
  BY <1>3, <1>4 DEF DataFee
<1>6. QED
  BY <1>1, <1>2, <1>3, <1>4, <1>5 DEF FirstTx, Tx, Statuses

\* So is the activation of what it deployed.
LEMMA ActivationTxType ==
  ASSUME TypeOK, NEW s \in Sessions
  PROVE  /\ ActivationTx(s) \in Tx
         /\ ActivationTx(s).from = tx[s]["activate"].from
         /\ ActivationTx(s).status = "pending"
<1>2. tx[s]["activate"] \in Tx
  BY DEF TypeOK, ChainTypeOK, Kinds
<1>3. cfg[s] \in Config /\ quote[s] \in Nat /\ cap[s] \in Nat
      /\ addr[s] \in Addrs \cup {NoAddr}
  BY SessionConstants DEF TypeOK, SessTypeOK
<1>4. cfg[s].ctorValue \in Nat
  BY <1>3 DEF Config
<1>5. DataFee(s) \in Nat
  BY <1>3, <1>4 DEF DataFee
<1>6. QED
  BY <1>2, <1>3, <1>5 DEF ActivationTx, Tx, Statuses

\* The node keeps the types when it includes a transaction.
LEMMA IncludedType ==
  ASSUME TypeOK, NEW s \in Sessions, NEW k \in Kinds,
         NEW status \in Statuses, NEW kept \in Nat,
         NEW at \in Addrs \cup {NoAddr},
         Includable(s, k), kept <= tx[s][k].value,
         Included(s, k, status, kept, at)
  PROVE  balance' \in [Users -> Nat] /\ tx' \in [Sessions -> [Kinds -> Tx]]
<1>1. tx[s][k] \in Tx
  BY DEF TypeOK, ChainTypeOK
<1>2. tx' \in [Sessions -> [Kinds -> Tx]]
  <2>1. [tx[s][k] EXCEPT !.status = status, !.at = at] \in Tx
    BY <1>1 DEF Tx
  <2>2. QED BY <2>1 DEF Included, TypeOK, ChainTypeOK
<1>3. balance' \in [Users -> Nat]
  <2>1. tx[s][k].from \in Users /\ tx[s][k].value \in Nat /\ tx[s][k].cap \in Nat
    BY <1>1 DEF Tx
  <2>2. gasPrice \in Nat /\ balance \in [Users -> Nat]
    BY ChainConstants DEF TypeOK, ChainTypeOK
  <2>3. balance[tx[s][k].from] - (kept + gasPrice) \in Nat
    BY <2>1, <2>2 DEF Includable
  <2>4. QED BY <2>1, <2>2, <2>3 DEF Included
<1>4. QED BY <1>2, <1>3

\* Every kind of inclusion keeps the chain's types.
LEMMA MineType ==
  ASSUME TypeOK, NEW s \in Sessions, NEW k \in Kinds, Mine(s, k)
  PROVE  ChainTypeOK'
<1> USE DEF Kinds, Statuses
<1>1. tx[s][k] \in Tx /\ Fees \subseteq Nat /\ Prices \subseteq Nat
  BY ChainConstants DEF TypeOK, ChainTypeOK
<1>2. tx[s][k].from \in Users /\ tx[s][k].code \in Codes \cup {NoCode}
      /\ tx[s][k].value \in Nat /\ tx[s][k].init \in Nat
  BY <1>1 DEF Tx
<1>3. CASE k = "create" /\ MineCreate(s)
  <2> DEFINE a == <<tx[s][k].from, nonce[tx[s][k].from]>>
  <2>1. a \in Addrs
    BY <1>2 DEF TypeOK, ChainTypeOK, Addrs, Accounts
  <2>2. balance' \in [Users -> Nat] /\ tx' \in [Sessions -> [Kinds -> Tx]]
    BY <1>1, <1>2, <1>3, <2>1, IncludedType DEF MineCreate
  <2>3. nonce' \in [Accounts -> 0 .. MaxNonce]
    BY <1>2, <1>3, ChainConstants
       DEF MineCreate, Includable, TypeOK, ChainTypeOK, Accounts
  <2>4. codeAt' \in [Addrs -> Codes \cup {NoCode}]
    BY <1>2, <1>3, <2>1 DEF MineCreate, TypeOK, ChainTypeOK
  <2>5. QED
    BY <1>3, <2>2, <2>3, <2>4 DEF MineCreate, TypeOK, ChainTypeOK
<1>4. CASE k = "activate" /\ MineActivate(s)
  <2>1. dataFee \in Nat /\ dataFee <= tx[s][k].value
    BY <1>1, <1>4 DEF MineActivate, Executes, TypeOK, ChainTypeOK
  <2>2. balance' \in [Users -> Nat] /\ tx' \in [Sessions -> [Kinds -> Tx]]
    BY <1>1, <1>4, <2>1, IncludedType DEF MineActivate
  <2>3. nonce' \in [Accounts -> 0 .. MaxNonce]
    BY <1>2, <1>4, ChainConstants
       DEF MineActivate, Includable, TypeOK, ChainTypeOK, Accounts
  <2>4. stylusVersion \in 0 .. MaxVersion
    BY ChainConstants DEF TypeOK, ChainTypeOK
  <2>5. version' \in [Codes -> 0 .. MaxVersion] /\ expired' \in [Codes -> BOOLEAN]
    BY <1>4, <2>4 DEF MineActivate, TypeOK, ChainTypeOK
  <2>6. QED
    BY <1>4, <2>2, <2>3, <2>5 DEF MineActivate, TypeOK, ChainTypeOK
<1>5. CASE k = "deployer" /\ MineDeployer(s)
  <2> DEFINE x == tx[s][k]
             a == <<Factory, nonce[Factory]>>
  <2>1. a \in Addrs
    BY DEF TypeOK, ChainTypeOK, Addrs, Accounts
  <2>2. x.init + FactoryFee(x.code) \in Nat
        /\ x.init + FactoryFee(x.code) <= x.value
    BY <1>1, <1>2, <1>5 DEF MineDeployer, Executes, FactoryFee, TypeOK, ChainTypeOK
  <2>3. balance' \in [Users -> Nat] /\ tx' \in [Sessions -> [Kinds -> Tx]]
    BY <1>1, <1>5, <2>1, <2>2, IncludedType DEF MineDeployer
  <2>4. nonce' \in [Accounts -> 0 .. MaxNonce]
    BY <1>2, <1>5, ChainConstants
       DEF MineDeployer, Includable, TypeOK, ChainTypeOK, Accounts
  <2>5. codeAt' \in [Addrs -> Codes \cup {NoCode}]
    BY <1>2, <1>5, <2>1 DEF MineDeployer, TypeOK, ChainTypeOK
  <2>6. stylusVersion \in 0 .. MaxVersion
    BY ChainConstants DEF TypeOK, ChainTypeOK
  <2>7. version' \in [Codes -> 0 .. MaxVersion] /\ expired' \in [Codes -> BOOLEAN]
    BY <1>5, <2>6 DEF MineDeployer, TypeOK, ChainTypeOK
  <2>8. QED
    BY <1>5, <2>3, <2>4, <2>5, <2>7 DEF MineDeployer, TypeOK, ChainTypeOK
<1>6. CASE k = "bid" /\ MineBid(s)
  <2>1. balance' \in [Users -> Nat] /\ tx' \in [Sessions -> [Kinds -> Tx]]
    BY <1>1, <1>2, <1>6, IncludedType DEF MineBid
  <2>2. nonce' \in [Accounts -> 0 .. MaxNonce]
    BY <1>2, <1>6, ChainConstants
       DEF MineBid, Includable, TypeOK, ChainTypeOK, Accounts
  <2>3. cached' \subseteq Codes
    BY <1>6 DEF MineBid, Executes, Biddable, TypeOK, ChainTypeOK
  <2>4. QED
    BY <1>6, <2>1, <2>2, <2>3 DEF MineBid, TypeOK, ChainTypeOK
<1>7. CASE MineReverted(s, k)
  <2>1. balance' \in [Users -> Nat] /\ tx' \in [Sessions -> [Kinds -> Tx]]
    BY <1>1, <1>2, <1>7, IncludedType DEF MineReverted
  <2>2. nonce' \in [Accounts -> 0 .. MaxNonce]
    BY <1>2, <1>7, ChainConstants
       DEF MineReverted, Includable, TypeOK, ChainTypeOK, Accounts
  <2>3. QED
    BY <1>7, <2>1, <2>2 DEF MineReverted, TypeOK, ChainTypeOK
<1>8. QED
  BY <1>3, <1>4, <1>5, <1>6, <1>7 DEF Mine

\* So does everything else the chain does on its own.
LEMMA DriftType ==
  ASSUME TypeOK, Drift
  PROVE  ChainTypeOK'
<1>1. CASE FeeMoves
  BY <1>1 DEF FeeMoves, TypeOK, ChainTypeOK
<1>2. CASE PriceMoves
  BY <1>2 DEF PriceMoves, TypeOK, ChainTypeOK
<1>3. CASE MinBidMoves
  BY <1>3 DEF MinBidMoves, TypeOK, ChainTypeOK
<1>4. CASE Upgrade
  BY <1>4, ChainConstants DEF Upgrade, TypeOK, ChainTypeOK
<1>5. CASE \E c \in Codes : Expire(c)
  BY <1>5 DEF Expire, TypeOK, ChainTypeOK
<1>6. QED
  BY <1>1, <1>2, <1>3, <1>4, <1>5 DEF Drift

\* Where a session goes and what it says keep their types.
LEMMA GoesType ==
  ASSUME TypeOK, NEW s \in Sessions, NEW call \in Calls, Goes(s, call)
  PROVE  /\ pc' \in [Sessions -> Calls \cup Ends]
         /\ verdict' \in [Sessions -> {"none"} \cup Successes \cup Errors]
BY DEF TypeOK, SessTypeOK, Goes

\* So do the end of a session and its last line.
LEMMA StopsType ==
  ASSUME TypeOK, NEW s \in Sessions, NEW how \in Ends,
         NEW what \in Successes \cup Errors, Stops(s, how, what)
  PROVE  /\ pc' \in [Sessions -> Calls \cup Ends]
         /\ verdict' \in [Sessions -> {"none"} \cup Successes \cup Errors]
BY DEF TypeOK, SessTypeOK, Stops

\* Sending keeps the types of the transactions, of pc and of verdict.
LEMMA SendsType ==
  ASSUME TypeOK, NEW s \in Sessions, NEW k \in Kinds, NEW x \in Tx,
         NEW call \in Calls, Sends(s, k, x, call)
  PROVE  /\ tx' \in [Sessions -> [Kinds -> Tx]]
         /\ pc' \in [Sessions -> Calls \cup Ends]
         /\ verdict' \in [Sessions -> {"none"} \cup Successes \cup Errors]
<1>1. tx' \in [Sessions -> [Kinds -> Tx]]
  <2>1. tx' = [tx EXCEPT ![s][k] = x] \/ tx' = tx
    BY Zenon DEF Sends
  <2>2. tx \in [Sessions -> [Kinds -> Tx]]
    BY DEF TypeOK, ChainTypeOK
  <2>3. QED BY <2>1, <2>2
<1>2. \/ Goes(s, call)
      \/ \E e \in {"lost", "funds"} : Stops(s, "bail", e)
  BY DEF Sends
<1>3. QED
  BY <1>1, <1>2, GoesType, StopsType DEF Ends, Errors

\* The type invariant is inductive: sessions.
LEMMA DeployStepType ==
  ASSUME TypeOK, NEW s \in Sessions, DeployStep(s)
  PROVE  TypeOK'
<1> USE DEF Calls, Ends, Successes, Errors
<1>1. cfg[s] \in Config /\ quote[s] \in Nat /\ cap[s] \in Nat
  BY SessionConstants DEF TypeOK, SessTypeOK
<1>2. stylusVersion \in 0 .. MaxVersion /\ dataFee \in Nat /\ gasPrice \in Nat
  BY ChainConstants DEF TypeOK, ChainTypeOK
<1>3. CASE CheckExists(s)
  BY <1>2, <1>3, GoesType
     DEF CheckExists, TypeOK, ChainTypeOK, SessTypeOK, chainVars
<1>4. CASE CheckActivate(s)
  <2>1. SimulationError(cfg[s].code) \in {"none"} \cup Errors
    BY DEF SimulationError
  <2>2. Bumped(dataFee, cfg[s].bump) \in Nat
    BY <1>1, <1>2, BumpedIsNat DEF Config
  <2>3. CASE SimulationError(cfg[s].code) = "none"
    <3>1. Goes(s, "args") /\ Quotes(s)
      BY <1>4, <2>3 DEF CheckActivate
    <3>2. QED
      BY <1>2, <1>4, <2>2, <3>1, GoesType
         DEF CheckActivate, Quotes, TypeOK, ChainTypeOK, SessTypeOK, chainVars
  <2>4. CASE SimulationError(cfg[s].code) # "none"
    <3>1. Stops(s, "panic", SimulationError(cfg[s].code))
      BY <1>4, <2>4 DEF CheckActivate
    <3>2. SimulationError(cfg[s].code) \in Errors
      BY <2>1, <2>4
    <3>3. QED
      BY <1>4, <2>4, <3>1, <3>2, StopsType
         DEF CheckActivate, TypeOK, ChainTypeOK, SessTypeOK, chainVars
  <2>5. QED BY <2>3, <2>4
<1>5. CASE ParseConstructor(s)
  BY <1>5, GoesType, StopsType
     DEF ParseConstructor, TypeOK, ChainTypeOK, SessTypeOK, chainVars
<1>6. CASE CheckBalance(s)
  BY <1>6, GoesType, StopsType
     DEF CheckBalance, TypeOK, ChainTypeOK, SessTypeOK, chainVars
<1>7. CASE EstimateDeployment(s)
  <2>1. EstimateError(FirstKind(s), FirstTx(s)) \in {"none"} \cup Errors
    BY DEF EstimateError
  <2>2. \/ Goes(s, "price")
        \/ \E e \in Errors : Stops(s, "bail", e)
    BY <1>7, <2>1 DEF EstimateDeployment
  <2>3. /\ pc' \in [Sessions -> Calls \cup Ends]
        /\ verdict' \in [Sessions -> {"none"} \cup Successes \cup Errors]
    BY <2>2, GoesType, StopsType
  <2>4. QED
    BY <1>7, <2>3
       DEF EstimateDeployment, TypeOK, ChainTypeOK, SessTypeOK, chainVars
<1>13. CASE PriceDeployment(s)
  <2>1. cap' \in [Sessions -> Nat]
    BY <1>13, FeePerGasIsNat DEF PriceDeployment, TypeOK, SessTypeOK
  <2>2. Goes(s, "send") \/ Stops(s, "ok", "estimated")
    BY <1>13 DEF PriceDeployment
  <2>3. /\ pc' \in [Sessions -> Calls \cup Ends]
        /\ verdict' \in [Sessions -> {"none"} \cup Successes \cup Errors]
    BY <2>2, GoesType, StopsType
  <2>4. QED
    BY <1>13, <2>1, <2>3
       DEF PriceDeployment, TypeOK, ChainTypeOK, SessTypeOK, chainVars
<1>8. CASE SendDeployment(s)
  <2>1. /\ tx' \in [Sessions -> [Kinds -> Tx]]
        /\ pc' \in [Sessions -> Calls \cup Ends]
        /\ verdict' \in [Sessions -> {"none"} \cup Successes \cup Errors]
    BY <1>8, FirstTxType, SendsType DEF SendDeployment
  <2>2. QED
    BY <1>8, <2>1 DEF SendDeployment, TypeOK, ChainTypeOK, SessTypeOK
<1>9. CASE DeploymentMined(s)
  <2>1. \/ Goes(s, "act_estimate")
        \/ \E how \in Ends, e \in Successes \cup Errors : Stops(s, how, e)
    BY <1>9 DEF DeploymentMined, AfterDeployment
  <2>2. /\ pc' \in [Sessions -> Calls \cup Ends]
        /\ verdict' \in [Sessions -> {"none"} \cup Successes \cup Errors]
    BY <2>1, GoesType, StopsType
  <2>3. addr' \in [Sessions -> Addrs \cup {NoAddr}]
    BY <1>9 DEF DeploymentMined, TypeOK, SessTypeOK
  <2>4. QED
    BY <1>9, <2>2, <2>3
       DEF DeploymentMined, TypeOK, ChainTypeOK, SessTypeOK, chainVars
<1>10. CASE EstimateActivation(s)
  <2>1. EstimateError("activate", ActivationTx(s)) \in {"none"} \cup Errors
    BY DEF EstimateError
  <2>2. \/ Goes(s, "act_price")
        \/ \E e \in Errors : Stops(s, "bail", e)
    BY <1>10, <2>1 DEF EstimateActivation
  <2>3. /\ pc' \in [Sessions -> Calls \cup Ends]
        /\ verdict' \in [Sessions -> {"none"} \cup Successes \cup Errors]
    BY <2>2, GoesType, StopsType
  <2>4. QED
    BY <1>10, <2>3
       DEF EstimateActivation, TypeOK, ChainTypeOK, SessTypeOK, chainVars
<1>14. CASE PriceActivation(s)
  <2>1. cap' \in [Sessions -> Nat]
    BY <1>14, FeePerGasIsNat DEF PriceActivation, TypeOK, SessTypeOK
  <2>2. Goes(s, "act_send")
    BY <1>14 DEF PriceActivation
  <2>3. QED
    BY <1>14, <2>1, <2>2, GoesType
       DEF PriceActivation, TypeOK, ChainTypeOK, SessTypeOK, chainVars
<1>11. CASE SendActivation(s)
  <2>1. /\ tx' \in [Sessions -> [Kinds -> Tx]]
        /\ pc' \in [Sessions -> Calls \cup Ends]
        /\ verdict' \in [Sessions -> {"none"} \cup Successes \cup Errors]
    BY <1>11, ActivationTxType, SendsType DEF SendActivation, Kinds
  <2>2. QED
    BY <1>11, <2>1 DEF SendActivation, TypeOK, ChainTypeOK, SessTypeOK
<1>12. CASE ActivationMined(s)
  BY <1>12, StopsType
     DEF ActivationMined, TypeOK, ChainTypeOK, SessTypeOK, chainVars
<1>15. QED
  BY <1>3, <1>4, <1>5, <1>6, <1>7, <1>8, <1>9, <1>10, <1>11, <1>12, <1>13, <1>14
     DEF DeployStep

\* A failed call keeps the types.
LEMMA CallFailsType ==
  ASSUME TypeOK, NEW s \in Sessions, CallFails(s)
  PROVE  TypeOK'
<1>1. \E how \in Ends, e \in Errors : Stops(s, how, e)
  BY DEF CallFails, Ends, Errors
<1>2. QED
  BY <1>1, StopsType DEF CallFails, TypeOK, ChainTypeOK, SessTypeOK, chainVars

\* So does a step of the chain, which touches no session.
LEMMA EnvironmentType ==
  ASSUME TypeOK, Environment
  PROVE  TypeOK'
<1>1. ChainTypeOK'
  BY MineType, DriftType DEF Environment, ChainNext
<1>2. SessTypeOK'
  BY DEF Environment, sessVars, TypeOK, SessTypeOK
<1>3. QED BY <1>1, <1>2 DEF TypeOK

\* At first every variable has its type.
LEMMA InitType == Init => TypeOK
<1> SUFFICES ASSUME Init PROVE TypeOK
  OBVIOUS
<1>1. cfg \in [Sessions -> Config]
  BY SessionConstants DEF Init
<1>2. ASSUME NEW s \in Sessions PROVE cfg[s].user \in Users
  BY <1>1 DEF Config
<1>3. tx \in [Sessions -> [Kinds -> Tx]]
  BY <1>2 DEF Init, Tx, Statuses
<1>4. ChainTypeOK
  <2>1. 0 \in 0 .. MaxVersion /\ 1 \in 1 .. MaxVersion /\ 0 \in 0 .. MaxNonce
    BY ChainConstants
  <2>2. balance \in [Users -> Nat]
    BY ChainConstants DEF Init, ChainInit
  <2>3. /\ nonce \in [Accounts -> 0 .. MaxNonce]
        /\ codeAt \in [Addrs -> Codes \cup {NoCode}]
        /\ version \in [Codes -> 0 .. MaxVersion]
        /\ expired \in [Codes -> BOOLEAN]
    BY <2>1 DEF Init, ChainInit
  <2>4. QED BY <1>3, <2>1, <2>2, <2>3 DEF Init, ChainInit, ChainTypeOK
<1>5. pc \in [Sessions -> Calls \cup Ends]
  <2>1. ASSUME NEW s \in Sessions PROVE FirstCall(cfg[s].cmd) \in Calls
    BY <1>1 DEF FirstCall, Calls, Config
  <2>2. QED BY <2>1 DEF Init
<1>6. SessTypeOK
  <2>1. 0 \in 0 .. MaxVersion /\ 0 \in Nat
    BY ChainConstants
  <2>2. cfg \in [Sessions -> Configs]
    BY DEF Init
  <2>3. /\ quote \in [Sessions -> Nat] /\ cap \in [Sessions -> Nat]
        /\ seenVersion \in [Sessions -> 0 .. MaxVersion]
        /\ seenFee \in [Sessions -> Nat]
    BY <2>1 DEF Init
  <2>4. /\ active \in [Sessions -> BOOLEAN]
        /\ addr \in [Sessions -> Addrs \cup {NoAddr}]
        /\ verdict \in [Sessions -> {"none"} \cup Successes \cup Errors]
    BY DEF Init
  <2>5. QED BY <1>5, <2>2, <2>3, <2>4 DEF SessTypeOK
<1>7. QED BY <1>4, <1>6 DEF TypeOK

\* Every state of every run is well typed.  TypeOK is module Session's.
THEOREM TypeCorrect == Spec => []TypeOK
<1>1. Init => TypeOK
  BY InitType
<1>2. TypeOK /\ [Next]_vars => TypeOK'
  <2> SUFFICES ASSUME TypeOK, [Next]_vars PROVE TypeOK'
    OBVIOUS
  <2>1. CASE Environment
    BY <2>1, EnvironmentType
  <2>2. ASSUME NEW s \in Sessions, DeployStep(s) PROVE TypeOK'
    BY <2>2, DeployStepType
  <2>3. ASSUME NEW s \in Sessions, CallFails(s) PROVE TypeOK'
    BY <2>3, CallFailsType
  <2>4. CASE UNCHANGED vars
    BY <2>4 DEF vars, chainVars, sessVars, TypeOK, ChainTypeOK, SessTypeOK
  <2>5. QED BY <2>1, <2>2, <2>3, <2>4 DEF Next
<1>3. QED BY <1>1, <1>2, PTL DEF Spec

-----------------------------------------------------------------------------
(* The inductive invariant.                                                *)

\* The chain only adds: contracts keep their code, nonces, the Stylus version
\* and the versions of the programs do not fall.
ChainGrows ==
  /\ \A a \in Addrs : a[2] < nonce[a[1]] => codeAt'[a] = codeAt[a]
  /\ \A u \in Accounts : nonce'[u] >= nonce[u]
  /\ \A c \in Codes : version'[c] >= version[c]
  /\ stylusVersion' >= stylusVersion

\* What a session has is as it was.
Rests(s) ==
  /\ pc'[s] = pc[s] /\ active'[s] = active[s] /\ addr'[s] = addr[s]
  /\ verdict'[s] = verdict[s] /\ seenVersion'[s] = seenVersion[s]
  /\ cfg' = cfg /\ tx'[s] = tx[s]

\* A session that rests on a growing chain keeps its part of the invariant.
LEMMA RestingKeeps ==
  ASSUME TypeOK, TypeOK', NEW s \in Sessions, SessionInv(s), Rests(s), ChainGrows
  PROVE  SessionInv(s)'
<1> USE DEF Rests
<1>1. cfg[s].code \in Codes
  BY SessionConstants DEF TypeOK, SessTypeOK, Config
<1>2. FirstKind(s)' = FirstKind(s) /\ FindsConstructor(s)' = FindsConstructor(s)
  BY DEF FirstKind, FindsConstructor, Found
<1>3. StageInv(s)'
  BY <1>2 DEF SessionInv, StageInv
<1>4. TxInv(s)'
  <2>1. ASSUME NEW a \in Addrs, a[2] < nonce[a[1]]
        PROVE  codeAt'[a] = codeAt[a] /\ a[2] < nonce'[a[1]]
    <3>1. a[1] \in Accounts /\ a[2] \in Nat
      BY DEF Addrs
    <3>2. nonce[a[1]] \in Nat /\ nonce'[a[1]] \in Nat
      BY <3>1, ChainConstants DEF TypeOK, ChainTypeOK
    <3>3. QED BY <2>1, <3>1, <3>2 DEF ChainGrows
  <2>2. QED
    BY <1>2, <2>1 DEF SessionInv, TxInv, Creations
<1>5. VersionInv(s)'
  <2>1. /\ version[cfg[s].code] \in Nat /\ version'[cfg[s].code] \in Nat
        /\ seenVersion[s] \in Nat
        /\ stylusVersion \in Nat /\ stylusVersion' \in Nat
    BY <1>1, ChainConstants DEF TypeOK, ChainTypeOK, SessTypeOK
  <2>2. version'[cfg[s].code] >= version[cfg[s].code]
    BY <1>1 DEF ChainGrows
  <2>3. QED
    BY <2>1, <2>2 DEF SessionInv, VersionInv, ChainGrows
<1>6. QED BY <1>3, <1>4, <1>5 DEF SessionInv

\* A step of one session leaves the others and the chain as they are.
LEMMA StepIsLocal ==
  ASSUME TypeOK, NEW s \in Sessions, DeployStep(s) \/ CallFails(s)
  PROVE  /\ \A t \in Sessions \ {s} : Rests(t)
         /\ UNCHANGED <<nonce, codeAt, version, stylusVersion, cfg>>
<1> USE DEF TypeOK, ChainTypeOK, SessTypeOK, Rests, chainVars, Goes, Stops
<1>1. CASE CheckExists(s)
  BY <1>1 DEF CheckExists
<1>2. CASE CheckActivate(s)
  BY <1>2 DEF CheckActivate, Quotes
<1>3. CASE ParseConstructor(s)
  BY <1>3 DEF ParseConstructor
<1>4. CASE CheckBalance(s)
  BY <1>4 DEF CheckBalance
<1>5. CASE EstimateDeployment(s)
  BY <1>5 DEF EstimateDeployment
<1>6. CASE SendDeployment(s)
  BY <1>6 DEF SendDeployment, Sends
<1>7. CASE DeploymentMined(s)
  BY <1>7 DEF DeploymentMined, AfterDeployment
<1>8. CASE EstimateActivation(s)
  BY <1>8 DEF EstimateActivation
<1>9. CASE SendActivation(s)
  BY <1>9 DEF SendActivation, Sends
<1>10. CASE ActivationMined(s)
  BY <1>10 DEF ActivationMined
<1>11. CASE CallFails(s)
  BY <1>11 DEF CallFails
<1>12. CASE PriceDeployment(s)
  BY <1>12 DEF PriceDeployment
<1>13. CASE PriceActivation(s)
  BY <1>13 DEF PriceActivation
<1>14. QED
  BY <1>1, <1>2, <1>3, <1>4, <1>5, <1>6, <1>7, <1>8, <1>9, <1>10, <1>11, <1>12, <1>13
     DEF DeployStep

\* A session that only moves on, without sending: it keeps TxInv.
LEMMA SameTxKeeps ==
  ASSUME TypeOK, NEW s \in Sessions, SessionInv(s),
         UNCHANGED <<nonce, codeAt, cfg, tx>>, addr'[s] = addr[s],
         pc[s] # "wait", pc[s] \in Calls
  PROVE  TxInv(s)'
<1>1. FirstKind(s)' = FirstKind(s) /\ FindsConstructor(s)' = FindsConstructor(s)
  BY DEF FirstKind, FindsConstructor, Found
<1>2. verdict[s] = "none"
  BY DEF SessionInv, StageInv
<1>3. QED
  BY <1>1, <1>2 DEF SessionInv, TxInv, Creations

\* Each call keeps the session's own part of the invariant.
LEMMA StepKeeps ==
  ASSUME TypeOK, NEW s \in Sessions, SessionInv(s), DeployStep(s)
  PROVE  SessionInv(s)'
<1> USE DEF Calls, Ends, BeforeSending, OnActivation
<1>1. /\ pc \in [Sessions -> Calls \cup Ends]
      /\ verdict \in [Sessions -> {"none"} \cup Successes \cup Errors]
      /\ active \in [Sessions -> BOOLEAN]
      /\ addr \in [Sessions -> Addrs \cup {NoAddr}]
      /\ seenVersion \in [Sessions -> 0 .. MaxVersion]
      /\ tx \in [Sessions -> [Kinds -> Tx]]
      /\ stylusVersion \in 1 .. MaxVersion
      /\ version \in [Codes -> 0 .. MaxVersion]
      /\ MaxVersion \in Nat
  BY ChainConstants DEF TypeOK, ChainTypeOK, SessTypeOK
<1>2. cfg[s].code \in Codes
  BY SessionConstants DEF TypeOK, SessTypeOK, Config
<1>3. UNCHANGED <<nonce, codeAt, version, stylusVersion, cfg>>
  BY StepIsLocal
<1>4. FindsConstructor(s)' = FindsConstructor(s) /\ FirstKind(s)' = FirstKind(s)
  BY <1>3 DEF FindsConstructor, FirstKind, Found
<1>5. CASE CheckExists(s)
  <2>1. TxInv(s)'
    BY <1>3, <1>5, SameTxKeeps DEF CheckExists, chainVars
  <2>2. StageInv(s)'
    BY <1>1, <1>3, <1>4, <1>5 DEF CheckExists, chainVars, Goes, SessionInv, StageInv
  <2>3. VersionInv(s)'
    BY <1>1, <1>2, <1>3, <1>5
       DEF CheckExists, ContractExists, UpToDate, chainVars, Goes, SessionInv,
           StageInv, VersionInv, Kinds
  <2>4. QED BY <2>1, <2>2, <2>3 DEF SessionInv
<1>6. CASE CheckActivate(s)
  <2>1. TxInv(s)'
    BY <1>3, <1>6, SameTxKeeps DEF CheckActivate, chainVars
  <2>2. StageInv(s)'
    BY <1>1, <1>3, <1>4, <1>6
       DEF CheckActivate, chainVars, Goes, Stops, SessionInv, StageInv
  <2>3. SimulationError(cfg[s].code) \in {"none"} \cup Errors
    BY DEF SimulationError, Errors
  <2>4. VersionInv(s)'
    BY <1>1, <1>2, <1>3, <1>6, <2>3
       DEF CheckActivate, Quotes, chainVars, Goes, Stops, SessionInv,
           StageInv, VersionInv, Kinds, Errors
  <2>5. QED BY <2>1, <2>2, <2>4 DEF SessionInv
<1>7. CASE ParseConstructor(s)
  <2>1. TxInv(s)'
    BY <1>3, <1>7, SameTxKeeps DEF ParseConstructor, chainVars
  <2>2. StageInv(s)'
    BY <1>1, <1>3, <1>4, <1>7
       DEF ParseConstructor, chainVars, Goes, Stops, SessionInv, StageInv
  <2>3. VersionInv(s)'
    BY <1>1, <1>3, <1>7
       DEF ParseConstructor, chainVars, Goes, Stops, SessionInv, StageInv,
           VersionInv
  <2>4. QED BY <2>1, <2>2, <2>3 DEF SessionInv
<1>8. CASE CheckBalance(s)
  <2>1. TxInv(s)'
    BY <1>3, <1>8, SameTxKeeps DEF CheckBalance, chainVars
  <2>2. StageInv(s)'
    BY <1>1, <1>3, <1>4, <1>8
       DEF CheckBalance, chainVars, Goes, Stops, SessionInv, StageInv
  <2>3. VersionInv(s)'
    BY <1>1, <1>3, <1>8
       DEF CheckBalance, chainVars, Goes, Stops, SessionInv, StageInv, VersionInv
  <2>4. QED BY <2>1, <2>2, <2>3 DEF SessionInv
<1>9. CASE EstimateDeployment(s)
  <2>1. TxInv(s)'
    BY <1>3, <1>9, SameTxKeeps DEF EstimateDeployment, chainVars
  <2>2. Goes(s, "price") \/ \E e \in Errors : Stops(s, "bail", e)
    <3>1. EstimateError(FirstKind(s), FirstTx(s)) \in {"none"} \cup Errors
      BY DEF EstimateError, Errors
    <3>2. QED BY <1>9, <3>1 DEF EstimateDeployment
  <2>3. StageInv(s)'
    BY <1>1, <1>3, <1>4, <1>9, <2>2
       DEF EstimateDeployment, chainVars, Goes, Stops, SessionInv, StageInv
  <2>4. VersionInv(s)'
    BY <1>1, <1>3, <1>9, <2>2
       DEF EstimateDeployment, chainVars, Goes, Stops, SessionInv, StageInv,
           VersionInv, Errors
  <2>5. QED BY <2>1, <2>3, <2>4 DEF SessionInv
<1>10. CASE EstimateActivation(s)
  <2>1. TxInv(s)'
    BY <1>3, <1>10, SameTxKeeps DEF EstimateActivation, chainVars
  <2>2. \/ Goes(s, "act_price")
        \/ \E e \in Errors : Stops(s, "bail", e)
    <3>1. EstimateError("activate", ActivationTx(s)) \in {"none"} \cup Errors
      BY DEF EstimateError, Errors
    <3>2. QED BY <1>10, <3>1 DEF EstimateActivation
  <2>3. StageInv(s)'
    BY <1>1, <1>3, <1>4, <1>10, <2>2
       DEF EstimateActivation, chainVars, Goes, Stops, SessionInv, StageInv
  <2>4. VersionInv(s)'
    BY <1>1, <1>3, <1>10, <2>2
       DEF EstimateActivation, chainVars, Goes, Stops, SessionInv, StageInv,
           VersionInv, Errors
  <2>5. QED BY <2>1, <2>3, <2>4 DEF SessionInv
<1>11. CASE ActivationMined(s)
  <2>1. TxInv(s)'
    BY <1>3, <1>11, SameTxKeeps DEF ActivationMined, chainVars
  <2>2. StageInv(s)'
    BY <1>1, <1>3, <1>4, <1>11
       DEF ActivationMined, chainVars, Stops, SessionInv, StageInv
  <2>3. VersionInv(s)'
    BY <1>1, <1>3, <1>11
       DEF ActivationMined, Succeeded, chainVars, Stops, SessionInv, StageInv,
           VersionInv
  <2>4. QED BY <2>1, <2>2, <2>3 DEF SessionInv
<1>12. CASE DeploymentMined(s)
  <2>1. TxInv(s)'
    BY <1>1, <1>3, <1>4, <1>12
       DEF DeploymentMined, AfterDeployment, Mined, Succeeded, ReportedAddress,
           chainVars, Goes, Stops, SessionInv, StageInv, TxInv, Creations, Kinds
  <2>2. StageInv(s)'
    <3>1. /\ UNCHANGED tx /\ UNCHANGED cfg
          /\ pc[s] = "wait" /\ verdict[s] = "none" /\ addr[s] = NoAddr
          /\ tx[s]["activate"].status = "none"
      BY <1>12 DEF DeploymentMined, chainVars, SessionInv, StageInv
    <3>2. CASE Stops(s, "bail", "reverted") /\ UNCHANGED addr
      <4>1. pc'[s] = "bail"
        BY <1>1, <3>2 DEF Stops
      <4>2. QED BY <1>4, <3>1, <3>2, <4>1 DEF StageInv
    <3>3. CASE AfterDeployment(s) /\ addr'[s] # NoAddr
      <4>1. CASE FindsConstructor(s)
        <5>1. pc'[s] = "ok" /\ verdict'[s] = "initialized"
          BY <1>1, <3>3, <4>1 DEF AfterDeployment, Stops
        <5>2. QED BY <1>4, <5>1 DEF StageInv
      <4>2. CASE ~FindsConstructor(s)
        <5>1. \/ pc'[s] = "ok"
              \/ pc'[s] = "act_estimate" /\ verdict'[s] = "none"
          BY <1>1, <3>1, <3>3, <4>2 DEF AfterDeployment, Goes, Stops
        <5>2. ~FindsConstructor(s)' /\ tx'[s]["activate"].status = "none"
          BY <1>4, <3>1, <4>2
        <5>3. CASE pc'[s] = "ok"
          BY <5>2, <5>3 DEF StageInv
        <5>4. CASE pc'[s] = "act_estimate" /\ verdict'[s] = "none"
          BY <3>3, <5>2, <5>4 DEF StageInv
        <5>5. QED BY <5>1, <5>3, <5>4
      <4>3. QED BY <4>1, <4>2
    <3>4. \/ Stops(s, "bail", "reverted") /\ UNCHANGED addr
          \/ AfterDeployment(s) /\ addr'[s] # NoAddr
      BY <1>1, <1>12, NoAddrIsNone DEF DeploymentMined
    <3>5. QED BY <3>2, <3>3, <3>4
  <2>3. VersionInv(s)'
    BY <1>1, <1>3, <1>12
       DEF DeploymentMined, AfterDeployment, Succeeded, chainVars, Goes, Stops,
           FirstKind, SessionInv, StageInv, VersionInv
  <2>4. QED BY <2>1, <2>2, <2>3 DEF SessionInv
<1>13. CASE SendDeployment(s)
  <2> DEFINE k == FirstKind(s)
             x == FirstTx(s)
  <2>1. \/ /\ tx' = [tx EXCEPT ![s][k] = x]
           /\ Goes(s, "wait") \/ Stops(s, "bail", "lost")
        \/ tx' = tx /\ Stops(s, "bail", "funds")
    BY <1>13, Zenon DEF SendDeployment, Sends
  <2>2. pc[s] = "send" /\ ~cfg[s].estimate /\ addr[s] = NoAddr
        /\ \A j \in Kinds : tx[s][j].status = "none"
    BY <1>13 DEF SendDeployment, SessionInv, StageInv
  <2>3. UNCHANGED <<active, addr, seenVersion>>
    BY <1>13 DEF SendDeployment
  <2>4. /\ k \in Creations /\ k \in Kinds
        /\ x.status = "pending" /\ x.code = cfg[s].code
        /\ x.from = tx[s][k].from
    <3>1. tx[s][k] \in Tx
      BY <1>1, FirstTxType
    <3>2. x.code = cfg[s].code
      BY <3>1 DEF FirstTx, Tx
    <3>3. QED BY <3>2, FirstTxType DEF FirstKind, Creations
  <2>5. CASE tx' = tx /\ Stops(s, "bail", "funds")
    <3>1. TxInv(s)'
      BY <1>3, <2>2, <2>3, <2>5, SameTxKeeps
    <3>2. StageInv(s)'
      BY <1>1, <1>3, <1>4, <2>2, <2>3, <2>5 DEF Stops, StageInv
    <3>3. VersionInv(s)'
      BY <1>1, <1>3, <2>2, <2>3, <2>5 DEF Stops, SessionInv, VersionInv
    <3>4. QED BY <3>1, <3>2, <3>3 DEF SessionInv
  <2>6. CASE /\ tx' = [tx EXCEPT ![s][k] = x]
             /\ Goes(s, "wait") \/ Stops(s, "bail", "lost")
    <3>1. \A j \in Kinds : tx'[s][j] = IF j = k THEN x ELSE tx[s][j]
      BY <1>1, <2>4, <2>6
    <3>2. pc'[s] = "wait" \/ (verdict'[s] = "lost" /\ pc'[s] = "bail")
      BY <1>1, <2>6 DEF Goes, Stops
    <3>3. pc'[s] = "wait" => verdict'[s] = "none"
      BY <1>1, <2>2, <2>6 DEF Goes, Stops, SessionInv, StageInv
    <3>4. StageInv(s)'
      BY <1>3, <1>4, <2>2, <2>3, <2>4, <3>1, <3>2, <3>3
         DEF StageInv, Creations, Kinds
    <3>5. TxInv(s)'
      BY <1>3, <1>4, <2>2, <2>3, <2>4, <3>1, <3>2
         DEF SessionInv, TxInv, Creations, Kinds
    <3>6. VersionInv(s)'
      BY <1>3, <2>2, <2>3, <2>4, <3>1, <3>2, <3>3
         DEF SessionInv, VersionInv, Kinds
    <3>7. QED BY <3>4, <3>5, <3>6 DEF SessionInv
  <2>7. QED BY <2>1, <2>5, <2>6
<1>14. CASE SendActivation(s)
  <2> DEFINE x == ActivationTx(s)
  <2>1. \/ /\ tx' = [tx EXCEPT ![s]["activate"] = x]
           /\ Goes(s, "act_wait") \/ Stops(s, "bail", "lost")
        \/ tx' = tx /\ Stops(s, "bail", "funds")
    BY <1>14, Zenon DEF SendActivation, Sends
  <2>2. pc[s] = "act_send" /\ addr[s] # NoAddr /\ ~FindsConstructor(s)
        /\ tx[s]["activate"].status = "none" /\ verdict[s] = "none"
    BY <1>14 DEF SendActivation, SessionInv, StageInv
  <2>3. UNCHANGED <<active, addr, seenVersion>>
    BY <1>14 DEF SendActivation
  <2>4. x.status = "pending" /\ x.to = addr[s] /\ x.from = tx[s]["activate"].from
    <3>1. tx[s]["activate"] \in Tx
      BY <1>1 DEF Kinds
    <3>2. x.to = addr[s]
      BY <3>1 DEF ActivationTx, Tx
    <3>3. QED BY <3>2, ActivationTxType
  <2>5. CASE tx' = tx /\ Stops(s, "bail", "funds")
    <3>1. TxInv(s)'
      BY <1>3, <2>2, <2>3, <2>5, SameTxKeeps
    <3>2. StageInv(s)'
      BY <1>1, <1>3, <1>4, <2>2, <2>3, <2>5 DEF Stops, StageInv
    <3>3. VersionInv(s)'
      BY <1>1, <1>3, <2>2, <2>3, <2>5 DEF Stops, SessionInv, VersionInv
    <3>4. QED BY <3>1, <3>2, <3>3 DEF SessionInv
  <2>6. CASE /\ tx' = [tx EXCEPT ![s]["activate"] = x]
             /\ Goes(s, "act_wait") \/ Stops(s, "bail", "lost")
    <3>1. \A j \in Kinds :
            tx'[s][j] = IF j = "activate" THEN x ELSE tx[s][j]
      BY <1>1, <2>6 DEF Kinds
    <3>2. pc'[s] = "act_wait" \/ (verdict'[s] = "lost" /\ pc'[s] = "bail")
      BY <1>1, <2>6 DEF Goes, Stops
    <3>3. pc'[s] = "act_wait" => verdict'[s] = "none"
      BY <1>1, <2>2, <2>6 DEF Goes, Stops
    <3>4. StageInv(s)'
      BY <1>3, <1>4, <2>2, <2>3, <2>4, <3>1, <3>2, <3>3 DEF StageInv
    <3>5. TxInv(s)'
      BY <1>3, <1>4, <2>2, <2>3, <2>4, <3>1, <3>2
         DEF SessionInv, TxInv, Creations, Kinds, FirstKind
    <3>6. VersionInv(s)'
      BY <1>3, <2>2, <2>3, <2>4, <3>1, <3>2, <3>3
         DEF SessionInv, VersionInv, Kinds
    <3>7. QED BY <3>4, <3>5, <3>6 DEF SessionInv
  <2>7. QED BY <2>1, <2>5, <2>6
<1>15. CASE PriceDeployment(s)
  <2>1. TxInv(s)'
    BY <1>3, <1>15, SameTxKeeps DEF PriceDeployment, chainVars
  <2>2. StageInv(s)'
    BY <1>1, <1>3, <1>4, <1>15
       DEF PriceDeployment, EstimateOnly, chainVars, Goes, Stops, SessionInv, StageInv
  <2>3. VersionInv(s)'
    BY <1>1, <1>3, <1>15
       DEF PriceDeployment, chainVars, Goes, Stops, SessionInv, StageInv, VersionInv
  <2>4. QED BY <2>1, <2>2, <2>3 DEF SessionInv
<1>16. CASE PriceActivation(s)
  <2>1. TxInv(s)'
    BY <1>3, <1>16, SameTxKeeps DEF PriceActivation, chainVars
  <2>2. StageInv(s)'
    BY <1>1, <1>3, <1>4, <1>16
       DEF PriceActivation, chainVars, Goes, SessionInv, StageInv
  <2>3. VersionInv(s)'
    BY <1>1, <1>3, <1>16
       DEF PriceActivation, chainVars, Goes, SessionInv, StageInv, VersionInv
  <2>4. QED BY <2>1, <2>2, <2>3 DEF SessionInv
<1>17. QED
  BY <1>5, <1>6, <1>7, <1>8, <1>9, <1>10, <1>11, <1>12, <1>13, <1>14, <1>15, <1>16
     DEF DeployStep

\* A session whose call fails keeps its part of the invariant.
LEMMA CallFailsKeeps ==
  ASSUME TypeOK, NEW s \in Sessions, SessionInv(s), CallFails(s)
  PROVE  SessionInv(s)'
<1> USE DEF Calls, Ends, BeforeSending, OnActivation
<1>1. /\ pc \in [Sessions -> Calls \cup Ends]
      /\ verdict \in [Sessions -> {"none"} \cup Successes \cup Errors]
  BY DEF TypeOK, SessTypeOK
<1>2. UNCHANGED <<chainVars, cfg, active, addr, seenVersion>>
  BY DEF CallFails
<1>3. FirstKind(s)' = FirstKind(s) /\ FindsConstructor(s)' = FindsConstructor(s)
  BY <1>2 DEF FirstKind, FindsConstructor, Found
<1>4. pc[s] \in Calls /\ verdict[s] = "none"
  BY DEF CallFails, SessionInv, StageInv
<1>5. /\ pc'[s] \in Ends /\ verdict'[s] \in {"rpc", "lost"}
      /\ pc[s] = "wait" => verdict'[s] = "lost"
  BY <1>1 DEF CallFails, Stops, Unwrapped
<1>6. StageInv(s)'
  BY <1>2, <1>3, <1>4, <1>5 DEF SessionInv, StageInv
<1>7. TxInv(s)'
  BY <1>2, <1>3, <1>4, <1>5 DEF SessionInv, TxInv, Creations, chainVars
<1>8. VersionInv(s)'
  BY <1>2, <1>4, <1>5 DEF SessionInv, VersionInv, chainVars
<1>9. QED BY <1>6, <1>7, <1>8 DEF SessionInv

\* Whatever the chain does, it grows.
LEMMA EnvironmentGrows ==
  ASSUME TypeOK, \A c \in Codes : version[c] <= stylusVersion, Environment
  PROVE  ChainGrows /\ \A c \in Codes : version'[c] <= stylusVersion'
<1> USE DEF ChainGrows
<1>1. /\ nonce \in [Accounts -> Nat] /\ version \in [Codes -> Nat]
      /\ stylusVersion \in Nat /\ codeAt \in [Addrs -> Codes \cup {NoCode}]
  BY ChainConstants DEF TypeOK, ChainTypeOK
<1>2. CASE Drift
  <2>1. UNCHANGED <<nonce, codeAt, version>>
    BY <1>2 DEF Drift, FeeMoves, PriceMoves, MinBidMoves, Upgrade, Expire
  <2>2. stylusVersion' \in {stylusVersion, stylusVersion + 1}
    BY <1>2 DEF Drift, FeeMoves, PriceMoves, MinBidMoves, Upgrade, Expire
  <2>3. stylusVersion' \in Nat /\ stylusVersion' >= stylusVersion
    BY <1>1, <2>2
  <2>4. \A u \in Accounts : nonce'[u] >= nonce[u]
    BY <1>1, <2>1
  <2>5. \A c \in Codes : version'[c] >= version[c] /\ version'[c] <= stylusVersion'
    BY <1>1, <2>1, <2>3
  <2>6. QED BY <2>1, <2>3, <2>4, <2>5
<1>3. ASSUME NEW s \in Sessions, NEW k \in Kinds, Mine(s, k)
      PROVE  ChainGrows /\ \A c \in Codes : version'[c] <= stylusVersion'
  <2>1. tx[s][k].from \in Accounts
    BY DEF TypeOK, ChainTypeOK, Tx, Accounts
  <2>2. CASE k = "create" /\ MineCreate(s)
    BY <1>1, <2>1, <2>2 DEF MineCreate
  <2>3. CASE k = "activate" /\ MineActivate(s)
    BY <1>1, <2>1, <2>3 DEF MineActivate
  <2>4. CASE k = "deployer" /\ MineDeployer(s)
    <3> DEFINE a == <<Factory, nonce[Factory]>>
               u == tx[s][k].from
    <3>1. /\ nonce' = [nonce EXCEPT ![u] = @ + 1, ![Factory] = @ + 1]
          /\ codeAt' = [codeAt EXCEPT ![a] = tx[s][k].code]
          /\ version' = [version EXCEPT ![tx[s][k].code] = stylusVersion]
          /\ UNCHANGED stylusVersion
      BY <2>4 DEF MineDeployer
    <3>2. \A b \in Accounts : nonce'[b] >= nonce[b]
      BY <1>1, <3>1
    <3>3. \A b \in Addrs : b[2] < nonce[b[1]] => codeAt'[b] = codeAt[b]
      <4> SUFFICES ASSUME NEW b \in Addrs, b[2] < nonce[b[1]]
                   PROVE  codeAt'[b] = codeAt[b]
        OBVIOUS
      <4>1. Factory \in Accounts /\ nonce[Factory] \in Nat
        BY <1>1 DEF Accounts
      <4>2. a[1] = Factory /\ a[2] = nonce[Factory]
        OBVIOUS
      <4>3. a # b
        BY <4>1, <4>2
      <4>4. QED BY <1>1, <3>1, <4>3
    <3>4. \A c \in Codes : version'[c] >= version[c] /\ version'[c] <= stylusVersion
      BY <1>1, <3>1
    <3>5. QED BY <1>1, <3>1, <3>2, <3>3, <3>4
  <2>5. CASE k = "bid" /\ MineBid(s)
    BY <1>1, <2>1, <2>5 DEF MineBid
  <2>6. CASE MineReverted(s, k)
    BY <1>1, <2>1, <2>6 DEF MineReverted
  <2>7. QED BY <1>3, <2>2, <2>3, <2>4, <2>5, <2>6 DEF Mine
<1>4. QED BY <1>2, <1>3 DEF Environment, ChainNext

\* What the inclusion of a transaction means for its session.
MinedAs(s, k, st, at) ==
  /\ tx[s][k].status = "pending"
  /\ tx' = [tx EXCEPT ![s][k] = [@ EXCEPT !.status = st, !.at = at]]
  /\ st = "ok" /\ k \in Creations =>
       /\ at \in Addrs
       /\ at[2] = nonce[at[1]] /\ at[2] < nonce'[at[1]]
       /\ codeAt'[at] = tx[s][k].code
  /\ st = "ok" /\ k \in {"deployer", "activate"} =>
       version'[cfg[s].code] = stylusVersion

\* Every way of mining a transaction is such an inclusion.
LEMMA MineEffect ==
  ASSUME TypeOK, NEW s \in Sessions, NEW k \in Kinds, SessionInv(s), Mine(s, k)
  PROVE  \E st \in {"ok", "reverted"}, at \in Addrs \cup {NoAddr} :
           MinedAs(s, k, st, at)
<1> USE DEF MinedAs, Creations
<1>1. tx[s][k] \in Tx /\ tx[s][k].from \in Accounts
  BY DEF TypeOK, ChainTypeOK, Tx, Accounts
<1>2. /\ nonce \in [Accounts -> 0 .. MaxNonce] /\ MaxNonce \in Nat
      /\ codeAt \in [Addrs -> Codes \cup {NoCode}]
      /\ version \in [Codes -> 0 .. MaxVersion]
      /\ tx \in [Sessions -> [Kinds -> Tx]]
  BY ChainConstants DEF TypeOK, ChainTypeOK
<1>3. ASSUME NEW u \in Accounts PROVE <<u, nonce[u]>> \in Addrs
  BY <1>2 DEF Addrs
<1>4. CASE k = "create" /\ MineCreate(s)
  <2> DEFINE a == <<tx[s][k].from, nonce[tx[s][k].from]>>
  <2>1. MinedAs(s, k, "ok", a)
    BY <1>1, <1>2, <1>3, <1>4 DEF MineCreate, Included, Includable
  <2>2. QED BY <1>1, <1>3, <2>1
<1>5. CASE k = "deployer" /\ MineDeployer(s)
  <2> DEFINE a == <<Factory, nonce[Factory]>>
  <2>1. tx[s][k].from # Factory /\ Factory \in Accounts
    BY <1>1, ChainConstants DEF Tx, Accounts
  <2>2. tx[s][k].code = cfg[s].code /\ cfg[s].code \in Codes
    BY <1>5, SessionConstants
       DEF MineDeployer, Includable, SessionInv, TxInv, TypeOK, SessTypeOK, Config
  <2>3. MinedAs(s, k, "ok", a)
    BY <1>1, <1>2, <1>3, <1>5, <2>1, <2>2 DEF MineDeployer, Included, Includable
  <2>4. QED BY <1>3, <2>1, <2>3
<1>6. CASE k = "activate" /\ MineActivate(s)
  <2>1. tx[s][k].status = "pending" /\ tx[s][k].to = addr[s] /\ addr[s] # NoAddr
    BY <1>6 DEF MineActivate, Includable, SessionInv, TxInv
  <2>2. codeAt[tx[s][k].to] = cfg[s].code
    BY <2>1 DEF SessionInv, TxInv, FirstKind
  <2>3. cfg[s].code \in Codes
    BY SessionConstants DEF TypeOK, SessTypeOK, Config
  <2>4. MinedAs(s, k, "ok", NoAddr)
    BY <1>1, <1>2, <1>6, <2>1, <2>2, <2>3 DEF MineActivate, Included
  <2>5. QED BY <2>4
<1>7. CASE MineReverted(s, k)
  <2>1. MinedAs(s, k, "reverted", NoAddr)
    BY <1>7 DEF MineReverted, Included, Includable
  <2>2. QED BY <2>1
<1>8. ~MineBid(s) \/ k # "bid"
  BY DEF MineBid, Includable, SessionInv, TxInv
<1>9. QED BY <1>4, <1>5, <1>6, <1>7, <1>8 DEF Mine

\* The session whose transaction is included keeps its part of the invariant.
LEMMA MinedKeeps ==
  ASSUME TypeOK, TypeOK', NEW s \in Sessions, NEW k \in Kinds,
         NEW st \in {"ok", "reverted"}, NEW at \in Addrs \cup {NoAddr},
         SessionInv(s), MinedAs(s, k, st, at), ChainGrows, UNCHANGED sessVars
  PROVE  SessionInv(s)'
<1>1. /\ pc'[s] = pc[s] /\ active'[s] = active[s] /\ addr'[s] = addr[s]
      /\ verdict'[s] = verdict[s] /\ seenVersion'[s] = seenVersion[s]
      /\ cfg' = cfg /\ tx[s][k].status = "pending"
  BY DEF sessVars, MinedAs
<1>2. FirstKind(s)' = FirstKind(s) /\ FindsConstructor(s)' = FindsConstructor(s)
  BY <1>1 DEF FirstKind, FindsConstructor, Found
<1>3. /\ tx[s] \in [Kinds -> Tx] /\ tx[s][k] \in Tx
      /\ \A j \in Kinds :
           tx'[s][j] = IF j = k THEN [tx[s][k] EXCEPT !.status = st, !.at = at]
                                ELSE tx[s][j]
  BY DEF MinedAs, TypeOK, ChainTypeOK
<1>4. /\ tx'[s][k].status = st /\ tx'[s][k].at = at
      /\ tx'[s][k].from = tx[s][k].from /\ tx'[s][k].code = tx[s][k].code
      /\ tx'[s][k].to = tx[s][k].to
  BY <1>3 DEF Tx
<1>5. StageInv(s)'
  BY <1>1, <1>2, <1>3, <1>4
     DEF SessionInv, StageInv, Kinds, BeforeSending, OnActivation
<1>6. TxInv(s)'
  <2>1. ASSUME NEW a \in Addrs, a[2] < nonce[a[1]]
        PROVE  codeAt'[a] = codeAt[a] /\ a[2] < nonce'[a[1]]
    <3>1. a[1] \in Accounts /\ a[2] \in Nat
      BY DEF Addrs
    <3>2. nonce[a[1]] \in Nat /\ nonce'[a[1]] \in Nat
      BY <3>1, ChainConstants DEF TypeOK, ChainTypeOK
    <3>3. QED BY <2>1, <3>1, <3>2 DEF ChainGrows
  <2>2. k # "bid"
    BY <1>1 DEF SessionInv, TxInv
  <2>3. tx'[s]["bid"].status = "none"
    BY <1>3, <2>2 DEF SessionInv, TxInv, Kinds
  <2>4. \A j \in Kinds : tx'[s][j].from = cfg'[s].user
    BY <1>1, <1>3, <1>4 DEF SessionInv, TxInv
  <2>5. ASSUME NEW j \in Creations
        PROVE  /\ tx'[s][j].status # "none" =>
                    /\ j = FirstKind(s)'
                    /\ tx'[s][j].code = cfg'[s].code
                    /\ ~cfg'[s].estimate
               /\ tx'[s][j].status = "pending" =>
                    pc'[s] = "wait" \/ verdict'[s] = "lost"
               /\ tx'[s][j].status = "ok" =>
                    /\ tx'[s][j].at \in Addrs
                    /\ tx'[s][j].at[2] < nonce'[tx'[s][j].at[1]]
                    /\ codeAt'[tx'[s][j].at] = cfg'[s].code
                    /\ \/ addr'[s] = tx'[s][j].at
                       \/ pc'[s] = "wait" \/ verdict'[s] = "lost"
    <3>1. j \in Kinds
      BY DEF Creations, Kinds
    <3>2. CASE j = k
      BY <1>1, <1>2, <1>4, <3>2 DEF SessionInv, TxInv, MinedAs
    <3>3. CASE j # k
      BY <1>1, <1>2, <1>3, <2>1, <3>1, <3>3 DEF SessionInv, TxInv
    <3>4. QED BY <3>2, <3>3
  <2>6. tx'[s]["activate"].status # "none" =>
          addr'[s] # NoAddr /\ ~FindsConstructor(s)'
          /\ tx'[s]["activate"].to = addr'[s]
    BY <1>1, <1>2, <1>3, <1>4 DEF SessionInv, TxInv, Kinds
  <2>7. addr'[s] # NoAddr =>
          /\ tx'[s][FirstKind(s)'].status = "ok"
          /\ addr'[s] = tx'[s][FirstKind(s)'].at
    BY <1>1, <1>2, <1>3 DEF SessionInv, TxInv, FirstKind, Kinds
  <2>8. QED BY <2>3, <2>4, <2>5, <2>6, <2>7 DEF TxInv
<1>7. VersionInv(s)'
  <2>1. cfg[s].code \in Codes
    BY SessionConstants DEF TypeOK, SessTypeOK, Config
  <2>2. /\ version[cfg[s].code] \in Nat /\ version'[cfg[s].code] \in Nat
        /\ seenVersion[s] \in Nat
        /\ stylusVersion \in Nat /\ stylusVersion' \in Nat
    BY <2>1, ChainConstants DEF TypeOK, ChainTypeOK, SessTypeOK
  <2>3. version'[cfg[s].code] >= version[cfg[s].code]
        /\ stylusVersion' >= stylusVersion
    BY <2>1 DEF ChainGrows
  <2>4. ASSUME NEW j \in {"deployer", "activate"}, tx'[s][j].status = "ok"
        PROVE  version'[cfg[s].code] >= seenVersion[s]
    <3>1. CASE j = k
      BY <1>4, <2>2, <2>4, <3>1 DEF MinedAs, SessionInv, VersionInv
    <3>2. CASE j # k
      BY <1>3, <2>2, <2>3, <2>4, <3>2 DEF SessionInv, VersionInv, Kinds
    <3>3. QED BY <3>1, <3>2
  <2>5. QED
    BY <1>1, <2>2, <2>3, <2>4 DEF SessionInv, VersionInv
<1>8. QED BY <1>5, <1>6, <1>7 DEF SessionInv

\* A contract is created at an address that no earlier one has.
LEMMA MinedDistinct ==
  ASSUME TypeOK, NEW s \in Sessions, NEW k \in Kinds,
         NEW st \in {"ok", "reverted"}, NEW at \in Addrs \cup {NoAddr},
         \A t \in Sessions : SessionInv(t), DistinctContracts,
         MinedAs(s, k, st, at)
  PROVE  DistinctContracts'
<1> SUFFICES ASSUME NEW t \in Sessions, NEW u \in Sessions,
                    NEW i \in Creations, NEW j \in Creations, t # u,
                    tx'[t][i].status = "ok", tx'[u][j].status = "ok"
             PROVE  tx'[t][i].at # tx'[u][j].at
  BY DEF DistinctContracts
<1>1. i \in Kinds /\ j \in Kinds
  BY DEF Creations, Kinds
<1>2. /\ tx \in [Sessions -> [Kinds -> Tx]]
      /\ nonce \in [Accounts -> Nat]
  BY ChainConstants DEF TypeOK, ChainTypeOK
<1>3. /\ tx'[s][k].status = st /\ tx'[s][k].at = at
      /\ \A r \in Sessions, l \in Kinds :
           r # s \/ l # k => tx'[r][l] = tx[r][l]
  BY <1>2 DEF MinedAs, Tx
<1>4. ASSUME NEW r \in Sessions, NEW l \in Creations, tx[r][l].status = "ok",
             k \in Creations, st = "ok"
      PROVE  tx[r][l].at # at
  <2>1. /\ tx[r][l].at \in Addrs
        /\ tx[r][l].at[2] < nonce[tx[r][l].at[1]]
    BY <1>4 DEF SessionInv, TxInv
  <2>2. at \in Addrs /\ at[2] = nonce[at[1]] /\ nonce[at[1]] \in Nat
    BY <1>2, <1>4 DEF MinedAs, Addrs
  <2>3. QED BY <2>1, <2>2
<1>5. CASE t = s /\ i = k
  BY <1>1, <1>3, <1>4, <1>5
<1>6. CASE u = s /\ j = k
  BY <1>1, <1>3, <1>4, <1>6
<1>7. CASE (t # s \/ i # k) /\ (u # s \/ j # k)
  BY <1>1, <1>3, <1>7 DEF DistinctContracts
<1>8. QED BY <1>5, <1>6, <1>7

\* Before the first call nothing is sent, printed or activated.
LEMMA InitIInv == Init => IInv
<1> SUFFICES ASSUME Init PROVE IInv
  OBVIOUS
<1>1. ASSUME NEW s \in Sessions, NEW k \in Kinds
      PROVE  tx[s][k].status = "none" /\ tx[s][k].from = cfg[s].user
  BY <1>1 DEF Init
<1>2. ASSUME NEW s \in Sessions PROVE SessionInv(s)
  <2>1. pc[s] \in {"exists", "simulate", "manager"}
    <3>1. cfg[s].cmd \in {"deploy", "activate", "bid"}
      BY SessionConstants DEF Init, Config
    <3>2. QED BY <3>1 DEF Init, FirstCall
  <2>2. /\ active[s] = FALSE /\ addr[s] = NoAddr /\ verdict[s] = "none"
        /\ seenVersion[s] = 0 /\ stylusVersion = 1
    BY DEF Init, ChainInit
  <2>3. StageInv(s)
    BY <1>1, <2>1, <2>2 DEF StageInv, OnActivation
  <2>4. TxInv(s)
    BY <1>1, <2>2 DEF TxInv, Kinds, Creations
  <2>5. VersionInv(s)
    BY <1>1, <2>1, <2>2 DEF VersionInv, OnActivation, Kinds
  <2>6. QED BY <2>3, <2>4, <2>5 DEF SessionInv
<1>3. DistinctContracts
  BY <1>1 DEF DistinctContracts, Creations, Kinds
<1>4. \A c \in Codes : version[c] <= stylusVersion
  BY DEF Init, ChainInit
<1>5. QED BY <1>2, <1>3, <1>4 DEF IInv

\* Every step of a session or of the chain keeps the invariant.
LEMMA NextIInv == TypeOK /\ TypeOK' /\ IInv /\ [Next]_vars => IInv'
<1> SUFFICES ASSUME TypeOK, TypeOK', IInv, [Next]_vars PROVE IInv'
  OBVIOUS
<1>1. /\ \A s \in Sessions : SessionInv(s)
      /\ DistinctContracts
      /\ \A c \in Codes : version[c] <= stylusVersion
  BY DEF IInv
<1>2. ASSUME NEW s \in Sessions, DeployStep(s) \/ CallFails(s) PROVE IInv'
  <2>1. /\ \A t \in Sessions \ {s} : Rests(t)
        /\ UNCHANGED <<nonce, codeAt, version, stylusVersion, cfg>>
    BY <1>2, StepIsLocal
  <2>2. ChainGrows
    BY <2>1, ChainConstants DEF ChainGrows, TypeOK, ChainTypeOK
  <2>3. SessionInv(s)'
    BY <1>1, <1>2, StepKeeps, CallFailsKeeps
  <2>4. \A t \in Sessions : SessionInv(t)'
    BY <1>1, <2>1, <2>2, <2>3, RestingKeeps
  <2>5. \A t \in Sessions, k \in Creations :
          tx'[t][k].status = "ok" => tx[t][k] = tx'[t][k]
    <3>1. CASE tx' = tx
      BY <3>1
    <3>2. CASE tx' # tx
      <4>1. SendDeployment(s) \/ SendActivation(s)
        BY <1>2, <3>2
           DEF DeployStep, CallFails, chainVars, CheckExists, CheckActivate,
               ParseConstructor, CheckBalance, EstimateDeployment,
               PriceDeployment, DeploymentMined, EstimateActivation,
               PriceActivation, ActivationMined
      <4>2. \/ tx' = [tx EXCEPT ![s][FirstKind(s)] = FirstTx(s)]
            \/ tx' = [tx EXCEPT ![s]["activate"] = ActivationTx(s)]
        BY <3>2, <4>1, Zenon DEF SendDeployment, SendActivation, Sends
      <4>3. tx \in [Sessions -> [Kinds -> Tx]]
        BY DEF TypeOK, ChainTypeOK
      <4>4. FirstTx(s).status = "pending" /\ FirstKind(s) \in Kinds
        BY FirstTxType
      <4>5. QED BY <4>2, <4>3, <4>4 DEF Creations, Kinds
    <3>3. QED BY <3>1, <3>2
  <2>6. DistinctContracts'
    BY <1>1, <2>5 DEF DistinctContracts
  <2>7. QED BY <1>1, <2>1, <2>4, <2>6 DEF IInv
<1>3. CASE Environment
  <2>1. ChainGrows /\ \A c \in Codes : version'[c] <= stylusVersion'
    BY <1>1, <1>3, EnvironmentGrows
  <2>2. UNCHANGED sessVars
    BY <1>3 DEF Environment
  <2>3. CASE Drift
    <3>1. tx' = tx
      BY <2>3 DEF Drift, FeeMoves, PriceMoves, MinBidMoves, Upgrade, Expire
    <3>2. \A t \in Sessions : Rests(t)
      BY <2>2, <3>1 DEF Rests, sessVars
    <3>3. \A t \in Sessions : SessionInv(t)'
      BY <1>1, <2>1, <3>2, RestingKeeps
    <3>4. DistinctContracts'
      BY <1>1, <3>1 DEF DistinctContracts
    <3>5. QED BY <2>1, <3>3, <3>4 DEF IInv
  <2>4. ASSUME NEW s \in Sessions, NEW k \in Kinds, Mine(s, k) PROVE IInv'
    <3>1. PICK st \in {"ok", "reverted"}, at \in Addrs \cup {NoAddr} :
             MinedAs(s, k, st, at)
      BY <1>1, <2>4, MineEffect
    <3>2. \A t \in Sessions \ {s} : Rests(t)
      BY <2>2, <3>1 DEF Rests, sessVars, MinedAs, TypeOK, ChainTypeOK
    <3>3. SessionInv(s)'
      BY <1>1, <2>1, <2>2, <3>1, MinedKeeps
    <3>4. \A t \in Sessions : SessionInv(t)'
      BY <1>1, <2>1, <3>2, <3>3, RestingKeeps
    <3>5. DistinctContracts'
      BY <1>1, <3>1, MinedDistinct
    <3>6. QED BY <2>1, <3>4, <3>5 DEF IInv
  <2>5. QED BY <1>3, <2>3, <2>4 DEF Environment, ChainNext
<1>4. CASE UNCHANGED vars
  <2>1. UNCHANGED <<nonce, codeAt, version, stylusVersion, tx>>
        /\ UNCHANGED sessVars
    BY <1>4 DEF vars, chainVars
  <2>2. ChainGrows
    BY <2>1, ChainConstants DEF ChainGrows, TypeOK, ChainTypeOK
  <2>3. \A t \in Sessions : Rests(t)
    BY <2>1 DEF Rests, sessVars
  <2>4. \A t \in Sessions : SessionInv(t)'
    BY <1>1, <2>2, <2>3, RestingKeeps
  <2>5. DistinctContracts'
    BY <1>1, <2>1 DEF DistinctContracts
  <2>6. QED BY <1>1, <2>1, <2>4, <2>5 DEF IInv
<1>5. QED BY <1>2, <1>3, <1>4 DEF Next

\* The inductive invariant holds of every run of deploy.
THEOREM Inductive == Spec => []IInv
<1>1. QED BY InitIInv, NextIInv, TypeCorrect, PTL DEF Spec

-----------------------------------------------------------------------------
(* What the invariant gives.                                               *)

\* deploy reports addresses that hold its program, one per session, and leaves
\* no contract unreported but those whose receipt it never saw.
THEOREM ReportsAreTrue == Spec => []ReportedIsDeployed
<1>1. IInv => ReportedIsDeployed
  <2> SUFFICES ASSUME IInv, NEW s \in Sessions
               PROVE  /\ addr[s] # NoAddr =>
                           /\ codeAt[addr[s]] = cfg[s].code
                           /\ \A t \in Sessions \ {s} : addr[t] # addr[s]
                      /\ \A k \in Creations : tx[s][k].status = "ok" =>
                           \/ addr[s] = tx[s][k].at
                           \/ pc[s] = "wait" \/ verdict[s] = "lost"
    BY DEF ReportedIsDeployed, Creations
  <2>1. \A t \in Sessions : TxInv(t)
    BY DEF IInv, SessionInv
  <2>2. \A t \in Sessions : FirstKind(t) \in Creations
    BY DEF FirstKind, Creations
  <2>3. ASSUME addr[s] # NoAddr
        PROVE  /\ codeAt[addr[s]] = cfg[s].code
               /\ \A t \in Sessions \ {s} : addr[t] # addr[s]
    <3>1. codeAt[addr[s]] = cfg[s].code
      BY <2>1, <2>2, <2>3 DEF TxInv
    <3>2. ASSUME NEW t \in Sessions \ {s} PROVE addr[t] # addr[s]
      BY <2>1, <2>2, <2>3 DEF TxInv, IInv, DistinctContracts
    <3>3. QED BY <3>1, <3>2
  <2>4. QED BY <2>1, <2>3 DEF TxInv
<1>2. QED BY <1>1, Inductive, PTL

\* deploy never claims an activation that did not happen: a success message
\* means the program was activated with the version of the check or a later one.
THEOREM SuccessIsTrue == Spec => []SuccessMeansActivated
<1>1. IInv => SuccessMeansActivated
  BY DEF IInv, SessionInv, VersionInv, SuccessMeansActivated
<1>2. QED BY <1>1, Inductive, PTL

\* Where deploy finds a constructor, there is either no contract, or one whose
\* constructor has run and that the user is told of, unless touch was lost.
THEOREM ConstructorsRun == Spec => []InitializedOrAbsent
<1>1. IInv => InitializedOrAbsent
  <2> SUFFICES ASSUME IInv, NEW s \in Sessions, FindsConstructor(s)
               PROVE  \/ addr[s] = NoAddr /\ \A k \in Kinds : tx[s][k].status # "ok"
                      \/ /\ \A k \in Kinds : tx[s][k].status = "ok" <=> k = "deployer"
                         /\ codeAt[tx[s]["deployer"].at] = cfg[s].code
                         /\ version[cfg[s].code] >= seenVersion[s]
                         /\ \/ verdict[s] = "initialized" /\ addr[s] = tx[s]["deployer"].at
                            \/ addr[s] = NoAddr /\ (pc[s] = "wait" \/ verdict[s] = "lost")
    BY DEF InitializedOrAbsent
  <2>1. StageInv(s) /\ TxInv(s) /\ VersionInv(s) /\ FirstKind(s) = "deployer"
    BY DEF IInv, SessionInv, FirstKind
  <2>2. \A k \in Kinds : tx[s][k].status = "ok" => k = "deployer"
    BY <2>1 DEF TxInv, Creations, Kinds
  <2>3. CASE tx[s]["deployer"].status = "ok"
    <3>1. /\ codeAt[tx[s]["deployer"].at] = cfg[s].code
          /\ version[cfg[s].code] >= seenVersion[s]
      BY <2>1, <2>3 DEF TxInv, VersionInv, Creations
    <3>2. \/ verdict[s] = "initialized" /\ addr[s] = tx[s]["deployer"].at
          \/ addr[s] = NoAddr /\ (pc[s] = "wait" \/ verdict[s] = "lost")
      BY <2>1, <2>3, NoAddrIsNone DEF StageInv, TxInv, Creations
    <3>3. QED BY <2>2, <2>3, <3>1, <3>2
  <2>4. CASE tx[s]["deployer"].status # "ok"
    BY <2>1, <2>2, <2>4 DEF TxInv
  <2>5. QED BY <2>3, <2>4
<1>2. QED BY <1>1, Inductive, PTL

\* deploy --estimate-gas submits nothing.
THEOREM EstimatesAreFree == Spec => []EstimateSendsNothing
<1>1. IInv => EstimateSendsNothing
  <2> SUFFICES ASSUME IInv, NEW s \in Sessions, cfg[s].estimate, NEW k \in Kinds
               PROVE  tx[s][k].status = "none"
    BY DEF EstimateSendsNothing
  <2>1. TxInv(s)
    BY DEF IInv, SessionInv
  <2>2. FirstKind(s) \in Creations
    BY DEF FirstKind, Creations
  <2>3. addr[s] = NoAddr
    BY <2>1, <2>2 DEF TxInv
  <2>4. QED BY <2>1, <2>3 DEF TxInv, Kinds, Creations
<1>2. QED BY <1>1, Inductive, PTL

-----------------------------------------------------------------------------
(* The addition to the invariant.                                          *)

\* Where a step of a session leads, as far as PromiseInv tells it apart.
LEMMA StepKeepsPromiseInv ==
  ASSUME TypeOK, NEW s \in Sessions, SessionInv(s), PromiseInv(s), DeployStep(s)
  PROVE  PromiseInv(s)'
<1> USE DEF Calls, Ends, BeforeSending, OnActivation, Checked, PromiseInv
<1>1. /\ pc \in [Sessions -> Calls \cup Ends]
      /\ verdict \in [Sessions -> {"none"} \cup Successes \cup Errors]
      /\ active \in [Sessions -> BOOLEAN]
      /\ tx \in [Sessions -> [Kinds -> Tx]]
  BY DEF TypeOK, ChainTypeOK, SessTypeOK
<1>2. UNCHANGED cfg
  BY StepIsLocal
<1>3. StageInv(s)
  BY DEF SessionInv
<1>4. CASE CheckExists(s)
  BY <1>1, <1>2, <1>3, <1>4 DEF CheckExists, chainVars, Goes, StageInv, Kinds
<1>5. CASE CheckActivate(s)
  <2>1. SimulationError(cfg[s].code) = "none" => cfg[s].code \in ValidCodes
    BY DEF SimulationError
  <2>2. QED
    BY <1>1, <1>2, <1>3, <1>5, <2>1
       DEF CheckActivate, chainVars, Goes, Stops, StageInv, Kinds
<1>6. CASE ParseConstructor(s)
  BY <1>1, <1>2, <1>3, <1>6
     DEF ParseConstructor, chainVars, Goes, Stops, StageInv, Kinds
<1>7. CASE CheckBalance(s)
  BY <1>1, <1>2, <1>3, <1>7
     DEF CheckBalance, chainVars, Goes, Stops, StageInv, Kinds
<1>8. CASE EstimateDeployment(s)
  BY <1>1, <1>2, <1>3, <1>8
     DEF EstimateDeployment, chainVars, Goes, Stops, StageInv, Kinds
<1>9. CASE SendDeployment(s)
  <2>1. \/ /\ tx' = [tx EXCEPT ![s][FirstKind(s)] = FirstTx(s)]
           /\ Goes(s, "wait") \/ Stops(s, "bail", "lost")
        \/ tx' = tx /\ Stops(s, "bail", "funds")
    BY <1>9, Zenon DEF SendDeployment, Sends
  <2>2. tx'[s]["activate"] = tx[s]["activate"]
    BY <1>1, <2>1 DEF FirstKind, Kinds
  <2>3. tx[s]["activate"].status = "none" /\ pc[s] = "send"
    BY <1>3, <1>9 DEF SendDeployment, StageInv, Kinds
  <2>4. \/ pc'[s] = "wait" /\ verdict'[s] = "none"
        \/ pc'[s] = "bail" /\ verdict'[s] \in {"lost", "funds"}
    BY <1>1, <1>3, <2>1, <2>3 DEF Goes, Stops, StageInv
  <2>5. UNCHANGED active
    BY <1>9 DEF SendDeployment
  <2>6. QED BY <1>2, <2>2, <2>3, <2>4, <2>5
<1>10. CASE DeploymentMined(s)
  BY <1>1, <1>2, <1>3, <1>10
     DEF DeploymentMined, AfterDeployment, chainVars, Goes, Stops, StageInv
<1>11. CASE EstimateActivation(s)
  <2>1. addr[s] # NoAddr /\ ~active[s] /\ cfg[s].code \in ValidCodes
    BY <1>3, <1>11 DEF EstimateActivation, StageInv
  <2>2. ActivationTx(s).to = addr[s]
    BY <1>1 DEF ActivationTx, Tx, Kinds
  <2>3. codeAt[addr[s]] = cfg[s].code
    BY <2>1 DEF SessionInv, TxInv, FirstKind, Creations
  <2>4. EstimateError("activate", ActivationTx(s))
          \in {"none", "funds", "uptodate", "fee"}
    BY <2>1, <2>2, <2>3 DEF EstimateError
  <2>5. QED
    BY <1>1, <1>2, <1>3, <1>11, <2>4
       DEF EstimateActivation, chainVars, Goes, Stops, StageInv
<1>12. CASE SendActivation(s)
  <2>1. \/ /\ tx' = [tx EXCEPT ![s]["activate"] = ActivationTx(s)]
           /\ Goes(s, "act_wait") \/ Stops(s, "bail", "lost")
        \/ tx' = tx /\ Stops(s, "bail", "funds")
    BY <1>12, Zenon DEF SendActivation, Sends
  <2>2. /\ pc[s] = "act_send" /\ verdict[s] = "none"
        /\ ~active[s] /\ cfg[s].code \in ValidCodes
        /\ tx[s]["activate"].status = "none"
    BY <1>3, <1>12 DEF SendActivation, StageInv
  <2>3. \/ pc'[s] = "act_wait" /\ verdict'[s] = "none"
        \/ /\ pc'[s] = "bail"
           /\ verdict'[s] = "lost" \/ (verdict'[s] = "funds" /\ tx' = tx)
    BY <1>1, <2>1, <2>2 DEF Goes, Stops
  <2>4. UNCHANGED active
    BY <1>12 DEF SendActivation
  <2>5. QED BY <1>2, <2>2, <2>3, <2>4
<1>13. CASE ActivationMined(s)
  BY <1>1, <1>2, <1>3, <1>13
     DEF ActivationMined, Mined, chainVars, Goes, Stops, StageInv
<1>14. CASE PriceDeployment(s)
  BY <1>1, <1>2, <1>3, <1>14
     DEF PriceDeployment, chainVars, Goes, Stops, StageInv, Kinds
<1>15. CASE PriceActivation(s)
  BY <1>1, <1>2, <1>3, <1>15 DEF PriceActivation, chainVars, Goes, StageInv
<1>16. QED
  BY <1>4, <1>5, <1>6, <1>7, <1>8, <1>9, <1>10, <1>11, <1>12, <1>13, <1>14, <1>15
     DEF DeployStep

\* A call that fails after something was sent loses touch, it does not panic.
LEMMA FailureKeepsPromiseInv ==
  ASSUME TypeOK, NEW s \in Sessions, SessionInv(s), PromiseInv(s), CallFails(s)
  PROVE  PromiseInv(s)'
<1> USE DEF Calls, Ends, BeforeSending, OnActivation, Checked, PromiseInv
<1>1. /\ pc \in [Sessions -> Calls \cup Ends]
      /\ verdict \in [Sessions -> {"none"} \cup Successes \cup Errors]
  BY DEF TypeOK, SessTypeOK
<1>2. UNCHANGED <<cfg, active, tx>>
  BY DEF CallFails, chainVars
<1>3. StageInv(s) /\ pc[s] \in Calls /\ verdict[s] = "none"
  BY DEF SessionInv, StageInv, CallFails
<1>4. /\ pc'[s] \in {"panic", "bail"} /\ verdict'[s] \in {"rpc", "lost"}
      /\ pc'[s] = "panic" => pc[s] \in BeforeSending
      /\ pc[s] = "act_wait" => verdict'[s] = "lost"
  BY <1>1, <1>3 DEF CallFails, Stops, Unwrapped
<1>5. QED BY <1>2, <1>3, <1>4 DEF StageInv

\* A session that rests keeps its part; one whose transaction is mined too.
LEMMA RestingKeepsPromiseInv ==
  ASSUME NEW s \in Sessions, PromiseInv(s), Rests(s)
  PROVE  PromiseInv(s)'
BY DEF PromiseInv, Rests

\* A mined transaction keeps what its session promises.
LEMMA MinedKeepsPromiseInv ==
  ASSUME TypeOK, NEW s \in Sessions, NEW k \in Kinds, NEW st \in {"ok", "reverted"},
         NEW at \in Addrs \cup {NoAddr},
         PromiseInv(s), MinedAs(s, k, st, at), UNCHANGED sessVars
  PROVE  PromiseInv(s)'
<1>1. tx \in [Sessions -> [Kinds -> Tx]] /\ tx[s][k].status = "pending"
  BY DEF TypeOK, ChainTypeOK, MinedAs
<1>2. /\ tx'[s][k].status = st
      /\ \A j \in Kinds : j # k => tx'[s][j] = tx[s][j]
  BY <1>1 DEF MinedAs, Tx
<1>3. QED
  BY <1>1, <1>2 DEF PromiseInv, sessVars, Kinds

\* Every step keeps what the sessions promise.
LEMMA NextPromiseInv ==
  TypeOK /\ IInv /\ AllPromiseInv /\ [Next]_vars => AllPromiseInv'
<1> SUFFICES ASSUME TypeOK, IInv, AllPromiseInv, [Next]_vars PROVE AllPromiseInv'
  OBVIOUS
<1> USE DEF AllPromiseInv
<1>1. \A s \in Sessions : SessionInv(s)
  BY DEF IInv
<1>2. ASSUME NEW s \in Sessions, DeployStep(s) \/ CallFails(s) PROVE AllPromiseInv'
  <2>1. PromiseInv(s)'
    BY <1>1, <1>2, StepKeepsPromiseInv, FailureKeepsPromiseInv
  <2>2. \A t \in Sessions \ {s} : PromiseInv(t)'
    BY <1>2, StepIsLocal, RestingKeepsPromiseInv
  <2>3. QED BY <2>1, <2>2
<1>3. CASE Environment
  <2>1. UNCHANGED sessVars
    BY <1>3 DEF Environment
  <2>2. CASE Drift
    <3>1. tx' = tx
      BY <2>2 DEF Drift, FeeMoves, PriceMoves, MinBidMoves, Upgrade, Expire
    <3>2. \A t \in Sessions : Rests(t)
      BY <2>1, <3>1 DEF Rests, sessVars
    <3>3. QED BY <3>2, RestingKeepsPromiseInv
  <2>3. ASSUME NEW s \in Sessions, NEW k \in Kinds, Mine(s, k) PROVE AllPromiseInv'
    <3>1. PICK st \in {"ok", "reverted"}, at \in Addrs \cup {NoAddr} :
             MinedAs(s, k, st, at)
      BY <1>1, <2>3, MineEffect
    <3>2. \A t \in Sessions \ {s} : Rests(t)
      BY <2>1, <3>1 DEF Rests, sessVars, MinedAs, TypeOK, ChainTypeOK
    <3>3. PromiseInv(s)'
      BY <2>1, <3>1, MinedKeepsPromiseInv
    <3>4. QED BY <3>2, <3>3, RestingKeepsPromiseInv
  <2>4. QED BY <1>3, <2>2, <2>3 DEF Environment, ChainNext
<1>4. CASE UNCHANGED vars
  BY <1>4 DEF vars, chainVars, sessVars, PromiseInv
<1>5. QED BY <1>2, <1>3, <1>4 DEF Next

\* At first there is nothing to promise.
LEMMA InitPromiseInv == Init => AllPromiseInv
<1> SUFFICES ASSUME Init, NEW s \in Sessions PROVE PromiseInv(s)
  BY DEF AllPromiseInv
<1>1. pc[s] \in {"exists", "simulate", "manager"}
  <2>1. cfg[s].cmd \in {"deploy", "activate", "bid"}
    BY SessionConstants DEF Init, Config
  <2>2. QED BY <2>1 DEF Init, FirstCall
<1>2. verdict[s] = "none" /\ \A k \in Kinds : tx[s][k].status = "none"
  BY DEF Init
<1>3. QED BY <1>1, <1>2 DEF PromiseInv, Checked, OnActivation, Kinds

\* The whole invariant, in every state of every run.
LEMMA PromiseInvariant == Spec => [](TypeOK /\ IInv /\ AllPromiseInv)
<1>1. QED
  BY InitPromiseInv, NextPromiseInv, TypeCorrect, Inductive, PTL DEF Spec

\* A deployment that is refused for its flags or its program, or that panics,
\* has sent nothing, for every program, wallet and history of the chain.
THEOREM RefusalsAreFree == Spec => []RefusedBeforeSpending
<1>1. AllPromiseInv => RefusedBeforeSpending
  BY DEF AllPromiseInv, PromiseInv, RefusedBeforeSpending
<1>2. QED BY <1>1, PromiseInvariant, PTL

-----------------------------------------------------------------------------
(* The refinement.                                                         *)

\* What the promise sees of a session.
SameContract(s) == ContractOf(s)' = ContractOf(s) /\ ActivatedBy(s)' = ActivatedBy(s)

\* A step of a session changes nothing of the promise but what one says.
LEMMA StepsOnlySay ==
  ASSUME TypeOK, NEW s \in Sessions, SessionInv(s), DeployStep(s) \/ CallFails(s)
  PROVE  \A t \in Sessions : SameContract(t)
<1>1. tx \in [Sessions -> [Kinds -> Tx]]
  BY DEF TypeOK, ChainTypeOK
<1>2. CASE tx' = tx
  BY <1>2 DEF SameContract, ContractOf, ActivatedBy
<1>3. CASE tx' # tx
  <2>1. SendDeployment(s) \/ SendActivation(s)
    BY <1>3
       DEF DeployStep, CallFails, chainVars, CheckExists, CheckActivate,
           ParseConstructor, CheckBalance, EstimateDeployment,
           PriceDeployment, DeploymentMined, EstimateActivation,
           PriceActivation, ActivationMined
  <2>2. PICK k \in Kinds, x \in Tx :
          /\ tx' = [tx EXCEPT ![s][k] = x]
          /\ tx[s][k].status = "none" /\ x.status = "pending"
    <3>1. CASE SendDeployment(s)
      <4>1. tx' = [tx EXCEPT ![s][FirstKind(s)] = FirstTx(s)]
        BY <1>3, <3>1, Zenon DEF SendDeployment, Sends
      <4>2. tx[s][FirstKind(s)].status = "none"
        BY <3>1, FirstTxType DEF SendDeployment, SessionInv, StageInv, BeforeSending
      <4>3. QED BY <4>1, <4>2, FirstTxType
    <3>2. CASE SendActivation(s)
      <4>1. tx' = [tx EXCEPT ![s]["activate"] = ActivationTx(s)]
        BY <1>3, <3>2, Zenon DEF SendActivation, Sends
      <4>2. tx[s]["activate"].status = "none"
        BY <3>2 DEF SendActivation, SessionInv, StageInv, OnActivation
      <4>3. QED BY <4>1, <4>2, ActivationTxType DEF Kinds
    <3>3. QED BY <2>1, <3>1, <3>2
  <2>3. \A t \in Sessions, j \in Kinds :
          \/ tx'[t][j] = tx[t][j]
          \/ tx'[t][j].status = "pending" /\ tx[t][j].status = "none"
    BY <1>1, <2>2
  <2>4. QED
    BY <2>3 DEF SameContract, ContractOf, ActivatedBy, Kinds
<1>4. QED BY <1>2, <1>3

\* A session whose first transaction has succeeded has a contract.
LEMMA SuccessIsContract ==
  ASSUME NEW s \in Sessions, TxInv(s), tx[s][FirstKind(s)].status = "ok"
  PROVE  /\ ContractOf(s) \in Addrs /\ ContractOf(s) = tx[s][FirstKind(s)].at
         /\ FindsConstructor(s) => ActivatedBy(s)
BY DEF TxInv, FirstKind, ContractOf, ActivatedBy, Creations

\* One that has sent nothing has none.
LEMMA NothingIsNoContract ==
  ASSUME NEW s \in Sessions, \A k \in Kinds : tx[s][k].status = "none"
  PROVE  ContractOf(s) = NoAddr
BY DEF ContractOf, Kinds

\* What one says is true.
LEMMA SaysTheTruth ==
  ASSUME TypeOK, NEW s \in Sessions, SessionInv(s), PromiseInv(s), PromiseInv(s)',
         SameContract(s), DeployStep(s) \/ CallFails(s), verdict' # verdict
  PROVE  \E what \in Promise!OfContract \cup Promise!OfNothing \cup Promise!Others :
           /\ verdict[s] = "none"
           /\ verdict' = [verdict EXCEPT ![s] = what]
           /\ what \in Promise!OfContract => ContractOf(s) # NoAddr
           /\ what \in Promise!OfActivation => ActivatedBy(s)
           /\ what \in Promise!OfNothing => ContractOf(s) = NoAddr
<1> USE DEF Calls, Ends, BeforeSending, OnActivation, Promise!OfContract,
            Promise!OfNothing, Promise!Others, Promise!OfActivation
<1>1. /\ pc \in [Sessions -> Calls \cup Ends]
      /\ verdict \in [Sessions -> {"none"} \cup Successes \cup Errors]
  BY DEF TypeOK, SessTypeOK
<1>2. StageInv(s) /\ TxInv(s)
  BY DEF SessionInv
<1>3. pc[s] \in Calls /\ verdict[s] = "none"
  BY <1>2
     DEF DeployStep, CallFails, CheckExists, CheckActivate, ParseConstructor,
         CheckBalance, EstimateDeployment, PriceDeployment, SendDeployment,
         DeploymentMined, EstimateActivation, PriceActivation, SendActivation,
         ActivationMined, StageInv
<1>4. ASSUME pc[s] \in BeforeSending PROVE ContractOf(s) = NoAddr
  BY <1>2, <1>4, NothingIsNoContract DEF StageInv
<1>5. CASE CheckExists(s)
  BY <1>5 DEF CheckExists, Goes
<1>6. CASE CheckActivate(s)
  BY <1>3, <1>4, <1>6 DEF CheckActivate, Goes, Stops, SimulationError
<1>7. CASE ParseConstructor(s)
  BY <1>3, <1>4, <1>7 DEF ParseConstructor, Goes, Stops
<1>8. CASE CheckBalance(s)
  BY <1>3, <1>4, <1>8 DEF CheckBalance, Goes, Stops
<1>9. CASE EstimateDeployment(s)
  <2>1. FirstKind(s) # "bid"
    BY DEF FirstKind
  <2>2. EstimateError(FirstKind(s), FirstTx(s))
          \in {"none", "funds", "uptodate", "invalid", "fee"}
    BY <2>1 DEF EstimateError
  <2>3. QED
    BY <1>3, <1>4, <1>9, <2>2 DEF EstimateDeployment, Goes, Stops
<1>10. CASE SendDeployment(s)
  BY <1>3, <1>10 DEF SendDeployment, Sends, Goes, Stops
<1>11. CASE DeploymentMined(s)
  <2>1. CASE tx[s][FirstKind(s)].status = "ok"
    <3>1. ContractOf(s) # NoAddr /\ (FindsConstructor(s) => ActivatedBy(s))
      BY <1>2, <2>1, SuccessIsContract, NoAddrIsNone
    <3>2. QED
      BY <1>3, <1>11, <3>1 DEF DeploymentMined, AfterDeployment, Goes, Stops
  <2>2. CASE tx[s][FirstKind(s)].status # "ok"
    BY <1>3, <1>11, <2>2 DEF DeploymentMined, Succeeded, Stops
  <2>3. QED BY <2>1, <2>2
<1>12. CASE EstimateActivation(s)
  <2>1. PICK e : Stops(s, "bail", e) /\ e = EstimateError("activate", ActivationTx(s))
    BY <1>12 DEF EstimateActivation, Goes
  <2>2. e \in {"funds", "uptodate", "fee"} \/ e = "invalid" \/ e = "none"
    BY <2>1 DEF EstimateError
  <2>3. e # "none"
    BY <1>12, <2>1 DEF EstimateActivation, Goes, Stops
  <2>4. e # "invalid"
    <3>1. addr[s] # NoAddr /\ FirstKind(s) \in Kinds
      BY <1>2, <1>12 DEF EstimateActivation, StageInv, FirstKind, Kinds
    <3>2. tx[s][FirstKind(s)].status = "ok" /\ UNCHANGED <<tx, cfg>>
      BY <1>2, <1>12, <3>1 DEF EstimateActivation, TxInv, chainVars
    <3>3. verdict'[s] # "invalid"
      BY <3>1, <3>2 DEF PromiseInv
    <3>4. QED BY <1>1, <2>1, <3>3 DEF Stops
  <2>5. QED BY <1>3, <2>1, <2>2, <2>3, <2>4 DEF Stops
<1>13. CASE SendActivation(s)
  BY <1>3, <1>13 DEF SendActivation, Sends, Goes, Stops
<1>14. CASE ActivationMined(s)
  <2>1. addr[s] # NoAddr
    BY <1>2, <1>14 DEF ActivationMined, StageInv
  <2>2. ContractOf(s) # NoAddr
    BY <1>2, <2>1, SuccessIsContract, NoAddrIsNone DEF TxInv
  <2>3. QED
    BY <1>3, <1>14, <2>2 DEF ActivationMined, Succeeded, ActivatedBy, Stops
<1>15. CASE CallFails(s)
  BY <1>3, <1>15 DEF CallFails, Stops
<1>16. CASE PriceDeployment(s)
  BY <1>3, <1>4, <1>16 DEF PriceDeployment, Goes, Stops
<1>17. CASE PriceActivation(s)
  BY <1>17 DEF PriceActivation, Goes
<1>18. QED
  BY <1>5, <1>6, <1>7, <1>8, <1>9, <1>10, <1>11, <1>12, <1>13, <1>14, <1>15, <1>16,
     <1>17
     DEF DeployStep

\* So a step of a session is Says, or invisible.
LEMMA StepImplementsSays ==
  ASSUME TypeOK, NEW s \in Sessions, SessionInv(s), PromiseInv(s), PromiseInv(s)',
         DeployStep(s) \/ CallFails(s)
  PROVE  [Promise!Next]_(Promise!promiseVars)
<1>1. \A t \in Sessions : SameContract(t)
  BY StepsOnlySay
<1>2. UNCHANGED <<[t \in Sessions |-> ContractOf(t)], [t \in Sessions |-> ActivatedBy(t)]>>
  BY <1>1 DEF SameContract
<1>3. CASE verdict' = verdict
  BY <1>2, <1>3 DEF Promise!promiseVars
<1>4. CASE verdict' # verdict
  <2>1. PICK what \in Promise!OfContract \cup Promise!OfNothing \cup Promise!Others :
           /\ verdict[s] = "none"
           /\ verdict' = [verdict EXCEPT ![s] = what]
           /\ what \in Promise!OfContract => ContractOf(s) # NoAddr
           /\ what \in Promise!OfActivation => ActivatedBy(s)
           /\ what \in Promise!OfNothing => ContractOf(s) = NoAddr
    BY <1>1, <1>4, SaysTheTruth
  <2>2. Promise!Says(s, what)
    BY <1>2, <2>1 DEF Promise!Says
  <2>3. QED BY <2>2 DEF Promise!Next
<1>5. QED BY <1>3, <1>4

\* The contracts and activations of a session are those of its successes.
LEMMA OthersAsBefore ==
  ASSUME TypeOK, NEW s \in Sessions, NEW k \in Kinds,
         NEW st \in {"ok", "reverted"}, NEW at \in Addrs \cup {NoAddr},
         MinedAs(s, k, st, at)
  PROVE  /\ tx'[s][k].status = st /\ tx'[s][k].at = at
         /\ tx[s][k].status = "pending"
         /\ \A t \in Sessions, j \in Kinds :
              t # s \/ j # k => tx'[t][j] = tx[t][j]
         /\ \A t \in Sessions \ {s} : SameContract(t)
<1>1. tx \in [Sessions -> [Kinds -> Tx]]
  BY DEF TypeOK, ChainTypeOK
<1>2. \A t \in Sessions \ {s} : tx'[t] = tx[t]
  BY <1>1 DEF MinedAs
<1>3. \A t \in Sessions \ {s} : SameContract(t)
  BY <1>2 DEF SameContract, ContractOf, ActivatedBy
<1>4. QED BY <1>1, <1>3 DEF MinedAs, Tx

\* The transaction of a deployment that has just been mined is Deployed,
\* DeployedAndActivated or Activated, and one that reverts is invisible.
LEMMA MineImplements ==
  ASSUME TypeOK, NEW s \in Sessions, NEW k \in Kinds, Mine(s, k),
         \A t \in Sessions : SessionInv(t), PromiseInv(s), UNCHANGED sessVars
  PROVE  [Promise!Next]_(Promise!promiseVars)
<1> DEFINE C == [t \in Sessions |-> ContractOf(t)]
           A == [t \in Sessions |-> ActivatedBy(t)]
<1>1. PICK st \in {"ok", "reverted"}, at \in Addrs \cup {NoAddr} : MinedAs(s, k, st, at)
  BY MineEffect
<1>2. /\ tx'[s][k].status = st /\ tx'[s][k].at = at
      /\ tx[s][k].status = "pending"
      /\ \A j \in Kinds : j # k => tx'[s][j] = tx[s][j]
      /\ \A t \in Sessions \ {s} : SameContract(t)
  BY <1>1, OthersAsBefore
<1>3. verdict' = verdict
  BY DEF sessVars
<1>4. StageInv(s) /\ TxInv(s)
  BY DEF SessionInv
<1>5. C' = [C EXCEPT ![s] = ContractOf(s)'] /\ A' = [A EXCEPT ![s] = ActivatedBy(s)']
  BY <1>2 DEF SameContract
<1>6. Promise!Open(s)
  BY <1>2, <1>4 DEF Promise!Open, StageInv, TxInv, Creations, Kinds, PromiseInv, Calls
<1>7. CASE st = "reverted"
  <2>1. SameContract(s)
    BY <1>2, <1>7 DEF SameContract, ContractOf, ActivatedBy, Kinds
  <2>2. C' = C /\ A' = A
    BY <1>2, <2>1 DEF SameContract
  <2>3. QED BY <1>3, <2>2 DEF Promise!promiseVars
<1>8. CASE st = "ok" /\ k \in Creations
  <2>1. at \in Addrs /\ at[2] = nonce[at[1]] /\ nonce \in [Accounts -> Nat]
    BY <1>1, <1>8, ChainConstants DEF MinedAs, TypeOK, ChainTypeOK
  <2>2. at \notin {C[t] : t \in Sessions}
    <3> SUFFICES ASSUME NEW t \in Sessions, ContractOf(t) = at PROVE FALSE
      OBVIOUS
    <3>1. PICK j \in Creations : tx[t][j].status = "ok" /\ tx[t][j].at = at
      BY <2>1, NoAddrIsNone DEF ContractOf, Creations
    <3>2. TxInv(t)
      BY DEF SessionInv
    <3>3. at[2] < nonce[at[1]] /\ at[1] \in Accounts
      BY <2>1, <3>1, <3>2 DEF TxInv, Addrs
    <3>4. QED BY <2>1, <3>3
  <2>3. k = FirstKind(s) /\ \A j \in Creations \ {k} : tx[s][j].status = "none"
    BY <1>2, <1>4, <1>8 DEF TxInv
  <2>4. ContractOf(s) = NoAddr /\ ContractOf(s)' = at
    BY <1>2, <1>8, <2>3 DEF ContractOf, Creations, Kinds
  <2>5. Promise!Created(s)
    BY <1>5, <1>6, <2>1, <2>2, <2>4 DEF Promise!Created
  <2>6. CASE k = "create"
    <3>1. ActivatedBy(s)' = ActivatedBy(s)
      BY <1>2, <2>6 DEF ActivatedBy, Kinds
    <3>2. A' = A
      BY <1>5, <3>1
    <3>3. Promise!Deployed(s)
      BY <1>3, <2>5, <3>2 DEF Promise!Deployed
    <3>4. QED BY <3>3 DEF Promise!Next
  <2>7. CASE k = "deployer"
    <3>1. ActivatedBy(s)' = TRUE
      BY <1>2, <1>8, <2>7 DEF ActivatedBy
    <3>2. Promise!DeployedAndActivated(s)
      BY <1>3, <1>5, <2>5, <3>1 DEF Promise!DeployedAndActivated
    <3>3. QED BY <3>2 DEF Promise!Next
  <2>8. QED BY <1>8, <2>6, <2>7 DEF Creations
<1>9. CASE st = "ok" /\ k = "activate"
  <2>1. addr[s] # NoAddr /\ ~FindsConstructor(s)
    BY <1>2, <1>4, <1>9 DEF TxInv, PromiseInv
  <2>2. tx[s]["create"].status = "ok" /\ tx[s]["deployer"].status = "none"
    BY <1>4, <2>1 DEF TxInv, FirstKind, Creations
  <2>3. ContractOf(s) # NoAddr
    BY <1>4, <2>2, NoAddrIsNone DEF ContractOf, TxInv, Creations
  <2>4. ContractOf(s)' = ContractOf(s)
    BY <1>2, <1>9 DEF ContractOf, Kinds
  <2>5. ~ActivatedBy(s) /\ ActivatedBy(s)' = TRUE
    BY <1>2, <1>9, <2>2 DEF ActivatedBy
  <2>6. C' = C
    BY <1>5, <2>4
  <2>7. Promise!Activated(s)
    BY <1>3, <1>5, <1>6, <2>3, <2>5, <2>6 DEF Promise!Activated
  <2>8. QED BY <2>7 DEF Promise!Next
<1>10. k # "bid"
  BY <1>2, <1>4 DEF TxInv
<1>11. QED BY <1>7, <1>8, <1>9, <1>10 DEF Kinds, Creations

\* Every step of Deploy is a step of the promise or a stutter.
LEMMA NextImplements ==
  ASSUME TypeOK, IInv, AllPromiseInv, AllPromiseInv', [Next]_vars
  PROVE  [Promise!Next]_(Promise!promiseVars)
<1>1. \A s \in Sessions : SessionInv(s) /\ PromiseInv(s) /\ PromiseInv(s)'
  BY DEF IInv, AllPromiseInv
<1>2. ASSUME UNCHANGED <<tx, verdict>> PROVE [Promise!Next]_(Promise!promiseVars)
  BY <1>2 DEF Promise!promiseVars, ContractOf, ActivatedBy
<1>3. ASSUME NEW s \in Sessions, DeployStep(s) \/ CallFails(s)
      PROVE  [Promise!Next]_(Promise!promiseVars)
  BY <1>1, <1>3, StepImplementsSays
<1>4. CASE Environment
  <2>1. CASE Drift
    BY <1>2, <1>4, <2>1
       DEF Environment, Drift, FeeMoves, PriceMoves, MinBidMoves, Upgrade, Expire, sessVars
  <2>2. ASSUME NEW s \in Sessions, NEW k \in Kinds, Mine(s, k)
        PROVE  [Promise!Next]_(Promise!promiseVars)
    BY <1>1, <1>4, <2>2, MineImplements DEF Environment
  <2>3. QED BY <1>4, <2>1, <2>2 DEF Environment, ChainNext
<1>5. CASE UNCHANGED vars
  BY <1>2, <1>5 DEF vars, chainVars, sessVars
<1>6. QED BY <1>3, <1>4, <1>5 DEF Next

\* A deployment keeps its promise whatever the node, the fees, the upgrades and
\* the other sessions do: one contract at an address of its own, one answer,
\* true when it is given, and nothing on chain behind a refusal or an estimate.
THEOREM ImplementsPromise == Spec => KeepsPromise
<1>1. Init => Promise!Init
  <2> SUFFICES ASSUME Init PROVE Promise!Init
    OBVIOUS
  <2>1. \A s \in Sessions, k \in Kinds : tx[s][k].status = "none"
    BY DEF Init
  <2>2. \A s \in Sessions : ContractOf(s) = NoAddr /\ ActivatedBy(s) = FALSE
    BY <2>1 DEF ContractOf, ActivatedBy, Kinds
  <2>3. verdict = [s \in Sessions |-> "none"]
    BY DEF Init
  <2>4. QED BY <2>2, <2>3 DEF Promise!Init
<1>2. TypeOK /\ IInv /\ AllPromiseInv /\ AllPromiseInv' /\ [Next]_vars
        => [Promise!Next]_(Promise!promiseVars)
  BY NextImplements
<1>3. QED
  BY <1>1, <1>2, PromiseInvariant, PTL DEF Spec, KeepsPromise, Promise!Spec
=============================================================================
