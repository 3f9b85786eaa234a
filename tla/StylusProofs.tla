---------------------------- MODULE StylusProofs ----------------------------
(***************************************************************************)
(* What the quotes and the early balance check are worth later: proofs     *)
(* about Deploy, and about all the commands that send transactions, side   *)
(* by side on one chain (Stylus).                                          *)
(***************************************************************************)
EXTENDS Stylus, DeployProofs

\* The calls made between the check and the activation.
AfterCheck == {"args", "balance", "estimate", "price", "send", "wait"} \cup OnActivation

\* The fee quoted by the check is kept until it is spent, and only a program
\* that was not active is activated.
QuoteInv(s) ==
  /\ pc[s] \in AfterCheck /\ ~active[s] =>
       quote[s] = Bumped(seenFee[s], cfg[s].bump)
  /\ pc[s] \in OnActivation => ~active[s]

\* The funds the balance check saw, until the activation is sent: all of them
\* as long as the creation is not in a block, and all but its gas after that.
FundsInv(s) ==
  LET left == balance[cfg[s].user]
      gas == tx[s]["create"].cap
  IN Alone(s) =>
       /\ pc[s] \in {"estimate", "price", "send"} /\ ~active[s] /\ ~cfg[s].estimate =>
            left >= DataFee(s)
       /\ pc[s] = "wait" /\ ~active[s] /\ ~FindsConstructor(s) =>
            /\ left + gas >= DataFee(s)
            /\ tx[s]["create"].status = "pending" => left >= DataFee(s)
       /\ pc[s] \in {"act_estimate", "act_price", "act_send"} => left + gas >= DataFee(s)

AllQuoteInv == \A s \in Sessions : QuoteInv(s)
AllFundsInv == \A s \in Sessions : FundsInv(s)

-----------------------------------------------------------------------------
\* A session that rests, down to its quote.
Stays(s) == Rests(s) /\ quote'[s] = quote[s] /\ seenFee'[s] = seenFee[s]

\* A step of one session leaves the others and all balances alone.
LEMMA StepLeavesQuotes ==
  ASSUME TypeOK, NEW s \in Sessions, DeployStep(s) \/ CallFails(s)
  PROVE  /\ \A t \in Sessions \ {s} : Stays(t)
         /\ UNCHANGED <<cfg, balance>>
<1>1. \A t \in Sessions \ {s} : quote'[t] = quote[t] /\ seenFee'[t] = seenFee[t]
  <2>1. CASE CheckActivate(s)
    BY <2>1 DEF CheckActivate, Quotes, TypeOK, SessTypeOK
  <2>2. CASE ~CheckActivate(s)
    BY <2>2 DEF DeployStep, CheckExists, ParseConstructor, CheckBalance,
                EstimateDeployment, PriceDeployment, SendDeployment,
                DeploymentMined, EstimateActivation, PriceActivation,
                SendActivation, ActivationMined, CallFails
  <2>3. QED BY <2>1, <2>2
<1>2. UNCHANGED balance
  BY DEF DeployStep, CheckExists, CheckActivate, ParseConstructor, CheckBalance,
         EstimateDeployment, PriceDeployment, SendDeployment, DeploymentMined,
         EstimateActivation, PriceActivation, SendActivation, ActivationMined,
         CallFails, chainVars
<1>3. QED BY <1>1, <1>2, StepIsLocal DEF Stays

\* Where a session's own step leads, and what it changes of quote and funds.
LEMMA StepKeepsQuote ==
  ASSUME TypeOK, NEW s \in Sessions, SessionInv(s), QuoteInv(s),
         DeployStep(s) \/ CallFails(s)
  PROVE  QuoteInv(s)'
<1> USE DEF Calls, Ends, BeforeSending, OnActivation, AfterCheck, QuoteInv
<1>1. /\ pc \in [Sessions -> Calls \cup Ends]
      /\ verdict \in [Sessions -> {"none"} \cup Successes \cup Errors]
      /\ active \in [Sessions -> BOOLEAN]
      /\ quote \in [Sessions -> Nat] /\ seenFee \in [Sessions -> Nat]
  BY DEF TypeOK, SessTypeOK
<1>2. UNCHANGED cfg
  BY StepLeavesQuotes
<1>3. CASE CheckExists(s)
  BY <1>1, <1>2, <1>3 DEF CheckExists, Goes
<1>4. CASE CheckActivate(s)
  <2>1. CASE SimulationError(cfg[s].code) = "none"
    <3>1. Quotes(s) /\ pc'[s] = "args"
      BY <1>1, <1>4, <2>1 DEF CheckActivate, Goes
    <3>2. quote'[s] = Bumped(seenFee'[s], cfg[s].bump)
      BY <1>1, <3>1 DEF Quotes
    <3>3. QED BY <1>2, <3>1, <3>2
  <2>2. CASE SimulationError(cfg[s].code) # "none"
    BY <1>1, <1>4, <2>2 DEF CheckActivate, Stops
  <2>3. QED BY <2>1, <2>2
<1>5. CASE ParseConstructor(s)
  BY <1>1, <1>2, <1>5 DEF ParseConstructor, Goes, Stops
<1>6. CASE CheckBalance(s)
  BY <1>1, <1>2, <1>6 DEF CheckBalance, Goes, Stops
<1>7. CASE EstimateDeployment(s)
  BY <1>1, <1>2, <1>7 DEF EstimateDeployment, Goes, Stops
<1>8. CASE SendDeployment(s)
  <2>1. Goes(s, "wait") \/ Stops(s, "bail", "lost") \/ Stops(s, "bail", "funds")
    BY <1>8, Zenon DEF SendDeployment, Sends
  <2>2. QED BY <1>1, <1>2, <1>8, <2>1 DEF SendDeployment, Goes, Stops
<1>9. CASE DeploymentMined(s)
  BY <1>1, <1>2, <1>9 DEF DeploymentMined, AfterDeployment, Goes, Stops
<1>10. CASE EstimateActivation(s)
  BY <1>1, <1>2, <1>10 DEF EstimateActivation, Goes, Stops
<1>11. CASE SendActivation(s)
  <2>1. Goes(s, "act_wait") \/ Stops(s, "bail", "lost") \/ Stops(s, "bail", "funds")
    BY <1>11, Zenon DEF SendActivation, Sends
  <2>2. QED BY <1>1, <1>2, <1>11, <2>1 DEF SendActivation, Goes, Stops
<1>12. CASE ActivationMined(s)
  BY <1>1, <1>12 DEF ActivationMined, Stops
<1>13. CASE CallFails(s)
  BY <1>1, <1>13 DEF CallFails, Stops
<1>14. CASE PriceDeployment(s)
  BY <1>1, <1>2, <1>14 DEF PriceDeployment, Goes, Stops
<1>15. CASE PriceActivation(s)
  BY <1>1, <1>2, <1>15 DEF PriceActivation, Goes
<1>16. QED
  BY <1>3, <1>4, <1>5, <1>6, <1>7, <1>8, <1>9, <1>10, <1>11, <1>12, <1>13,
     <1>14, <1>15
     DEF DeployStep

\* The quotes of all sessions are kept by every step.
LEMMA NextQuote == TypeOK /\ IInv /\ AllQuoteInv /\ [Next]_vars => AllQuoteInv'
<1> SUFFICES ASSUME TypeOK, IInv, AllQuoteInv, [Next]_vars PROVE AllQuoteInv'
  OBVIOUS
<1>1. \A s \in Sessions : SessionInv(s) /\ QuoteInv(s)
  BY DEF IInv, AllQuoteInv
<1>2. ASSUME NEW s \in Sessions, DeployStep(s) \/ CallFails(s) PROVE AllQuoteInv'
  <2>1. QuoteInv(s)'
    BY <1>1, <1>2, StepKeepsQuote
  <2>2. \A t \in Sessions \ {s} : QuoteInv(t)'
    BY <1>1, <1>2, StepLeavesQuotes DEF Stays, Rests, QuoteInv
  <2>3. QED BY <2>1, <2>2 DEF AllQuoteInv
<1>3. ASSUME UNCHANGED sessVars PROVE AllQuoteInv'
  BY <1>1, <1>3 DEF sessVars, AllQuoteInv, QuoteInv
<1>4. QED
  BY <1>2, <1>3 DEF Next, Environment, vars

\* No session has quoted anything at first.
LEMMA InitQuote == Init => AllQuoteInv
<1> SUFFICES ASSUME Init, NEW s \in Sessions PROVE QuoteInv(s)
  BY DEF AllQuoteInv
<1>1. cfg[s].cmd \in {"deploy", "activate", "bid"}
  BY SessionConstants DEF Init, Config
<1>2. pc[s] \in {"exists", "simulate", "manager"}
  BY <1>1 DEF Init, FirstCall
<1>3. QED BY <1>2 DEF QuoteInv, AfterCheck, OnActivation

\* So the quotes are invariant, with the types and what each session has sent.
LEMMA QuoteInvariant == Spec => [](TypeOK /\ IInv /\ AllQuoteInv)
<1>1. QED BY InitQuote, NextQuote, TypeCorrect, Inductive, PTL DEF Spec

-----------------------------------------------------------------------------
(* The margin.                                                             *)

\* What the division truncates is less than what a higher fee exceeds it by.
LEMMA BumpedCovers ==
  ASSUME NEW fee \in Nat, NEW bump \in Nat, NEW now \in Nat, Bumped(fee, bump) < now
  PROVE  now * 100 > fee * (100 + bump)
<1> DEFINE n == fee * (100 + bump)
<1>1. n \in Nat
  OBVIOUS
<1>2. ASSUME NEW m \in Nat, m \div 100 < now PROVE now * 100 > m
  BY <1>2
<1>3. n \div 100 < now
  BY DEF Bumped
<1> HIDE DEF n
<1>4. now * 100 > n
  BY <1>1, <1>2, <1>3
<1>5. QED BY <1>4 DEF n

\* A transaction that is refused for its fee attaches less than the fee.
LEMMA FeeErrorMeansShort ==
  ASSUME TypeOK, NEW s \in Sessions, SessionInv(s), QuoteInv(s), ~active[s],
         \/ pc[s] = "estimate" /\ EstimateError(FirstKind(s), FirstTx(s)) = "fee"
         \/ pc[s] = "act_estimate" /\ EstimateError("activate", ActivationTx(s)) = "fee"
  PROVE  quote[s] < dataFee
<1>1. /\ cfg[s].ctorValue \in Nat /\ quote[s] \in Nat /\ dataFee \in Nat
      /\ tx[s] \in [Kinds -> Tx]
  BY SessionConstants, ChainConstants DEF TypeOK, ChainTypeOK, SessTypeOK, Config
<1>2. CASE pc[s] = "estimate" /\ FindsConstructor(s)
  <2>1. /\ FirstTx(s).value = quote[s] + cfg[s].ctorValue
        /\ FirstTx(s).init = cfg[s].ctorValue
        /\ FirstTx(s).code = cfg[s].code
    BY <1>1, <1>2 DEF FirstTx, FirstKind, DataFee, Kinds, Tx
  <2>2. EstimateError("deployer", FirstTx(s)) = "fee"
    BY <1>2 DEF FirstKind
  <2>3. ~Executes("deployer", FirstTx(s)) /\ cfg[s].code \in ValidCodes
    BY <2>1, <2>2 DEF EstimateError
  <2>4. ~(quote[s] + cfg[s].ctorValue >= cfg[s].ctorValue + FactoryFee(cfg[s].code))
    BY <2>1, <2>3 DEF Executes
  <2>5. FactoryFee(cfg[s].code) \in {0, dataFee}
    BY DEF FactoryFee
  <2>6. QED BY <1>1, <2>4, <2>5
<1>3. CASE pc[s] = "estimate" /\ ~FindsConstructor(s)
  BY <1>3 DEF FirstKind, EstimateError, Executes
<1>4. CASE pc[s] = "act_estimate"
  <2>1. ActivationTx(s).value = quote[s] + cfg[s].ctorValue
    BY <1>1 DEF ActivationTx, DataFee, Kinds, Tx
  <2>2. EstimateError("activate", ActivationTx(s)) = "fee"
    BY <1>4
  <2>3. ~(ActivationTx(s).value >= dataFee)
    BY <2>2, ChainConstants DEF EstimateError, Executes, Activatable
  <2>4. QED BY <1>1, <2>1, <2>3
<1>5. QED BY <1>2, <1>3, <1>4

\* For every fee, every percentage and every history of the chain, a deployment
\* that fails for the activation fee has met a rise beyond its margin, or had
\* seen the program active.
THEOREM MarginHolds == Spec => BumpCoversRise
<1> DEFINE Covered(s) ==
      pc[s] \in {"estimate", "act_estimate"} /\ pc'[s] = "bail" /\ verdict'[s] = "fee"
        => dataFee * 100 > seenFee[s] * (100 + cfg[s].bump) \/ active[s]
<1>1. ASSUME TypeOK, IInv, AllQuoteInv, [Next]_vars, NEW s \in Sessions
      PROVE  Covered(s)
  <2> SUFFICES ASSUME pc[s] \in {"estimate", "act_estimate"}, pc'[s] = "bail",
                      verdict'[s] = "fee", ~active[s]
               PROVE  dataFee * 100 > seenFee[s] * (100 + cfg[s].bump)
    OBVIOUS
  <2>1. SessionInv(s) /\ QuoteInv(s)
    BY <1>1 DEF IInv, AllQuoteInv
  <2>2. /\ verdict \in [Sessions -> {"none"} \cup Successes \cup Errors]
        /\ pc \in [Sessions -> Calls \cup Ends]
    BY <1>1 DEF TypeOK, SessTypeOK
  <2>3. DeployStep(s)
    <3>1. ~UNCHANGED sessVars
      BY DEF sessVars
    <3>2. PICK t \in Sessions : DeployStep(t) \/ CallFails(t)
      BY <1>1, <3>1 DEF Next, Environment, vars
    <3>3. t = s
      BY <1>1, <3>2, StepIsLocal DEF Rests
    <3>4. ~CallFails(s)
      BY <2>2 DEF CallFails, Stops
    <3>5. QED BY <3>2, <3>3, <3>4
  <2>4. \/ pc[s] = "estimate" /\ EstimateError(FirstKind(s), FirstTx(s)) = "fee"
        \/ pc[s] = "act_estimate" /\ EstimateError("activate", ActivationTx(s)) = "fee"
    <3>1. EstimateDeployment(s) \/ EstimateActivation(s)
      BY <2>3 DEF DeployStep, CheckExists, CheckActivate, ParseConstructor,
                  CheckBalance, PriceDeployment, SendDeployment, DeploymentMined,
                  PriceActivation, SendActivation, ActivationMined
    <3>2. CASE EstimateDeployment(s)
      <4>1. pc[s] = "estimate"
        BY <3>2 DEF EstimateDeployment
      <4>2. \/ Stops(s, "bail", EstimateError(FirstKind(s), FirstTx(s)))
            \/ Goes(s, "price")
        BY <3>2 DEF EstimateDeployment
      <4>3. QED BY <2>2, <4>1, <4>2 DEF Stops, Goes
    <3>3. CASE EstimateActivation(s)
      <4>1. pc[s] = "act_estimate"
        BY <3>3 DEF EstimateActivation
      <4>2. \/ Stops(s, "bail", EstimateError("activate", ActivationTx(s)))
            \/ Goes(s, "act_price")
        BY <3>3 DEF EstimateActivation
      <4>3. QED BY <2>2, <4>1, <4>2 DEF Stops, Goes
    <3>4. QED BY <3>1, <3>2, <3>3
  <2>5. quote[s] < dataFee
    BY <1>1, <2>1, <2>4, FeeErrorMeansShort
  <2>6. quote[s] = Bumped(seenFee[s], cfg[s].bump)
    BY <2>1 DEF QuoteInv, AfterCheck, OnActivation
  <2>7. seenFee[s] \in Nat /\ cfg[s].bump \in Nat /\ dataFee \in Nat
    BY <1>1, SessionConstants, ChainConstants
       DEF TypeOK, ChainTypeOK, SessTypeOK, Config
  <2>8. QED BY <2>5, <2>6, <2>7, BumpedCovers
<1>2. TypeOK /\ IInv /\ AllQuoteInv /\ [Next]_vars =>
        [\A s \in Sessions :
           pc[s] \in {"estimate", "act_estimate"} /\ pc'[s] = "bail"
                                                 /\ verdict'[s] = "fee" =>
             \/ dataFee * 100 > seenFee[s] * (100 + cfg[s].bump)
             \/ active[s]]_vars
  BY <1>1
<1>3. QED BY <1>2, QuoteInvariant, PTL DEF Spec, BumpCoversRise

-----------------------------------------------------------------------------
(* The funds.                                                              *)

\* A block takes from the wallet that signed, a creation only its gas, and
\* its transaction is not pending any more.
LEMMA MinePays ==
  ASSUME TypeOK, NEW s \in Sessions, NEW k \in Kinds, Mine(s, k)
  PROVE  /\ tx[s][k].status = "pending"
         /\ \A u \in Users \ {tx[s][k].from} : balance'[u] = balance[u]
         /\ k = "create" =>
              /\ balance'[tx[s][k].from] + tx[s][k].cap >= balance[tx[s][k].from]
              /\ tx'[s][k].status # "pending"
         /\ tx'[s]["create"].cap = tx[s]["create"].cap
         /\ \A t \in Sessions \ {s} : tx'[t] = tx[t]
<1>1. /\ balance \in [Users -> Nat] /\ gasPrice \in Nat
      /\ tx \in [Sessions -> [Kinds -> Tx]]
  BY ChainConstants DEF TypeOK, ChainTypeOK
<1>2. tx[s][k] \in Tx /\ tx[s][k].from \in Users /\ tx[s][k].cap \in Nat
  BY <1>1 DEF Tx
<1>3. Includable(s, k)
  BY DEF Mine, MineCreate, MineActivate, MineDeployer, MineBid, MineReverted
<1>4. PICK st, kept, at :
        /\ Included(s, k, st, kept, at) /\ (k = "create" => kept = 0)
        /\ st \in {"ok", "reverted"}
  BY DEF Mine, MineCreate, MineActivate, MineDeployer, MineBid, MineReverted
<1>5. /\ \A u \in Users \ {tx[s][k].from} : balance'[u] = balance[u]
      /\ balance'[tx[s][k].from] = balance[tx[s][k].from] - (kept + gasPrice)
  BY <1>1, <1>2, <1>4 DEF Included
<1>6. /\ \A t \in Sessions \ {s} : tx'[t] = tx[t]
      /\ tx'[s][k].status = st
      /\ tx'[s]["create"].cap = tx[s]["create"].cap
  BY <1>1, <1>2, <1>4 DEF Included, Tx, Kinds
<1>7. ASSUME k = "create"
      PROVE  balance'[tx[s][k].from] + tx[s][k].cap >= balance[tx[s][k].from]
  <2>1. balance[tx[s][k].from] \in Nat
    BY <1>1, <1>2
  <2>2. balance'[tx[s][k].from] = balance[tx[s][k].from] - gasPrice
    BY <1>1, <1>4, <1>5, <1>7, <2>1
  <2>3. tx[s][k].cap >= gasPrice
    BY <1>3 DEF Includable
  <2>4. QED BY <1>1, <1>2, <2>1, <2>2, <2>3
<1>8. QED BY <1>3, <1>4, <1>5, <1>6, <1>7 DEF Includable

\* What FundsInv is about, as numbers.
LEMMA FundsAreNumbers ==
  ASSUME TypeOK, NEW s \in Sessions
  PROVE  /\ cfg[s].user \in Users
         /\ balance[cfg[s].user] \in Nat
         /\ DataFee(s) \in Nat
         /\ tx[s]["create"].cap \in Nat
<1>1. /\ cfg[s] \in Config /\ quote[s] \in Nat /\ balance \in [Users -> Nat]
      /\ tx[s] \in [Kinds -> Tx]
  BY SessionConstants DEF TypeOK, ChainTypeOK, SessTypeOK
<1>2. cfg[s].user \in Users /\ cfg[s].ctorValue \in Nat
  BY <1>1 DEF Config
<1>3. QED BY <1>1, <1>2 DEF DataFee, Kinds, Tx

\* Nothing that happens on the chain takes more than the gas of the creation
\* from a wallet that no other session uses.
LEMMA ChainKeepsFunds ==
  ASSUME TypeOK, TypeOK', \A t \in Sessions : SessionInv(t),
         NEW s \in Sessions, FundsInv(s), Environment
  PROVE  FundsInv(s)'
<1> USE DEF BeforeSending, OnActivation
<1>1. /\ UNCHANGED <<cfg, pc, active, quote>>
      /\ FindsConstructor(s)' = FindsConstructor(s) /\ DataFee(s)' = DataFee(s)
      /\ Alone(s)' = Alone(s)
  BY DEF Environment, sessVars, FindsConstructor, Found, DataFee, Alone
<1>2. CASE Drift
  <2>1. UNCHANGED <<balance, tx>>
    BY <1>2 DEF Drift, FeeMoves, PriceMoves, MinBidMoves, Upgrade, Expire
  <2>2. QED BY <1>1, <2>1 DEF FundsInv
<1>3. ASSUME NEW t \in Sessions, NEW k \in Kinds, Mine(t, k), Alone(s), t # s
      PROVE  FundsInv(s)'
  <2>1. tx[t][k].from # cfg[s].user /\ cfg[s].user \in Users
    BY <1>3, FundsAreNumbers DEF SessionInv, TxInv, Alone
  <2>2. balance'[cfg[s].user] = balance[cfg[s].user] /\ tx'[s] = tx[s]
    BY <1>3, <2>1, MinePays
  <2>3. QED BY <1>1, <2>2 DEF FundsInv
<1>4. ASSUME NEW k \in Kinds, Mine(s, k), Alone(s)
      PROVE  FundsInv(s)'
  <2>1. tx[s][k].status = "pending" /\ tx[s][k].from = cfg[s].user
    BY <1>4, MinePays DEF SessionInv, TxInv
  <2>2. pc[s] \notin {"estimate", "price", "send",
                     "act_estimate", "act_price", "act_send"}
    <3>1. pc[s] \notin {"estimate", "price", "send"}
      BY <2>1 DEF SessionInv, StageInv
    <3>2. ASSUME pc[s] \in {"act_estimate", "act_price", "act_send"} PROVE FALSE
      <4>1. /\ tx[s]["activate"].status = "none" /\ tx[s]["bid"].status = "none"
            /\ tx[s][FirstKind(s)].status = "ok"
            /\ \A j \in Creations : tx[s][j].status # "none" => j = FirstKind(s)
        BY <3>2 DEF SessionInv, StageInv, TxInv
      <4>2. QED BY <2>1, <4>1 DEF Kinds, Creations
    <3>3. QED BY <3>1, <3>2
  <2>3. ASSUME pc[s] = "wait", ~active[s], ~FindsConstructor(s)
        PROVE  /\ (balance[cfg[s].user] + tx[s]["create"].cap)' >= DataFee(s)
               /\ tx'[s]["create"].status # "pending"
    <3>1. k = "create"
      BY <2>1, <2>3
         DEF SessionInv, StageInv, TxInv, Kinds, Creations, FirstKind
    <3>2. balance[cfg[s].user] >= DataFee(s)
      BY <1>4, <2>1, <2>3, <3>1 DEF FundsInv
    <3>3. /\ balance'[cfg[s].user] + tx[s]["create"].cap >= balance[cfg[s].user]
          /\ tx'[s]["create"].cap = tx[s]["create"].cap
          /\ tx'[s]["create"].status # "pending"
      BY <1>4, <2>1, <3>1, MinePays
    <3>4. balance'[cfg[s].user] \in Nat
      BY <1>1, FundsAreNumbers DEF TypeOK, ChainTypeOK
    <3>5. QED BY <1>1, <3>2, <3>3, <3>4, FundsAreNumbers
  <2>4. QED BY <1>1, <2>2, <2>3 DEF FundsInv
<1>5. CASE ~Alone(s)
  BY <1>1, <1>5 DEF FundsInv
<1>6. QED BY <1>2, <1>3, <1>4, <1>5 DEF Environment, ChainNext

\* The balance check opens the guarantee and no later step of the session
\* spends what it covers.
LEMMA StepKeepsFunds ==
  ASSUME TypeOK, NEW s \in Sessions, SessionInv(s), FundsInv(s),
         DeployStep(s) \/ CallFails(s)
  PROVE  FundsInv(s)'
<1> USE DEF Calls, Ends, BeforeSending, OnActivation
<1>1. /\ pc \in [Sessions -> Calls \cup Ends]
      /\ active \in [Sessions -> BOOLEAN]
      /\ tx \in [Sessions -> [Kinds -> Tx]]
  BY DEF TypeOK, ChainTypeOK, SessTypeOK
<1>2. UNCHANGED <<cfg, balance>> /\ Alone(s)' = Alone(s)
      /\ FindsConstructor(s)' = FindsConstructor(s)
  BY StepLeavesQuotes DEF Alone, FindsConstructor, Found
<1>3. ASSUME pc'[s] \notin {"estimate", "price", "send", "wait",
                           "act_estimate", "act_price", "act_send"}
      PROVE  FundsInv(s)'
  BY <1>3 DEF FundsInv
<1>4. CASE CheckExists(s)
  BY <1>1, <1>3, <1>4 DEF CheckExists, Goes
<1>5. CASE CheckActivate(s)
  <2>1. Goes(s, "args") \/ Stops(s, "panic", SimulationError(cfg[s].code))
    BY <1>5, Zenon DEF CheckActivate
  <2>2. QED BY <1>1, <1>3, <2>1 DEF Goes, Stops
<1>6. CASE ParseConstructor(s)
  <2>1. CASE pc'[s] = "estimate"
    BY <1>1, <1>2, <1>6, <2>1 DEF ParseConstructor, Goes, Stops, FundsInv
  <2>2. CASE pc'[s] # "estimate"
    BY <1>1, <1>3, <1>6, <2>2 DEF ParseConstructor, Goes, Stops
  <2>3. QED BY <2>1, <2>2
<1>7. CASE CheckBalance(s)
  <2>1. CASE EnoughFunds(s) \/ cfg[s].estimate
    <3>1. pc'[s] = "estimate" /\ DataFee(s)' = DataFee(s)
      BY <1>1, <1>7, <2>1 DEF CheckBalance, Goes, DataFee
    <3>2. QED BY <1>2, <2>1, <3>1 DEF FundsInv, EnoughFunds
  <2>2. CASE ~(EnoughFunds(s) \/ cfg[s].estimate)
    BY <1>1, <1>3, <1>7, <2>2 DEF CheckBalance, Stops
  <2>3. QED BY <2>1, <2>2
<1>8. CASE EstimateDeployment(s)
  <2>1. pc[s] = "estimate" /\ UNCHANGED <<active, tx>> /\ DataFee(s)' = DataFee(s)
    BY <1>8 DEF EstimateDeployment, DataFee, chainVars
  <2>2. pc'[s] = "price" \/ pc'[s] \in Ends
    BY <1>1, <1>8 DEF EstimateDeployment, Goes, Stops
  <2>3. QED BY <1>2, <1>3, <2>1, <2>2 DEF FundsInv
<1>9. CASE SendDeployment(s)
  <2>1. pc[s] = "send" /\ UNCHANGED active /\ DataFee(s)' = DataFee(s)
        /\ ~cfg[s].estimate
    BY <1>9 DEF SendDeployment, DataFee, SessionInv, StageInv
  <2>2. Goes(s, "wait") \/ Stops(s, "bail", "lost") \/ Stops(s, "bail", "funds")
    BY <1>9, Zenon DEF SendDeployment, Sends
  <2>3. CASE pc'[s] = "wait"
    <3>1. ASSUME Alone(s), ~active[s] PROVE balance[cfg[s].user] >= DataFee(s)
      BY <2>1, <3>1 DEF FundsInv
    <3>2. tx'[s]["create"].cap \in Nat
      <4>1. tx' \in [Sessions -> [Kinds -> Tx]]
        BY <1>9, DeployStepType DEF DeployStep, TypeOK, ChainTypeOK
      <4>2. QED BY <4>1 DEF Kinds, Tx
    <3>3. QED
      BY <1>2, <2>1, <2>3, <3>1, <3>2, FundsAreNumbers DEF FundsInv
  <2>4. CASE pc'[s] # "wait"
    BY <1>1, <1>3, <2>2, <2>4 DEF Goes, Stops
  <2>5. QED BY <2>3, <2>4
<1>10. CASE DeploymentMined(s)
  <2>1. pc[s] = "wait" /\ UNCHANGED <<active, tx>> /\ DataFee(s)' = DataFee(s)
    BY <1>10 DEF DeploymentMined, DataFee, chainVars
  <2>2. CASE pc'[s] = "act_estimate"
    <3>1. ~active[s] /\ ~FindsConstructor(s)
      BY <1>1, <1>10, <2>2
         DEF DeploymentMined, AfterDeployment, Goes, Stops
    <3>2. QED BY <1>2, <2>1, <2>2, <3>1 DEF FundsInv
  <2>3. CASE pc'[s] # "act_estimate"
    BY <1>1, <1>3, <1>10, <2>3 DEF DeploymentMined, AfterDeployment, Goes, Stops
  <2>4. QED BY <2>2, <2>3
<1>11. CASE EstimateActivation(s)
  <2>1. pc[s] = "act_estimate" /\ UNCHANGED <<active, tx>>
        /\ DataFee(s)' = DataFee(s)
    BY <1>11 DEF EstimateActivation, DataFee, chainVars
  <2>2. pc'[s] = "act_price" \/ pc'[s] \in Ends
    BY <1>1, <1>11 DEF EstimateActivation, Goes, Stops
  <2>3. QED BY <1>2, <1>3, <2>1, <2>2 DEF FundsInv
<1>12. CASE SendActivation(s)
  <2>1. Goes(s, "act_wait") \/ Stops(s, "bail", "lost") \/ Stops(s, "bail", "funds")
    BY <1>12, Zenon DEF SendActivation, Sends
  <2>2. QED BY <1>1, <1>3, <2>1 DEF Goes, Stops
<1>13. CASE ActivationMined(s)
  BY <1>1, <1>3, <1>13 DEF ActivationMined, Stops
<1>14. CASE CallFails(s)
  BY <1>1, <1>3, <1>14 DEF CallFails, Stops
<1>15. CASE PriceDeployment(s)
  <2>1. pc[s] = "price" /\ UNCHANGED <<active, tx>> /\ DataFee(s)' = DataFee(s)
    BY <1>15 DEF PriceDeployment, DataFee, chainVars
  <2>2. pc'[s] = "send" \/ pc'[s] \in Ends
    BY <1>1, <1>15 DEF PriceDeployment, Goes, Stops
  <2>3. QED BY <1>2, <1>3, <2>1, <2>2 DEF FundsInv
<1>16. CASE PriceActivation(s)
  <2>1. pc[s] = "act_price" /\ UNCHANGED <<active, tx>>
        /\ DataFee(s)' = DataFee(s)
    BY <1>16 DEF PriceActivation, DataFee, chainVars
  <2>2. pc'[s] = "act_send"
    BY <1>1, <1>16 DEF PriceActivation, Goes
  <2>3. QED BY <1>2, <2>1, <2>2 DEF FundsInv
<1>17. QED
  BY <1>4, <1>5, <1>6, <1>7, <1>8, <1>9, <1>10, <1>11, <1>12, <1>13, <1>14,
     <1>15, <1>16
     DEF DeployStep

\* The funds of all sessions are kept by every step.
LEMMA NextFunds ==
  TypeOK /\ TypeOK' /\ IInv /\ AllFundsInv /\ [Next]_vars => AllFundsInv'
<1> SUFFICES ASSUME TypeOK, TypeOK', IInv, AllFundsInv, [Next]_vars
             PROVE  AllFundsInv'
  OBVIOUS
<1>1. \A s \in Sessions : SessionInv(s) /\ FundsInv(s)
  BY DEF IInv, AllFundsInv
<1>2. ASSUME NEW s \in Sessions, DeployStep(s) \/ CallFails(s) PROVE AllFundsInv'
  <2>1. FundsInv(s)'
    BY <1>1, <1>2, StepKeepsFunds
  <2>2. ASSUME NEW t \in Sessions \ {s} PROVE FundsInv(t)'
    <3>1. Stays(t) /\ UNCHANGED <<cfg, balance>>
      BY <1>2, StepLeavesQuotes
    <3>2. /\ DataFee(t)' = DataFee(t) /\ FindsConstructor(t)' = FindsConstructor(t)
          /\ Alone(t)' = Alone(t)
      BY <3>1 DEF Stays, DataFee, FindsConstructor, Found, Alone
    <3>3. QED BY <1>1, <3>1, <3>2 DEF Stays, Rests, FundsInv
  <2>3. QED BY <2>1, <2>2 DEF AllFundsInv
<1>3. CASE Environment
  BY <1>1, <1>3, ChainKeepsFunds DEF AllFundsInv
<1>4. CASE UNCHANGED vars
  <2>1. /\ UNCHANGED <<cfg, pc, active, quote, balance, tx>>
    BY <1>4 DEF vars, chainVars, sessVars
  <2>2. ASSUME NEW s \in Sessions PROVE FundsInv(s)'
    BY <1>1, <2>1 DEF FundsInv, DataFee, FindsConstructor, Found, Alone
  <2>3. QED BY <2>2 DEF AllFundsInv
<1>5. QED BY <1>2, <1>3, <1>4 DEF Next

\* No balance has been checked at first.
LEMMA InitFunds == Init => AllFundsInv
<1> SUFFICES ASSUME Init, NEW s \in Sessions PROVE FundsInv(s)
  BY DEF AllFundsInv
<1>1. cfg[s].cmd \in {"deploy", "activate", "bid"}
  BY SessionConstants DEF Init, Config
<1>2. pc[s] \in {"exists", "simulate", "manager"}
  BY <1>1 DEF Init, FirstCall
<1>3. QED BY <1>2 DEF FundsInv

\* However the blocks, the other sessions and the fees interleave, the funds
\* that deploy's balance check saw in a wallet of its own are there, but for
\* the gas of the creation, when the activation is prepared.
THEOREM FundsHold == Spec => []CheckedFundsRemain
<1>1. AllFundsInv => CheckedFundsRemain
  BY DEF AllFundsInv, FundsInv, CheckedFundsRemain
<1>2. QED BY <1>1, InitFunds, NextFunds, TypeCorrect, Inductive, PTL DEF Spec

-----------------------------------------------------------------------------
(* All the commands together: types.                                       *)

\* The call of activateProgram that `activate` sends is a transaction.
LEMMA CallTxType ==
  ASSUME TypeOK, NEW s \in Sessions
  PROVE  /\ CallTx(s) \in Tx
         /\ CallTx(s).status = "pending" /\ CallTx(s).to = cfg[s].target
         /\ CallTx(s).value = quote[s]
<1>1. tx[s]["activate"] \in Tx
  BY DEF TypeOK, ChainTypeOK, Kinds
<1>2. cfg[s] \in Config /\ quote[s] \in Nat /\ cap[s] \in Nat
  BY SessionConstants DEF TypeOK, SessTypeOK
<1>3. cfg[s].target \in Addrs
  BY <1>2 DEF Config
<1>4. QED BY <1>1, <1>2, <1>3 DEF CallTx, Tx, Statuses

\* So is the bid.
LEMMA BidTxType ==
  ASSUME TypeOK, NEW s \in Sessions
  PROVE  /\ BidTx(s) \in Tx
         /\ BidTx(s).to = cfg[s].target /\ BidTx(s).value = cfg[s].bid
<1>1. tx[s]["bid"] \in Tx
  BY DEF TypeOK, ChainTypeOK, Kinds
<1>2. cfg[s] \in Config /\ cap[s] \in Nat
  BY SessionConstants DEF TypeOK, SessTypeOK
<1>3. cfg[s].target \in Addrs /\ cfg[s].bid \in Nat
  BY <1>2 DEF Config
<1>4. QED BY <1>1, <1>2, <1>3 DEF BidTx, Tx, Statuses

\* The fee cap that the provider fills in is a number.
LEMMA FilledCapType ==
  ASSUME TypeOK, NEW s \in Sessions
  PROVE  /\ 2 * gasPrice \in Nat
         /\ (IF cfg[s].maxFee = 0 THEN 2 * gasPrice ELSE cfg[s].maxFee) \in Nat
<1>1. gasPrice \in Nat /\ cfg[s].maxFee \in Nat
  BY ChainConstants, SessionConstants DEF TypeOK, ChainTypeOK, SessTypeOK, Config
<1>2. 2 * gasPrice \in Nat
  BY <1>1
<1>3. QED BY <1>1, <1>2

\* The steps of `activate` keep the types.
LEMMA ActivateStepType ==
  ASSUME TypeOK, NEW s \in Sessions, ActivateStep(s)
  PROVE  TypeOK'
<1> USE DEF Calls, Ends, Successes, Errors
<1>1. cfg[s] \in Config /\ dataFee \in Nat
      /\ stylusVersion \in 0 .. MaxVersion
  BY SessionConstants, ChainConstants DEF TypeOK, ChainTypeOK, SessTypeOK
<1>2. CallError(s) \in {"none"} \cup Errors
  BY DEF CallError, EstimateError
<1>3. CASE QuoteActivation(s)
  <2>1. Bumped(dataFee, cfg[s].bump) \in Nat
    BY <1>1, BumpedIsNat DEF Config
  <2>2. \/ Quotes(s) /\ \E call \in Calls : Goes(s, call)
        \/ /\ UNCHANGED <<quote, seenFee, seenVersion>>
           /\ \E e \in Errors : Stops(s, "bail", e)
    BY <1>3 DEF QuoteActivation, SimulationError
  <2>3. /\ pc' \in [Sessions -> Calls \cup Ends]
        /\ verdict' \in [Sessions -> {"none"} \cup Successes \cup Errors]
    BY <2>2, GoesType, StopsType
  <2>4. /\ quote' \in [Sessions -> Nat] /\ seenFee' \in [Sessions -> Nat]
        /\ seenVersion' \in [Sessions -> 0 .. MaxVersion]
    BY <1>1, <2>1, <2>2 DEF Quotes, TypeOK, SessTypeOK
  <2>5. QED
    BY <1>3, <2>3, <2>4
       DEF QuoteActivation, TypeOK, ChainTypeOK, SessTypeOK, chainVars
<1>4. CASE EstimateCall(s)
  <2>1. Goes(s, "act_price") \/ \E e \in Errors : Stops(s, "bail", e)
    BY <1>2, <1>4 DEF EstimateCall
  <2>2. QED
    BY <1>4, <2>1, GoesType, StopsType
       DEF EstimateCall, TypeOK, ChainTypeOK, SessTypeOK, chainVars
<1>5. CASE PrintEstimate(s)
  BY <1>5, GoesType
     DEF PrintEstimate, TypeOK, ChainTypeOK, SessTypeOK, chainVars
<1>6. CASE FillCall(s)
  <2>1. Goes(s, "act_send") \/ \E e \in Errors : Stops(s, "bail", e)
    BY <1>2, <1>6 DEF FillCall
  <2>2. cap' \in [Sessions -> Nat]
    BY <1>6, FilledCapType DEF FillCall, TypeOK, SessTypeOK
  <2>3. QED
    BY <1>6, <2>1, <2>2, GoesType, StopsType
       DEF FillCall, TypeOK, ChainTypeOK, SessTypeOK, chainVars
<1>7. CASE SubmitActivation(s)
  <2>1. /\ tx' \in [Sessions -> [Kinds -> Tx]]
        /\ pc' \in [Sessions -> Calls \cup Ends]
        /\ verdict' \in [Sessions -> {"none"} \cup Successes \cup Errors]
    BY <1>7, CallTxType, SendsType DEF SubmitActivation, Kinds
  <2>2. QED
    BY <1>7, <2>1 DEF SubmitActivation, TypeOK, ChainTypeOK, SessTypeOK
<1>8. CASE ActivationAnswered(s)
  BY <1>8, StopsType
     DEF ActivationAnswered, TypeOK, ChainTypeOK, SessTypeOK, chainVars
<1>9. QED BY <1>3, <1>4, <1>5, <1>6, <1>7, <1>8 DEF ActivateStep

\* The steps of `cache bid` keep them too.
LEMMA BidStepType ==
  ASSUME TypeOK, NEW s \in Sessions, BidStep(s)
  PROVE  TypeOK'
<1> USE DEF Calls, Ends, Successes, Errors
<1>1. BidError(s) \in {"none"} \cup Errors
  BY DEF BidError, EstimateError
<1>2. CASE FindManager(s)
  BY <1>2, GoesType
     DEF FindManager, TypeOK, ChainTypeOK, SessTypeOK, chainVars
<1>3. CASE TryBid(s)
  <2>1. Goes(s, "estimate") \/ \E e \in Errors : Stops(s, "bail", e)
    BY <1>1, <1>3 DEF TryBid
  <2>2. QED
    BY <1>3, <2>1, GoesType, StopsType
       DEF TryBid, TypeOK, ChainTypeOK, SessTypeOK, chainVars
<1>4. CASE FillBid(s)
  <2>1. Goes(s, "send") \/ \E e \in Errors : Stops(s, "bail", e)
    BY <1>1, <1>4 DEF FillBid
  <2>2. cap' \in [Sessions -> Nat]
    BY <1>4, FilledCapType DEF FillBid, TypeOK, SessTypeOK
  <2>3. QED
    BY <1>4, <2>1, <2>2, GoesType, StopsType
       DEF FillBid, TypeOK, ChainTypeOK, SessTypeOK, chainVars
<1>5. CASE SendBid(s)
  <2>1. /\ tx' \in [Sessions -> [Kinds -> Tx]]
        /\ pc' \in [Sessions -> Calls \cup Ends]
        /\ verdict' \in [Sessions -> {"none"} \cup Successes \cup Errors]
    BY <1>5, BidTxType, SendsType DEF SendBid, Kinds
  <2>2. QED
    BY <1>5, <2>1 DEF SendBid, TypeOK, ChainTypeOK, SessTypeOK
<1>6. CASE BidAnswered(s)
  BY <1>6, StopsType
     DEF BidAnswered, TypeOK, ChainTypeOK, SessTypeOK, chainVars
<1>7. QED BY <1>2, <1>3, <1>4, <1>5, <1>6 DEF BidStep

\* So the types hold whatever commands run beside each other.
THEOREM StylusTypes == StylusSpec => []TypeOK
<1>1. Init => TypeOK
  BY InitType
<1>2. TypeOK /\ [StylusNext]_vars => TypeOK'
  <2> SUFFICES ASSUME TypeOK, [StylusNext]_vars PROVE TypeOK'
    OBVIOUS
  <2>1. CASE UNCHANGED vars
    BY <2>1 DEF vars, chainVars, sessVars, TypeOK, ChainTypeOK, SessTypeOK
  <2>2. CASE Environment
    BY <2>2, EnvironmentType
  <2>3. ASSUME NEW s \in Sessions, CommandStep(s) \/ CallFails(s) PROVE TypeOK'
    BY <2>3, DeployStepType, ActivateStepType, BidStepType, CallFailsType
       DEF CommandStep
  <2>4. QED BY <2>1, <2>2, <2>3 DEF StylusNext
<1>3. QED BY <1>1, <1>2, PTL DEF StylusSpec

-----------------------------------------------------------------------------
(* The margin of `activate`.                                               *)

\* The fee an activation attaches is the one it quoted, until it is sent.
CallInv(s) ==
  Activating(s) /\ pc[s] \in {"act_estimate", "act_price", "act_fill", "act_send"} =>
    quote[s] = Bumped(seenFee[s], cfg[s].bump)

AllCallInv == \A s \in Sessions : CallInv(s)

\* What one session's step leaves of another.
SameCall(t) ==
  /\ pc'[t] = pc[t] /\ verdict'[t] = verdict[t]
  /\ quote'[t] = quote[t] /\ seenFee'[t] = seenFee[t]

\* A step of one session leaves the others, and every command line, alone.
LEMMA CommandIsLocal ==
  ASSUME TypeOK, NEW s \in Sessions, CommandStep(s) \/ CallFails(s)
  PROVE  UNCHANGED cfg /\ \A t \in Sessions \ {s} : SameCall(t)
<1>1. /\ pc \in [Sessions -> Calls \cup Ends]
      /\ verdict \in [Sessions -> {"none"} \cup Successes \cup Errors]
      /\ quote \in [Sessions -> Nat] /\ seenFee \in [Sessions -> Nat]
  BY DEF TypeOK, SessTypeOK
<1>2. CASE DeployStep(s) \/ CallFails(s)
  BY <1>2, StepLeavesQuotes DEF Stays, Rests, SameCall
<1>3. CASE ActivateStep(s)
  <2>1. UNCHANGED cfg
    BY <1>3 DEF ActivateStep, QuoteActivation, EstimateCall, PrintEstimate,
                FillCall, SubmitActivation, ActivationAnswered
  <2>2. Quotes(s) \/ UNCHANGED <<quote, seenFee>>
    BY <1>3 DEF ActivateStep, QuoteActivation, EstimateCall, PrintEstimate,
                FillCall, SubmitActivation, ActivationAnswered
  <2>3. (\E call : Goes(s, call)) \/ \E how, what : Stops(s, how, what)
    <3>1. CASE SubmitActivation(s)
      BY <3>1, Zenon DEF SubmitActivation, Sends
    <3>2. CASE ~SubmitActivation(s)
      BY <1>3, <3>2, Zenon
         DEF ActivateStep, QuoteActivation, EstimateCall, PrintEstimate, FillCall,
             ActivationAnswered
    <3>3. QED BY <3>1, <3>2
  <2>4. QED BY <1>1, <2>1, <2>2, <2>3 DEF Quotes, Goes, Stops, SameCall
<1>4. CASE BidStep(s)
  <2>1. UNCHANGED <<cfg, quote, seenFee>>
    BY <1>4 DEF BidStep, FindManager, TryBid, FillBid, SendBid, BidAnswered
  <2>2. (\E call : Goes(s, call)) \/ \E how, what : Stops(s, how, what)
    <3>1. CASE SendBid(s)
      BY <3>1, Zenon DEF SendBid, Sends
    <3>2. CASE ~SendBid(s)
      BY <1>4, <3>2, Zenon DEF BidStep, FindManager, TryBid, FillBid, BidAnswered
    <3>3. QED BY <3>1, <3>2
  <2>3. QED BY <1>1, <2>1, <2>2 DEF Goes, Stops, SameCall
<1>5. QED BY <1>2, <1>3, <1>4 DEF CommandStep

\* No step of the session itself changes what it quoted before it has sent.
LEMMA CommandKeepsCall ==
  ASSUME TypeOK, NEW s \in Sessions, CallInv(s), CommandStep(s) \/ CallFails(s)
  PROVE  CallInv(s)'
<1> SUFFICES ASSUME Activating(s)',
                    pc'[s] \in {"act_estimate", "act_price", "act_fill", "act_send"}
             PROVE  quote'[s] = Bumped(seenFee'[s], cfg'[s].bump)
  BY DEF CallInv
<1>1. /\ pc \in [Sessions -> Calls \cup Ends]
      /\ quote \in [Sessions -> Nat] /\ seenFee \in [Sessions -> Nat]
      /\ cfg' = cfg
  BY CommandIsLocal DEF TypeOK, SessTypeOK
<1>2. cfg[s].cmd = "activate"
  BY <1>1 DEF Activating
<1>3. ~DeployStep(s) /\ ~BidStep(s)
  BY <1>2 DEF DeployStep, CheckExists, CheckActivate, ParseConstructor,
              CheckBalance, EstimateDeployment, PriceDeployment, SendDeployment,
              DeploymentMined, EstimateActivation, PriceActivation, SendActivation,
              ActivationMined, Deploying,
              BidStep, FindManager, TryBid, FillBid, SendBid, BidAnswered, Bidding
<1>4. ~CallFails(s)
  BY <1>1 DEF CallFails, Stops
<1>5. CASE QuoteActivation(s)
  <2>1. Quotes(s)
    BY <1>1, <1>5 DEF QuoteActivation, Stops
  <2>2. QED BY <1>1, <2>1 DEF Quotes
<1>6. CASE EstimateCall(s) \/ PrintEstimate(s) \/ FillCall(s)
  BY <1>1, <1>2, <1>6 DEF EstimateCall, PrintEstimate, FillCall, CallInv, Activating
<1>7. ~SubmitActivation(s)
  <2>1. ASSUME SubmitActivation(s)
        PROVE  Goes(s, "act_wait") \/ \E e : Stops(s, "bail", e)
    BY <2>1, Zenon DEF SubmitActivation, Sends
  <2>2. QED BY <1>1, <2>1 DEF Goes, Stops
<1>8. ~ActivationAnswered(s)
  BY <1>1 DEF ActivationAnswered, Stops
<1>9. QED
  BY <1>3, <1>4, <1>5, <1>6, <1>7, <1>8 DEF CommandStep, ActivateStep

\* So the quotes of all activations last.
LEMMA NextCall == TypeOK /\ AllCallInv /\ [StylusNext]_vars => AllCallInv'
<1> SUFFICES ASSUME TypeOK, AllCallInv, [StylusNext]_vars PROVE AllCallInv'
  OBVIOUS
<1>1. \A s \in Sessions : CallInv(s)
  BY DEF AllCallInv
<1>2. ASSUME NEW s \in Sessions, CommandStep(s) \/ CallFails(s) PROVE AllCallInv'
  <2>1. CallInv(s)'
    BY <1>1, <1>2, CommandKeepsCall
  <2>2. \A t \in Sessions \ {s} : CallInv(t)'
    BY <1>1, <1>2, CommandIsLocal DEF SameCall, CallInv, Activating
  <2>3. QED BY <2>1, <2>2 DEF AllCallInv
<1>3. ASSUME UNCHANGED sessVars PROVE AllCallInv'
  BY <1>1, <1>3 DEF sessVars, AllCallInv, CallInv, Activating
<1>4. QED BY <1>2, <1>3 DEF StylusNext, Environment, vars

\* An activation that is refused for its fee attaches less than the fee.
LEMMA CallMeansShort ==
  ASSUME TypeOK, NEW s \in Sessions, EstimateError("activate", CallTx(s)) = "fee"
  PROVE  quote[s] < dataFee
<1>1. quote[s] \in Nat /\ dataFee \in Nat
  BY ChainConstants DEF TypeOK, ChainTypeOK, SessTypeOK
<1>2. ~(CallTx(s).value >= dataFee)
  BY ChainConstants DEF EstimateError, Executes, Activatable
<1>3. QED BY <1>1, <1>2, CallTxType

\* Whatever happens on the chain after the quote, an activation that fails for
\* its fee has met a rise beyond the margin the user chose.
THEOREM CallMarginHolds == StylusSpec => ActivateBumpCoversRise
<1> DEFINE Covered(s) ==
      Activating(s) /\ pc[s] \in {"act_estimate", "act_fill"}
                    /\ pc'[s] = "bail" /\ verdict'[s] = "fee"
        => dataFee * 100 > seenFee[s] * (100 + cfg[s].bump)
<1>1. ASSUME TypeOK, AllCallInv, [StylusNext]_vars, NEW s \in Sessions
      PROVE  Covered(s)
  <2> SUFFICES ASSUME Activating(s), pc[s] \in {"act_estimate", "act_fill"},
                      pc'[s] = "bail", verdict'[s] = "fee"
               PROVE  dataFee * 100 > seenFee[s] * (100 + cfg[s].bump)
    OBVIOUS
  <2>1. /\ verdict \in [Sessions -> {"none"} \cup Successes \cup Errors]
        /\ pc \in [Sessions -> Calls \cup Ends]
    BY <1>1 DEF TypeOK, SessTypeOK
  <2>2. PICK t \in Sessions : CommandStep(t) \/ CallFails(t)
    <3>1. ~UNCHANGED sessVars
      BY DEF sessVars
    <3>2. QED BY <1>1, <3>1 DEF StylusNext, Environment, vars
  <2>3. t = s
    BY <1>1, <2>2, CommandIsLocal DEF SameCall
  <2>4. ~CallFails(s)
    BY <2>1 DEF CallFails, Stops
  <2>5. ~DeployStep(s) /\ ~BidStep(s)
    BY DEF DeployStep, CheckExists, CheckActivate, ParseConstructor,
           CheckBalance, EstimateDeployment, PriceDeployment, SendDeployment,
           DeploymentMined, EstimateActivation, PriceActivation, SendActivation,
           ActivationMined, Deploying, BidStep, FindManager, TryBid, FillBid,
           SendBid, BidAnswered, Bidding, Activating
  <2>6. EstimateCall(s) \/ FillCall(s)
    BY <2>2, <2>3, <2>4, <2>5
       DEF CommandStep, ActivateStep, QuoteActivation, PrintEstimate,
           SubmitActivation, ActivationAnswered
  <2>7. \/ Stops(s, "bail", CallError(s))
        \/ \E call \in {"act_price", "act_send"} : Goes(s, call)
    BY <2>6, Zenon DEF EstimateCall, FillCall
  <2>8. EstimateError("activate", CallTx(s)) = "fee"
    <3>1. ASSUME NEW call \in {"act_price", "act_send"} PROVE ~Goes(s, call)
      BY <2>1 DEF Goes
    <3>2. QED BY <2>1, <2>7, <3>1 DEF Stops, CallError
  <2>9. quote[s] < dataFee
    BY <1>1, <2>8, CallMeansShort
  <2>10. quote[s] = Bumped(seenFee[s], cfg[s].bump)
    BY <1>1 DEF AllCallInv, CallInv
  <2>11. seenFee[s] \in Nat /\ cfg[s].bump \in Nat /\ dataFee \in Nat
    BY <1>1, SessionConstants, ChainConstants
       DEF TypeOK, ChainTypeOK, SessTypeOK, Config
  <2>12. QED BY <2>9, <2>10, <2>11, BumpedCovers
<1>2. TypeOK /\ AllCallInv /\ [StylusNext]_vars =>
        [\A s \in Sessions :
           Activating(s) /\ pc[s] \in {"act_estimate", "act_fill"}
                         /\ pc'[s] = "bail" /\ verdict'[s] = "fee" =>
             dataFee * 100 > seenFee[s] * (100 + cfg[s].bump)]_vars
  BY <1>1
<1>3. Init => AllCallInv
  <2> SUFFICES ASSUME Init, NEW s \in Sessions PROVE CallInv(s)
    BY DEF AllCallInv
  <2>1. cfg[s].cmd \in {"deploy", "activate", "bid"}
    BY SessionConstants DEF Init, Config
  <2>2. pc[s] \in {"exists", "simulate", "manager"}
    BY <2>1 DEF Init, FirstCall
  <2>3. QED BY <2>2 DEF CallInv
<1>4. QED
  BY <1>2, <1>3, NextCall, StylusTypes, PTL DEF StylusSpec, ActivateBumpCoversRise
=============================================================================
