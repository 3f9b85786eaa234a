------------------------------ MODULE CacheBid ------------------------------
(***************************************************************************)
(* `cargo stylus cache bid <address> <wei>`: find the last registered      *)
(* cache manager, try placeBid as a call, send it and wait for its receipt.*)
(***************************************************************************)
EXTENDS Session

Bidding(s) == cfg[s].cmd = "bid"

\* get_cache_manager_address; there is one manager here, and a chain without
\* any fails like a call that fails.
FindManager(s) ==
  /\ Bidding(s) /\ pc[s] = "manager"
  /\ Goes(s, "try_bid")
  /\ UNCHANGED <<chainVars, cfg, active, quote, cap, addr, seenVersion, seenFee>>

\* The call of placeBid.
BidTx(s) ==
  [tx[s]["bid"] EXCEPT
     !.status = "pending", !.to = cfg[s].target, !.value = cfg[s].bid,
     !.cap = cap[s]]

\* Why the manager refuses the bid, or "none".
BidError(s) == EstimateError("bid", BidTx(s))

\* placeBid as an eth_call; handle_cache_manager_error makes an error of every
\* revert the manager declares.
TryBid(s) ==
  /\ Bidding(s) /\ pc[s] = "try_bid"
  /\ IF BidError(s) = "none" THEN Goes(s, "estimate")
                             ELSE Stops(s, "bail", BidError(s))
  /\ UNCHANGED <<chainVars, cfg, active, quote, cap, addr, seenVersion, seenFee>>

\* send() first has the provider fill in what the call leaves open: the gas limit,
\* by another estimate, and the fee cap, twice the base fee, unless it is given.
FillBid(s) ==
  /\ Bidding(s) /\ pc[s] = "estimate"
  /\ IF BidError(s) = "none"
       THEN /\ Goes(s, "send")
            /\ cap' = [cap EXCEPT ![s] = IF cfg[s].maxFee = 0 THEN 2 * gasPrice
                                                             ELSE cfg[s].maxFee]
       ELSE Stops(s, "bail", BidError(s)) /\ UNCHANGED cap
  /\ UNCHANGED <<chainVars, cfg, active, quote, addr, seenVersion, seenFee>>

\* Then it submits; by now the manager may think otherwise.
SendBid(s) ==
  /\ Bidding(s) /\ pc[s] = "send"
  /\ Sends(s, "bid", BidTx(s), "wait")
  /\ UNCHANGED <<nonce, balance, codeAt, version, expired, stylusVersion,
                 dataFee, gasPrice, minBid, cached>>
  /\ UNCHANGED <<cfg, active, quote, cap, addr, seenVersion, seenFee>>

\* The receipt's status is not looked at.
BidAnswered(s) ==
  /\ Bidding(s) /\ pc[s] = "wait" /\ Mined(tx[s]["bid"])
  /\ Stops(s, "ok", "cached")
  /\ UNCHANGED <<chainVars, cfg, active, quote, cap, addr, seenVersion, seenFee>>

BidStep(s) ==
  \/ FindManager(s) \/ TryBid(s) \/ FillBid(s) \/ SendBid(s) \/ BidAnswered(s)
=============================================================================
