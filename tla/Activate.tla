------------------------------ MODULE Activate ------------------------------
(***************************************************************************)
(* `cargo stylus activate --address`: read the code, quote the data fee by *)
(* simulation, print an estimate if asked to, send the activation and wait *)
(* for its receipt.                                                        *)
(***************************************************************************)
EXTENDS Session

Activating(s) == cfg[s].cmd = "activate"

\* get_code_at and check_activate; the code of an address with none is no
\* program, so the simulation refuses it.
QuoteActivation(s) ==
  /\ Activating(s) /\ pc[s] = "simulate"
  /\ LET c == codeAt[cfg[s].target]
         e == IF c = NoCode THEN "invalid" ELSE SimulationError(c)
     IN  IF e = "none"
           THEN /\ Quotes(s)
                /\ Goes(s, IF cfg[s].estimate THEN "act_estimate" ELSE "act_fill")
           ELSE Stops(s, "bail", e) /\ UNCHANGED <<quote, seenFee, seenVersion>>
  /\ UNCHANGED <<chainVars, cfg, active, cap, addr>>

\* The call of activateProgram.
CallTx(s) ==
  [tx[s]["activate"] EXCEPT
     !.status = "pending", !.to = cfg[s].target, !.value = quote[s],
     !.cap = cap[s]]

CallError(s) == EstimateError("activate", CallTx(s))

\* --estimate-gas: the gas, then the gas price, and the command goes on.
EstimateCall(s) ==
  /\ Activating(s) /\ pc[s] = "act_estimate"
  /\ IF CallError(s) = "none" THEN Goes(s, "act_price")
                              ELSE Stops(s, "bail", CallError(s))
  /\ UNCHANGED <<chainVars, cfg, active, quote, cap, addr, seenVersion, seenFee>>

PrintEstimate(s) ==
  /\ Activating(s) /\ pc[s] = "act_price"
  /\ Goes(s, "act_fill")
  /\ UNCHANGED <<chainVars, cfg, active, quote, cap, addr, seenVersion, seenFee>>

\* send() first has the provider fill in the gas limit, by an estimate of its own,
\* and the fee cap, twice the base fee.
FillCall(s) ==
  /\ Activating(s) /\ pc[s] = "act_fill"
  /\ IF CallError(s) = "none"
       THEN Goes(s, "act_send") /\ cap' = [cap EXCEPT ![s] = 2 * gasPrice]
       ELSE Stops(s, "bail", CallError(s)) /\ UNCHANGED cap
  /\ UNCHANGED <<chainVars, cfg, active, quote, addr, seenVersion, seenFee>>

SubmitActivation(s) ==
  /\ Activating(s) /\ pc[s] = "act_send"
  /\ Sends(s, "activate", CallTx(s), "act_wait")
  /\ UNCHANGED <<nonce, balance, codeAt, version, expired, stylusVersion,
                 dataFee, gasPrice, minBid, cached>>
  /\ UNCHANGED <<cfg, active, quote, cap, addr, seenVersion, seenFee>>

\* The receipt's status is not looked at.
ActivationAnswered(s) ==
  /\ Activating(s) /\ pc[s] = "act_wait" /\ Mined(tx[s]["activate"])
  /\ Stops(s, "ok", "activated")
  /\ UNCHANGED <<chainVars, cfg, active, quote, cap, addr, seenVersion, seenFee>>

ActivateStep(s) ==
  \/ QuoteActivation(s) \/ EstimateCall(s) \/ PrintEstimate(s)
  \/ FillCall(s) \/ SubmitActivation(s) \/ ActivationAnswered(s)
=============================================================================
