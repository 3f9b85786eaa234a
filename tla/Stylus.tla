------------------------------- MODULE Stylus -------------------------------
(***************************************************************************)
(* All the commands that send transactions, on one chain: deployments,     *)
(* activations of what they (or others) deployed, and cache bids.  They    *)
(* share nothing but the chain.                                            *)
(***************************************************************************)
EXTENDS Deploy, Activate, CacheBid

CommandStep(s) == DeployStep(s) \/ ActivateStep(s) \/ BidStep(s)

StylusNext ==
  Environment \/ \E s \in Sessions : CommandStep(s) \/ CallFails(s)

StylusSpec == Init /\ [][StylusNext]_vars

\* A command takes its next step when it can, a base fee that has risen comes
\* down again, and a transaction includable again and again is included (a
\* session has one at a time that is pending).
CommandFairness ==
  /\ \A s \in Sessions : WF_vars(CommandStep(s))
  /\ \A s \in Sessions :
       SF_vars((\E k \in Kinds : Mine(s, k)) /\ UNCHANGED sessVars)
  /\ WF_vars(PriceFalls /\ UNCHANGED sessVars)

FairStylusSpec == StylusSpec /\ CommandFairness

-----------------------------------------------------------------------------
\* A fee error of `activate` means, as for deploy, that the fee rose by more
\* than the margin since it was quoted: at the estimate that is printed, and at
\* the one that send() makes.
ActivateBumpCoversRise ==
  [][\A s \in Sessions :
       Activating(s) /\ pc[s] \in {"act_estimate", "act_fill"}
                     /\ pc'[s] = "bail" /\ verdict'[s] = "fee" =>
         dataFee * 100 > seenFee[s] * (100 + cfg[s].bump)]_vars

-----------------------------------------------------------------------------
(* What the source says of itself and the code does not keep to.           *)

\* cache.rs, place_bid: what the cache manager has against a bid is printed as
\* an error.  So a bid that was included and reverted is no success.
RevertedBidIsAnError ==
  \A s \in Sessions : verdict[s] = "cached" => tx[s]["bid"].status # "reverted"
=============================================================================
