------------------------------ MODULE MCStylus ------------------------------
(***************************************************************************)
(* Instances of Stylus: a deployment through either path, an activation of *)
(* its address and bids on it, any two of them at once.                    *)
(***************************************************************************)
EXTENDS Stylus, TLC

CONSTANTS u1, u2, good, bad

Base == [cmd |-> "deploy", user |-> u1, code |-> good, target |-> <<u1, 0>>,
         estimate |-> FALSE, noActivate |-> FALSE, wasmFile |-> FALSE,
         signature |-> "none", exported |-> "none", given |-> 0, want |-> 0,
         ctorValue |-> 0, bump |-> 20, maxFee |-> 0, bid |-> 0]

Unactivated == [Base EXCEPT !.noActivate = TRUE]

\* Through the deployer, from the other wallet.
Constructed == [Base EXCEPT !.user = u2, !.wasmFile = TRUE, !.signature = "payable",
                            !.given = 1, !.want = 1, !.ctorValue = 1]

\* u2 activates the contract that u1 deploys, and bids on it.
ActivateIt(e) == [Base EXCEPT !.cmd = "activate", !.user = u2, !.estimate = e]
BidForIt == [Base EXCEPT !.cmd = "bid", !.user = u2, !.bid = 1]

LiveConfigs == {Base, Constructed, ActivateIt(TRUE), BidForIt}

EstimateConfigs == {Unactivated, ActivateIt(TRUE)}

BidConfigs == {Base, BidForIt}

\* Sessions are interchangeable: they differ only by the configuration drawn.
Interchangeable == Permutations(Sessions)
=============================================================================
