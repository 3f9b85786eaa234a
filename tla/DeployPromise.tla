--------------------------- MODULE DeployPromise ----------------------------
(***************************************************************************)
(* A deployment as its user sees it, with every RPC call, check, estimate  *)
(* and fee hidden: a contract appears at an address of its own, it gets    *)
(* activated, and the command says one thing, once, which is then true.    *)
(***************************************************************************)
CONSTANTS
  Sessions,   \* the deployments
  Addrs,      \* contract addresses
  NoAddr      \* no contract yet

VARIABLES
  contract,   \* the contract the deployment has created
  activated,  \* an activation by the deployment has taken effect
  said        \* the last line of the command; "none" while it runs

promiseVars == <<contract, activated, said>>

\* Sayings that need a contract, an activation, or nothing on chain at all.
OfContract == {"activated", "initialized", "already_active", "must_activate"}
OfActivation == {"activated", "initialized"}
OfNothing == {"estimated", "flags", "invalid"}
Others == {"rpc", "lost", "uptodate", "fee", "funds", "reverted"}

Init ==
  /\ contract = [s \in Sessions |-> NoAddr]
  /\ activated = [s \in Sessions |-> FALSE]
  /\ said = [s \in Sessions |-> "none"]

\* The chain acts for a deployment while it runs, and after it has lost touch
\* with a transaction it had sent.
Open(s) == said[s] \in {"none", "lost"}

Created(s) ==
  /\ Open(s) /\ contract[s] = NoAddr
  /\ \E a \in Addrs \ {contract[t] : t \in Sessions} :
       contract' = [contract EXCEPT ![s] = a]

Deployed(s) == Created(s) /\ UNCHANGED <<activated, said>>

\* StylusDeployer does everything in one transaction.
DeployedAndActivated(s) ==
  /\ Created(s)
  /\ activated' = [activated EXCEPT ![s] = TRUE]
  /\ UNCHANGED said

Activated(s) ==
  /\ Open(s) /\ contract[s] # NoAddr /\ ~activated[s]
  /\ activated' = [activated EXCEPT ![s] = TRUE]
  /\ UNCHANGED <<contract, said>>

Says(s, what) ==
  /\ said[s] = "none"
  /\ what \in OfContract => contract[s] # NoAddr
  /\ what \in OfActivation => activated[s]
  /\ what \in OfNothing => contract[s] = NoAddr
  /\ said' = [said EXCEPT ![s] = what]
  /\ UNCHANGED <<contract, activated>>

Next ==
  \E s \in Sessions :
    \/ Deployed(s) \/ DeployedAndActivated(s) \/ Activated(s)
    \/ \E what \in OfContract \cup OfNothing \cup Others : Says(s, what)

Spec == Init /\ [][Next]_promiseVars
=============================================================================
