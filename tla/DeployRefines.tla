--------------------------- MODULE DeployRefines ----------------------------
(* The promise that Deploy implements, read off the chain's transactions.   *)
EXTENDS DeployInv

\* The contract of a session is the one its mined creation has put on chain.
ContractOf(s) ==
  IF tx[s]["create"].status = "ok" THEN tx[s]["create"].at
  ELSE IF tx[s]["deployer"].status = "ok" THEN tx[s]["deployer"].at
  ELSE NoAddr

ActivatedBy(s) ==
  tx[s]["activate"].status = "ok" \/ tx[s]["deployer"].status = "ok"

Promise ==
  INSTANCE DeployPromise WITH
    contract  <- [s \in Sessions |-> ContractOf(s)],
    activated <- [s \in Sessions |-> ActivatedBy(s)],
    said      <- verdict

\* Deploy, with the chain and the other sessions, implements DeployPromise:
\* one contract per deployment, at an address no other has, never replaced;
\* one answer, true when it is given; and nothing on chain, then or later, for
\* a command that says it has only estimated or that it refuses.
KeepsPromise == Promise!Spec

\* What the proof of it needs beyond IInv: a program that goes on chain to be
\* activated has passed the check, and what is refused has sent nothing.
Checked == {"args", "balance", "estimate", "price", "send", "wait"} \cup OnActivation

PromiseInv(s) ==
  /\ pc[s] \in Checked /\ ~active[s] => cfg[s].code \in ValidCodes
  /\ pc[s] \in OnActivation => ~active[s]
  /\ verdict[s] \in {"flags", "invalid", "estimated"} \/ pc[s] = "panic" =>
       \A k \in Kinds : tx[s][k].status = "none"
  /\ tx[s]["activate"].status = "pending" => pc[s] = "act_wait" \/ verdict[s] = "lost"

AllPromiseInv == \A s \in Sessions : PromiseInv(s)
=============================================================================
