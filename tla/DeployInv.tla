----------------------------- MODULE DeployInv ------------------------------
(***************************************************************************)
(* The inductive invariant of Deploy: what is known about a session at     *)
(* each of its calls, and about its transactions in each status.           *)
(***************************************************************************)
EXTENDS Deploy

\* The calls a session makes before it submits anything.
BeforeSending == {"exists", "simulate", "args", "balance", "estimate", "price",
                  "send", "manager", "try_bid"}
OnActivation == {"act_estimate", "act_price", "act_send", "act_wait"}
Creations == {"create", "deployer"}

\* Where a session is and what it has sent and printed by then.
StageInv(s) ==
  /\ pc[s] \in Calls => verdict[s] = "none"
  /\ pc[s] \in BeforeSending =>
       addr[s] = NoAddr /\ \A k \in Kinds : tx[s][k].status = "none"
  /\ pc[s] \in {"send", "wait"} => ~cfg[s].estimate
  /\ pc[s] = "wait" => addr[s] = NoAddr /\ tx[s]["activate"].status = "none"
  /\ pc[s] \in OnActivation \ {"act_wait"} => tx[s]["activate"].status = "none"
  /\ pc[s] \in OnActivation => addr[s] # NoAddr /\ ~FindsConstructor(s)
  /\ addr[s] # NoAddr /\ FindsConstructor(s) => verdict[s] = "initialized"

\* What its transactions are.
TxInv(s) ==
  /\ tx[s]["bid"].status = "none"
  /\ \A k \in Kinds : tx[s][k].from = cfg[s].user
  /\ \A k \in Creations :
       /\ tx[s][k].status # "none" =>
            /\ k = FirstKind(s)
            /\ tx[s][k].code = cfg[s].code
            /\ ~cfg[s].estimate
       /\ tx[s][k].status = "pending" => pc[s] = "wait" \/ verdict[s] = "lost"
       /\ tx[s][k].status = "ok" =>
            /\ tx[s][k].at \in Addrs
            /\ tx[s][k].at[2] < nonce[tx[s][k].at[1]]
            /\ codeAt[tx[s][k].at] = cfg[s].code
            /\ \/ addr[s] = tx[s][k].at
               \/ pc[s] = "wait" \/ verdict[s] = "lost"
  /\ tx[s]["activate"].status # "none" =>
       addr[s] # NoAddr /\ ~FindsConstructor(s) /\ tx[s]["activate"].to = addr[s]
  /\ addr[s] # NoAddr =>
       /\ tx[s][FirstKind(s)].status = "ok"
       /\ addr[s] = tx[s][FirstKind(s)].at

\* What it knows about the program, and what has become of it.
VersionInv(s) ==
  /\ seenVersion[s] <= stylusVersion
  /\ pc[s] \in {"args", "balance", "estimate", "price", "send", "wait"} \cup OnActivation
       => seenVersion[s] > 0
  /\ active[s] =>
       seenVersion[s] > 0 /\ version[cfg[s].code] >= seenVersion[s]
  /\ pc[s] \in {"exists", "simulate"} => ~active[s]
  /\ \A k \in {"deployer", "activate"} :
       tx[s][k].status = "ok" => version[cfg[s].code] >= seenVersion[s]
  /\ verdict[s] \in {"activated", "already_active", "initialized"} =>
       seenVersion[s] > 0 /\ version[cfg[s].code] >= seenVersion[s]

SessionInv(s) == StageInv(s) /\ TxInv(s) /\ VersionInv(s)

\* Two contracts never share an address.
DistinctContracts ==
  \A s, t \in Sessions : \A j, k \in Creations :
    /\ s # t
    /\ tx[s][j].status = "ok" /\ tx[t][k].status = "ok"
    => tx[s][j].at # tx[t][k].at

IInv ==
  /\ \A s \in Sessions : SessionInv(s)
  /\ DistinctContracts
  /\ \A c \in Codes : version[c] <= stylusVersion
=============================================================================
