------------------------------ MODULE MCDeploy ------------------------------
(***************************************************************************)
(* Instances of Deploy: two sessions deploy the same or different programs *)
(* from one wallet or two, with and without a constructor.                 *)
(***************************************************************************)
EXTENDS DeployRefines, TLC

CONSTANTS u1, u2, good, bad

\* The plain command line, from which the others differ.
Base == [cmd |-> "deploy", user |-> u1, code |-> good, target |-> <<u1, 0>>,
         estimate |-> FALSE, noActivate |-> FALSE, wasmFile |-> FALSE,
         signature |-> "none", exported |-> "none", given |-> 0, want |-> 0,
         ctorValue |-> 0, bump |-> 20, maxFee |-> 0, bid |-> 0]

Constructed == [Base EXCEPT !.exported = "payable", !.given = 1, !.want = 1,
                            !.ctorValue = 1]

\* Races: a rival in the same or another wallet, constructors, estimates.
RaceConfigs ==
  {Base, [Base EXCEPT !.user = u2], [Base EXCEPT !.estimate = TRUE],
   [Base EXCEPT !.noActivate = TRUE], Constructed}

\* One session, every flag that is refused or changes the path.
FlagConfigs ==
  {[Base EXCEPT !.code = c, !.estimate = e, !.noActivate = n, !.wasmFile = w,
                !.signature = k, !.exported = x, !.given = g, !.want = 1,
                !.ctorValue = v, !.maxFee = m] :
     c \in {good, bad}, e \in BOOLEAN, n \in BOOLEAN, w \in BOOLEAN,
     k \in {"none", "payable"}, x \in {"none", "plain", "payable"},
     g \in 0 .. 1, v \in 0 .. 1, m \in {0, 2}}

\* Sessions are interchangeable: they differ only by the configuration drawn.
Interchangeable == Permutations(Sessions)
=============================================================================
