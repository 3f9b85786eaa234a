---------------------------- MODULE MCReproduce -----------------------------
(* An instance of Reproduce: a contract with a feature that adds a           *)
(* constructor, a version of it with another comment, one that was renamed   *)
(* and has the constructor and a helper crate, and one that does not build.  *)
EXTENDS Reproduce, TLC

CONSTANTS token, my_token, helper,  \* libraries; my_token.wasm ends with token.wasm
          b1, b2,                   \* bodies
          init,                     \* the constructor
          plain, comment, renamed, broken,  \* versions
          here, there               \* copies

EndsWithSet == {<<c, c>> : c \in Crates} \cup {<<my_token, token>>}
Wasm1(c, b) == [crate |-> c, body |-> b]

BuildsOf ==
  [v \in Versions |-> [f \in Features |->
     CASE v = broken  -> {}
       [] v = renamed -> {Wasm1(my_token, b2), Wasm1(helper, b1)}
       [] f = "extra" -> {Wasm1(token, b2)}
       [] OTHER       -> {Wasm1(token, b1)}]]

Names == [v \in Versions |-> IF v = renamed THEN my_token ELSE token]
Constructors == [v \in Versions |-> [f \in Features |->
            IF v = renamed \/ (v # broken /\ f = "extra")
              THEN init ELSE None]]
SourceHash == [v \in Versions |-> v]

Base == [kind |-> "deploy", copy |-> here, features |-> NoFeatures,
         wasm |-> None, signature |-> None]
Given == [body |-> b1, section |-> NoHash]

DeployConfigs ==
  {[Base EXCEPT !.features = f] : f \in Features}
    \cup {[Base EXCEPT !.wasm = Given]}
    \cup {[Base EXCEPT !.wasm = [body |-> b2, section |-> plain], !.signature = init]}

Commandlines ==
  DeployConfigs \cup {[Base EXCEPT !.kind = "initcode"]}
    \cup {[Base EXCEPT !.kind = "verify", !.copy = k] : k \in Copies}
    \cup {[Base EXCEPT !.kind = "verify", !.features = "extra"]}

Interchangeable == Permutations(Commands)
=============================================================================
