------------------------------- MODULE MCCGen -------------------------------
(* Instances of CGen: two Solidity files with overloads, clashes, variables.  *)
EXTENDS CGen

Fn(name, rank, m) == [name |-> name, rank |-> rank, mutability |-> m]
Var(label, slot, kind) ==
  [label |-> <<label>>, slot |-> slot, kind |-> kind, offset |-> 0, slotFits |-> TRUE]
Of(name, fs, vs) == [name |-> name, functions |-> fs, variables |-> vs]

f == <<"f">>
f1 == <<"f", 1>>
g == <<"g">>

Contracts1 ==
  {Of("C", {Fn(f, 1, "pure"), Fn(f, 2, "payable"), Fn(g, 3, "view"),
            Fn(g, 4, "nonpayable")}, <<>>),
   Of("C", {Fn(f, 1, "view"), Fn(f, 2, "view"), Fn(f1, 3, "payable")}, <<>>),
   Of("C", {Fn(f, 1, "view"), Fn(f1, 2, "payable"), Fn(f1, 3, "pure")}, <<>>),
   Of("C", {}, <<Var("x", 0, "other"), [Var("y", 1, "other") EXCEPT !.offset = 33]>>),
   Of("C", {}, <<[Var("x", 0, "other") EXCEPT !.slotFits = FALSE]>>),
   Of("C", {Fn(f, 1, "pure")},
      <<Var("x", 0, "array"), Var("y", 1, "dyn_array"), Var("z", 2, "mapping")>>),
   Of("C", {}, <<Var("x", 0, "other"), Var("x", 1, "other")>>)}

D == Of("D", {Fn(g, 1, "payable")}, <<Var("x", 0, "other")>>)
Names == {<<"a.sol">>, <<"dir", "a.sol">>, <<Root, "a.sol">>}

\* An earlier run may have left files of C.
LeftOver == {<<<<"out", "a.sol">>, "C", suffix>> : suffix \in {".h", "_main.c"}}

\* The second file has a contract of the same name, and none of its own.
TwoFiles ==
  {<<[path |-> p, contracts |-> <<c, D>>], [path |-> <<"b.sol">>, contracts |-> cs]>> :
     p \in Names, c \in Contracts1, cs \in {<<>>} \cup {<<d>> : d \in Contracts1}}
=============================================================================
