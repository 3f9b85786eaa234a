------------------------------ MODULE MCDocker ------------------------------
(* Instances of Docker: two commands, with plain and with awkward values.    *)
EXTENDS Docker, TLC

Base == [kind |-> "deploy", local |-> FALSE, host |-> TRUE, channel |-> "1.80",
         options |-> "endpoint" :> <<"url">> @@ "private-key-path" :> <<"key">>,
         switches |-> {}, sources |-> <<>>, value |-> 0, signature |-> <<>>,
         args |-> <<>>]
Verify == [Base EXCEPT !.kind = "verify",
             !.options = "endpoint" :> <<"url">> @@ "deployment-tx" :> <<"tx">>]

With(x, n, value) == [x EXCEPT !.options = n :> value @@ @]

\* Flags of every sort, with values of no word, one word and two.
SomeValues == {<<"a">>, <<"">>, <<"a", "b">>, <<"a", "--no-activate">>,
               <<"a", "--constructor-args">>}
FlagConfigs ==
  {[With(Base, n, v) EXCEPT !.switches = s, !.args = a] :
     n \in {"features"}, v \in SomeValues,
     s \in {Switches, {"--estimate-gas"}},
     a \in {<<>>, <<<<"a">>, <<"--estimate-gas">>>>, <<<<"a", "b">>, <<"">>>>}}
  \cup {[Base EXCEPT !.sources = s] : s \in {<<"a">>, <<"a", "b">>}}
  \cup {[Base EXCEPT !.signature = s] : s \in {<<"a">>, <<"a", "b">>}}
  \cup {With(Verify, "features", v) : v \in SomeValues}

\* The other keys, plain and with a space.
KeyConfigs ==
  {[Base EXCEPT !.options = o, !.switches = {"--no-activate"}] :
     o \in {n :> v : n \in {"private-key", "keystore-path"},
                    v \in {<<"key">>, <<"key", "--constructor-args">>}}
           \cup {"keystore-path" :> <<"a">> @@ "keystore-password-path" :> <<"b">>}}

\* Images: other toolchains, another version, a host that cannot, --no-verify.
ImageConfigs ==
  {Base, [Base EXCEPT !.channel = "1.81"], [Base EXCEPT !.channel = "stable"],
   [Base EXCEPT !.host = FALSE], [Base EXCEPT !.local = TRUE], Verify,
   With(Base, "cargo-stylus-version", <<"0.6">>)}

\* Values of the constructor, in wei: one is printed as 1 and read as ether.
ValueConfigs == {[Base EXCEPT !.value = 1, !.switches = {"--no-activate"}]}

AllConfigs == FlagConfigs \cup KeyConfigs \cup ImageConfigs \cup ValueConfigs

Interchangeable == Permutations(Commands)
=============================================================================
