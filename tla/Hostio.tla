------------------------------- MODULE Hostio -------------------------------
(***************************************************************************)
(* The host functions a contract built as a shared library is linked with  *)
(* (hostio.rs), by name: which recorded step each looks for, which variant *)
(* of HostioKind it unpacks, which arguments it compares with the recorded *)
(* ones and what it hands back.                                            *)
(*                                                                         *)
(* An argument list or a result is one natural number: its identity or,    *)
(* where only that matters, its length in bytes.                           *)
(***************************************************************************)
EXTENDS Naturals

Data == {"read_args", "write_result", "exit_early"}

Storage == {"storage_load_bytes32", "storage_cache_bytes32",
            "storage_flush_cache", "transient_load_bytes32",
            "transient_store_bytes32"}

Account == {"account_balance", "account_code", "account_code_size",
            "account_codehash"}

Block == {"block_basefee", "block_coinbase", "block_gas_limit", "block_number",
          "block_timestamp", "chainid"}

\* The calls, by the EVM frame each of them opens.
CallOf(type) == CASE type = "CALL"         -> "call_contract"
                  [] type = "DELEGATECALL" -> "delegate_call_contract"
                  [] type = "STATICCALL"   -> "static_call_contract"
                  [] type = "CREATE"       -> "create1"
                  [] type = "CREATE2"      -> "create2"

Nested == {CallOf(type) : type \in {"CALL", "DELEGATECALL", "STATICCALL"}}
Creating == {CallOf(type) : type \in {"CREATE", "CREATE2"}}

Metering == {"contract_address", "emit_log", "evm_gas_left", "evm_ink_left",
             "pay_for_memory_grow"}

Math == {"math_div", "math_mod", "math_pow", "math_add_mod", "math_mul_mod"}

Message == {"msg_reentrant", "msg_sender", "msg_value", "native_keccak256"}

Returned == {"read_return_data", "return_data_size", "tx_gas_price",
             "tx_ink_price", "tx_origin"}

Numbers == {"log_f32", "log_f64", "log_i32", "log_i64"}
Prints == Numbers \cup {"log_txt"}

Funs == UNION {Data, Storage, Account, Block, Nested, Creating, Metering, Math,
               Message, Returned, Prints}

\* The name under which the node records a call of the function.
Recorded(fn) == CASE fn \in Numbers -> "console_log"
                  [] fn = "log_txt" -> "console_log_text"
                  [] OTHER          -> fn

\* The variant of HostioKind that the function unpacks: `let $dec = hostio.kind
\* else unreachable!()`.  math_mul_mod names the variant of math_add_mod.
Unpacks(fn) == CASE fn = "math_mul_mod" -> "math_add_mod"
                 [] fn \in Prints       -> Recorded(fn)
                 [] OTHER               -> fn

\* The arguments that the function asserts to be the recorded ones.
Compares(fn) == fn \notin {"exit_early", "storage_flush_cache"} \cup Numbers

\* size_of_val of the Box<[u8]> that account_code copies from.
FatPointer == 16

\* What the contract finds in its buffer.  For account_code, and for it only,
\* the number is a length, and what is copied is the size of a pointer.
Copied(fn, out) == IF fn = "account_code" THEN FatPointer ELSE out

\* Mutant: growing memory counts as a call of the contract.
SkippableOnlyEnds == {"user_entrypoint", "user_returned"}

\* Steps that the contract's code does not ask for and next_hostio passes over.
Skippable == {"pay_for_memory_grow", "user_entrypoint", "user_returned"}

\* Every kind of step: those of the functions, the virtual machine's own, and
\* EVMCall, the one kind for all of what an EVM contract calls.
StepNames == {Recorded(fn) : fn \in Funs} \cup Skippable
Kinds == StepNames \cup {"evm_call"}
=============================================================================
