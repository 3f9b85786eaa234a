------------------------------- MODULE Replay -------------------------------
(***************************************************************************)
(* `cargo stylus replay`: fetch the trace of a transaction (module Tracer),*)
(* parse it, and run the contract's shared library under a debugger, with  *)
(* host functions that take their results from the recorded steps of the   *)
(* outermost frame.                                                        *)
(***************************************************************************)
EXTENDS Tracer

CONSTANTS
  Natives,   \* values of --use-native-tracer
  Libraries  \* whether the library found is the contract that ran on chain

ASSUME ReplayConstants == Natives \subseteq BOOLEAN /\ Libraries \subseteq BOOLEAN

VARIABLES
  native,   \* --use-native-tracer
  right,    \* the local contract does what the one on chain did so far
  outcome,  \* how the command ended
  steps,    \* FrameReader::steps
  want,     \* the host function that waits for its step, or NoCall
  calls,    \* history: the host functions called locally
  answers,  \* history: what they handed back
  ink       \* START_INK and END_INK: the number of the step they come from

localVars == <<outcome, steps, want, calls, answers, ink>>
vars == <<tracerVars, native, right, localVars>>

Outcomes == {"tracing", "running", "empty", "activation", "unparsed", "returned",
             "exhausted", "diverged", "unreachable", "mismatch"}
Panics == {"exhausted", "diverged", "unreachable", "mismatch"}

LocalFuns == Used \cup {CallOf(type) : type \in Types \ EvmOnly}
Call == [fn : Funs, arg : Values]
NoCall == [fn |-> "none", arg |-> 0]

Init ==
  /\ TracerInit
  /\ native \in Natives /\ right \in Libraries
  /\ outcome = "tracing"
  /\ steps = <<>> /\ want = NoCall
  /\ calls = <<>> /\ answers = <<>>
  /\ ink = 0

-----------------------------------------------------------------------------
(* TraceFrame::parse_frame                                                 *)

\* The names that parse_frame knows of what query.js writes for a frame.
EvmNames == {EnterName(type) : type \in Types} \ {""}

\* size_of::<String>(), which read_string takes for the length of the text.
StringSize == 24

\* The kinds of steps that parse_frame reads with a frame of their own.
Framed(e) == e.name \in Nested \cup EvmNames

\* args and outs are there (the native tracer writes them for every entry), the
\* name is known, and every byte is read: the text of console_log has to fill a
\* String, the other layouts are taken to be what the node writes.
Parses(e) ==
  /\ e.hostio \/ native
  /\ e.name \in StepNames \cup EvmNames
  /\ e.name = "console_log" => e.arg = StringSize
  /\ Framed(e) => e.sub # 0

\* An error in a nested frame is an error of the whole.  A frame's number is
\* larger than its caller's.
ParseFrame[i \in 1 .. Len(lists)] ==
  \A k \in 1 .. Len(lists[i]) :
    LET e == lists[i][k] IN
    Parses(e) /\ (Framed(e) => ParseFrame[e.sub])

\* HostioKind::name()
KindName(e) == IF e.name \in EvmNames THEN "evm_call" ELSE e.name

\* The trace deserialises as a list of ActivationTraceFrames: objects that
\* have an address.
LooksLikeActivation == \A k \in 1 .. Len(lists[1]) : lists[1][k].sub # 0

\* Trace::new, then `reader`; every refusal is an error of the command.
NewTrace ==
  /\ outcome = "tracing" /\ Executed
  /\ outcome' = IF lists[1] = <<>>          THEN "empty"
                ELSE IF LooksLikeActivation THEN "activation"
                ELSE IF ~ParseFrame[1]      THEN "unparsed"
                                            ELSE "running"
  /\ steps' = IF outcome' = "running" THEN lists[1] ELSE <<>>
  /\ UNCHANGED <<tracerVars, native, right, want, calls, answers, ink>>

-----------------------------------------------------------------------------
(* The contract runs locally.                                              *)

\* What the local contract can call next.  The right contract, handed the same
\* results, calls what it called on chain; where its run there was cut short
\* for want of ink, it goes on here.
MayCall(c) ==
  IF right /\ Len(calls) < Len(program)
    THEN c.fn = program[Len(calls) + 1].fn /\ c.arg = program[Len(calls) + 1].arg
    ELSE right => cut

MayReturn == right => cut \/ Len(calls) = Len(program)

\* The contract calls a host function; next_hostio(function_name!()) begins.
CallHostio(c) ==
  /\ outcome = "running" /\ want = NoCall
  /\ Len(calls) <= MaxSteps
  /\ MayCall(c)
  /\ want' = c
  /\ calls' = Append(calls, c)
  /\ UNCHANGED <<tracerVars, native, right, outcome, steps, answers, ink>>

Fails(how) ==
  /\ outcome' = how
  /\ UNCHANGED <<right, want, answers, ink>>

\* The step that was looked for: the two inks, the variant, the arguments, the
\* result.  A contract that is handed a wrong result is on its own.
Answer(e) ==
  \/ /\ KindName(e) # Unpacks(want.fn)
     /\ ink' = Len(lists[1]) - Len(steps) + 1
     /\ outcome' = "unreachable"
     /\ UNCHANGED <<right, want, answers>>
  \/ /\ KindName(e) = Unpacks(want.fn)
     /\ ink' = Len(lists[1]) - Len(steps) + 1
     /\ IF Compares(want.fn) /\ e.arg # want.arg
          THEN outcome' = "mismatch" /\ UNCHANGED <<right, want, answers>>
          ELSE /\ answers' = Append(answers, Copied(want.fn, e.out))
               /\ right' = (right /\ Copied(want.fn, e.out) = e.out)
               /\ want' = NoCall
               /\ UNCHANGED outcome

\* Mutant: a step of another name is passed over, whatever it is.
OtherStepPassed(e) == UNCHANGED <<right, want, answers, ink, outcome>>

\* A step of another name: pass over it, or panic.
OtherStep(e) ==
  \/ KindName(e) \in Skippable /\ UNCHANGED <<right, want, answers, ink, outcome>>
  \/ KindName(e) \notin Skippable /\ Fails("diverged")

\* One round of the loop in next_hostio.
NextHostio ==
  /\ outcome = "running" /\ want # NoCall
  /\ IF steps = <<>>
       THEN Fails("exhausted") /\ UNCHANGED steps
       ELSE /\ steps' = Tail(steps)
            /\ IF KindName(Head(steps)) = want.fn THEN Answer(Head(steps))
                                                  ELSE OtherStep(Head(steps))
  /\ UNCHANGED <<tracerVars, native, calls>>

\* user_entrypoint returns, with whatever status; the steps left over are not
\* looked at.
ReturnLocally ==
  /\ outcome = "running" /\ want = NoCall
  /\ MayReturn
  /\ outcome' = "returned"
  /\ UNCHANGED <<tracerVars, native, right, steps, want, calls, answers, ink>>

Trace ==
  /\ outcome = "tracing"
  /\ ChainStep
  /\ UNCHANGED <<native, right, localVars>>

Next ==
  \/ Trace \/ NewTrace \/ NextHostio \/ ReturnLocally
  \/ \E fn \in LocalFuns, a \in Values : CallHostio([fn |-> fn, arg |-> a])

Spec == Init /\ [][Next]_vars

-----------------------------------------------------------------------------
TypeOK ==
  /\ TracerTypeOK
  /\ native \in BOOLEAN /\ right \in BOOLEAN
  /\ outcome \in Outcomes
  /\ steps \in Seq(Entry)
  /\ want \in Call \cup {NoCall}
  /\ calls \in Seq(Call)
  /\ answers \in Seq(Nat)
  /\ ink \in Nat

\* Whatever library was found, its n-th host function is answered with the
\* result of the n-th call that the contract made on chain, or not at all: the
\* same function, the same arguments where they are compared.  That is so where
\* Used leaves out account_code, whose result is copied wrong (misfits, below),
\* and pay_for_memory_grow, which contracts leave to the virtual machine.  What the virtual
\* machine records in between, and the steps of nested frames, are never taken
\* for an answer.  So a replay that completes has followed the chain's run from
\* its beginning.
Lockstep ==
  \A n \in 1 .. Len(answers) :
    /\ n <= Len(program)
    /\ calls[n].fn = program[n].fn
    /\ Compares(calls[n].fn) => calls[n].arg = program[n].arg
    /\ answers[n] = log[1][program[n].at].out

\* Some frame has a step that is like this.
SomeStep(P(_)) == \E i \in 1 .. Len(log) : \E k \in 1 .. Len(log[i]) : P(log[i][k])

PrintsNumber(e) == e.name = "console_log"
Unnamed(e) == e.name = ""
Unreported(e) == ~e.hostio

\* A trace is refused as unreadable only if some frame prints a number or is of
\* a type that query.js has no name for, or the trace came from query.js and
\* shows a frame that no host function reports: a creation, or a call by an EVM
\* contract.  Calls between Stylus contracts are always readable.
UnreadableMeansUnreported ==
  outcome = "unparsed" =>
    SomeStep(PrintsNumber) \/ SomeStep(Unnamed) \/ (~native /\ SomeStep(Unreported))

\* The host functions that hostio.rs and trace.rs do not agree about, or whose
\* result is not what was recorded.
Misfits == Prints \cup {"math_mul_mod", "account_code"}

\* The replay of the right contract runs to its end, if each frame of the
\* transaction was opened by a host function other than a creation and no frame
\* printed a number: calls between Stylus contracts, however they nest, never
\* stop it.  It is not so where a contract is created or an EVM contract calls
\* another (EvmCallsParse), where the contract itself called one of the misfits,
\* or where its run on chain was cut short and so goes further here.
RightContractReplays ==
  /\ top = "stylus" /\ right /\ ~cut
  /\ ~SomeStep(PrintsNumber) /\ ~SomeStep(Unreported)
  /\ \A n \in 1 .. Len(program) : program[n].fn \notin Misfits
  => outcome \in {"tracing", "running", "returned"}

-----------------------------------------------------------------------------
(* What the source says of itself and the code does not keep to.           *)

\* trace.rs, parse_evm_call, the test of a call made by an EVM contract: it
\* parses.  So a trace that prints nothing is readable.
EvmCallsParse == outcome = "unparsed" => SomeStep(PrintsNumber)
=============================================================================
