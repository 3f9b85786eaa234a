------------------------------- MODULE Tracer -------------------------------
(***************************************************************************)
(* query.js, the tracer the tool sends to the node, and the execution that *)
(* drives it.  The node calls "enter" and "exit" around every EVM frame    *)
(* but the outermost, and "hostio" after every host function of a Stylus   *)
(* frame, so a call made by a Stylus contract is reported twice: as the    *)
(* frame that opened, then as a host function, and the tracer joins them.  *)
(*                                                                         *)
(* JavaScript arrays are shared by reference: `lists` is the heap they     *)
(* live in, an entry's `sub` is the index of its `steps` array.            *)
(***************************************************************************)
EXTENDS Hostio, Sequences

CONSTANTS
  Types,      \* the EVM frames that calls open
  Used,       \* the host functions, other than calls, that contracts use
  Values,     \* what the outermost contract passes to host functions
  Tops,       \* what the transaction may be sent to
  MaxFrames,  \* bound: frames of a transaction
  MaxSteps    \* bound: steps of a frame

ASSUME TracerConstants ==
  /\ Types \subseteq {"CALL", "DELEGATECALL", "STATICCALL", "CREATE", "CREATE2",
                      "SELFDESTRUCT", "CALLCODE"}
  /\ Used \subseteq Funs \ (Nested \cup Creating)
  /\ Values \subseteq Nat
  /\ Tops \subseteq {"stylus", "evm", "arbwasm"}
  /\ MaxFrames \in Nat \ {0} /\ MaxSteps \in Nat

VARIABLES
  frames,   \* the EVM's call stack, the running frame last
  log,      \* history: what each frame did, by the number of the frame
  program,  \* history: the host functions the outermost contract called
  cut,      \* history: the outermost frame ran out of ink
  top,      \* what the transaction was sent to
  lists,    \* this.open and everything reachable from it
  open,     \* index of this.open
  stack     \* this.stack

chainVars == <<frames, log, program, cut, top>>
jsVars == <<lists, open, stack>>
tracerVars == <<chainVars, jsVars>>

EnterName(type) == CASE type = "CALL"         -> "evm_call_contract"
                     [] type = "DELEGATECALL" -> "evm_delegate_call_contract"
                     [] type = "STATICCALL"   -> "evm_static_call_contract"
                     [] type = "CREATE"       -> "evm_create1"
                     [] type = "CREATE2"      -> "evm_create2"
                     [] type = "SELFDESTRUCT" -> "evm_self_destruct"
                     [] OTHER                 -> ""

\* The frames that no host function opens.
EvmOnly == {"SELFDESTRUCT", "CALLCODE"}

\* A JSON object of the trace, named for a frame or a step.  `hostio`: it has
\* args, outs, startInk and endInk.  `sub`: it has address and steps; 0: neither.
Entry == [name : {EnterName(type) : type \in Types} \cup StepNames,
          arg : Nat, out : Nat, hostio : BOOLEAN, sub : Nat]

Entered(type, sub) == [name |-> EnterName(type), arg |-> 0, out |-> 0,
                       hostio |-> FALSE, sub |-> sub]
Info(name, arg, out) == [name |-> name, arg |-> arg, out |-> out,
                         hostio |-> TRUE, sub |-> 0]

-----------------------------------------------------------------------------
(* query.js                                                                *)

\* Mutant: one of the three kinds of calls is not joined.
nestsButCalls == {"delegate_call_contract", "static_call_contract"}

nests == {"call_contract", "delegate_call_contract", "static_call_contract"}

\* name.substring(4): it removes "evm_", or four letters of another name.
Stripped(name) ==
  IF \E type \in {"CALL", "DELEGATECALL", "STATICCALL"} : name = EnterName(type)
    THEN CallOf(CHOOSE type \in {"CALL", "DELEGATECALL", "STATICCALL"} :
                  name = EnterName(type))
    ELSE "cut name"

LastOf(s) == s[Len(s)]
ButLast(s) == SubSeq(s, 1, Len(s) - 1)

\* Object.assign(info, open.pop()): every field that the last entry has.
Joined(info, last) ==
  [(IF last.hostio THEN last ELSE [info EXCEPT !.sub = last.sub])
     EXCEPT !.name = Stripped(last.name)]

hostio(info) ==
  /\ lists' = [lists EXCEPT ![open] =
       IF info.name \in nests
         THEN IF @ = <<>> THEN <<[info EXCEPT !.name = Stripped(@)]>>
                          ELSE Append(ButLast(@), Joined(info, LastOf(@)))
         ELSE Append(@, info)]
  /\ UNCHANGED <<open, stack>>

\* Mutant: the frame's own list is not kept.
enterUnlisted(type) ==
  /\ lists' = [lists EXCEPT ![open] = Append(@, Entered(type, Len(lists) + 1))]
  /\ stack' = Append(stack, open)
  /\ open' = Len(lists) + 1

enter(type) ==
  LET inner == Len(lists) + 1 IN
  /\ lists' = Append([lists EXCEPT ![open] = Append(@, Entered(type, inner))],
                     <<>>)
  /\ stack' = Append(stack, open)
  /\ open' = inner

\* Mutant: the outermost list is taken instead of the caller's.
exitToOutermost ==
  /\ open' = stack[1]
  /\ stack' = ButLast(stack)
  /\ UNCHANGED lists

exit ==
  /\ open' = LastOf(stack)
  /\ stack' = ButLast(stack)
  /\ UNCHANGED lists

-----------------------------------------------------------------------------
(* The execution (the node, which is not in the repository).               *)

\* A frame: its number; what runs in it; the type of the call it makes or has
\* just returned from, and the number of the frame that opened.
Frame == [id : Nat, vm : {"stylus", "evm", "arbwasm"},
          state : {"new", "running", "returned"},
          call : Types \cup {"none"}, callee : Nat]

NewFrame(id, vm) == [id |-> id, vm |-> vm, state |-> "new", call |-> "none",
                     callee |-> 0]

Running == LastOf(frames)
Outermost == Len(frames) = 1

TracerInit ==
  /\ top \in Tops
  /\ frames = <<NewFrame(1, top)>>
  /\ log = << <<>> >>
  /\ program = <<>>
  /\ cut = FALSE
  /\ lists = << <<>> >>
  /\ open = 1
  /\ stack = <<>>

\* The running frame becomes `f`, after a step that the log shows as `e`.
Logs(f, e) ==
  /\ frames' = [frames EXCEPT ![Len(frames)] = f]
  /\ log' = [log EXCEPT ![Running.id] = Append(@, e)]

InkLeft == Len(log[Running.id]) < MaxSteps

\* Bound: arguments vary in the outermost frame only; results are told apart by
\* where they are returned.
Arguments == IF Outermost THEN Values ELSE {0}
Result == (MaxSteps + 2) * Running.id + Len(log[Running.id])

\* A step the virtual machine takes itself.
VmStep(name, state) ==
  /\ Logs([Running EXCEPT !.state = state], Info(name, 0, 0))
  /\ hostio(Info(name, 0, 0))
  /\ UNCHANGED <<program, cut, top>>

Entrypoint ==
  /\ Running.vm = "stylus" /\ Running.state = "new"
  /\ VmStep("user_entrypoint", "running")

Idle == Running.state = "running" /\ Running.call = "none"

GrowMemory ==
  /\ Running.vm = "stylus" /\ Idle /\ InkLeft
  /\ VmStep("pay_for_memory_grow", "running")

Return ==
  /\ Running.vm = "stylus" /\ Idle
  /\ VmStep("user_returned", "returned")

\* The program of the outermost contract, with where the log shows each call.
Programs(fn, arg) ==
  program' = IF Outermost THEN Append(program, [fn |-> fn, arg |-> arg,
                                                at |-> Len(log[1]) + 1])
                          ELSE program

\* A host function that opens no frame.
Uses(fn) ==
  \E a \in Arguments :
    LET info == Info(Recorded(fn), a, Result) IN
    /\ Running.vm = "stylus" /\ Idle /\ InkLeft
    /\ Logs(Running, info)
    /\ Programs(fn, a)
    /\ hostio(info)
    /\ UNCHANGED <<cut, top>>

\* A call: a Stylus contract makes five kinds of them, an EVM contract seven.
\* What an EVM frame runs is a contract, or the code that creates one, or
\* nothing when it stands for a self-destruction.
Calls(type, vm) ==
  /\ Running.call = "none" /\ InkLeft /\ Len(log) < MaxFrames
  /\ IF Running.vm = "stylus" THEN Idle /\ type \notin EvmOnly
                              ELSE Running.state # "returned"
  /\ type \in {"CREATE", "CREATE2", "SELFDESTRUCT"} => vm = "evm"
  /\ LET n == Len(log) + 1 IN
       /\ frames' = Append([frames EXCEPT ![Len(frames)] =
                              [@ EXCEPT !.call = type, !.callee = n]],
                           [NewFrame(n, vm) EXCEPT
                              !.state = IF type = "SELFDESTRUCT" THEN "returned"
                                                                 ELSE "new"])
       /\ log' = Append(log, <<>>)
  /\ enter(type)
  /\ UNCHANGED <<program, cut, top>>

\* The running frame ends.  An EVM caller goes on; a Stylus caller has a host
\* function to report first.
Ends ==
  /\ ~Outermost
  /\ Running.vm = "stylus" => Running.state = "returned"
  /\ LET p == Len(frames) - 1
         caller == frames[p]
         byCode == caller.vm = "stylus"
         e == Entered(caller.call, caller.callee)
     IN  /\ frames' = [ButLast(frames) EXCEPT ![p] =
               IF byCode THEN @ ELSE [@ EXCEPT !.call = "none"]]
         /\ log' = IF byCode /\ CallOf(caller.call) \in Nested THEN log
                   ELSE [log EXCEPT ![caller.id] = Append(@, e)]
  /\ exit
  /\ UNCHANGED <<program, cut, top>>

\* The host function by which a Stylus contract made its call is reported: a
\* creation is a step of its own, another call is one step with the frame.
Reports ==
  /\ Running.vm = "stylus" /\ Running.call # "none"
  /\ \E a \in Arguments :
       LET name == CallOf(Running.call)
           info == Info(name, a, Result)
       IN  /\ Logs([Running EXCEPT !.call = "none"],
                   IF name \in Nested THEN [info EXCEPT !.sub = Running.callee]
                                      ELSE info)
           /\ Programs(name, a)
           /\ hostio(info)
  /\ UNCHANGED <<cut, top>>

\* A Stylus frame runs out of ink: it makes no further step.
RunsOut ==
  /\ Running.vm = "stylus" /\ Idle
  /\ frames' = [frames EXCEPT ![Len(frames)] = [@ EXCEPT !.state = "returned"]]
  /\ cut' = (cut \/ Outermost)
  /\ UNCHANGED <<log, program, top, jsVars>>

ChainStep ==
  \/ Entrypoint \/ GrowMemory \/ Return \/ Ends \/ Reports \/ RunsOut
  \/ \E fn \in Used : Uses(fn)
  \/ \E type \in Types, vm \in {"stylus", "evm"} : Calls(type, vm)

\* The transaction is over, and the tracer's result is asked for.
Executed ==
  /\ Outermost /\ Running.call = "none"
  /\ Running.vm = "stylus" => Running.state = "returned"

-----------------------------------------------------------------------------
TracerTypeOK ==
  /\ frames \in Seq(Frame) /\ frames # <<>>
  /\ \A i \in 1 .. Len(log) : log[i] \in Seq(Entry)
  /\ \A i \in 1 .. Len(program) :
       program[i] \in [fn : Funs, arg : Values, at : Nat]
  /\ cut \in BOOLEAN /\ top \in Tops
  /\ Len(lists) = Len(log)
  /\ \A i \in 1 .. Len(lists) : lists[i] \in Seq(Entry)
  /\ open \in 1 .. Len(lists)
  /\ stack \in Seq(1 .. Len(lists))

\* What the list of a frame holds besides the frame's finished steps: the entry
\* of the frame it has called, until that call is reported.
Unfinished(p) ==
  LET f == frames[p] IN
  IF \/ f.call = "none"
     \/ p = Len(frames) /\ CallOf(f.call) \in Creating
    THEN <<>>
    ELSE <<Entered(f.call, f.callee)>>

\* The trace is the execution: each frame's list holds the steps the frame made,
\* in their order, each call joined with the steps of the frame it opened and
\* with no others, however deep the calls nest and whatever runs in them.
TracedAsExecuted ==
  /\ open = Running.id
  /\ stack = [p \in 1 .. Len(frames) - 1 |-> frames[p].id]
  /\ \A p \in 1 .. Len(frames) :
       lists[frames[p].id] = log[frames[p].id] \o Unfinished(p)
  /\ \A i \in 1 .. Len(lists) :
       (\A p \in 1 .. Len(frames) : frames[p].id # i) => lists[i] = log[i]
=============================================================================
