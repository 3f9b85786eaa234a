---------------------------- MODULE ReplayProofs ----------------------------
(***************************************************************************)
(* Proofs about Replay, for every set of host functions, every nesting of  *)
(* frames and every local library: the trace that is parsed is the         *)
(* execution, the frame reader stays inside it, and what is handed back    *)
(* locally is what was handed back on chain.                               *)
(***************************************************************************)
EXTENDS Replay, SequenceFacts

\* The variables are sequences of what they hold.
TraceTypes ==
  /\ frames \in Seq(Frame) /\ frames # <<>>
  /\ log \in Seq(Seq(Entry)) /\ lists \in Seq(Seq(Entry))
  /\ Len(lists) = Len(log)
  /\ program \in Seq([fn : Funs, arg : Values, at : Nat])
  /\ cut \in BOOLEAN /\ top \in Tops

\* The frames that are open: each has a number of its own, waits for the frame
\* above it, and a Stylus frame waits only while it runs.
StackInv ==
  /\ frames[1].id = 1
  /\ \A p \in 1 .. Len(frames) : frames[p].id \in 1 .. Len(log)
  /\ \A p, q \in 1 .. Len(frames) : p # q => frames[p].id # frames[q].id
  /\ \A p \in 1 .. Len(frames) - 1 : frames[p].call # "none"
  /\ \A p \in 1 .. Len(frames) :
       frames[p].vm = "stylus" =>
         /\ frames[p].call \notin EvmOnly
         /\ frames[p].call # "none" => frames[p].state = "running"
  /\ Running.call # "none" => Running.vm = "stylus"

TracerInv == TraceTypes /\ StackInv /\ TracedAsExecuted

-----------------------------------------------------------------------------
(* Names and entries.                                                      *)

Opening == {"CALL", "DELEGATECALL", "STATICCALL"}
Making == {"CREATE", "CREATE2"}

\* The host function that reports a call, by what the call opens.
LEMMA CallNames ==
  /\ \A type \in Opening : CallOf(type) \in Nested /\ CallOf(type) \notin Creating
  /\ \A type \in Making : CallOf(type) \in Creating /\ CallOf(type) \notin Nested
  /\ nests = Nested
BY DEF Opening, Making, CallOf, Nested, Creating, nests

\* query.js finds the name of the host function in the name of the frame.
LEMMA StrippedNames ==
  ASSUME NEW type \in Opening
  PROVE  Stripped(EnterName(type)) = CallOf(type)
<1>1. \A t, u \in Opening : EnterName(t) = EnterName(u) => t = u
  BY DEF Opening, EnterName
<1>2. \E t \in Opening : EnterName(type) = EnterName(t)
  OBVIOUS
<1>3. (CHOOSE t \in Opening : EnterName(type) = EnterName(t)) = type
  BY <1>1, <1>2
<1>4. QED BY <1>2, <1>3 DEF Stripped, Opening

\* Every step is an entry.
LEMMA StepsAreEntries ==
  /\ \A type \in Types, n \in Nat : Entered(type, n) \in Entry
  /\ \A name \in StepNames, arg \in Nat, out \in Nat : Info(name, arg, out) \in Entry
  /\ \A fn \in Funs : Recorded(fn) \in StepNames
BY DEF Entered, Info, Entry, StepNames

\* The program stays a list of calls.
LEMMA ProgramsType ==
  ASSUME TraceTypes, NEW fn \in Funs, NEW a \in Arguments, Programs(fn, a)
  PROVE  program' \in Seq([fn : Funs, arg : Values, at : Nat])
<1>1. CASE Outermost
  <2>1. Len(frames) = 1 /\ a \in Values
    BY <1>1 DEF Outermost, Arguments
  <2>2. Len(log[1]) + 1 \in Nat
    BY DEF TraceTypes
  <2>3. QED BY <1>1, <2>1, <2>2, AppendProperties DEF Programs, TraceTypes
<1>2. CASE ~Outermost
  BY <1>2 DEF Programs, TraceTypes
<1>3. QED BY <1>1, <1>2

\* A result and an argument are numbers.
LEMMA ResultsAreNumbers ==
  ASSUME TraceTypes, StackInv
  PROVE  Result \in Nat /\ Arguments \subseteq Nat
<1>1. Running.id \in 1 .. Len(log) /\ Len(log[Running.id]) \in Nat
  <2>1. Len(frames) \in 1 .. Len(frames)
    BY EmptySeq, LenProperties DEF TraceTypes
  <2>2. Running.id \in 1 .. Len(log)
    BY <2>1 DEF StackInv, Running, LastOf
  <2>3. log[Running.id] \in Seq(Entry)
    BY <2>2, ElementOfSeq DEF TraceTypes
  <2>4. QED BY <2>2, <2>3, LenProperties
<1>2. \A a, b, c \in Nat : (a + 2) * b + c \in Nat
  OBVIOUS
<1>3. Running.id \in Nat /\ MaxSteps \in Nat
  BY <1>1, TracerConstants
<1>4. Result \in Nat
  BY <1>1, <1>2, <1>3 DEF Result
<1>5. QED BY <1>4, TracerConstants DEF Arguments

\* The running frame, its caller and their lists.
LEMMA TopFrame ==
  ASSUME TraceTypes, StackInv
  PROVE  /\ Len(frames) \in Nat \ {0} /\ Len(frames) \in 1 .. Len(frames)
         /\ Running = frames[Len(frames)] /\ Running \in Frame
         /\ Running.id \in 1 .. Len(log)
         /\ \A p \in 1 .. Len(frames) :
              /\ frames[p] \in Frame
              /\ log[frames[p].id] \in Seq(Entry)
              /\ lists[frames[p].id] \in Seq(Entry)
<1>1. Len(frames) \in Nat \ {0}
  BY EmptySeq DEF TraceTypes
<1>2. \A p \in 1 .. Len(frames) : frames[p] \in Frame
  BY ElementOfSeq DEF TraceTypes
<1>3. \A i \in 1 .. Len(log) : log[i] \in Seq(Entry) /\ lists[i] \in Seq(Entry)
  BY ElementOfSeq DEF TraceTypes
<1>4. QED BY <1>1, <1>2, <1>3 DEF StackInv, Running, LastOf

-----------------------------------------------------------------------------
(* The steps of the running frame.                                         *)

\* A frame that waits for nothing has its finished steps in its list.
LEMMA IdleList ==
  ASSUME TracerInv, Running.call = "none"
  PROVE  lists[open] = log[Running.id]
<1>1. Unfinished(Len(frames)) = <<>>
  BY TopFrame DEF Unfinished, TracerInv
<1>2. lists[Running.id] = log[Running.id] \o <<>>
  BY <1>1, TopFrame DEF TracerInv, TracedAsExecuted
<1>3. QED BY <1>2, TopFrame, ConcatEmptySeq DEF TracerInv, TracedAsExecuted

\* A frame waits as before if it and its place on the stack are as before.
LEMMA WaitsAsBefore ==
  ASSUME NEW p, frames'[p] = frames[p], p = Len(frames') <=> p = Len(frames)
  PROVE  Unfinished(p)' = Unfinished(p)
BY DEF Unfinished

\* A step that leaves the running frame with the same steps in the log and in
\* its list, and waiting for nothing, leaves everything else alone.
LEMMA InPlace ==
  ASSUME TracerInv, NEW f \in Frame, NEW l \in Seq(Entry),
         f.id = Running.id, f.call = "none",
         frames' = [frames EXCEPT ![Len(frames)] = f],
         log' = [log EXCEPT ![Running.id] = l],
         lists' = [lists EXCEPT ![open] = l],
         program' \in Seq([fn : Funs, arg : Values, at : Nat]), cut' \in BOOLEAN,
         UNCHANGED <<open, stack, top>>
  PROVE  TracerInv'
<1>1. TraceTypes /\ StackInv /\ TracedAsExecuted /\ open = Running.id
  BY DEF TracerInv, TracedAsExecuted
<1>2. /\ frames' \in Seq(Frame) /\ Len(frames') = Len(frames)
      /\ \A p \in 1 .. Len(frames) :
           frames'[p] = IF p = Len(frames) THEN f ELSE frames[p]
  BY <1>1, TopFrame, ExceptSeq DEF TraceTypes
<1>3. /\ log' \in Seq(Seq(Entry)) /\ Len(log') = Len(log)
      /\ \A i \in 1 .. Len(log) : log'[i] = IF i = Running.id THEN l ELSE log[i]
  BY <1>1, TopFrame, ExceptSeq DEF TraceTypes
<1>4. /\ lists' \in Seq(Seq(Entry)) /\ Len(lists') = Len(lists)
      /\ \A i \in 1 .. Len(lists) : lists'[i] = IF i = Running.id THEN l ELSE lists[i]
  BY SMTT(30), <1>1, TopFrame, ExceptSeq DEF TraceTypes
<1>5. TraceTypes'
  BY <1>1, <1>2, <1>3, <1>4, TopFrame, EmptySeq DEF TraceTypes
<1>6. Running' = f /\ \A p \in 1 .. Len(frames) : frames'[p].id = frames[p].id
  BY <1>1, <1>2, TopFrame DEF Running, LastOf
<1>7. StackInv'
  <2>1. Len(frames) \in Nat \ {0} /\ 1 \in 1 .. Len(frames)
    BY <1>1, TopFrame
  <2>2. frames'[1].id = 1 /\ \A p \in 1 .. Len(frames') : frames'[p].id \in 1 .. Len(log')
    BY <1>1, <1>2, <1>3, <1>6, <2>1 DEF StackInv
  <2>3. \A p, q \in 1 .. Len(frames') : p # q => frames'[p].id # frames'[q].id
    <3>1. \A p, q \in 1 .. Len(frames) : p # q => frames[p].id # frames[q].id
      BY <1>1 DEF StackInv
    <3>2. 1 .. Len(frames') = 1 .. Len(frames)
      BY <1>2
    <3>3. QED BY <1>6, <3>1, <3>2
  <2>4. \A p \in 1 .. Len(frames') - 1 : frames'[p].call # "none"
    <3>1. \A p \in 1 .. Len(frames) - 1 : frames'[p] = frames[p]
      <4>1. \A p \in 1 .. Len(frames) - 1 :
              p \in 1 .. Len(frames) /\ p # Len(frames)
        BY <2>1
      <4>2. QED BY <1>2, <4>1
    <3>2. \A p \in 1 .. Len(frames) - 1 : frames[p].call # "none"
      BY <1>1 DEF StackInv
    <3>3. QED BY <1>2, <3>1, <3>2
  <2>5. ASSUME NEW p \in 1 .. Len(frames'), frames'[p].vm = "stylus"
        PROVE  /\ frames'[p].call \notin EvmOnly
               /\ frames'[p].call # "none" => frames'[p].state = "running"
    <3>1. CASE frames'[p] = f
      BY <3>1 DEF EvmOnly
    <3>2. CASE frames'[p] = frames[p] /\ p \in 1 .. Len(frames)
      BY <1>1, <2>5, <3>2 DEF StackInv
    <3>3. QED BY <1>2, <3>1, <3>2
  <2>6. QED BY <1>6, <2>2, <2>3, <2>4, <2>5 DEF StackInv
<1>8. TracedAsExecuted'
  <2>1. open' = Running'.id
    BY <1>1, <1>6
  <2>2. stack' = [p \in 1 .. Len(frames') - 1 |-> frames'[p].id]
    <3>1. \A p \in 1 .. Len(frames) - 1 : frames'[p].id = frames[p].id
      BY <1>1, <1>6, TopFrame
    <3>2. stack = [p \in 1 .. Len(frames) - 1 |-> frames[p].id] /\ stack' = stack
      BY <1>1 DEF TracedAsExecuted
    <3>3. QED BY <1>2, <3>1, <3>2
  <2>3. ASSUME NEW p \in 1 .. Len(frames')
        PROVE  lists'[frames'[p].id] = log'[frames'[p].id] \o Unfinished(p)'
    <3>1. p \in 1 .. Len(frames) /\ frames[p].id \in 1 .. Len(log)
      BY <1>1, <1>2 DEF StackInv
    <3>2. CASE p = Len(frames)
      <4>1. Unfinished(p)' = <<>>
        BY <1>2, <3>2, TopFrame DEF Unfinished
      <4>2. lists'[frames'[p].id] = l /\ log'[frames'[p].id] = l
        BY <1>1, <1>3, <1>4, <1>6, <3>1, <3>2, TopFrame DEF TraceTypes
      <4>3. QED BY <4>1, <4>2, ConcatEmptySeq
    <3>3. CASE p # Len(frames)
      <4>1. frames[p].id # Running.id
        BY <1>1, <3>1, <3>3, TopFrame DEF StackInv
      <4>2. frames'[p] = frames[p] /\ Unfinished(p)' = Unfinished(p)
        <5>1. frames'[p] = frames[p] /\ Len(frames') = Len(frames)
          BY <1>2, <3>1, <3>3
        <5>2. QED BY <5>1, WaitsAsBefore
      <4>3. lists'[frames'[p].id] = lists[frames[p].id]
            /\ log'[frames'[p].id] = log[frames[p].id]
        BY <1>1, <1>3, <1>4, <3>1, <4>1, <4>2 DEF TraceTypes
      <4>4. QED BY <1>1, <3>1, <4>2, <4>3 DEF TracedAsExecuted
    <3>4. QED BY <3>2, <3>3
  <2>4. ASSUME NEW i \in 1 .. Len(lists'),
               \A p \in 1 .. Len(frames') : frames'[p].id # i
        PROVE  lists'[i] = log'[i]
    <3>1. i # Running.id /\ i \in 1 .. Len(lists) /\ i \in 1 .. Len(log)
      BY <1>1, <1>2, <1>4, <1>6, <2>4, TopFrame DEF TraceTypes
    <3>2. lists[i] = log[i]
      BY <1>1, <1>2, <1>6, <2>4, <3>1 DEF TracedAsExecuted
    <3>3. QED BY <1>3, <1>4, <3>1, <3>2
  <2>5. QED BY <2>1, <2>2, <2>3, <2>4 DEF TracedAsExecuted
<1>9. QED BY <1>5, <1>7, <1>8 DEF TracerInv

\* What the virtual machine records is not the name of a call.
LEMMA VmNames ==
  /\ Skippable \subseteq StepNames
  /\ \A name \in Skippable : name \notin nests
BY DEF Skippable, StepNames, nests

\* Nor is the name of a host function that opens no frame.
LEMMA UsedNames ==
  ASSUME NEW fn \in Used
  PROVE  fn \in Funs /\ Recorded(fn) \in StepNames /\ Recorded(fn) \notin nests
<1>1. fn \in Funs /\ fn \notin nests
  BY TracerConstants, CallNames
<1>2. QED BY <1>1, StepsAreEntries DEF Recorded, nests

\* A step that the virtual machine takes itself is traced.
LEMMA VmStepTraced ==
  ASSUME TracerInv, Running.call = "none", NEW name \in Skippable,
         NEW state \in {"running", "returned"}, VmStep(name, state)
  PROVE  TracerInv'
<1> DEFINE info == Info(name, 0, 0)
           f == [Running EXCEPT !.state = state]
           l == Append(log[Running.id], info)
<1>1. info \in Entry /\ info.name \notin nests
  BY VmNames, StepsAreEntries DEF Info
<1>2. Running \in Frame /\ log[Running.id] \in Seq(Entry)
  BY TopFrame DEF TracerInv
<1>3. f \in Frame /\ f.id = Running.id /\ f.call = "none" /\ l \in Seq(Entry)
  BY <1>1, <1>2, AppendProperties DEF Frame
<1>4. /\ frames' = [frames EXCEPT ![Len(frames)] = f]
      /\ log' = [log EXCEPT ![Running.id] = l]
  BY DEF VmStep, Logs
<1>5. lists' = [lists EXCEPT ![open] = l] /\ UNCHANGED <<open, stack>>
  BY <1>1, IdleList DEF VmStep, hostio
<1>6. QED
  BY <1>3, <1>4, <1>5, InPlace DEF VmStep, TracerInv, TraceTypes

\* A host function that opens no frame is traced.
LEMMA UsesTraced ==
  ASSUME TracerInv, NEW fn \in Used, Uses(fn)
  PROVE  TracerInv'
<1>1. PICK a \in Arguments :
        /\ Logs(Running, Info(Recorded(fn), a, Result))
        /\ Programs(fn, a)
        /\ hostio(Info(Recorded(fn), a, Result))
  BY DEF Uses
<1> DEFINE info == Info(Recorded(fn), a, Result)
           l == Append(log[Running.id], info)
<1>2. info \in Entry /\ info.name \notin nests
  <2>1. a \in Nat /\ Result \in Nat
    BY ResultsAreNumbers DEF TracerInv
  <2>2. QED BY <2>1, UsedNames, StepsAreEntries DEF Info
<1>3. Running \in Frame /\ Running.call = "none" /\ log[Running.id] \in Seq(Entry)
  BY TopFrame DEF TracerInv, Uses, Idle
<1>4. l \in Seq(Entry)
  BY <1>2, <1>3, AppendProperties
<1>5. /\ frames' = [frames EXCEPT ![Len(frames)] = Running]
      /\ log' = [log EXCEPT ![Running.id] = l]
  BY <1>1 DEF Logs
<1>6. lists' = [lists EXCEPT ![open] = l] /\ UNCHANGED <<open, stack>>
  BY <1>1, <1>2, <1>3, IdleList DEF hostio
<1>7. program' \in Seq([fn : Funs, arg : Values, at : Nat])
  BY <1>1, UsedNames, ProgramsType DEF TracerInv
<1>8. QED
  BY <1>3, <1>4, <1>5, <1>6, <1>7, InPlace DEF Uses, TracerInv, TraceTypes

\* A frame that runs out of ink changes nothing in the trace.
LEMMA RunsOutTraced == ASSUME TracerInv, RunsOut PROVE TracerInv'
<1> DEFINE f == [Running EXCEPT !.state = "returned"]
<1>1. /\ Running \in Frame /\ Running.call = "none" /\ log[Running.id] \in Seq(Entry)
      /\ Running.id \in 1 .. Len(log) /\ Running = frames[Len(frames)]
  BY TopFrame DEF TracerInv, RunsOut, Idle
<1>2. f \in Frame /\ f.id = Running.id /\ f.call = "none"
  BY <1>1 DEF Frame
<1>3. frames' = [frames EXCEPT ![Len(frames)] = f]
  BY <1>1 DEF RunsOut
<1>4. log \in [1 .. Len(log) -> Seq(Entry)] /\ lists \in [1 .. Len(lists) -> Seq(Entry)]
  BY LenProperties DEF TracerInv, TraceTypes
<1>5. log' = [log EXCEPT ![Running.id] = log[Running.id]]
  BY <1>1, <1>4 DEF RunsOut
<1>6. lists' = [lists EXCEPT ![open] = log[Running.id]] /\ UNCHANGED <<open, stack>>
  BY <1>1, <1>4, IdleList DEF RunsOut, jsVars
<1>7. QED
  BY <1>1, <1>2, <1>3, <1>5, <1>6, InPlace DEF RunsOut, Outermost, TracerInv, TraceTypes

\* An entry that is appended can be taken off again.
LEMMA AppendThenPop ==
  ASSUME NEW S, NEW s \in Seq(S), NEW e \in S
  PROVE  /\ s \o <<e>> = Append(s, e) /\ s \o <<e>> # <<>>
         /\ LastOf(s \o <<e>>) = e
         /\ ButLast(s \o <<e>>) = s
<1>1. s \o <<e>> = Append(s, e) /\ Len(s) \in Nat
  BY LenProperties, AppendIsConcat
<1>2. /\ Append(s, e) \in Seq(S) /\ Append(s, e) # <<>>
      /\ Len(Append(s, e)) = Len(s) + 1
      /\ Append(s, e)[Len(s) + 1] = e
      /\ \A i \in 1 .. Len(s) : Append(s, e)[i] = s[i]
  BY AppendProperties
<1>3. ButLast(Append(s, e)) = s
  <2>1. ButLast(Append(s, e)) = SubSeq(Append(s, e), 1, Len(s))
    BY <1>1, <1>2 DEF ButLast
  <2> DEFINE u == SubSeq(Append(s, e), 1, Len(s))
  <2>2. /\ u \in Seq(S)
        /\ Len(u) = (IF 1 <= Len(s) THEN Len(s) - 1 + 1 ELSE 0)
        /\ \A i \in 1 .. Len(s) - 1 + 1 : u[i] = Append(s, e)[1 + i - 1]
    <3>1. \A i \in 1 .. Len(s) : Append(s, e)[i] \in S
      BY <1>2
    <3>2. 1 \in Int /\ Len(s) \in Int
      BY <1>1
    <3> HIDE DEF u
    <3>3. QED BY <3>1, <3>2, SubSeqProperties DEF u
  <2> HIDE DEF u
  <2>3. Len(u) = Len(s) /\ \A i \in 1 .. Len(s) : u[i] = s[i]
    BY <1>1, <1>2, <2>2
  <2>4. u = s
    BY <2>2, <2>3, SeqEqual
  <2>5. QED BY <2>1, <2>4 DEF u
<1>4. QED BY <1>1, <1>2, <1>3 DEF LastOf

\* The call of a Stylus contract is of one of the kinds that it can make.
LEMMA ReportedCalls ==
  ASSUME TracerInv, Running.vm = "stylus", Running.call # "none"
  PROVE  Running.call \in Opening \cup Making /\ Running.call \in Types
<1>1. Running.call \in Types /\ Running.call \notin EvmOnly
  BY TopFrame DEF TracerInv, StackInv, Frame
<1>2. QED BY <1>1, TracerConstants DEF Opening, Making, EvmOnly

\* It is recorded under its own name.
LEMMA ReportNames ==
  ASSUME NEW name \in Nested \cup Creating
  PROVE  name \in Funs /\ Recorded(name) = name
<1>1. name \in Funs
  BY DEF Funs
<1>2. name \notin Numbers /\ name # "log_txt"
  BY DEF Nested, Creating, CallOf, Numbers
<1>3. QED BY <1>1, <1>2 DEF Recorded

\* The host function that a call was made by is joined with the entry of the
\* frame it opened, and a creation becomes a step of its own.
LEMMA ReportsTraced == ASSUME TracerInv, Reports PROVE TracerInv'
<1> DEFINE name == CallOf(Running.call)
           type == Running.call
           f == [Running EXCEPT !.call = "none"]
<1>1. PICK a \in Arguments :
        /\ Logs(f, IF name \in Nested
                     THEN [Info(name, a, Result) EXCEPT !.sub = Running.callee]
                     ELSE Info(name, a, Result))
        /\ Programs(name, a)
        /\ hostio(Info(name, a, Result))
  BY DEF Reports
<1> DEFINE info == Info(name, a, Result)
           joined == [info EXCEPT !.sub = Running.callee]
           seen == Entered(type, Running.callee)
           l == Append(log[Running.id], IF name \in Nested THEN joined ELSE info)
<1>2. /\ type \in Opening \cup Making /\ type \in Types
      /\ Running \in Frame /\ log[Running.id] \in Seq(Entry)
      /\ Len(frames) \in 1 .. Len(frames) /\ Running = frames[Len(frames)]
  BY ReportedCalls, TopFrame DEF TracerInv, Reports
<1>3. name \in Funs /\ name \in StepNames
  <2>1. name \in Nested \cup Creating
    BY <1>2, CallNames
  <2>2. name \in Funs /\ Recorded(name) = name
    BY <2>1, ReportNames
  <2>3. QED BY <2>2, StepsAreEntries
<1>4. info \in Entry /\ joined \in Entry /\ seen \in Entry /\ info.name = name
      /\ Running.callee \in Nat
  <2>1. a \in Nat /\ Result \in Nat /\ Running.callee \in Nat
    BY <1>2, ResultsAreNumbers DEF TracerInv, Frame
  <2>2. info \in Entry /\ seen \in Entry
    BY <1>2, <1>3, <2>1, StepsAreEntries
  <2>3. QED BY <2>1, <2>2 DEF Info, Entry
<1>5. f \in Frame /\ f.id = Running.id /\ f.call = "none"
  BY <1>2 DEF Frame
<1>6. l \in Seq(Entry)
  BY <1>2, <1>4, AppendProperties
<1>7. /\ frames' = [frames EXCEPT ![Len(frames)] = f]
      /\ log' = [log EXCEPT ![Running.id] = l]
  BY <1>1 DEF Logs
<1>8. lists[open] = log[Running.id] \o Unfinished(Len(frames))
  BY <1>2 DEF TracerInv, TracedAsExecuted
<1>9. lists' = [lists EXCEPT ![open] = l]
  <2>1. CASE type \in Opening
    <3>1. name \in Nested /\ name \in nests /\ name \notin Creating
      BY <2>1, CallNames
    <3>2. Unfinished(Len(frames)) = <<seen>>
      BY <1>2, <3>1 DEF Unfinished, Reports
    <3>3. /\ lists[open] # <<>>
          /\ LastOf(lists[open]) = seen /\ ButLast(lists[open]) = log[Running.id]
      BY <1>2, <1>4, <1>8, <3>2, AppendThenPop
    <3>4. Joined(info, seen) = joined
      <4>1. seen.hostio = FALSE /\ seen.sub = Running.callee
            /\ seen.name = EnterName(type)
        BY DEF Entered
      <4>2. Joined(info, seen) = [joined EXCEPT !.name = name]
        BY <2>1, <4>1, StrippedNames DEF Joined
      <4>3. joined.name = name /\ DOMAIN joined = DOMAIN info
        BY <1>4 DEF Info
      <4>4. QED BY <1>4, <4>2, <4>3 DEF Entry
    <3>5. QED BY <1>1, <1>4, <3>1, <3>3, <3>4 DEF hostio
  <2>2. CASE type \in Making
    <3>1. name \in Creating /\ name \notin nests /\ name \notin Nested
      BY <2>2, CallNames
    <3>2. Unfinished(Len(frames)) = <<>>
      BY <1>2, <3>1 DEF Unfinished
    <3>3. lists[open] = log[Running.id]
      BY <1>2, <1>8, <3>2, ConcatEmptySeq
    <3>4. QED BY <1>1, <1>4, <3>1, <3>3 DEF hostio
  <2>3. QED BY <1>2, <2>1, <2>2
<1>10. program' \in Seq([fn : Funs, arg : Values, at : Nat])
  BY <1>1, <1>3, ProgramsType DEF TracerInv
<1>11. UNCHANGED <<open, stack>>
  BY <1>1 DEF hostio
<1>12. QED
  BY <1>5, <1>6, <1>7, <1>9, <1>10, <1>11, InPlace DEF Reports, TracerInv, TraceTypes

-----------------------------------------------------------------------------
(* Frames that open and end.                                               *)

\* A call opens a frame with a list of its own, and its caller waits.
LEMMA CallsTraced ==
  ASSUME TracerInv, NEW type \in Types, NEW vm \in {"stylus", "evm"}, Calls(type, vm)
  PROVE  TracerInv'
<1> DEFINE n == Len(log) + 1
           L == Len(frames)
           caller == [frames[L] EXCEPT !.call = type, !.callee = n]
           callee == [NewFrame(n, vm) EXCEPT
                        !.state = IF type = "SELFDESTRUCT" THEN "returned" ELSE "new"]
           waiting == [frames EXCEPT ![L] = caller]
           seen == Entered(type, n)
<1>1. TraceTypes /\ StackInv /\ TracedAsExecuted /\ open = Running.id
  BY DEF TracerInv, TracedAsExecuted
<1>2. /\ L \in Nat \ {0} /\ L \in 1 .. L /\ Running = frames[L] /\ frames[L] \in Frame
      /\ Len(log) \in Nat /\ Len(lists) = Len(log) /\ n \in Nat
      /\ Running.id \in 1 .. Len(log)
  BY <1>1, TopFrame, LenProperties DEF TraceTypes
<1>3. caller \in Frame /\ callee \in Frame /\ seen \in Entry /\ type # "none"
  <2>1. caller \in Frame
    BY <1>2 DEF Frame
  <2>2. callee \in Frame
    BY <1>2 DEF Frame, NewFrame
  <2>3. QED BY <1>2, <2>1, <2>2, StepsAreEntries, TracerConstants
<1>4. /\ frames' = Append(waiting, callee)
      /\ log' = Append(log, <<>>)
      /\ lists' = Append([lists EXCEPT ![open] = Append(@, seen)], <<>>)
      /\ stack' = Append(stack, open) /\ open' = n
  <2>1. frames[L] = [frames[L] EXCEPT !.call = frames[L].call]
    BY <1>2 DEF Frame
  <2>2. frames' = Append(waiting, callee) /\ log' = Append(log, <<>>)
    BY DEF Calls
  <2>3. QED BY <1>2, <2>2 DEF Calls, enter
<1>5. /\ frames' \in Seq(Frame) /\ Len(frames') = L + 1 /\ frames' # <<>>
      /\ frames'[L + 1] = callee /\ frames'[L] = caller
      /\ \A p \in 1 .. L - 1 : frames'[p] = frames[p]
  <2>1. /\ waiting \in Seq(Frame) /\ Len(waiting) = L
        /\ \A p \in 1 .. L : waiting[p] = IF p = L THEN caller ELSE frames[p]
    BY <1>1, <1>2, <1>3, ExceptSeq DEF TraceTypes
  <2> HIDE DEF waiting, caller, callee
  <2>2. /\ frames' \in Seq(Frame) /\ Len(frames') = L + 1 /\ frames' # <<>>
        /\ frames'[L + 1] = callee
        /\ \A p \in 1 .. L : frames'[p] = waiting[p]
    BY SMTT(30), <1>3, <1>4, <2>1, AppendProperties
  <2>3. \A p \in 1 .. L - 1 : p \in 1 .. L /\ p # L
    BY <1>2
  <2>4. QED BY <1>2, <2>1, <2>2, <2>3
<1>6. /\ log' \in Seq(Seq(Entry)) /\ Len(log') = n /\ log'[n] = <<>>
      /\ \A i \in 1 .. Len(log) : log'[i] = log[i]
  <2>1. <<>> \in Seq(Entry)
    BY EmptySeq
  <2>2. QED BY <1>1, <1>4, <2>1, AppendProperties DEF TraceTypes
<1>7. lists[open] = log[open] /\ lists[open] \in Seq(Entry)
  <2>1. Running.call = "none"
    BY DEF Calls
  <2>2. QED BY <1>1, <1>2, <2>1, IdleList, TopFrame
<1>8. /\ lists' \in Seq(Seq(Entry)) /\ Len(lists') = n /\ lists'[n] = <<>>
      /\ \A i \in 1 .. Len(log) :
           lists'[i] = IF i = open THEN Append(log[i], seen) ELSE lists[i]
  <2> DEFINE kept == [lists EXCEPT ![open] = Append(lists[open], seen)]
  <2>1. Append(lists[open], seen) \in Seq(Entry) /\ <<>> \in Seq(Entry)
    BY <1>3, <1>7, AppendProperties, EmptySeq
  <2>2. /\ kept \in Seq(Seq(Entry)) /\ Len(kept) = Len(log)
        /\ \A i \in 1 .. Len(log) :
             kept[i] = IF i = open THEN Append(lists[open], seen) ELSE lists[i]
    BY SMTT(30), <1>1, <1>2, <2>1, ExceptSeq DEF TraceTypes
  <2>3. lists' = Append(kept, <<>>)
    BY <1>4
  <2> HIDE DEF kept
  <2>4. QED BY <1>7, <2>1, <2>2, <2>3, AppendProperties
<1>9. TraceTypes'
  BY <1>1, <1>5, <1>6, <1>8 DEF TraceTypes, Calls
<1>10. /\ Running' = callee /\ callee.id = n /\ callee.call = "none"
       /\ \A p \in 1 .. L : frames'[p].id = frames[p].id
       /\ caller.call = type /\ caller.callee = n /\ caller.vm = frames[L].vm
       /\ caller.state = frames[L].state /\ callee.vm = vm
  <2>1. caller.id = frames[L].id /\ caller.call = type /\ caller.callee = n
        /\ caller.vm = frames[L].vm /\ caller.state = frames[L].state
    BY <1>2 DEF Frame
  <2>2. callee.id = n /\ callee.call = "none" /\ callee.vm = vm
    BY DEF NewFrame
  <2>3. \A p \in 1 .. L : p = L \/ p \in 1 .. L - 1
    BY <1>2
  <2>4. QED BY <1>2, <1>5, <2>1, <2>2, <2>3 DEF Running, LastOf
<1> HIDE DEF caller, callee, waiting, seen
<1>11. StackInv'
  <2>1. frames'[1].id = 1
    <3>1. 1 \in 1 .. L
      BY <1>2
    <3>2. QED BY <1>1, <1>10, <3>1 DEF StackInv
  <2>2. \A p \in 1 .. L : frames'[p].id \in 1 .. Len(log)
    BY <1>1, <1>10 DEF StackInv
  <2>3. \A p \in 1 .. L + 1 : p \in 1 .. L \/ p = L + 1
    BY <1>2
  <2>4. n \in 1 .. n /\ n \notin 1 .. Len(log) /\ 1 .. Len(log) \subseteq 1 .. n
    BY <1>2
  <2>5. \A p \in 1 .. Len(frames') : frames'[p].id \in 1 .. Len(log')
    BY <1>5, <1>6, <1>10, <2>2, <2>3, <2>4
  <2>6. \A p, q \in 1 .. Len(frames') : p # q => frames'[p].id # frames'[q].id
    <3>1. \A p, q \in 1 .. L : p # q => frames'[p].id # frames'[q].id
      BY <1>1, <1>10 DEF StackInv
    <3>2. frames'[L + 1].id = n
      BY <1>5, <1>10
    <3>3. QED BY <1>5, <2>2, <2>3, <2>4, <3>1, <3>2
  <2>7. \A p \in 1 .. Len(frames') - 1 : frames'[p].call # "none"
    <3>1. \A p \in 1 .. L : p = L \/ p \in 1 .. L - 1
      BY <1>2
    <3>2. \A p \in 1 .. L - 1 : frames'[p].call # "none"
      BY <1>1, <1>5 DEF StackInv
    <3>3. frames'[L].call # "none"
      BY <1>3, <1>5, <1>10
    <3>4. Len(frames') - 1 = L
      BY <1>2, <1>5
    <3>5. QED BY <3>1, <3>2, <3>3, <3>4
  <2>8. ASSUME NEW p \in 1 .. Len(frames'), frames'[p].vm = "stylus"
        PROVE  /\ frames'[p].call \notin EvmOnly
               /\ frames'[p].call # "none" => frames'[p].state = "running"
    <3>1. CASE p = L + 1
      BY <1>5, <1>10, <3>1 DEF EvmOnly
    <3>2. CASE p = L
      BY <1>2, <1>5, <1>10, <2>8, <3>2 DEF Calls, Idle
    <3>3. CASE p \in 1 .. L - 1
      <4>1. frames'[p] = frames[p] /\ p \in 1 .. L
        BY <1>2, <1>5, <3>3
      <4>2. QED BY <1>1, <2>8, <4>1 DEF StackInv
    <3>4. QED BY <1>2, <1>5, <3>1, <3>2, <3>3
  <2>9. QED BY <1>10, <2>1, <2>5, <2>6, <2>7, <2>8 DEF StackInv
<1>12. TracedAsExecuted'
  <2>1. open' = Running'.id
    BY <1>4, <1>10
  <2>2. stack' = [p \in 1 .. Len(frames') - 1 |-> frames'[p].id]
    <3>1. stack = [p \in 1 .. L - 1 |-> frames[p].id] /\ open = frames[L].id
      BY <1>1, <1>2 DEF TracedAsExecuted
    <3>2. /\ stack \in Seq(1 .. Len(log)) /\ Len(stack) = L - 1
          /\ \A p \in 1 .. L - 1 : stack[p] = frames[p].id
      <4>1. \A p \in 1 .. L - 1 : frames[p].id \in 1 .. Len(log)
        BY <1>1, <1>2 DEF StackInv
      <4>2. L - 1 \in Nat /\ stack \in [1 .. L - 1 -> 1 .. Len(log)]
        BY <1>2, <3>1, <4>1
      <4>3. QED BY <3>1, <4>2
    <3>3. /\ stack' \in Seq(1 .. Len(log)) /\ Len(stack') = L
          /\ stack'[L] = open /\ \A p \in 1 .. L - 1 : stack'[p] = stack[p]
      BY <1>1, <1>2, <1>4, <3>2, AppendProperties
    <3>4. \A p \in 1 .. L : stack'[p] = frames'[p].id
      <4>1. \A p \in 1 .. L : p = L \/ p \in 1 .. L - 1
        BY <1>2
      <4>2. QED BY <1>2, <1>10, <3>1, <3>2, <3>3, <4>1
    <3>5. stack' \in [1 .. L -> 1 .. Len(log)]
      BY <3>3, LenProperties
    <3>6. Len(frames') - 1 = L
      BY <1>2, <1>5
    <3>7. QED BY <3>4, <3>5, <3>6
  <2>3. ASSUME NEW p \in 1 .. Len(frames')
        PROVE  lists'[frames'[p].id] = log'[frames'[p].id] \o Unfinished(p)'
    <3>1. CASE p = L + 1
      <4>1. Unfinished(p)' = <<>>
        BY <1>5, <1>10, <3>1 DEF Unfinished
      <4>2. frames'[p].id = n
        BY <1>5, <1>10, <3>1
      <4>3. <<>> \o <<>> = <<>>
        BY EmptySeq, ConcatEmptySeq
      <4>4. QED BY <1>6, <1>8, <4>1, <4>2, <4>3
    <3>2. CASE p = L
      <4>1. Unfinished(p)' = <<seen>>
        BY <1>2, <1>3, <1>5, <1>10, <3>2 DEF Unfinished, seen
      <4>2. frames'[p].id = open /\ open \in 1 .. Len(log)
        BY <1>1, <1>2, <1>10, <3>2
      <4>3. lists'[open] = Append(log[open], seen) /\ log'[open] = log[open]
        BY <1>6, <1>8, <4>2
      <4>4. log[open] \in Seq(Entry)
        BY <1>7
      <4>5. QED BY <1>3, <4>1, <4>2, <4>3, <4>4, AppendThenPop
    <3>3. CASE p \in 1 .. L - 1
      <4>1. frames'[p] = frames[p] /\ p \in 1 .. L /\ p # L /\ p # L + 1
        BY <1>2, <1>5, <3>3
      <4>2. Unfinished(p)' = Unfinished(p)
        BY <1>5, <4>1, WaitsAsBefore
      <4>3. frames[p].id \in 1 .. Len(log) /\ frames[p].id # open
        BY <1>1, <1>2, <4>1 DEF StackInv
      <4>4. lists[frames[p].id] = log[frames[p].id] \o Unfinished(p)
        BY <1>1, <4>1 DEF TracedAsExecuted
      <4>5. lists'[frames[p].id] = lists[frames[p].id]
            /\ log'[frames[p].id] = log[frames[p].id]
        BY <1>6, <1>8, <4>3
      <4>6. QED BY <4>1, <4>2, <4>4, <4>5
    <3>4. QED BY <1>2, <1>5, <3>1, <3>2, <3>3
  <2>4. ASSUME NEW i \in 1 .. Len(lists'),
               \A p \in 1 .. Len(frames') : frames'[p].id # i
        PROVE  lists'[i] = log'[i]
    <3>1. L + 1 \in 1 .. Len(frames') /\ \A p \in 1 .. L : p \in 1 .. Len(frames')
      BY <1>2, <1>5
    <3>2. i # n /\ \A p \in 1 .. L : frames[p].id # i
      BY <1>5, <1>10, <2>4, <3>1
    <3>3. i \in 1 .. Len(log) /\ i # open
      BY <1>1, <1>2, <1>8, <3>2
    <3>4. QED BY <1>1, <1>2, <1>6, <1>8, <3>2, <3>3 DEF TracedAsExecuted
  <2>5. QED BY <2>1, <2>2, <2>3, <2>4 DEF TracedAsExecuted
<1>13. QED BY <1>9, <1>11, <1>12 DEF TracerInv

\* What is left of the call stack when the running frame is popped and its caller
\* replaced.
LEMMA CallerOnTop ==
  ASSUME frames \in Seq(Frame), Len(frames) > 1, NEW f \in Frame
  PROVE  LET c == Len(frames) - 1
             s == [ButLast(frames) EXCEPT ![c] = f]
         IN  /\ \A p \in 1 .. c : ButLast(frames)[p] = frames[p]
             /\ s \in Seq(Frame) /\ Len(s) = c /\ s # <<>> /\ s[c] = f
             /\ \A p \in 1 .. c : p # c => s[p] = frames[p]
<1> DEFINE c == Len(frames) - 1
           b == ButLast(frames)
           s == [b EXCEPT ![c] = f]
<1>1. /\ Len(frames) \in Nat /\ c \in Nat /\ c \in Int /\ 1 \in Int /\ 1 <= c
      /\ c - 1 + 1 = c /\ c \in 1 .. c
      /\ \A p \in 1 .. c : p \in 1 .. Len(frames) /\ 1 + p - 1 = p
  BY LenProperties
<1>2. \A p \in 1 .. c : frames[p] \in Frame
  BY <1>1, ElementOfSeq
<1>3. b = SubSeq(frames, 1, c)
  BY DEF ButLast
<1> HIDE DEF c, b
<1>4. b \in Seq(Frame) /\ Len(b) = c /\ \A p \in 1 .. c : b[p] = frames[p]
  <2>1. /\ b \in Seq(Frame)
        /\ Len(b) = (IF 1 <= c THEN c - 1 + 1 ELSE 0)
        /\ \A p \in 1 .. c - 1 + 1 : b[p] = frames[1 + p - 1]
    BY <1>1, <1>2, <1>3, SubSeqProperties
  <2>2. QED BY <1>1, <2>1
<1>5. /\ s \in Seq(Frame) /\ Len(s) = c
      /\ \A p \in 1 .. c : s[p] = IF p = c THEN f ELSE b[p]
  BY <1>1, <1>4, ExceptSeq
<1>6. s # <<>>
  BY <1>1, <1>5, EmptySeq
<1>7. QED BY <1>1, <1>4, <1>5, <1>6 DEF b, c

\* A frame that ends is taken off; its caller goes on, or has a host function
\* left to report, and its entry in the caller's list is that unfinished step.
LEMMA EndsTraced == ASSUME TracerInv, Ends PROVE TracerInv'
<1> DEFINE L == Len(frames)
           c == L - 1
           caller == frames[c]
           byCode == caller.vm = "stylus"
           joins == byCode /\ CallOf(caller.call) \in Nested
           e == Entered(caller.call, caller.callee)
           after == IF byCode THEN caller ELSE [caller EXCEPT !.call = "none"]
           l == IF joins THEN log[caller.id] ELSE Append(log[caller.id], e)
<1>1. TraceTypes /\ StackInv /\ TracedAsExecuted /\ open = Running.id
  BY DEF TracerInv, TracedAsExecuted
<1>2. /\ L \in Nat /\ L > 1 /\ c \in 1 .. L /\ c \in 1 .. L - 1 /\ c # L /\ L \in 1 .. L
      /\ Running = frames[L] /\ caller \in Frame
      /\ caller.id \in 1 .. Len(log) /\ log[caller.id] \in Seq(Entry)
      /\ Len(lists) = Len(log) /\ Len(log) \in Nat
  <2>1. L \in Nat \ {0} /\ L # 1
    BY <1>1, TopFrame DEF Ends, Outermost
  <2>2. c \in 1 .. L /\ c \in 1 .. L - 1 /\ c # L /\ L \in 1 .. L /\ L > 1
    BY <2>1
  <2>3. QED BY <1>1, <2>1, <2>2, TopFrame, LenProperties DEF StackInv, TraceTypes
<1>3. caller.call \in Types /\ caller.call # "none" /\ e \in Entry
  <2>1. caller.call # "none" /\ caller.call \in Types
    BY <1>1, <1>2 DEF StackInv, Frame
  <2>2. caller.callee \in Nat
    BY <1>2 DEF Frame
  <2>3. QED BY <2>1, <2>2, StepsAreEntries
<1>4. byCode => caller.call \in Opening \cup Making
  BY <1>1, <1>2, <1>3, TracerConstants DEF StackInv, Opening, Making, EvmOnly
<1>5. /\ after \in Frame /\ after.id = caller.id /\ after.vm = caller.vm
      /\ after.state = caller.state
      /\ after.call = (IF byCode THEN caller.call ELSE "none")
      /\ after.callee = caller.callee
  BY <1>2 DEF Frame
<1>6. l \in Seq(Entry)
  BY <1>2, <1>3, AppendProperties
<1>7. /\ frames' = [ButLast(frames) EXCEPT ![c] = IF byCode THEN @
                                                  ELSE [@ EXCEPT !.call = "none"]]
      /\ log' = IF joins THEN log ELSE [log EXCEPT ![caller.id] = Append(@, e)]
      /\ open' = LastOf(stack) /\ stack' = ButLast(stack) /\ lists' = lists
  BY DEF Ends, exit
<1>8. \A p \in 1 .. c : ButLast(frames)[p] = frames[p]
  BY <1>1, <1>2, CallerOnTop DEF TraceTypes
<1>9. /\ frames' \in Seq(Frame) /\ Len(frames') = c /\ frames' # <<>>
      /\ frames'[c] = after /\ \A p \in 1 .. c : p # c => frames'[p] = frames[p]
  <2>1. c \in 1 .. c /\ ButLast(frames)[c] = caller
    BY <1>2, <1>8
  <2>2. frames' = [ButLast(frames) EXCEPT ![c] = after]
    BY <1>7, <2>1
  <2> HIDE DEF after, caller
  <2>3. QED BY <1>1, <1>2, <1>5, <2>2, CallerOnTop DEF TraceTypes
<1>10. /\ log' \in Seq(Seq(Entry)) /\ Len(log') = Len(log)
       /\ \A i \in 1 .. Len(log) : log'[i] = IF i = caller.id THEN l ELSE log[i]
  <2>1. CASE joins
    BY <1>1, <1>7, <2>1 DEF TraceTypes
  <2>2. CASE ~joins
    <3>1. log' = [log EXCEPT ![caller.id] = l]
      BY <1>7, <2>2
    <3> HIDE DEF l, caller
    <3>2. QED BY SMTT(30), <1>1, <1>2, <1>6, <3>1, ExceptSeq DEF TraceTypes
  <2>3. QED BY <2>1, <2>2
<1>11. /\ Running' = after /\ \A p \in 1 .. c : frames'[p].id = frames[p].id
       /\ c \in 1 .. c
  <2>1. c \in 1 .. c
    BY <1>2
  <2>2. QED BY <1>5, <1>9, <2>1 DEF Running, LastOf
<1> HIDE DEF after, l, joins
<1>12. TraceTypes'
  BY <1>1, <1>7, <1>9, <1>10 DEF TraceTypes, Ends
<1>13. \A p \in 1 .. c : p \in 1 .. L
  BY <1>2
<1>14. StackInv'
  <2>1. frames'[1].id = 1
    <3>1. 1 \in 1 .. c
      BY <1>2
    <3>2. QED BY <1>1, <1>11, <3>1 DEF StackInv
  <2>2. \A p \in 1 .. Len(frames') : frames'[p].id \in 1 .. Len(log')
    BY <1>1, <1>9, <1>10, <1>11, <1>13 DEF StackInv
  <2>3. \A p, q \in 1 .. Len(frames') : p # q => frames'[p].id # frames'[q].id
    BY <1>1, <1>9, <1>11, <1>13 DEF StackInv
  <2>4. \A p \in 1 .. Len(frames') - 1 : frames'[p].call # "none"
    <3>1. \A p \in 1 .. c - 1 : p \in 1 .. c /\ p # c /\ p \in 1 .. L - 1
      BY <1>2
    <3>2. QED BY <1>1, <1>9, <3>1 DEF StackInv
  <2>5. ASSUME NEW p \in 1 .. Len(frames'), frames'[p].vm = "stylus"
        PROVE  /\ frames'[p].call \notin EvmOnly
               /\ frames'[p].call # "none" => frames'[p].state = "running"
    <3>1. p \in 1 .. c
      BY <1>9
    <3>2. CASE p = c
      BY <1>1, <1>2, <1>5, <1>9, <2>5, <3>2 DEF StackInv
    <3>3. CASE p # c
      BY <1>1, <1>9, <1>13, <2>5, <3>1, <3>3 DEF StackInv
    <3>4. QED BY <3>2, <3>3
  <2>6. Running'.call # "none" => Running'.vm = "stylus"
    BY <1>5, <1>11
  <2>7. QED BY <2>1, <2>2, <2>3, <2>4, <2>5, <2>6 DEF StackInv
<1>15. /\ stack = [p \in 1 .. c |-> frames[p].id] /\ Len(stack) = c
       /\ stack \in Seq(1 .. Len(log))
  <2>1. stack = [p \in 1 .. c |-> frames[p].id]
    BY <1>1 DEF TracedAsExecuted
  <2>2. \A p \in 1 .. c : frames[p].id \in 1 .. Len(log)
    BY <1>1, <1>13 DEF StackInv
  <2>3. c \in Nat
    BY <1>2
  <2> HIDE DEF c
  <2>4. stack \in [1 .. c -> 1 .. Len(log)]
    BY <2>1, <2>2
  <2>5. QED BY <2>1, <2>3, <2>4
<1>16. lists[Running.id] = log[Running.id]
  <2>1. Running.call = "none"
    BY <1>1, <1>2 DEF Ends, StackInv
  <2>2. QED BY <1>1, <2>1, IdleList
<1>17. TracedAsExecuted'
  <2>1. open' = Running'.id
    BY <1>5, <1>7, <1>11, <1>15 DEF LastOf
  <2>2. stack' = [p \in 1 .. Len(frames') - 1 |-> frames'[p].id]
    <3>1. stack' = SubSeq(stack, 1, c - 1)
      BY <1>7, <1>15 DEF ButLast
    <3>2. /\ stack' \in Seq(1 .. Len(log)) /\ Len(stack') = c - 1
          /\ \A p \in 1 .. c - 1 : stack'[p] = stack[p]
      <4>1. \A p \in 1 .. c - 1 : stack[p] \in 1 .. Len(log)
        <5>1. Len(stack) = c /\ stack \in Seq(1 .. Len(log))
          BY <1>15
        <5>2. \A p \in 1 .. c - 1 : p \in 1 .. c
          BY <1>2
        <5>3. \A p \in 1 .. c - 1 : p \in 1 .. Len(stack)
          BY <5>1, <5>2
        <5>4. QED BY <5>1, <5>3, ElementOfSeq
      <4>2. 1 \in Int /\ c - 1 \in Int /\ c >= 1
        BY <1>2
      <4> DEFINE d == c - 1
      <4>3. d \in Int /\ d >= 0
        BY <4>2
      <4> HIDE DEF d
      <4>4. /\ SubSeq(stack, 1, d) \in Seq(1 .. Len(log))
            /\ Len(SubSeq(stack, 1, d)) = (IF 1 <= d THEN d - 1 + 1 ELSE 0)
            /\ \A p \in 1 .. d - 1 + 1 : SubSeq(stack, 1, d)[p] = stack[1 + p - 1]
        BY <4>1, <4>3, SubSeqProperties DEF d
      <4>5. /\ SubSeq(stack, 1, d) \in Seq(1 .. Len(log))
            /\ Len(SubSeq(stack, 1, d)) = d
            /\ \A p \in 1 .. d : SubSeq(stack, 1, d)[p] = stack[p]
        BY <4>3, <4>4
      <4>6. QED BY <3>1, <4>5 DEF d
    <3>3. \A p \in 1 .. c - 1 : stack'[p] = frames'[p].id
      <4>1. \A p \in 1 .. c - 1 : p \in 1 .. c
        BY <1>2
      <4>2. QED BY <1>11, <1>15, <3>2, <4>1
    <3>4. stack' \in [1 .. c - 1 -> 1 .. Len(log)]
      BY <3>2, LenProperties
    <3>5. QED BY <1>9, <3>3, <3>4
  <2>3. ASSUME NEW p \in 1 .. Len(frames')
        PROVE  lists'[frames'[p].id] = log'[frames'[p].id] \o Unfinished(p)'
    <3>1. p \in 1 .. c /\ p \in 1 .. L /\ frames[p].id \in 1 .. Len(log)
      BY <1>1, <1>9, <1>13 DEF StackInv
    <3>2. lists[frames[p].id] = log[frames[p].id] \o Unfinished(p)
      BY <1>1, <3>1 DEF TracedAsExecuted
    <3>3. CASE p = c
      <4>1. Unfinished(p) = <<e>>
        BY <1>2, <1>3, <3>3 DEF Unfinished
      <4>2. frames'[p] = after /\ frames'[p].id = caller.id /\ log'[caller.id] = l
        BY <1>2, <1>5, <1>9, <1>10, <3>3
      <4>3. CASE joins
        <5>1. caller.call \in Opening /\ byCode
          BY <1>4, <4>3, CallNames DEF joins
        <5>2. CallOf(caller.call) \notin Creating
          BY <5>1, CallNames
        <5>3. Unfinished(p)' = <<e>>
          BY <1>3, <1>5, <4>2, <5>1, <5>2 DEF Unfinished
        <5>4. l = log[caller.id]
          BY <4>3 DEF l
        <5>5. QED BY <1>7, <3>2, <3>3, <4>1, <4>2, <5>3, <5>4
      <4>4. CASE ~joins
        <5>1. Unfinished(p)' = <<>>
          <6>1. CASE byCode
            <7>1. caller.call \in Making
              BY <1>4, <4>4, <6>1, CallNames DEF joins
            <7>2. CallOf(caller.call) \in Creating
              BY <7>1, CallNames
            <7>3. p = Len(frames')
              BY <1>9, <3>3
            <7>4. QED BY <1>5, <4>2, <6>1, <7>2, <7>3 DEF Unfinished
          <6>2. CASE ~byCode
            BY <1>5, <4>2, <6>2 DEF Unfinished
          <6>3. QED BY <6>1, <6>2
        <5>2. l = Append(log[caller.id], e)
          BY <4>4 DEF l
        <5>3. lists[caller.id] = l
          BY <1>2, <1>3, <3>2, <3>3, <4>1, <5>2, AppendThenPop
        <5>4. l \o <<>> = l
          BY <1>6, ConcatEmptySeq
        <5>5. QED BY <1>7, <4>2, <5>1, <5>3, <5>4
      <4>5. QED BY <4>3, <4>4
    <3>4. CASE p # c
      <4>1. frames'[p] = frames[p] /\ frames[p].id # caller.id
        BY <1>1, <1>2, <1>9, <3>1, <3>4 DEF StackInv
      <4>2. p # L /\ p # Len(frames')
        BY <1>2, <1>9, <3>1, <3>4
      <4>3. Unfinished(p)' = Unfinished(p)
        BY <4>1, <4>2, WaitsAsBefore
      <4>4. log'[frames[p].id] = log[frames[p].id]
        BY <1>10, <3>1, <4>1
      <4>5. QED BY <1>7, <3>2, <4>1, <4>3, <4>4
    <3>5. QED BY <3>3, <3>4
  <2>4. ASSUME NEW i \in 1 .. Len(lists'),
               \A p \in 1 .. Len(frames') : frames'[p].id # i
        PROVE  lists'[i] = log'[i]
    <3>1. i \in 1 .. Len(lists) /\ i \in 1 .. Len(log)
      BY <1>2, <1>7
    <3>2. \A p \in 1 .. c : frames[p].id # i
      BY <1>9, <1>11, <2>4
    <3>3. i # caller.id
      BY <1>11, <3>2
    <3>4. CASE i = Running.id
      BY <1>7, <1>10, <1>16, <3>1, <3>3, <3>4
    <3>5. CASE i # Running.id
      <4>1. \A p \in 1 .. L : p = L \/ p \in 1 .. c
        BY <1>2
      <4>2. \A p \in 1 .. L : frames[p].id # i
        BY <1>2, <3>2, <3>5, <4>1
      <4>3. lists[i] = log[i]
        BY <1>1, <3>1, <4>2 DEF TracedAsExecuted
      <4>4. QED BY <1>7, <1>10, <3>1, <3>3, <4>3
    <3>6. QED BY <3>4, <3>5
  <2>5. QED BY <2>1, <2>2, <2>3, <2>4 DEF TracedAsExecuted
<1>18. QED BY <1>12, <1>14, <1>17 DEF TracerInv

-----------------------------------------------------------------------------
(* The tracer's invariant.                                                 *)

\* Every step of an execution is traced.
LEMMA ChainStepTraced == ASSUME TracerInv, ChainStep PROVE TracerInv'
<1>1. CASE Entrypoint
  <2>1. Running.call = "none"
    BY <1>1, TopFrame DEF TracerInv, StackInv, Entrypoint
  <2>2. QED BY <1>1, <2>1, VmStepTraced DEF Entrypoint, Skippable
<1>2. CASE GrowMemory
  BY <1>2, VmStepTraced DEF GrowMemory, Idle, Skippable
<1>3. CASE Return
  BY <1>3, VmStepTraced DEF Return, Idle, Skippable
<1>4. CASE Ends
  BY <1>4, EndsTraced
<1>5. CASE Reports
  BY <1>5, ReportsTraced
<1>6. CASE RunsOut
  BY <1>6, RunsOutTraced
<1>7. CASE \E fn \in Used : Uses(fn)
  BY <1>7, UsesTraced
<1>8. CASE \E type \in Types, vm \in {"stylus", "evm"} : Calls(type, vm)
  BY <1>8, CallsTraced
<1>9. QED BY <1>1, <1>2, <1>3, <1>4, <1>5, <1>6, <1>7, <1>8 DEF ChainStep

\* An execution starts with one frame and nothing traced.
LEMMA InitTraced == ASSUME TracerInit PROVE TracerInv
<1>1. NewFrame(1, top) \in Frame /\ NewFrame(1, top).id = 1
      /\ NewFrame(1, top).call = "none"
  BY TracerConstants DEF TracerInit, NewFrame, Frame
<1>2. /\ frames \in Seq(Frame) /\ Len(frames) = 1 /\ frames[1] = NewFrame(1, top)
      /\ log = << <<>> >> /\ lists = << <<>> >> /\ Len(log) = 1 /\ Len(lists) = 1
      /\ log[1] = <<>> /\ lists[1] = <<>>
  BY <1>1 DEF TracerInit
<1>3. Running = frames[1]
  BY <1>2 DEF Running, LastOf
<1>4. <<>> \in Seq(Entry) /\ log \in Seq(Seq(Entry)) /\ lists \in Seq(Seq(Entry))
  <2>1. <<>> \in Seq(Entry)
    BY EmptySeq
  <2>2. QED BY <1>2, <2>1
<1>5. TraceTypes
  BY <1>2, <1>4, EmptySeq DEF TraceTypes, TracerInit
<1>6. StackInv
  BY <1>1, <1>2, <1>3 DEF StackInv, EvmOnly
<1>7. TracedAsExecuted
  <2>1. open = Running.id /\ stack = <<>>
    BY <1>1, <1>2, <1>3 DEF TracerInit
  <2>2. stack = [p \in 1 .. Len(frames) - 1 |-> frames[p].id]
    BY <1>2, <2>1
  <2>3. Unfinished(1) = <<>> /\ <<>> \o <<>> = <<>>
    BY <1>1, <1>2, <1>4, ConcatEmptySeq DEF Unfinished
  <2>4. /\ \A p \in 1 .. Len(frames) : p = 1
        /\ \A i \in 1 .. Len(lists) : i = frames[1].id
        /\ 1 \in 1 .. Len(frames)
    BY <1>1, <1>2
  <2>5. lists[frames[1].id] = log[frames[1].id] \o Unfinished(1)
    BY <1>1, <1>2, <2>3
  <2>6. \A p \in 1 .. Len(frames) :
          lists[frames[p].id] = log[frames[p].id] \o Unfinished(p)
    BY <2>4, <2>5
  <2>7. QED BY <2>1, <2>2, <2>4, <2>6 DEF TracedAsExecuted
<1>8. QED BY <1>5, <1>6, <1>7 DEF TracerInv

-----------------------------------------------------------------------------
(* The local run.                                                          *)

LocalTypes ==
  /\ native \in BOOLEAN /\ right \in BOOLEAN
  /\ outcome \in Outcomes
  /\ steps \in Seq(Entry)
  /\ want \in Call \cup {NoCall}
  /\ calls \in Seq(Call)
  /\ answers \in Seq(Nat)
  /\ ink \in Nat

\* The steps that next_hostio has taken.
Consumed == Len(log[1]) - Len(steps)

\* While the contract runs, FrameReader::steps is what is left of the outermost
\* frame's log.
ReaderInv ==
  outcome = "running" =>
    /\ lists[1] = log[1]
    /\ Len(steps) <= Len(log[1])
    /\ \A k \in 1 .. Len(steps) : steps[k] = log[1][Consumed + k]

ReplayInv == TracerInv /\ LocalTypes /\ ReaderInv

-----------------------------------------------------------------------------
(* The trace and the reader.                                               *)

\* The list of the outermost frame is there.
LEMMA OutermostList ==
  ASSUME TracerInv
  PROVE  /\ 1 \in 1 .. Len(log) /\ 1 \in 1 .. Len(lists)
         /\ log[1] \in Seq(Entry) /\ lists[1] \in Seq(Entry)
         /\ Len(log[1]) \in Nat /\ Len(lists[1]) \in Nat
<1>1. TraceTypes /\ StackInv
  BY DEF TracerInv
<1>2. 1 \in 1 .. Len(frames)
  BY <1>1, TopFrame
<1>3. 1 \in 1 .. Len(log) /\ Len(lists) = Len(log)
  BY <1>1, <1>2 DEF StackInv, TraceTypes
<1>4. log[1] \in Seq(Entry) /\ lists[1] \in Seq(Entry)
  BY <1>1, <1>3, ElementOfSeq DEF TraceTypes
<1>5. QED BY <1>3, <1>4, LenProperties

\* What leaves the trace alone keeps what is known of it.
LEMMA TraceKept == ASSUME TracerInv, UNCHANGED tracerVars PROVE TracerInv'
<1>1. UNCHANGED <<frames, log, program, cut, top, lists, open, stack>>
  BY DEF tracerVars, chainVars, jsVars
<1>2. Running' = Running
  BY <1>1 DEF Running, LastOf
<1>3. \A p : Unfinished(p)' = Unfinished(p)
  BY <1>1 DEF Unfinished
<1>4. TraceTypes' /\ StackInv'
  BY <1>1, <1>2 DEF TracerInv, TraceTypes, StackInv
<1>5. TracedAsExecuted'
  BY <1>1, <1>2, <1>3 DEF TracerInv, TracedAsExecuted
<1>6. QED BY <1>4, <1>5 DEF TracerInv

\* What a contract calls locally is a host function.
LEMMA LocalFunsAreFuns == LocalFuns \subseteq Funs
<1>1. Used \subseteq Funs
  BY TracerConstants
<1>2. ASSUME NEW type \in Types \ EvmOnly
      PROVE  CallOf(type) \in Funs
  <2>1. type \in Opening \cup Making
    BY TracerConstants DEF Opening, Making, EvmOnly
  <2>2. CallOf(type) \in Nested \cup Creating
    BY <2>1, CallNames
  <2>3. QED BY <2>2, ReportNames
<1>3. QED BY <1>1, <1>2 DEF LocalFuns

\* A waiting call is a call, and NoCall is none.
LEMMA WantedCalls ==
  ASSUME LocalTypes, want # NoCall
  PROVE  want \in Call /\ want.fn \in Funs /\ want.arg \in Values
BY DEF LocalTypes, Call

\* Trace::new: the steps that are read are those of the outermost frame.
LEMMA NewTraceReads == ASSUME ReplayInv, NewTrace PROVE ReplayInv'
<1>1. TracerInv /\ LocalTypes /\ TracerInv' /\ UNCHANGED tracerVars
  BY TraceKept DEF ReplayInv, NewTrace
<1>2. lists[1] = log[1]
  <2>1. open = Running.id /\ Running.call = "none"
    BY <1>1 DEF TracerInv, TracedAsExecuted, NewTrace, Executed
  <2>2. Running.id = 1
    BY <1>1 DEF NewTrace, Executed, Outermost, Running, LastOf, TracerInv, StackInv
  <2>3. QED BY <1>1, <2>1, <2>2, IdleList
<1>3. /\ outcome' \in {"empty", "activation", "unparsed", "running"}
      /\ steps' = IF outcome' = "running" THEN lists[1] ELSE <<>>
      /\ UNCHANGED <<native, right, want, calls, answers, ink>>
  BY DEF NewTrace
<1>4. LocalTypes'
  <2>1. steps' \in Seq(Entry)
    BY <1>1, <1>3, OutermostList, EmptySeq
  <2>2. outcome' \in Outcomes
    BY <1>3 DEF Outcomes
  <2>3. QED BY <1>1, <1>3, <2>1, <2>2 DEF LocalTypes
<1>5. ReaderInv'
  <2>1. SUFFICES ASSUME outcome' = "running" PROVE
          /\ lists'[1] = log'[1]
          /\ Len(steps') <= Len(log'[1])
          /\ \A k \in 1 .. Len(steps') : steps'[k] = log'[1][Consumed' + k]
    BY DEF ReaderInv
  <2>2. steps' = log[1] /\ log' = log /\ lists' = lists
    BY <1>1, <1>2, <1>3, <2>1 DEF tracerVars, chainVars, jsVars
  <2>3. Len(log[1]) \in Nat
    BY <1>1, OutermostList
  <2>4. Consumed' = 0
    BY <2>2, <2>3 DEF Consumed
  <2>5. QED BY <1>2, <2>2, <2>3, <2>4
<1>6. QED BY <1>1, <1>4, <1>5 DEF ReplayInv

\* A call waits for its step.
LEMMA CallHostioReads ==
  ASSUME ReplayInv, NEW fn \in LocalFuns, NEW a \in Values,
         CallHostio([fn |-> fn, arg |-> a])
  PROVE  ReplayInv'
<1>1. [fn |-> fn, arg |-> a] \in Call
  BY LocalFunsAreFuns DEF Call
<1>2. TracerInv' /\ UNCHANGED <<log, lists>>
  BY TraceKept DEF ReplayInv, CallHostio, tracerVars, chainVars, jsVars
<1>3. LocalTypes'
  BY <1>1, AppendProperties DEF ReplayInv, LocalTypes, CallHostio
<1>4. ReaderInv'
  BY <1>2 DEF ReplayInv, ReaderInv, Consumed, CallHostio
<1>5. QED BY <1>2, <1>3, <1>4 DEF ReplayInv

\* The first step left, and what is left after it.
LEMMA OneStepTaken ==
  ASSUME ReplayInv, outcome = "running", steps # <<>>
  PROVE  /\ Head(steps) \in Entry /\ Tail(steps) \in Seq(Entry)
         /\ Len(steps) \in Nat /\ Consumed \in Nat
         /\ Len(Tail(steps)) = Len(steps) - 1
         /\ Consumed + 1 \in 1 .. Len(log[1])
         /\ Head(steps) = log[1][Consumed + 1]
         /\ Len(log[1]) - Len(Tail(steps)) = Consumed + 1
         /\ Len(lists[1]) - Len(steps) = Consumed
         /\ \A k \in 1 .. Len(Tail(steps)) :
              Tail(steps)[k] = log[1][Consumed + 1 + k]
<1>1. /\ lists[1] = log[1] /\ Len(steps) <= Len(log[1])
      /\ \A k \in 1 .. Len(steps) : steps[k] = log[1][Consumed + k]
      /\ steps \in Seq(Entry)
  BY DEF ReplayInv, ReaderInv, LocalTypes
<1>2. /\ Head(steps) \in Entry /\ Tail(steps) \in Seq(Entry)
      /\ Len(Tail(steps)) = Len(steps) - 1
      /\ \A k \in 1 .. Len(Tail(steps)) : Tail(steps)[k] = steps[k + 1]
  BY <1>1, HeadTailProperties
<1>3. Len(log[1]) \in Nat /\ Len(steps) \in Nat /\ Len(steps) # 0
  BY <1>1, OutermostList, LenProperties, EmptySeq DEF ReplayInv
<1>4. Consumed \in Nat /\ Consumed + 1 \in 1 .. Len(log[1])
      /\ Consumed = Len(log[1]) - Len(steps)
  BY <1>1, <1>3 DEF Consumed
<1>5. Head(steps) = log[1][Consumed + 1]
  <2>1. Head(steps) = steps[1] /\ 1 \in 1 .. Len(steps)
    BY <1>1, <1>3
  <2>2. QED BY <1>1, <2>1
<1>6. ASSUME NEW k \in 1 .. Len(Tail(steps))
      PROVE  Tail(steps)[k] = log[1][Consumed + 1 + k]
  <2> DEFINE m == Len(steps)
             c == Consumed
  <2>0. k \in 1 .. m - 1 /\ m \in Nat /\ c \in Nat
    BY <1>2, <1>3, <1>4
  <2> HIDE DEF m, c
  <2>1. k + 1 \in 1 .. Len(steps) /\ Consumed + (k + 1) = Consumed + 1 + k
    <3>1. k + 1 \in 1 .. m /\ c + (k + 1) = c + 1 + k
      BY <2>0
    <3>2. QED BY <3>1 DEF m, c
  <2>2. steps[k + 1] = log[1][Consumed + (k + 1)]
    BY <1>1, <2>1
  <2>3. QED BY <1>2, <2>1, <2>2
<1>7. QED BY <1>1, <1>2, <1>3, <1>4, <1>5, <1>6

\* A round of next_hostio that has a step to look at: the call is answered by
\* it, or it is passed over, or the contract no longer runs.
LEMMA Rounds ==
  ASSUME NextHostio, steps # <<>>
  PROVE  /\ steps' = Tail(steps) /\ UNCHANGED <<tracerVars, native, calls>>
         /\ \/ /\ KindName(Head(steps)) = want.fn
               /\ Compares(want.fn) => Head(steps).arg = want.arg
               /\ answers' = Append(answers, Copied(want.fn, Head(steps).out))
               /\ right' = (right /\ Copied(want.fn, Head(steps).out) = Head(steps).out)
               /\ want' = NoCall /\ outcome' = outcome
               /\ ink' = Len(lists[1]) - Len(steps) + 1
            \/ /\ KindName(Head(steps)) \in Skippable
               /\ UNCHANGED <<right, want, answers, ink, outcome>>
            \/ /\ outcome' \in {"diverged", "unreachable", "mismatch"}
               /\ UNCHANGED <<right, want, answers>>
               /\ ink' \in {ink, Len(lists[1]) - Len(steps) + 1}
<1> DEFINE e == Head(steps)
<1> USE DEF NextHostio
<1>1. CASE KindName(e) = want.fn
  <2>1. Answer(e) /\ steps' = Tail(steps) /\ UNCHANGED <<tracerVars, native, calls>>
    BY <1>1
  <2> HIDE DEF e, NextHostio
  <2>2. QED BY <1>1, <2>1 DEF Answer, e
<1>2. CASE KindName(e) # want.fn
  <2>1. OtherStep(e) /\ steps' = Tail(steps) /\ UNCHANGED <<tracerVars, native, calls>>
    BY <1>2
  <2> HIDE DEF e, NextHostio
  <2>2. QED BY <2>1 DEF OtherStep, Fails, e
<1>3. QED BY <1>1, <1>2

\* A round of next_hostio reads on in the log.
LEMMA NextHostioReads == ASSUME ReplayInv, NextHostio PROVE ReplayInv'
<1>1. TracerInv' /\ UNCHANGED <<log, lists, native, calls>>
  BY TraceKept DEF ReplayInv, NextHostio, tracerVars, chainVars, jsVars
<1>2. CASE steps = <<>>
  <2>1. outcome' = "exhausted" /\ UNCHANGED <<right, want, answers, ink, steps>>
    BY <1>2 DEF NextHostio, Fails
  <2>2. QED
    BY <1>1, <2>1 DEF ReplayInv, LocalTypes, ReaderInv, Outcomes
<1>3. CASE steps # <<>>
  <2> DEFINE e == Head(steps)
  <2>1. /\ e \in Entry /\ Tail(steps) \in Seq(Entry) /\ Consumed \in Nat
        /\ Len(log[1]) - Len(Tail(steps)) = Consumed + 1
        /\ Len(lists[1]) - Len(steps) = Consumed
        /\ Len(Tail(steps)) = Len(steps) - 1 /\ Len(steps) \in Nat
        /\ \A k \in 1 .. Len(Tail(steps)) :
             Tail(steps)[k] = log[1][Consumed + 1 + k]
    BY <1>3, OneStepTaken DEF NextHostio
  <2>2. steps' = Tail(steps) /\ Consumed' = Consumed + 1
    BY <1>1, <1>3, <2>1, Rounds DEF Consumed
  <2>3. LocalTypes'
    <3>1. Consumed + 1 \in Nat /\ \A fn : Copied(fn, e.out) \in Nat
      BY <2>1 DEF Copied, FatPointer, Entry
    <3>2. /\ answers' \in {answers} \cup {Append(answers, Copied(want.fn, e.out))}
          /\ right' \in BOOLEAN /\ want' \in {want, NoCall}
          /\ outcome' \in {outcome, "diverged", "unreachable", "mismatch"}
          /\ ink' \in {ink, Consumed + 1}
      BY <1>3, <2>1, Rounds DEF ReplayInv, LocalTypes
    <3>3. answers' \in Seq(Nat)
      <4>1. answers \in Seq(Nat) /\ Copied(want.fn, e.out) \in Nat
        BY <3>1 DEF ReplayInv, LocalTypes
      <4>2. Append(answers, Copied(want.fn, e.out)) \in Seq(Nat)
        BY <4>1, AppendProperties
      <4>3. QED BY <3>2, <4>1, <4>2
    <3>4. outcome' \in Outcomes
      BY <3>2 DEF ReplayInv, LocalTypes, Outcomes
    <3>5. want' \in Call \cup {NoCall} /\ ink' \in Nat
      BY <3>1, <3>2 DEF ReplayInv, LocalTypes
    <3>6. steps' \in Seq(Entry) /\ native' \in BOOLEAN /\ calls' \in Seq(Call)
      BY <1>1, <2>1, <2>2 DEF ReplayInv, LocalTypes
    <3>7. QED BY <3>2, <3>3, <3>4, <3>5, <3>6 DEF LocalTypes
  <2>4. ReaderInv'
    <3>1. lists[1] = log[1] /\ Len(steps) <= Len(log[1]) /\ Len(log[1]) \in Nat
      BY OutermostList DEF ReplayInv, ReaderInv, NextHostio
    <3>2. Len(steps') <= Len(log[1])
      BY <2>1, <2>2, <3>1
    <3>3. QED BY <1>1, <2>1, <2>2, <3>1, <3>2 DEF ReaderInv
  <2>5. QED BY <1>1, <2>3, <2>4 DEF ReplayInv
<1>4. QED BY <1>2, <1>3

\* The transaction is executed before any of it is read.
LEMMA TraceReads == ASSUME ReplayInv, Trace PROVE ReplayInv'
<1>1. TracerInv'
  BY ChainStepTraced DEF ReplayInv, Trace
<1>2. UNCHANGED <<native, right, outcome, steps, want, calls, answers, ink>>
      /\ outcome = "tracing"
  BY DEF Trace, localVars
<1>3. LocalTypes' /\ ReaderInv'
  BY <1>2 DEF ReplayInv, LocalTypes, ReaderInv
<1>4. QED BY <1>1, <1>3 DEF ReplayInv

\* The contract's return takes nothing from the trace.
LEMMA ReturnReads == ASSUME ReplayInv, ReturnLocally PROVE ReplayInv'
<1>1. TracerInv'
  BY TraceKept DEF ReplayInv, ReturnLocally
<1>2. LocalTypes' /\ ReaderInv'
  BY DEF ReplayInv, ReturnLocally, LocalTypes, ReaderInv, Outcomes
<1>3. QED BY <1>1, <1>2 DEF ReplayInv

\* The invariant holds at the start.
LEMMA InitReads == ASSUME Init PROVE ReplayInv
<1>1. TracerInv
  BY InitTraced DEF Init
<1>2. <<>> \in Seq(Entry) /\ <<>> \in Seq(Call) /\ <<>> \in Seq(Nat)
  BY EmptySeq
<1>3. LocalTypes /\ ReaderInv
  BY <1>2, ReplayConstants DEF Init, LocalTypes, ReaderInv, Outcomes
<1>4. QED BY <1>1, <1>3 DEF ReplayInv

\* Every step of the command keeps it.
LEMMA NextReads == ASSUME ReplayInv, [Next]_vars PROVE ReplayInv'
<1>1. CASE Trace
  BY <1>1, TraceReads
<1>2. CASE NewTrace
  BY <1>2, NewTraceReads
<1>3. CASE NextHostio
  BY <1>3, NextHostioReads
<1>4. CASE ReturnLocally
  BY <1>4, ReturnReads
<1>5. CASE \E fn \in LocalFuns, a \in Values : CallHostio([fn |-> fn, arg |-> a])
  BY <1>5, CallHostioReads
<1>6. CASE UNCHANGED vars
  <2>1. UNCHANGED <<tracerVars, native, right, outcome, steps, want, calls, answers,
                    ink>>
    BY <1>6 DEF vars, localVars
  <2>2. TracerInv' /\ UNCHANGED <<log, lists>>
    BY <2>1, TraceKept DEF ReplayInv, tracerVars, chainVars, jsVars
  <2>3. LocalTypes' /\ ReaderInv'
    BY <2>1, <2>2 DEF ReplayInv, LocalTypes, ReaderInv, Consumed
  <2>4. QED BY <2>2, <2>3 DEF ReplayInv
<1>7. QED BY <1>1, <1>2, <1>3, <1>4, <1>5, <1>6 DEF Next

\* The invariant of a replay.
LEMMA ReplayHolds == Spec => []ReplayInv
<1>1. Init => ReplayInv
  BY InitReads
<1>2. ReplayInv /\ [Next]_vars => ReplayInv'
  BY NextReads
<1>3. QED BY <1>1, <1>2, PTL DEF Spec

\* What query.js hands to the tool is the execution: the joining of entries in
\* enter, exit and hostio loses, doubles and misplaces no step, however many
\* frames open and whatever runs in them.
THEOREM TraceIsExecution == Spec => []TracedAsExecuted
<1>1. ReplayInv => TracedAsExecuted
  BY DEF ReplayInv, TracerInv
<1>2. QED BY <1>1, ReplayHolds, PTL

\* The state of the tracer, of the trace and of the frame reader keeps its types.
THEOREM ReplayTypes == Spec => []TypeOK
<1>1. ASSUME ReplayInv PROVE TypeOK
  <2>1. TraceTypes /\ StackInv /\ TracedAsExecuted /\ LocalTypes
    BY <1>1 DEF ReplayInv, TracerInv
  <2>2. \A i \in 1 .. Len(log) : log[i] \in Seq(Entry) /\ lists[i] \in Seq(Entry)
    BY <2>1, ElementOfSeq DEF TraceTypes
  <2>3. \A i \in 1 .. Len(program) : program[i] \in [fn : Funs, arg : Values, at : Nat]
    BY <2>1, ElementOfSeq DEF TraceTypes
  <2>4. open \in 1 .. Len(lists)
    BY <2>1, TopFrame DEF TracedAsExecuted, TraceTypes
  <2>5. stack \in Seq(1 .. Len(lists))
    <3>1. Len(frames) - 1 \in Nat
          /\ \A p \in 1 .. Len(frames) - 1 : p \in 1 .. Len(frames)
      BY <2>1, TopFrame
    <3>2. \A p \in 1 .. Len(frames) - 1 : frames[p].id \in 1 .. Len(lists)
      BY <2>1, <3>1 DEF StackInv, TraceTypes
    <3> DEFINE d == Len(frames) - 1
    <3>3. stack = [p \in 1 .. d |-> frames[p].id] /\ d \in Nat
      BY <2>1, <3>1 DEF TracedAsExecuted
    <3>4. stack \in [1 .. d -> 1 .. Len(lists)]
      BY <3>2, <3>3
    <3> HIDE DEF d
    <3>5. QED BY <3>3, <3>4
  <2>6. TracerTypeOK
    BY <2>1, <2>2, <2>3, <2>4, <2>5 DEF TracerTypeOK, TraceTypes
  <2>7. QED BY <2>1, <2>6 DEF TypeOK, LocalTypes
<1>2. QED BY <1>1, ReplayHolds, PTL

-----------------------------------------------------------------------------
(* The program of the outermost contract is found in its log.              *)

\* The names that a host function is both called and recorded by.
Recorder == Funs \ {"pay_for_memory_grow"}

\* Each call of the program is where it says in the log, in the order of the
\* program, and the log shows no other host function: what else is in it are
\* steps of the virtual machine and frames that no host function reports.
ProgramInv ==
  /\ \A n \in 1 .. Len(program) :
       /\ program[n].fn \in LocalFuns
       /\ program[n].at \in 1 .. Len(log[1])
       /\ log[1][program[n].at].name = Recorded(program[n].fn)
       /\ log[1][program[n].at].arg = program[n].arg
  /\ \A m, n \in 1 .. Len(program) : m < n => program[m].at < program[n].at
  /\ \A k \in 1 .. Len(log[1]) :
       log[1][k].name \in Recorder => \E n \in 1 .. Len(program) : program[n].at = k
  /\ \A k \in 1 .. Len(log[1]) :
       \/ log[1][k].name \in Skippable \/ ~log[1][k].hostio
       \/ \E n \in 1 .. Len(program) : program[n].at = k

\* What one step of the execution adds to the outermost frame's log and to its
\* program: nothing, or an entry that is no host function, or a call.
Silent == log'[1] = log[1] /\ program' = program
Aside ==
  \E e \in Entry : /\ e.name \notin Recorder
                   /\ e.name \in Skippable \/ ~e.hostio
                   /\ log'[1] = Append(log[1], e) /\ program' = program
Asks ==
  \E fn \in LocalFuns, a \in Values, e \in Entry :
    /\ e.name = Recorded(fn) /\ e.arg = a
    /\ log'[1] = Append(log[1], e)
    /\ program' = Append(program, [fn |-> fn, arg |-> a, at |-> Len(log[1]) + 1])

\* The outermost frame is the first.
LEMMA OutermostFirst ==
  ASSUME TracerInv
  PROVE  Outermost <=> Running.id = 1
<1>1. /\ frames[1].id = 1 /\ Running = frames[Len(frames)]
      /\ Len(frames) \in Nat \ {0}
      /\ \A p, q \in 1 .. Len(frames) : p # q => frames[p].id # frames[q].id
  BY TopFrame DEF TracerInv, StackInv
<1>2. 1 \in 1 .. Len(frames) /\ Len(frames) \in 1 .. Len(frames)
  BY <1>1
<1>3. QED BY <1>1, <1>2 DEF Outermost

\* An entry of another frame does not show in the outermost log.
LEMMA OtherLog ==
  ASSUME TracerInv, NEW i \in 1 .. Len(log), NEW e \in Entry,
         log' = [log EXCEPT ![i] = Append(@, e)]
  PROVE  log'[1] = IF i = 1 THEN Append(log[1], e) ELSE log[1]
<1>1. log \in [1 .. Len(log) -> Seq(Entry)]
  BY LenProperties DEF TracerInv, TraceTypes
<1>2. QED BY <1>1, OutermostList

\* No name of a frame is that of a host function, nor is that of a step of the
\* virtual machine, but for the one that both can make.
LEMMA AsideNames ==
  /\ \A type \in Types : EnterName(type) \notin Recorder
  /\ \A name \in Skippable : name \notin Recorder
<1>1. Types \subseteq {"CALL", "DELEGATECALL", "STATICCALL", "CREATE", "CREATE2",
                       "SELFDESTRUCT", "CALLCODE"}
  BY TracerConstants
<1>2. ASSUME NEW type \in Types PROVE EnterName(type) \notin Recorder
  BY <1>1 DEF EnterName, Recorder, Funs, Data, Storage, Account, Block, Nested,
              Creating, CallOf, Metering, Math, Message, Returned, Prints, Numbers
<1>3. ASSUME NEW name \in Skippable PROVE name \notin Recorder
  BY DEF Skippable, Recorder, Funs, Data, Storage, Account, Block, Nested,
         Creating, CallOf, Metering, Math, Message, Returned, Prints, Numbers
<1>4. QED BY <1>2, <1>3

\* A step of the virtual machine is no call.
LEMMA VmStepAside ==
  ASSUME TracerInv, NEW name \in Skippable, NEW state, VmStep(name, state)
  PROVE  Silent \/ Aside
<1>1. /\ Info(name, 0, 0) \in Entry /\ Info(name, 0, 0).name \notin Recorder
      /\ Info(name, 0, 0).name \in Skippable
  <2>1. name \in StepNames /\ name \notin Recorder
    BY VmNames, AsideNames
  <2>2. QED BY <2>1, StepsAreEntries DEF Info
<1>2. /\ log' = [log EXCEPT ![Running.id] = Append(@, Info(name, 0, 0))]
      /\ program' = program
  BY DEF VmStep, Logs
<1>3. Running.id \in 1 .. Len(log)
  BY TopFrame DEF TracerInv
<1>4. QED BY <1>1, <1>2, <1>3, OtherLog DEF Silent, Aside

\* A host function that a frame calls is a call of the program if the frame is
\* the outermost.
LEMMA LoggedCall ==
  ASSUME TracerInv, NEW fn \in LocalFuns, NEW a \in Arguments, NEW e \in Entry,
         e.name = Recorded(fn), e.arg = a, Programs(fn, a),
         log' = [log EXCEPT ![Running.id] = Append(@, e)]
  PROVE  Silent \/ Asks
<1>1. Running.id \in 1 .. Len(log)
  BY TopFrame DEF TracerInv
<1>2. CASE Outermost
  <2>1. log'[1] = Append(log[1], e) /\ a \in Values
    BY <1>1, <1>2, OutermostFirst, OtherLog DEF Arguments
  <2>2. program' = Append(program, [fn |-> fn, arg |-> a, at |-> Len(log[1]) + 1])
    BY <1>2 DEF Programs
  <2>3. QED BY <2>1, <2>2 DEF Asks
<1>3. CASE ~Outermost
  <2>1. log'[1] = log[1] /\ program' = program
    BY <1>1, <1>3, OutermostFirst, OtherLog DEF Programs
  <2>2. QED BY <2>1 DEF Silent
<1>4. QED BY <1>2, <1>3

\* The steps of an execution, as the outermost log shows them.
LEMMA ChainStepShows == ASSUME TracerInv, ChainStep PROVE Silent \/ Aside \/ Asks
<1>1. CASE Entrypoint
  BY <1>1, VmStepAside DEF Entrypoint, Skippable
<1>2. CASE GrowMemory
  BY <1>2, VmStepAside DEF GrowMemory, Skippable
<1>3. CASE Return
  BY <1>3, VmStepAside DEF Return, Skippable
<1>4. CASE Ends
  <2> DEFINE caller == frames[Len(frames) - 1]
             e == Entered(caller.call, caller.callee)
  <2>1. Len(frames) - 1 \in 1 .. Len(frames) /\ Len(frames) - 1 \in 1 .. Len(frames) - 1
    <3>1. Len(frames) \in Nat \ {0} /\ Len(frames) # 1
      BY <1>4, TopFrame DEF Ends, Outermost, TracerInv
    <3>2. \A n \in Nat \ {0} : n # 1 => n - 1 \in 1 .. n /\ n - 1 \in 1 .. n - 1
      OBVIOUS
    <3>3. QED BY <3>1, <3>2
  <2>2. caller \in Frame /\ caller.id \in 1 .. Len(log) /\ caller.call # "none"
    BY <2>1, TopFrame DEF TracerInv, StackInv
  <2>3. caller.call \in Types /\ e \in Entry /\ e.name \notin Recorder /\ ~e.hostio
    <3>1. caller.call \in Types /\ caller.callee \in Nat
      BY <2>2 DEF Frame
    <3>2. QED BY <3>1, StepsAreEntries, AsideNames DEF Entered
  <2>4. /\ log' = log \/ log' = [log EXCEPT ![caller.id] = Append(@, e)]
        /\ program' = program
    BY <1>4 DEF Ends
  <2> HIDE DEF e, caller
  <2>5. QED BY <2>2, <2>3, <2>4, OtherLog DEF Silent, Aside
<1>5. CASE Reports
  <2> DEFINE name == CallOf(Running.call)
  <2>1. PICK a \in Arguments :
          /\ Logs([Running EXCEPT !.call = "none"],
                  IF name \in Nested
                    THEN [Info(name, a, Result) EXCEPT !.sub = Running.callee]
                    ELSE Info(name, a, Result))
          /\ Programs(name, a)
    BY <1>5 DEF Reports
  <2> DEFINE info == Info(name, a, Result)
             e == IF name \in Nested THEN [info EXCEPT !.sub = Running.callee] ELSE info
  <2>2. /\ Running.call \in Opening \cup Making /\ Running.call \in Types
        /\ Running \in Frame
    BY <1>5, ReportedCalls, TopFrame DEF TracerInv, Reports
  <2>3. name \in LocalFuns /\ Recorded(name) = name /\ name \in StepNames
    <3>1. name \in Nested \cup Creating /\ Running.call \notin EvmOnly
      BY <2>2, CallNames DEF Opening, Making, EvmOnly
    <3>2. name \in Funs /\ Recorded(name) = name
      BY <3>1, ReportNames
    <3>3. QED BY <2>2, <3>1, <3>2, StepsAreEntries DEF LocalFuns
  <2>4. e \in Entry /\ e.name = Recorded(name) /\ e.arg = a
    <3>1. a \in Nat /\ Result \in Nat /\ Running.callee \in Nat
      BY <2>2, ResultsAreNumbers DEF TracerInv, Frame
    <3>2. info \in Entry /\ info.name = name /\ info.arg = a
      BY <2>3, <3>1, StepsAreEntries DEF Info
    <3>3. [info EXCEPT !.sub = Running.callee] \in Entry
          /\ [info EXCEPT !.sub = Running.callee].name = info.name
          /\ [info EXCEPT !.sub = Running.callee].arg = info.arg
      BY <3>1, <3>2 DEF Entry
    <3> HIDE DEF info, name
    <3>4. QED BY <2>3, <3>2, <3>3
  <2>5. log' = [log EXCEPT ![Running.id] = Append(@, e)]
    BY <2>1 DEF Logs
  <2> HIDE DEF e, name
  <2>6. QED BY <2>1, <2>3, <2>4, <2>5, LoggedCall DEF name
<1>6. CASE RunsOut
  BY <1>6 DEF RunsOut, Silent
<1>7. CASE \E fn \in Used : Uses(fn)
  <2>1. PICK fn \in Used : Uses(fn)
    BY <1>7
  <2>2. PICK a \in Arguments :
          Logs(Running, Info(Recorded(fn), a, Result)) /\ Programs(fn, a)
    BY <2>1 DEF Uses
  <2> DEFINE e == Info(Recorded(fn), a, Result)
  <2>3. fn \in LocalFuns
    BY DEF LocalFuns
  <2>4. e \in Entry /\ e.name = Recorded(fn) /\ e.arg = a
    <3>1. a \in Nat /\ Result \in Nat
      BY ResultsAreNumbers DEF TracerInv
    <3>2. QED BY <3>1, UsedNames, StepsAreEntries DEF Info
  <2>5. log' = [log EXCEPT ![Running.id] = Append(@, e)]
    BY <2>2 DEF Logs
  <2> HIDE DEF e
  <2>6. QED BY <2>2, <2>3, <2>4, <2>5, LoggedCall
<1>8. CASE \E type \in Types, vm \in {"stylus", "evm"} : Calls(type, vm)
  <2>1. log' = Append(log, <<>>) /\ program' = program
    BY <1>8 DEF Calls
  <2>2. log'[1] = log[1]
    <3>1. log \in Seq(Seq(Entry)) /\ <<>> \in Seq(Entry)
      BY EmptySeq DEF TracerInv, TraceTypes
    <3>2. QED BY <2>1, <3>1, OutermostList, AppendProperties
  <2>3. QED BY <2>1, <2>2 DEF Silent
<1>9. QED BY <1>1, <1>2, <1>3, <1>4, <1>5, <1>6, <1>7, <1>8 DEF ChainStep

\* What one step of the execution adds keeps the program in its log.
LEMMA ProgramGrows ==
  ASSUME TracerInv, ProgramInv, Silent \/ Aside \/ Asks
  PROVE  ProgramInv'
<1> DEFINE N == Len(program)
           M == Len(log[1])
<1>1. /\ program \in Seq([fn : Funs, arg : Values, at : Nat])
      /\ log[1] \in Seq(Entry) /\ M \in Nat /\ N \in Nat
  BY OutermostList, LenProperties DEF TracerInv, TraceTypes
<1>2. /\ \A n \in 1 .. N : /\ program[n].fn \in LocalFuns
                           /\ program[n].at \in 1 .. M
                           /\ log[1][program[n].at].name = Recorded(program[n].fn)
                           /\ log[1][program[n].at].arg = program[n].arg
      /\ \A m, n \in 1 .. N : m < n => program[m].at < program[n].at
      /\ \A k \in 1 .. M : log[1][k].name \in Recorder =>
                             \E n \in 1 .. N : program[n].at = k
      /\ \A k \in 1 .. M : \/ log[1][k].name \in Skippable \/ ~log[1][k].hostio
                           \/ \E n \in 1 .. N : program[n].at = k
  BY DEF ProgramInv
<1>3. CASE Silent
  BY <1>3 DEF ProgramInv, Silent
<1>4. ASSUME NEW e \in Entry, log'[1] = Append(log[1], e)
      PROVE  /\ Len(log'[1]) = M + 1 /\ log'[1][M + 1] = e
             /\ \A k \in 1 .. M : log'[1][k] = log[1][k] /\ k \in 1 .. M + 1
             /\ \A k \in 1 .. M + 1 : k \in 1 .. M \/ k = M + 1
  <2>1. \A k \in 1 .. M : k \in 1 .. M + 1
    BY <1>1
  <2>2. \A k \in 1 .. M + 1 : k \in 1 .. M \/ k = M + 1
    BY <1>1
  <2>3. QED BY <1>1, <1>4, <2>1, <2>2, AppendProperties
<1>5. CASE Aside
  <2>1. PICK e \in Entry : /\ e.name \notin Recorder
                           /\ e.name \in Skippable \/ ~e.hostio
                           /\ log'[1] = Append(log[1], e) /\ program' = program
    BY <1>5 DEF Aside
  <2>2. /\ Len(log'[1]) = M + 1 /\ log'[1][M + 1] = e /\ Len(program') = N
        /\ \A k \in 1 .. M : log'[1][k] = log[1][k] /\ k \in 1 .. M + 1
        /\ \A k \in 1 .. M + 1 : k \in 1 .. M \/ k = M + 1
    BY <1>4, <2>1
  <2> HIDE DEF M, N
  <2>3. \A n \in 1 .. N : /\ program'[n].fn \in LocalFuns
                          /\ program'[n].at \in 1 .. M + 1
                          /\ log'[1][program'[n].at].name = Recorded(program'[n].fn)
                          /\ log'[1][program'[n].at].arg = program'[n].arg
    BY <1>2, <2>1, <2>2
  <2>4. \A k \in 1 .. M + 1 : log'[1][k].name \in Recorder =>
                                \E n \in 1 .. N : program'[n].at = k
    BY <1>2, <2>1, <2>2
  <2>5. \A m, n \in 1 .. N : m < n => program'[m].at < program'[n].at
    BY <1>2, <2>1
  <2>6. \A k \in 1 .. M + 1 : \/ log'[1][k].name \in Skippable \/ ~log'[1][k].hostio
                             \/ \E n \in 1 .. N : program'[n].at = k
    BY <1>2, <2>1, <2>2
  <2>7. QED BY <2>2, <2>3, <2>4, <2>5, <2>6 DEF ProgramInv
<1>6. CASE Asks
  <2>1. PICK fn \in LocalFuns, a \in Values, e \in Entry :
          /\ e.name = Recorded(fn) /\ e.arg = a
          /\ log'[1] = Append(log[1], e)
          /\ program' = Append(program, [fn |-> fn, arg |-> a, at |-> Len(log[1]) + 1])
    BY <1>6 DEF Asks
  <2> DEFINE c == [fn |-> fn, arg |-> a, at |-> Len(log[1]) + 1]
  <2>2. /\ Len(log'[1]) = M + 1 /\ log'[1][M + 1] = e
        /\ \A k \in 1 .. M : log'[1][k] = log[1][k] /\ k \in 1 .. M + 1
        /\ \A k \in 1 .. M + 1 : k \in 1 .. M \/ k = M + 1
    BY <1>4, <2>1
  <2>3. c.fn = fn /\ c.arg = a /\ c.at = M + 1
        /\ c \in [fn : Funs, arg : Values, at : Nat]
    BY <1>1, LocalFunsAreFuns
  <2> HIDE DEF c
  <2>4. /\ Len(program') = N + 1 /\ program'[N + 1] = c
        /\ \A n \in 1 .. N : program'[n] = program[n]
    BY <1>1, <2>1, <2>3, AppendProperties DEF c
  <2>5. /\ N + 1 \in 1 .. N + 1 /\ M + 1 \in 1 .. M + 1
        /\ \A n \in 1 .. N : n \in 1 .. N + 1
        /\ \A n \in 1 .. N + 1 : n \in 1 .. N \/ n = N + 1
        /\ \A n \in 1 .. N : ~(N + 1 < n)
        /\ \A k \in 1 .. M : k < M + 1
    BY <1>1
  <2> HIDE DEF M, N
  <2>6. \A n \in 1 .. N + 1 :
          /\ program'[n].fn \in LocalFuns
          /\ program'[n].at \in 1 .. M + 1
          /\ log'[1][program'[n].at].name = Recorded(program'[n].fn)
          /\ log'[1][program'[n].at].arg = program'[n].arg
    <3>1. ASSUME NEW n \in 1 .. N
          PROVE  /\ program'[n].fn \in LocalFuns
                 /\ program'[n].at \in 1 .. M + 1
                 /\ log'[1][program'[n].at].name = Recorded(program'[n].fn)
                 /\ log'[1][program'[n].at].arg = program'[n].arg
      <4>1. program'[n] = program[n] /\ program[n].at \in 1 .. M
        BY <1>2, <2>4
      <4>2. log'[1][program[n].at] = log[1][program[n].at]
            /\ program[n].at \in 1 .. M + 1
        BY <2>2, <4>1
      <4>3. QED BY <1>2, <4>1, <4>2
    <3>2. /\ program'[N + 1].fn \in LocalFuns
          /\ program'[N + 1].at \in 1 .. M + 1
          /\ log'[1][program'[N + 1].at].name = Recorded(program'[N + 1].fn)
          /\ log'[1][program'[N + 1].at].arg = program'[N + 1].arg
      BY <2>1, <2>2, <2>3, <2>4, <2>5
    <3>3. QED BY <2>5, <3>1, <3>2
  <2>7. \A m, n \in 1 .. N + 1 : m < n => program'[m].at < program'[n].at
    <3>1. SUFFICES ASSUME NEW m \in 1 .. N + 1, NEW n \in 1 .. N + 1, m < n
                   PROVE  program'[m].at < program'[n].at
      OBVIOUS
    <3>2. m \in 1 .. N
      <4>1. N \in Nat
        BY <1>1 DEF N
      <4>2. QED BY <3>1, <4>1
    <3>3. CASE n \in 1 .. N
      BY <1>2, <2>4, <3>1, <3>2, <3>3
    <3>4. CASE n = N + 1
      BY <1>2, <2>3, <2>4, <2>5, <3>2, <3>4
    <3>5. QED BY <2>5, <3>3, <3>4
  <2>8. \A k \in 1 .. M + 1 : log'[1][k].name \in Recorder =>
                                \E n \in 1 .. N + 1 : program'[n].at = k
    <3>1. ASSUME NEW k \in 1 .. M, log'[1][k].name \in Recorder
          PROVE  \E n \in 1 .. N + 1 : program'[n].at = k
      <4>1. PICK n \in 1 .. N : program[n].at = k
        BY <1>2, <2>2, <3>1
      <4>2. QED BY <2>4, <2>5, <4>1
    <3>2. program'[N + 1].at = M + 1
      BY <2>3, <2>4
    <3>3. QED BY <2>2, <2>5, <3>1, <3>2
  <2>9. \A k \in 1 .. M + 1 : \/ log'[1][k].name \in Skippable \/ ~log'[1][k].hostio
                             \/ \E n \in 1 .. N + 1 : program'[n].at = k
    <3>1. ASSUME NEW k \in 1 .. M, \E n \in 1 .. N : program[n].at = k
          PROVE  \E n \in 1 .. N + 1 : program'[n].at = k
      BY <2>4, <2>5, <3>1
    <3>2. program'[N + 1].at = M + 1
      BY <2>3, <2>4
    <3>3. QED BY <1>2, <2>2, <2>5, <3>1, <3>2
  <2>10. QED BY <2>2, <2>4, <2>6, <2>7, <2>8, <2>9 DEF ProgramInv
<1>7. QED BY <1>3, <1>5, <1>6

-----------------------------------------------------------------------------
(* What is handed back locally is what was handed back on chain.           *)

\* What is asked of the contracts: they do not call pay_for_memory_grow, under
\* whose name the virtual machine records growths of memory of its own.
Plain == "pay_for_memory_grow" \notin Used

\* Lockstep, but for what account_code hands back: a number of its own.
Answered ==
  \A n \in 1 .. Len(answers) :
    /\ n <= Len(program)
    /\ calls[n].fn = program[n].fn
    /\ Compares(calls[n].fn) => calls[n].arg = program[n].arg
    /\ answers[n] = Copied(calls[n].fn, log[1][program[n].at].out)

\* How far the replay has come: every answered call lies before the step that is
\* read next, and the calls of the program that are still to be answered after it.
ProgressInv ==
  /\ outcome = "tracing" => calls = <<>> /\ answers = <<>> /\ want = NoCall
  /\ Len(calls) = Len(answers) + (IF want = NoCall THEN 0 ELSE 1)
  /\ want # NoCall => want = calls[Len(calls)] /\ want.fn \in LocalFuns
  /\ outcome = "running" =>
       \A n \in 1 .. Len(program) : program[n].at <= Consumed <=> n <= Len(answers)

LockInv == ReplayInv /\ ProgramInv /\ ProgressInv /\ Answered

\* A host function of a plain contract is not one of the virtual machine's steps.
LEMMA PlainNames ==
  ASSUME Plain, NEW fn \in LocalFuns
  PROVE  /\ fn \in Recorder /\ fn # "evm_call"
         /\ Recorded(fn) \in Recorder \/ Recorded(fn) \notin Funs \cup Skippable
         /\ Recorded(fn) \notin Skippable
         /\ \A g \in LocalFuns : Recorded(fn) = g => fn = g
<1>1. \A g \in LocalFuns : g \in Funs /\ g # "pay_for_memory_grow"
  <2>1. ASSUME NEW type \in Types \ EvmOnly
        PROVE  CallOf(type) # "pay_for_memory_grow"
    BY TracerConstants DEF CallOf, EvmOnly
  <2>2. QED BY <2>1, LocalFunsAreFuns DEF LocalFuns, Plain
<1>2. \A g \in Funs : g # "evm_call" /\ g # "user_entrypoint" /\ g # "user_returned"
                      /\ g # "console_log" /\ g # "console_log_text"
  BY DEF Funs, Data, Storage, Account, Block, Nested, Creating, CallOf, Metering,
         Math, Message, Returned, Prints, Numbers
<1>3. Recorded(fn) \in {fn, "console_log", "console_log_text"}
  BY DEF Recorded
<1>4. QED BY <1>1, <1>2, <1>3 DEF Recorder, Skippable

\* The name that next_hostio compares.
LEMMA KindNames ==
  ASSUME NEW e
  PROVE  KindName(e) \in {"evm_call", e.name}
BY DEF KindName

\* The call whose step is read next is the first that is not answered.
LEMMA NextAt ==
  ASSUME LockInv, outcome = "running", Consumed \in Nat,
         NEW n \in 1 .. Len(program), program[n].at = Consumed + 1
  PROVE  n = Len(answers) + 1
<1> DEFINE A == Len(answers)
<1>1. A \in Nat /\ Len(program) \in Nat
  BY LenProperties DEF LockInv, ReplayInv, LocalTypes, TracerInv, TraceTypes
<1>2. \A m \in 1 .. Len(program) : program[m].at \in Nat
  BY DEF LockInv, ProgramInv
<1>3. ~(n <= A)
  <2>1. program[n].at <= Consumed <=> n <= A
    BY DEF LockInv, ProgressInv
  <2>2. QED BY <2>1
<1>4. CASE n > A + 1
  <2>1. A + 1 \in 1 .. Len(program) /\ A + 1 < n /\ ~(A + 1 <= A)
    BY <1>1, <1>4
  <2>2. program[A + 1].at < program[n].at
    BY <2>1 DEF LockInv, ProgramInv
  <2>3. program[A + 1].at <= Consumed
    BY <1>2, <2>1, <2>2
  <2>4. program[A + 1].at <= Consumed <=> A + 1 <= A
    BY <2>1 DEF LockInv, ProgressInv
  <2>5. QED BY <2>1, <2>3, <2>4
<1>5. QED BY <1>1, <1>3, <1>4

\* The step that answers a call is the next call of the program, where the log
\* shows it.
LEMMA NextCall ==
  ASSUME Plain, LockInv, outcome = "running", want # NoCall, steps # <<>>,
         KindName(Head(steps)) = want.fn
  PROVE  LET n == Len(answers) + 1 IN
         /\ n \in 1 .. Len(program)
         /\ program[n].at = Consumed + 1
         /\ program[n].fn = want.fn
         /\ program[n].arg = Head(steps).arg
         /\ Head(steps) = log[1][program[n].at]
<1> DEFINE A == Len(answers)
<1>1. /\ ReplayInv /\ TracerInv /\ Head(steps) = log[1][Consumed + 1]
      /\ Consumed + 1 \in 1 .. Len(log[1]) /\ Consumed \in Nat
  BY OneStepTaken DEF LockInv, ReplayInv
<1>2. want.fn \in LocalFuns
  BY DEF LockInv, ProgressInv
<1>3. Head(steps).name = want.fn /\ want.fn \in Recorder
  BY <1>2, PlainNames, KindNames
<1>4. PICK n \in 1 .. Len(program) : program[n].at = Consumed + 1
  BY <1>1, <1>3 DEF LockInv, ProgramInv
<1>5. n = A + 1
  BY <1>1, <1>4, NextAt
<1>6. /\ program[n].fn \in LocalFuns
      /\ log[1][program[n].at].name = Recorded(program[n].fn)
      /\ log[1][program[n].at].arg = program[n].arg
  BY <1>4 DEF LockInv, ProgramInv
<1>7. program[n].fn = want.fn
  BY <1>1, <1>2, <1>3, <1>4, <1>6, PlainNames
<1>8. QED BY <1>1, <1>4, <1>5, <1>6, <1>7

\* A step that no call looked for is not a call of the program.
LEMMA SkippedStep ==
  ASSUME Plain, LockInv, outcome = "running", steps # <<>>,
         KindName(Head(steps)) \in Skippable
  PROVE  \A n \in 1 .. Len(program) : program[n].at # Consumed + 1
<1>1. Head(steps) = log[1][Consumed + 1]
  BY OneStepTaken DEF LockInv
<1>2. Head(steps).name \in Skippable
  BY KindNames DEF Skippable
<1>3. SUFFICES ASSUME NEW n \in 1 .. Len(program), program[n].at = Consumed + 1
               PROVE  FALSE
  OBVIOUS
<1>4. program[n].fn \in LocalFuns /\ Head(steps).name = Recorded(program[n].fn)
  BY <1>1, <1>3 DEF LockInv, ProgramInv
<1>5. QED BY <1>2, <1>4, PlainNames

\* Answers and what they rest on at the start.
LEMMA InitLocks == ASSUME Init PROVE LockInv
<1>1. ReplayInv
  BY InitReads
<1>2. log[1] = <<>> /\ program = <<>> /\ calls = <<>> /\ answers = <<>>
      /\ want = NoCall /\ outcome = "tracing" /\ Len(<<>>) = 0
  BY DEF Init, TracerInit
<1>3. ProgramInv
  BY <1>2 DEF ProgramInv
<1>4. ProgressInv /\ Answered
  BY <1>2 DEF ProgressInv, Answered
<1>5. QED BY <1>1, <1>3, <1>4 DEF LockInv

\* While the transaction runs nothing is called locally.
LEMMA TraceLocks == ASSUME LockInv, Trace PROVE LockInv'
<1>1. ReplayInv'
  BY TraceReads DEF LockInv
<1>2. ProgramInv'
  BY ChainStepShows, ProgramGrows DEF LockInv, ReplayInv, Trace
<1>3. /\ outcome' = "tracing" /\ calls' = <<>> /\ answers' = <<>> /\ want' = NoCall
      /\ Len(<<>>) = 0
  BY DEF LockInv, ProgressInv, Trace, localVars
<1>4. ProgressInv' /\ Answered'
  BY <1>3 DEF ProgressInv, Answered
<1>5. QED BY <1>1, <1>2, <1>4 DEF LockInv

\* Steps that leave the trace, the calls and their answers alone keep in step.
LEMMA StillLocks ==
  ASSUME LockInv, ReplayInv',
         UNCHANGED <<log, program, calls, answers, want>>,
         outcome' # "tracing" \/ outcome' = outcome,
         outcome' = "running" =>
           \A n \in 1 .. Len(program) : program[n].at <= Consumed' <=> n <= Len(answers)
  PROVE  LockInv'
<1>1. ProgramInv'
  BY DEF LockInv, ProgramInv
<1>2. ProgressInv'
  BY DEF LockInv, ProgressInv
<1>3. Answered'
  BY DEF LockInv, Answered
<1>4. QED BY <1>1, <1>2, <1>3 DEF LockInv

\* At the first step no call is behind.
LEMMA NewTraceLocks == ASSUME LockInv, NewTrace PROVE LockInv'
<1>1. ReplayInv' /\ UNCHANGED <<log, program, calls, answers, want, lists>>
  BY NewTraceReads DEF LockInv, NewTrace, tracerVars, chainVars, jsVars
<1>2. outcome' # "tracing"
  BY DEF NewTrace
<1>3. ASSUME outcome' = "running", NEW n \in 1 .. Len(program)
      PROVE  program[n].at <= Consumed' <=> n <= Len(answers)
  <2>1. Len(steps') = Len(log'[1]) /\ Len(log'[1]) \in Nat
    <3>1. steps' = lists'[1] /\ lists'[1] = log'[1]
      BY <1>1, <1>3 DEF NewTrace, ReplayInv, ReaderInv
    <3>2. QED BY <1>1, <3>1, OutermostList DEF LockInv, ReplayInv
  <2>2. Consumed' = 0
    BY <2>1 DEF Consumed
  <2>3. Len(answers) = 0
    BY EmptySeq DEF LockInv, ProgressInv, NewTrace
  <2>4. program[n].at \in Nat /\ program[n].at > 0 /\ n \in Nat /\ n > 0
    <3>1. Len(log[1]) \in Nat /\ Len(program) \in Nat
      BY OutermostList, LenProperties DEF LockInv, ReplayInv, TracerInv, TraceTypes
    <3>2. program[n].at \in 1 .. Len(log[1])
      BY DEF LockInv, ProgramInv
    <3>3. QED BY <3>1, <3>2
  <2>5. QED BY <2>2, <2>3, <2>4
<1>4. QED BY <1>1, <1>2, <1>3, StillLocks

\* A call is appended after those that are answered.
LEMMA CallHostioLocks ==
  ASSUME Plain, LockInv, NEW fn \in LocalFuns, NEW a \in Values,
         CallHostio([fn |-> fn, arg |-> a])
  PROVE  LockInv'
<1> DEFINE c == [fn |-> fn, arg |-> a]
<1>1. /\ ReplayInv' /\ UNCHANGED <<log, program, answers, outcome, steps>>
      /\ outcome = "running" /\ want = NoCall /\ want' = c /\ calls' = Append(calls, c)
  BY CallHostioReads DEF LockInv, CallHostio, tracerVars, chainVars
<1>2. /\ c \in Call /\ c # NoCall /\ c.fn = fn
      /\ calls \in Seq(Call) /\ Len(answers) \in Nat /\ Len(calls) = Len(answers)
  <2>1. calls \in Seq(Call) /\ Len(answers) \in Nat
    BY LenProperties DEF LockInv, ReplayInv, LocalTypes
  <2>2. Len(calls) = Len(answers)
    BY <1>1, <2>1 DEF LockInv, ProgressInv
  <2>3. fn # "none"
    BY LocalFunsAreFuns DEF Funs, Data, Storage, Account, Block, Nested, Creating,
       CallOf, Metering, Math, Message, Returned, Prints, Numbers
  <2>4. QED BY <2>1, <2>2, <2>3, LocalFunsAreFuns DEF Call, NoCall
<1> HIDE DEF c
<1>3. /\ Len(calls') = Len(answers) + 1 /\ calls'[Len(calls')] = c
      /\ \A n \in 1 .. Len(answers) : calls'[n] = calls[n]
  BY <1>1, <1>2, AppendProperties
<1>4. ProgramInv'
  BY <1>1 DEF LockInv, ProgramInv
<1>5. ProgressInv'
  <2>1. Consumed' = Consumed
    BY <1>1 DEF Consumed
  <2>2. QED BY <1>1, <1>2, <1>3, <2>1 DEF LockInv, ProgressInv
<1>6. Answered'
  BY <1>1, <1>3 DEF LockInv, Answered
<1>7. QED BY <1>1, <1>4, <1>5, <1>6 DEF LockInv

\* A round of next_hostio answers the call by its own step or not at all.
LEMMA NextHostioLocks == ASSUME Plain, LockInv, NextHostio PROVE LockInv'
<1>1. /\ ReplayInv' /\ UNCHANGED <<log, program, calls>>
      /\ outcome = "running" /\ want # NoCall
  BY NextHostioReads DEF LockInv, NextHostio, tracerVars, chainVars
<1>2. CASE steps = <<>>
  <2>1. outcome' = "exhausted" /\ UNCHANGED <<want, answers>>
    BY <1>2 DEF NextHostio, Fails
  <2>2. QED BY <1>1, <2>1, StillLocks
<1>3. CASE steps # <<>>
  <2> DEFINE e == Head(steps)
             A == Len(answers)
  <2>1. /\ steps' = Tail(steps) /\ Consumed \in Nat
        /\ Len(log[1]) - Len(Tail(steps)) = Consumed + 1
    BY <1>1, <1>3, Rounds, OneStepTaken DEF LockInv
  <2>2. Consumed' = Consumed + 1
    BY <1>1, <2>1 DEF Consumed
  <2>3. A \in Nat /\ answers \in Seq(Nat) /\ Len(program) \in Nat
    BY LenProperties DEF LockInv, ReplayInv, LocalTypes, TracerInv, TraceTypes
  <2>4. \A n \in 1 .. Len(program) :
          /\ program[n].at \in Nat
          /\ program[n].at <= Consumed <=> n <= A
    BY <1>1 DEF LockInv, ProgramInv, ProgressInv
  <2>5. CASE /\ KindName(e) = want.fn
             /\ Compares(want.fn) => e.arg = want.arg
             /\ answers' = Append(answers, Copied(want.fn, e.out))
             /\ want' = NoCall /\ outcome' = outcome
    <3>1. /\ A + 1 \in 1 .. Len(program)
          /\ program[A + 1].at = Consumed + 1
          /\ program[A + 1].fn = want.fn
          /\ program[A + 1].arg = e.arg
          /\ e = log[1][program[A + 1].at]
      BY <1>1, <1>3, <2>5, NextCall
    <3>2. Len(calls) = A + 1 /\ want = calls[A + 1] /\ want.fn \in LocalFuns
      BY <1>1, <2>3 DEF LockInv, ProgressInv
    <3>3. Copied(want.fn, e.out) \in Nat
      <4>1. e \in Entry
        BY <1>1, <1>3, OneStepTaken DEF LockInv
      <4>2. QED BY <4>1 DEF Copied, FatPointer, Entry
    <3>4. /\ Len(answers') = A + 1 /\ answers'[A + 1] = Copied(want.fn, e.out)
          /\ \A n \in 1 .. A : answers'[n] = answers[n]
      BY <2>3, <2>5, <3>3, AppendProperties
    <3>5. ProgramInv'
      BY <1>1 DEF LockInv, ProgramInv
    <3>6. \A n \in 1 .. Len(program) : program[n].at <= Consumed + 1 <=> n <= A + 1
      <4>1. \A m, n \in 1 .. Len(program) : m < n => program[m].at < program[n].at
        BY DEF LockInv, ProgramInv
      <4>2. ASSUME NEW n \in 1 .. Len(program)
            PROVE  program[n].at <= Consumed + 1 <=> n <= A + 1
        <5>1. CASE n <= A
          BY <2>1, <2>3, <2>4, <4>2, <5>1
        <5>2. CASE n = A + 1
          BY <2>1, <2>3, <3>1, <5>2
        <5>3. CASE n > A + 1
          <6>1. program[A + 1].at < program[n].at
            BY <3>1, <4>1, <4>2, <5>3
          <6>2. QED BY <2>1, <2>3, <2>4, <3>1, <4>2, <5>3, <6>1
        <5>4. QED BY <2>3, <4>2, <5>1, <5>2, <5>3
      <4>3. QED BY <4>2
    <3>7. ProgressInv'
      <4>1. want' = NoCall /\ outcome' = "running" /\ Len(calls') = Len(answers')
        BY <1>1, <2>5, <3>2, <3>4
      <4>2. Len(answers') = A + 1 /\ A + 1 + 0 = A + 1
        BY <2>3, <3>4
      <4> HIDE DEF A, e
      <4>3. QED BY <1>1, <2>2, <3>6, <4>1, <4>2 DEF ProgressInv
    <3>8. Answered'
      <4>1. \A n \in 1 .. A + 1 : n \in 1 .. A \/ n = A + 1
        BY <2>3
      <4>2. ASSUME NEW n \in 1 .. A
            PROVE  /\ n <= Len(program)
                   /\ calls[n].fn = program[n].fn
                   /\ Compares(calls[n].fn) => calls[n].arg = program[n].arg
                   /\ answers'[n] = Copied(calls[n].fn, log[1][program[n].at].out)
        BY <3>4 DEF LockInv, Answered
      <4>3. /\ A + 1 <= Len(program)
            /\ calls[A + 1].fn = program[A + 1].fn
            /\ Compares(calls[A + 1].fn) => calls[A + 1].arg = program[A + 1].arg
            /\ answers'[A + 1] = Copied(calls[A + 1].fn,
                                       log[1][program[A + 1].at].out)
        BY <2>3, <2>5, <3>1, <3>2, <3>4
      <4> HIDE DEF A, e
      <4>4. \A n \in 1 .. Len(answers') :
              /\ n <= Len(program)
              /\ calls[n].fn = program[n].fn
              /\ Compares(calls[n].fn) => calls[n].arg = program[n].arg
              /\ answers'[n] = Copied(calls[n].fn, log[1][program[n].at].out)
        BY <3>4, <4>1, <4>2, <4>3
      <4>5. QED BY <1>1, <4>4 DEF Answered
    <3>9. QED BY <1>1, <3>5, <3>7, <3>8 DEF LockInv
  <2>6. CASE KindName(e) \in Skippable /\ UNCHANGED <<want, answers, outcome>>
    <3>1. \A n \in 1 .. Len(program) : program[n].at # Consumed + 1
      BY <1>1, <1>3, <2>6, SkippedStep
    <3>2. \A n \in 1 .. Len(program) : program[n].at <= Consumed' <=> n <= Len(answers)
      BY <2>1, <2>2, <2>4, <3>1
    <3>3. QED BY <1>1, <2>6, <3>2, StillLocks
  <2>7. CASE outcome' \in {"diverged", "unreachable", "mismatch"}
             /\ UNCHANGED <<want, answers>>
    BY <1>1, <2>7, StillLocks
  <2>8. QED BY <1>3, <2>5, <2>6, <2>7, Rounds
<1>4. QED BY <1>2, <1>3

\* Every step of the command keeps in step.
LEMMA NextLocks == ASSUME Plain, LockInv, [Next]_vars PROVE LockInv'
<1>1. CASE Trace
  BY <1>1, TraceLocks
<1>2. CASE NewTrace
  BY <1>2, NewTraceLocks
<1>3. CASE NextHostio
  BY <1>3, NextHostioLocks
<1>4. CASE ReturnLocally
  <2>1. ReplayInv'
    BY <1>4, ReturnReads DEF LockInv
  <2>2. UNCHANGED <<log, program, calls, answers, want>> /\ outcome' = "returned"
    BY <1>4 DEF ReturnLocally, tracerVars, chainVars
  <2>3. QED BY <2>1, <2>2, StillLocks
<1>5. CASE \E fn \in LocalFuns, a \in Values : CallHostio([fn |-> fn, arg |-> a])
  BY <1>5, CallHostioLocks
<1>6. CASE UNCHANGED vars
  <2>1. ReplayInv'
    BY <1>6, NextReads DEF LockInv
  <2>2. UNCHANGED <<log, program, calls, answers, want, outcome, steps>>
    BY <1>6 DEF vars, localVars, tracerVars, chainVars
  <2>3. Consumed' = Consumed
    BY <2>2 DEF Consumed
  <2>4. outcome' = "running" =>
          \A n \in 1 .. Len(program) : program[n].at <= Consumed' <=> n <= Len(answers)
    BY <2>2, <2>3 DEF LockInv, ProgressInv
  <2>5. QED BY <2>1, <2>2, <2>4, StillLocks
<1>7. QED BY <1>1, <1>2, <1>3, <1>4, <1>5, <1>6 DEF Next

\* The frame reader never hands a contract the result of another call: whatever
\* library was found, whatever contracts were called in between and however they
\* nested, the n-th answer is that of the n-th call on chain, provided contracts
\* leave account_code and pay_for_memory_grow alone.
THEOREM LockstepHolds ==
  ASSUME Plain, "account_code" \notin Used
  PROVE  Spec => []Lockstep
<1>1. Init => LockInv
  BY InitLocks
<1>2. LockInv /\ [Next]_vars => LockInv'
  BY NextLocks
<1>3. "account_code" \notin LocalFuns
  <2>1. \A type \in Types \ EvmOnly : CallOf(type) # "account_code"
    BY TracerConstants DEF CallOf, EvmOnly
  <2>2. QED BY <2>1 DEF LocalFuns
<1>4. ASSUME LockInv PROVE Lockstep
  <2>1. SUFFICES ASSUME NEW n \in 1 .. Len(answers)
                 PROVE  /\ n <= Len(program)
                        /\ calls[n].fn = program[n].fn
                        /\ Compares(calls[n].fn) => calls[n].arg = program[n].arg
                        /\ answers[n] = log[1][program[n].at].out
    BY DEF Lockstep
  <2>2. /\ n <= Len(program)
        /\ calls[n].fn = program[n].fn
        /\ Compares(calls[n].fn) => calls[n].arg = program[n].arg
        /\ answers[n] = Copied(calls[n].fn, log[1][program[n].at].out)
    BY <1>4 DEF LockInv, Answered
  <2>3. n \in 1 .. Len(program)
    BY <1>4, <2>2, LenProperties DEF LockInv, ReplayInv, TracerInv, TraceTypes
  <2>4. calls[n].fn # "account_code"
    BY <1>3, <1>4, <2>2, <2>3 DEF LockInv, ProgramInv
  <2>5. QED BY <2>2, <2>4 DEF Copied
<1>5. QED BY <1>1, <1>2, <1>4, PTL DEF Spec

-----------------------------------------------------------------------------
(* What the parser can read.                                               *)

\* A frame that is called has a larger number than its caller, and so has the
\* list that an entry with nested steps refers to than the one it is in; and no
\* host function reports a frame without a name.
NestsBelow(e, i, n) ==
  /\ Framed(e) => e.sub \in i + 1 .. n
  /\ Unnamed(e) => Unreported(e)
CalleesAhead ==
  \A p \in 1 .. Len(frames) :
    frames[p].call # "none" => frames[p].callee \in frames[p].id + 1 .. Len(log)
SubsAhead ==
  \A i \in 1 .. Len(log) : \A k \in 1 .. Len(log[i]) :
    NestsBelow(log[i][k], i, Len(log))
NestInv == CalleesAhead /\ SubsAhead

\* A frame that goes on, g for f, is who it was and waits for whom it waited.
GoesOn(f, g) ==
  /\ g.id = f.id /\ g.vm = f.vm /\ g.callee = f.callee
  /\ g.call # "none" => f.call # "none"
FramesGoOn ==
  /\ Len(frames') <= Len(frames)
  /\ \A p \in 1 .. Len(frames') :
       p \in 1 .. Len(frames) /\ GoesOn(frames[p], frames'[p])

\* An entry that may be written to the log of frame i.
LogsBelow ==
  \E i \in 1 .. Len(log), e \in Entry :
    NestsBelow(e, i, Len(log)) /\ log' = [log EXCEPT ![i] = Append(@, e)]

\* Frames that go on, and entries like these, keep the nesting.
LEMMA NestKept ==
  ASSUME TracerInv, NestInv, FramesGoOn, log' = log \/ LogsBelow
  PROVE  NestInv'
<1>1. log \in Seq(Seq(Entry)) /\ Len(log) \in Nat
  BY LenProperties DEF TracerInv, TraceTypes
<1>2. Len(log') = Len(log)
  BY <1>1 DEF LogsBelow
<1>3. CalleesAhead'
  BY <1>2 DEF NestInv, CalleesAhead, FramesGoOn, GoesOn
<1>4. SubsAhead'
  <2>1. CASE log' = log
    BY <2>1 DEF NestInv, SubsAhead, NestsBelow, Framed, Unnamed, Unreported
  <2>2. CASE LogsBelow
    <3>1. PICK i \in 1 .. Len(log), e \in Entry :
            NestsBelow(e, i, Len(log)) /\ log' = [log EXCEPT ![i] = Append(@, e)]
      BY <2>2 DEF LogsBelow
    <3>2. SUFFICES ASSUME NEW j \in 1 .. Len(log), NEW k \in 1 .. Len(log'[j])
                   PROVE  NestsBelow(log'[j][k], j, Len(log))
      BY <1>2 DEF SubsAhead, NestsBelow, Framed, Unnamed, Unreported
    <3>3. log[j] \in Seq(Entry) /\ Len(log[j]) \in Nat
      BY <1>1, ElementOfSeq, LenProperties
    <3>4. CASE k \in 1 .. Len(log[j]) /\ log'[j][k] = log[j][k]
      BY <3>4 DEF NestInv, SubsAhead
    <3>5. CASE j = i /\ log'[j][k] = e
      BY <3>1, <3>5
    <3>6. QED
      <4>1. CASE j # i
        BY <1>1, <3>1, <3>2, <3>4, <4>1
      <4>2. CASE j = i
        <5>1. log'[j] = Append(log[j], e)
          BY <1>1, <3>1, <4>2
        <5>2. /\ Len(log'[j]) = Len(log[j]) + 1 /\ log'[j][Len(log[j]) + 1] = e
              /\ \A m \in 1 .. Len(log[j]) : log'[j][m] = log[j][m]
          BY <3>3, <5>1, AppendProperties
        <5>3. k \in 1 .. Len(log[j]) \/ k = Len(log[j]) + 1
          BY <3>2, <3>3, <5>2
        <5>4. QED BY <3>4, <3>5, <4>2, <5>2, <5>3
      <4>3. QED BY <4>1, <4>2
  <2>3. QED BY <2>1, <2>2
<1>5. QED BY <1>3, <1>4 DEF NestInv

\* The running frame goes on alone.
LEMMA TopGoesOn ==
  ASSUME TracerInv, NEW f \in Frame, GoesOn(Running, f),
         frames' = [frames EXCEPT ![Len(frames)] = f]
  PROVE  FramesGoOn
<1>1. frames \in Seq(Frame) /\ Len(frames) \in Nat
      /\ Len(frames) \in 1 .. Len(frames) /\ Running = frames[Len(frames)]
  BY TopFrame DEF TracerInv, TraceTypes
<1>2. /\ Len(frames') = Len(frames)
      /\ \A p \in 1 .. Len(frames) :
           frames'[p] = IF p = Len(frames) THEN f ELSE frames[p]
  BY <1>1, ExceptSeq
<1>3. \A p \in 1 .. Len(frames) : GoesOn(frames[p], frames'[p])
  BY <1>1, <1>2 DEF GoesOn
<1>4. Len(frames) <= Len(frames)
  BY <1>1
<1>5. QED BY <1>2, <1>3, <1>4 DEF FramesGoOn

\* No step is named like a frame.
LEMMA FrameNames ==
  \A name \in Funs \cup Skippable \cup {"console_log", "console_log_text"} :
    name \notin EvmNames /\ name # ""
<1>1. \A type \in Types : EnterName(type) \in {"evm_call_contract",
        "evm_delegate_call_contract", "evm_static_call_contract", "evm_create1",
        "evm_create2", "evm_self_destruct", ""}
  BY TracerConstants DEF EnterName
<1>2. \A name \in Funs \cup Skippable \cup {"console_log", "console_log_text"} :
        name \notin {"evm_call_contract", "evm_delegate_call_contract",
                     "evm_static_call_contract", "evm_create1", "evm_create2",
                     "evm_self_destruct"}
  BY DEF Skippable, Funs, Data, Storage, Account, Block, Nested, Creating, CallOf,
         Metering, Math, Message, Returned, Prints, Numbers
<1>3. \A name \in Funs \cup Skippable \cup {"console_log", "console_log_text"} : name # ""
  BY DEF Skippable, Funs, Data, Storage, Account, Block, Nested, Creating, CallOf,
         Metering, Math, Message, Returned, Prints, Numbers
<1> DEFINE six == {"evm_call_contract", "evm_delegate_call_contract",
                   "evm_static_call_contract", "evm_create1", "evm_create2",
                   "evm_self_destruct"}
<1>4. EvmNames \subseteq six
  BY <1>1 DEF EvmNames
<1> SUFFICES ASSUME NEW name \in Funs \cup Skippable \cup {"console_log", "console_log_text"}
             PROVE  name \notin EvmNames /\ name # ""
  OBVIOUS
<1>5. name \notin six
  BY <1>2
<1>6. name # ""
  BY <1>3
<1>7. QED BY <1>4, <1>5, <1>6

\* The entries of steps that open no frame nest nothing, and have a name.
LEMMA FlatEntries ==
  /\ \A arg, out : \A name \in Skippable :
       ~Framed(Info(name, arg, out)) /\ ~Unnamed(Info(name, arg, out))
  /\ \A arg, out : \A fn \in Used :
       ~Framed(Info(Recorded(fn), arg, out)) /\ ~Unnamed(Info(Recorded(fn), arg, out))
  /\ \A arg, out : \A name \in Creating :
       ~Framed(Info(name, arg, out)) /\ ~Unnamed(Info(name, arg, out))
<1>1. \A name \in Funs \cup Skippable \cup {"console_log", "console_log_text"} :
        name \notin EvmNames /\ name # ""
  BY FrameNames
<1>2. /\ \A name \in Skippable : name \notin Nested
      /\ \A name \in Creating : name \notin Nested /\ name \in Funs
  BY VmNames, CallNames, ReportNames DEF Creating, Nested, CallOf
<1>3. ASSUME NEW fn \in Used
      PROVE  /\ Recorded(fn) \notin Nested
             /\ Recorded(fn) \in Funs \cup Skippable \cup {"console_log", "console_log_text"}
  BY UsedNames, CallNames DEF Recorded
<1>4. \A name, arg, out : Info(name, arg, out).name = name
  BY DEF Info
<1>5. ASSUME NEW name \in Funs \cup Skippable \cup {"console_log", "console_log_text"},
             name \notin Nested, NEW arg, NEW out
      PROVE  ~Framed(Info(name, arg, out)) /\ ~Unnamed(Info(name, arg, out))
  <2>1. name \notin EvmNames /\ name # ""
    BY <1>1
  <2>2. Info(name, arg, out).name = name
    BY <1>4
  <2>3. QED BY <1>5, <2>1, <2>2 DEF Framed, Unnamed
<1>6. /\ \A name \in Skippable : name \notin Nested
      /\ \A name \in Creating : name \notin Nested /\ name \in Funs
  BY <1>2
<1>7. \A arg, out : \A name \in Skippable :
        ~Framed(Info(name, arg, out)) /\ ~Unnamed(Info(name, arg, out))
  BY <1>5, <1>6
<1>8. \A arg, out : \A fn \in Used :
        ~Framed(Info(Recorded(fn), arg, out)) /\ ~Unnamed(Info(Recorded(fn), arg, out))
  BY <1>3, <1>5
<1>9. \A arg, out : \A name \in Creating :
        ~Framed(Info(name, arg, out)) /\ ~Unnamed(Info(name, arg, out))
  BY <1>5, <1>6
<1>10. QED BY <1>7, <1>8, <1>9

\* A step of the virtual machine.
LEMMA VmStepNests ==
  ASSUME TracerInv, NestInv, NEW name \in Skippable,
         NEW state \in {"running", "returned"}, VmStep(name, state)
  PROVE  NestInv'
<1> DEFINE f == [Running EXCEPT !.state = state]
           e == Info(name, 0, 0)
<1>1. Running \in Frame /\ Running.id \in 1 .. Len(log)
  BY TopFrame DEF TracerInv
<1>2. f \in Frame /\ GoesOn(Running, f)
  BY <1>1 DEF Frame, GoesOn
<1>3. e \in Entry /\ ~Framed(e) /\ ~Unnamed(e)
  BY VmNames, StepsAreEntries, FlatEntries
<1>4. /\ frames' = [frames EXCEPT ![Len(frames)] = f]
      /\ log' = [log EXCEPT ![Running.id] = Append(@, e)]
  BY DEF VmStep, Logs
<1> HIDE DEF f, e
<1>5. FramesGoOn
  BY <1>2, <1>4, TopGoesOn
<1>6. LogsBelow
  BY <1>1, <1>3, <1>4 DEF LogsBelow, NestsBelow
<1>7. QED BY <1>5, <1>6, NestKept

\* A host function that opens no frame.
LEMMA UsesNests == ASSUME TracerInv, NestInv, NEW fn \in Used, Uses(fn) PROVE NestInv'
<1>1. PICK a \in Arguments : Logs(Running, Info(Recorded(fn), a, Result))
  BY DEF Uses
<1> DEFINE e == Info(Recorded(fn), a, Result)
<1>2. Running \in Frame /\ Running.id \in 1 .. Len(log) /\ GoesOn(Running, Running)
  BY TopFrame DEF TracerInv, GoesOn
<1>3. e \in Entry /\ ~Framed(e) /\ ~Unnamed(e)
  <2>1. a \in Nat /\ Result \in Nat
    BY ResultsAreNumbers DEF TracerInv
  <2>2. QED BY <2>1, UsedNames, StepsAreEntries, FlatEntries
<1>4. /\ frames' = [frames EXCEPT ![Len(frames)] = Running]
      /\ log' = [log EXCEPT ![Running.id] = Append(@, e)]
  BY <1>1 DEF Logs
<1> HIDE DEF e
<1>5. FramesGoOn
  BY <1>2, <1>4, TopGoesOn
<1>6. LogsBelow
  BY <1>2, <1>3, <1>4 DEF LogsBelow, NestsBelow
<1>7. QED BY <1>5, <1>6, NestKept

\* A call that is reported is joined with the frame it opened.
LEMMA ReportsNests == ASSUME TracerInv, NestInv, Reports PROVE NestInv'
<1> DEFINE name == CallOf(Running.call)
           f == [Running EXCEPT !.call = "none"]
<1>1. PICK a \in Arguments :
        Logs(f, IF name \in Nested
                  THEN [Info(name, a, Result) EXCEPT !.sub = Running.callee]
                  ELSE Info(name, a, Result))
  BY DEF Reports
<1> DEFINE info == Info(name, a, Result)
           e == IF name \in Nested THEN [info EXCEPT !.sub = Running.callee] ELSE info
<1>2. /\ Running \in Frame /\ Running.id \in 1 .. Len(log)
      /\ Len(frames) \in 1 .. Len(frames) /\ Running = frames[Len(frames)]
      /\ Running.call # "none"
  BY TopFrame DEF TracerInv, Reports
<1>3. f \in Frame /\ GoesOn(Running, f)
  BY <1>2 DEF Frame, GoesOn
<1>4. Running.callee \in Running.id + 1 .. Len(log) /\ Running.callee \in Nat
  BY <1>2 DEF NestInv, CalleesAhead, Frame
<1>5. name \in Nested \cup Creating /\ name \in StepNames
  <2>1. Running.call \in Opening \cup Making
    BY ReportedCalls DEF Reports
  <2>2. name \in Nested \cup Creating
    BY <2>1, CallNames
  <2>3. QED BY <2>2, ReportNames, StepsAreEntries
<1>6. info \in Entry
  BY <1>5, ResultsAreNumbers, StepsAreEntries DEF TracerInv
<1>7. e \in Entry /\ NestsBelow(e, Running.id, Len(log))
  <2>1. CASE name \in Nested
    <3>1. e \in Entry /\ e.sub = Running.callee /\ e.name = name
      BY <1>4, <1>6, <2>1 DEF Entry, Info
    <3>2. name # ""
      <4>1. name \in Funs
        BY <2>1, VmNames, CallNames, ReportNames DEF Funs
      <4>2. QED BY <4>1, FrameNames
    <3> HIDE DEF e, name
    <3>3. QED BY <1>4, <3>1, <3>2 DEF NestsBelow, Unnamed
  <2>2. CASE name \notin Nested
    <3>1. e = info /\ name \in Creating
      BY <1>5, <2>2
    <3>2. ~Framed(e) /\ ~Unnamed(e)
      BY <3>1, FlatEntries
    <3>3. QED BY <1>6, <3>1, <3>2 DEF NestsBelow
  <2>3. QED BY <2>1, <2>2
<1>8. /\ frames' = [frames EXCEPT ![Len(frames)] = f]
      /\ log' = [log EXCEPT ![Running.id] = Append(@, e)]
  BY <1>1 DEF Logs
<1> HIDE DEF f, e
<1>9. FramesGoOn
  BY <1>3, <1>8, TopGoesOn
<1>10. LogsBelow
  BY <1>2, <1>7, <1>8 DEF LogsBelow
<1>11. QED BY <1>9, <1>10, NestKept

\* A frame ends, and its caller's log shows it.
LEMMA EndsNests == ASSUME TracerInv, NestInv, Ends PROVE NestInv'
<1> DEFINE c == Len(frames) - 1
           caller == frames[c]
           after == IF caller.vm = "stylus" THEN caller
                                            ELSE [caller EXCEPT !.call = "none"]
           e == Entered(caller.call, caller.callee)
<1>1. /\ Len(frames) \in Nat /\ Len(frames) > 1
      /\ c \in 1 .. Len(frames) /\ c \in 1 .. Len(frames) - 1 /\ c <= Len(frames)
      /\ \A p \in 1 .. c : p \in 1 .. Len(frames)
  <2>1. Len(frames) \in Nat \ {0} /\ Len(frames) # 1
    BY TopFrame DEF Ends, Outermost, TracerInv
  <2>2. \A m \in Nat \ {0} : m # 1 =>
          /\ m > 1 /\ m - 1 \in 1 .. m /\ m - 1 \in 1 .. m - 1 /\ m - 1 <= m
          /\ \A p \in 1 .. m - 1 : p \in 1 .. m
    OBVIOUS
  <2>3. QED BY <2>1, <2>2
<1>2. caller \in Frame /\ caller.id \in 1 .. Len(log) /\ caller.call # "none"
  BY <1>1, TopFrame DEF TracerInv, StackInv
<1>3. after \in Frame /\ GoesOn(caller, after)
  BY <1>2 DEF Frame, GoesOn
<1>4. caller.callee \in caller.id + 1 .. Len(log) /\ e \in Entry
  <2>1. caller.callee \in caller.id + 1 .. Len(log)
    BY <1>1, <1>2 DEF NestInv, CalleesAhead
  <2>2. caller.call \in Types /\ caller.callee \in Nat
    BY <1>2 DEF Frame
  <2>3. QED BY <2>1, <2>2, StepsAreEntries
<1>5. NestsBelow(e, caller.id, Len(log))
  BY <1>4 DEF NestsBelow, Entered, Unreported
<1>6. log' = log \/ log' = [log EXCEPT ![caller.id] = Append(@, e)]
  BY DEF Ends
<1>7. frames' = [ButLast(frames) EXCEPT ![c] = after]
  <2>1. ButLast(frames)[c] = frames[c]
    BY <1>1, <1>2, CallerOnTop DEF TracerInv, TraceTypes
  <2>2. QED BY <2>1 DEF Ends
<1> HIDE DEF after, e
<1>8. FramesGoOn
  <2>1. /\ Len(frames') = c /\ frames'[c] = after
        /\ \A p \in 1 .. c : p # c => frames'[p] = frames[p]
    BY <1>1, <1>3, <1>7, CallerOnTop DEF TracerInv, TraceTypes
  <2>2. QED BY <1>1, <1>3, <2>1 DEF FramesGoOn, GoesOn
<1>9. log' = log \/ LogsBelow
  BY <1>2, <1>4, <1>5, <1>6 DEF LogsBelow
<1>10. QED BY <1>8, <1>9, NestKept

\* A frame that opens has the next number.
LEMMA CallsNests ==
  ASSUME TracerInv, NestInv, NEW type \in Types, NEW vm \in {"stylus", "evm"},
         Calls(type, vm)
  PROVE  NestInv'
<1> DEFINE n == Len(log) + 1
           L == Len(frames)
           caller == [frames[L] EXCEPT !.call = type, !.callee = n]
           callee == [NewFrame(n, vm) EXCEPT
                        !.state = IF type = "SELFDESTRUCT" THEN "returned" ELSE "new"]
           waiting == [frames EXCEPT ![L] = caller]
<1>1. /\ frames \in Seq(Frame) /\ log \in Seq(Seq(Entry)) /\ Len(log) \in Nat
      /\ L \in Nat /\ L \in 1 .. L /\ frames[L] \in Frame
      /\ \A p \in 1 .. L : frames[p].id \in 1 .. Len(log)
  BY TopFrame, LenProperties DEF TracerInv, TraceTypes, StackInv
<1>2. /\ caller \in Frame /\ caller.id = frames[L].id /\ caller.callee = n
      /\ callee \in Frame /\ callee.call = "none"
  <2>1. n \in Nat
    BY <1>1
  <2>2. caller \in Frame /\ caller.id = frames[L].id /\ caller.callee = n
    BY <1>1, <2>1 DEF Frame
  <2>3. callee \in Frame /\ callee.call = "none"
    BY <2>1 DEF Frame, NewFrame
  <2>4. QED BY <2>2, <2>3
<1>3. frames' = Append(waiting, callee) /\ log' = Append(log, <<>>)
  BY DEF Calls
<1> HIDE DEF caller, callee
<1>4. /\ Len(frames') = L + 1 /\ frames'[L + 1] = callee
      /\ \A p \in 1 .. L : frames'[p] = IF p = L THEN caller ELSE frames[p]
  <2>1. /\ waiting \in Seq(Frame) /\ Len(waiting) = L
        /\ \A p \in 1 .. L : waiting[p] = IF p = L THEN caller ELSE frames[p]
    BY <1>1, <1>2, ExceptSeq
  <2> HIDE DEF waiting
  <2>2. QED BY <1>2, <1>3, <2>1, AppendProperties
<1>5. Len(log') = n /\ log'[n] = <<>> /\ \A i \in 1 .. Len(log) : log'[i] = log[i]
  BY <1>1, <1>3, EmptySeq, AppendProperties
<1>6. CalleesAhead'
  <2>1. SUFFICES ASSUME NEW p \in 1 .. L + 1, frames'[p].call # "none"
                 PROVE  frames'[p].callee \in frames'[p].id + 1 .. n
    BY <1>4, <1>5 DEF CalleesAhead
  <2>2. CASE p = L
    BY <1>1, <1>2, <1>4, <2>2
  <2>3. CASE p \in 1 .. L /\ p # L
    <3>1. frames'[p] = frames[p] /\ frames[p].id \in 1 .. Len(log)
      BY <1>1, <1>4, <2>3
    <3>2. frames[p].callee \in frames[p].id + 1 .. Len(log)
      BY <2>1, <2>3, <3>1 DEF NestInv, CalleesAhead
    <3>3. \A m \in Nat : \A i \in 1 .. m : \A j \in i + 1 .. m : j \in i + 1 .. m + 1
      OBVIOUS
    <3>4. QED BY <1>1, <3>1, <3>2, <3>3
  <2>4. p # L + 1
    BY <1>2, <1>4, <2>1
  <2>5. QED BY <1>1, <2>2, <2>3, <2>4
<1>7. SubsAhead'
  <2>1. SUFFICES ASSUME NEW i \in 1 .. n, NEW k \in 1 .. Len(log'[i])
                 PROVE  NestsBelow(log'[i][k], i, n)
    BY <1>5 DEF SubsAhead, NestsBelow, Framed, Unnamed, Unreported
  <2>2. i # n
    BY <1>5, <2>1, EmptySeq
  <2>3. i \in 1 .. Len(log) /\ log'[i] = log[i]
    BY <1>1, <1>5, <2>2
  <2>4. NestsBelow(log[i][k], i, Len(log))
    BY <2>1, <2>3 DEF NestInv, SubsAhead
  <2>5. i + 1 .. Len(log) \subseteq i + 1 .. n
    BY <1>1, <2>3
  <2>6. QED BY <2>3, <2>4, <2>5 DEF NestsBelow
<1>8. QED BY <1>6, <1>7 DEF NestInv

\* Every step of the execution keeps the nesting.
LEMMA ChainStepNests == ASSUME TracerInv, NestInv, ChainStep PROVE NestInv'
<1>1. CASE Entrypoint
  BY <1>1, VmStepNests DEF Entrypoint, Skippable
<1>2. CASE GrowMemory
  BY <1>2, VmStepNests DEF GrowMemory, Skippable
<1>3. CASE Return
  BY <1>3, VmStepNests DEF Return, Skippable
<1>4. CASE Ends
  BY <1>4, EndsNests
<1>5. CASE Reports
  BY <1>5, ReportsNests
<1>6. CASE RunsOut
  <2> DEFINE f == [Running EXCEPT !.state = "returned"]
  <2>1. Running \in Frame /\ Running = frames[Len(frames)]
    BY TopFrame DEF TracerInv
  <2>2. f \in Frame /\ GoesOn(Running, f)
    BY <2>1 DEF Frame, GoesOn
  <2>3. frames' = [frames EXCEPT ![Len(frames)] = f] /\ log' = log
    BY <1>6, <2>1 DEF RunsOut
  <2> HIDE DEF f
  <2>4. QED BY <2>2, <2>3, TopGoesOn, NestKept
<1>7. CASE \E fn \in Used : Uses(fn)
  BY <1>7, UsesNests
<1>8. CASE \E type \in Types, vm \in {"stylus", "evm"} : Calls(type, vm)
  BY <1>8, CallsNests
<1>9. QED BY <1>1, <1>2, <1>3, <1>4, <1>5, <1>6, <1>7, <1>8 DEF ChainStep

\* A trace is read to its end if each of its entries parses and refers, if it has
\* steps of its own, to a later list.  ParseFrame is defined by recursion: there is
\* a function that solves its equation, and no solution fails at a last list.
LEMMA AllParse ==
  ASSUME Len(lists) \in Nat,
         \A i \in 1 .. Len(lists) : \A k \in 1 .. Len(lists[i]) :
           Parses(lists[i][k]) /\ NestsBelow(lists[i][k], i, Len(lists))
  PROVE  \A i \in 1 .. Len(lists) : ParseFrame[i]
<1> DEFINE n == Len(lists)
           Round(f, i) == \A k \in 1 .. Len(lists[i]) :
                            /\ Parses(lists[i][k])
                            /\ Framed(lists[i][k]) => f[lists[i][k].sub]
           Solves(f) == f = [i \in 1 .. n |-> Round(f, i)]
           true == [i \in 1 .. n |-> TRUE]
<1>1. \A i \in 1 .. n : \A k \in 1 .. Len(lists[i]) :
        Framed(lists[i][k]) => lists[i][k].sub \in i + 1 .. n /\ lists[i][k].sub \in 1 .. n
  BY DEF NestsBelow
<1>2. Solves(true)
  <2>1. \A i \in 1 .. n : Round(true, i) = TRUE
    BY <1>1
  <2> HIDE DEF Round
  <2>2. QED BY <2>1
<1>3. Solves(ParseFrame)
  <2>1. ParseFrame = CHOOSE f : Solves(f)
    BY DEF ParseFrame
  <2> HIDE DEF Solves
  <2>2. QED BY <1>2, <2>1
<1>4. \A i \in 1 .. n : ParseFrame[i] = Round(ParseFrame, i)
  <2> HIDE DEF Round
  <2>1. ParseFrame = [i \in 1 .. n |-> Round(ParseFrame, i)]
    BY <1>3
  <2> DEFINE g == ParseFrame
  <2> HIDE DEF g
  <2>2. QED BY <2>1 DEF g
<1> DEFINE T == {n - i : i \in {j \in 1 .. n : ~ParseFrame[j]}}
<1>5. SUFFICES ASSUME T # {} PROVE FALSE
  OBVIOUS
<1>6. T \in SUBSET Nat
  OBVIOUS
<1>7. PICK x \in T : \A y \in T : x <= y
  <2> HIDE DEF T
  <2>1. QED BY <1>5, <1>6, LeastNatural
<1>8. PICK i \in 1 .. n : ~ParseFrame[i] /\ x = n - i
  OBVIOUS
<1>9. \A j \in i + 1 .. n : ParseFrame[j]
  <2>1. SUFFICES ASSUME NEW j \in i + 1 .. n, ~ParseFrame[j] PROVE FALSE
    OBVIOUS
  <2>2. j \in 1 .. n /\ n \in Nat
    OBVIOUS
  <2>3. n - j \in T
    BY <2>1, <2>2
  <2>4. n - i <= n - j
    BY <1>7, <1>8, <2>3
  <2> HIDE DEF n
  <2>5. QED BY <1>8, <2>1, <2>2, <2>4
<1>10. Round(ParseFrame, i)
  BY <1>1, <1>8, <1>9
<1>11. QED BY <1>4, <1>8, <1>10

\* When the transaction is over, the lists are the logs.
LEMMA ListsAreLogs ==
  ASSUME TracerInv, Executed
  PROVE  Len(lists) = Len(log) /\ \A i \in 1 .. Len(log) : lists[i] = log[i]
<1>1. /\ TraceTypes /\ TracedAsExecuted /\ Len(lists) = Len(log)
      /\ Len(frames) = 1 /\ Running = frames[1] /\ frames[1].id = 1
      /\ open = 1 /\ Running.id = 1
  BY TopFrame DEF TracerInv, TraceTypes, TracedAsExecuted, Executed, Outermost,
                  StackInv
<1>2. lists[1] = log[1]
  BY <1>1, IdleList DEF Executed
<1>3. \A i \in 1 .. Len(lists) : i # 1 => lists[i] = log[i]
  BY <1>1 DEF TracedAsExecuted
<1>4. QED BY <1>1, <1>2, <1>3

\* What is found unreadable is, and stays, for one of the two reasons.
ReadInv == ReplayInv /\ NestInv /\ UnreadableMeansUnreported

\* parse_frame reads the trace unless it prints a number or, if it comes from
\* query.js, shows a frame that no host function reports.
LEMMA Readable ==
  ASSUME ReplayInv, NestInv, NewTrace, outcome' = "unparsed"
  PROVE  \/ SomeStep(PrintsNumber) \/ SomeStep(Unnamed)
         \/ ~native /\ SomeStep(Unreported)
<1>1. TracerInv /\ native \in BOOLEAN
  BY DEF ReplayInv, LocalTypes
<1>2. Len(lists) = Len(log) /\ Len(log) \in Nat
      /\ \A i \in 1 .. Len(log) : lists[i] = log[i]
  BY <1>1, ListsAreLogs, LenProperties DEF NewTrace, TracerInv, TraceTypes
<1>3. ~ParseFrame[1]
  BY DEF NewTrace
<1>4. SUFFICES ASSUME ~SomeStep(PrintsNumber), ~SomeStep(Unnamed),
                      native \/ ~SomeStep(Unreported)
               PROVE  FALSE
  BY <1>1
<1>5. ASSUME NEW i \in 1 .. Len(log), NEW k \in 1 .. Len(log[i])
      PROVE  Parses(log[i][k]) /\ NestsBelow(log[i][k], i, Len(log))
  <2> DEFINE e == log[i][k]
  <2>1. NestsBelow(e, i, Len(log))
    BY DEF NestInv, SubsAhead
  <2>2. e.name # "console_log"
    BY <1>4 DEF SomeStep, PrintsNumber
  <2>3. native \/ e.hostio
    BY <1>4 DEF SomeStep, Unreported
  <2>4. e \in Entry
    <3>1. log[i] \in Seq(Entry)
      BY <1>1, ElementOfSeq DEF TracerInv, TraceTypes
    <3>2. QED BY <3>1, ElementOfSeq
  <2>9. e.name # ""
    BY <1>4 DEF SomeStep, Unnamed
  <2> HIDE DEF e
  <2>5. e.name \in StepNames \cup EvmNames
    BY <2>4, <2>9 DEF Entry, EvmNames
  <2>6. Framed(e) => e.sub # 0
    BY <1>2, <2>1 DEF NestsBelow
  <2>7. Parses(e)
    BY <2>2, <2>3, <2>5, <2>6 DEF Parses
  <2>8. QED BY <2>1, <2>7 DEF e
<1>6. \A i \in 1 .. Len(lists) : ParseFrame[i]
  BY <1>2, <1>5, AllParse
<1>7. 1 \in 1 .. Len(lists)
  BY <1>1, OutermostList
<1>8. QED BY <1>3, <1>6, <1>7

\* What leaves the trace alone keeps the nesting.
LEMMA NestStays == ASSUME NestInv, UNCHANGED tracerVars PROVE NestInv'
BY DEF NestInv, CalleesAhead, SubsAhead, NestsBelow, Framed, Unnamed, Unreported, tracerVars, chainVars

\* Every step of the command keeps the nesting.
LEMMA NextNests == ASSUME ReplayInv, NestInv, [Next]_vars PROVE NestInv'
<1>1. CASE Trace
  BY <1>1, ChainStepNests DEF Trace, ReplayInv
<1>2. CASE ~Trace
  <2>1. UNCHANGED tracerVars
    BY <1>2 DEF Next, NewTrace, NextHostio, ReturnLocally, CallHostio, vars
  <2>2. QED BY <2>1, NestStays
<1>3. QED BY <1>1, <1>2

\* At the start there is nothing to nest.
LEMMA InitNests == ASSUME Init PROVE NestInv
<1>1. Len(frames) = 1 /\ frames[1].call = "none" /\ Len(log) = 1 /\ log[1] = <<>>
  BY DEF Init, TracerInit, NewFrame
<1>2. Len(<<>>) = 0
  OBVIOUS
<1>3. QED BY <1>1, <1>2 DEF NestInv, CalleesAhead, SubsAhead

\* An outcome that is reached was reached in the execution it speaks of.
LEMMA NextReadable ==
  ASSUME ReadInv, [Next]_vars
  PROVE  UnreadableMeansUnreported'
<1>1. SUFFICES ASSUME outcome' = "unparsed"
               PROVE  (\/ SomeStep(PrintsNumber) \/ SomeStep(Unnamed)
                       \/ ~native /\ SomeStep(Unreported))'
  BY DEF UnreadableMeansUnreported
<1>2. CASE NewTrace
  <2>1. \/ SomeStep(PrintsNumber) \/ SomeStep(Unnamed)
        \/ ~native /\ SomeStep(Unreported)
    BY <1>1, <1>2, Readable DEF ReadInv
  <2>2. UNCHANGED <<log, native>>
    BY <1>2 DEF NewTrace, tracerVars, chainVars
  <2>3. QED BY <2>1, <2>2 DEF SomeStep, PrintsNumber, Unnamed, Unreported
<1>3. CASE outcome = "unparsed" /\ UNCHANGED <<log, native>>
  BY <1>3
  DEF ReadInv, UnreadableMeansUnreported, SomeStep, PrintsNumber, Unnamed, Unreported
<1>4. CASE Trace
  BY <1>1, <1>4 DEF Trace, localVars
<1>5. CASE NextHostio
  <2>1. outcome = "running" /\ steps = <<>> => outcome' # "unparsed"
    BY <1>5 DEF NextHostio, Fails
  <2>2. outcome = "running" /\ steps # <<>> => outcome' # "unparsed"
    BY <1>5, Rounds
  <2>3. QED BY <1>1, <1>5, <2>1, <2>2 DEF NextHostio
<1>6. CASE ReturnLocally
  BY <1>1, <1>6 DEF ReturnLocally
<1>7. CASE \E fn \in LocalFuns, a \in Values : CallHostio([fn |-> fn, arg |-> a])
  BY <1>1, <1>7 DEF CallHostio
<1>8. CASE UNCHANGED vars
  BY <1>1, <1>3, <1>8 DEF vars, localVars, tracerVars, chainVars
<1>9. QED BY <1>2, <1>4, <1>5, <1>6, <1>7, <1>8 DEF Next

\* What is needed of the trace holds in every state.
LEMMA ReadHolds == Spec => []ReadInv
<1>1. Init => ReadInv
  BY InitReads, InitNests DEF ReadInv, UnreadableMeansUnreported, Init
<1>2. ReadInv /\ [Next]_vars => ReadInv'
  BY NextReads, NextNests, NextReadable DEF ReadInv
<1>3. QED BY <1>1, <1>2, PTL DEF Spec

\* A trace is refused as unreadable only if some frame prints a number or is of a
\* type that query.js does not name, or the trace came from query.js and shows a
\* creation or a call by an EVM contract, which no host function reports: however
\* deep the frames nest and whatever runs in them, parse_frame reads the rest.
THEOREM RefusalsAreKnown == Spec => []UnreadableMeansUnreported
BY ReadHolds, PTL DEF ReadInv

-----------------------------------------------------------------------------
(* The right contract runs to its end.                                     *)

\* A trace of a Stylus contract begins with a step that has no address.
HasStep == \E k \in 1 .. Len(log[1]) : log[1][k].sub = 0
HeadInv ==
  top = "stylus" => frames[1].vm = "stylus" /\ (frames[1].state # "new" => HasStep)

\* What the right contract waits for is its next call on chain.
RightInv ==
  right /\ ~cut /\ want # NoCall =>
    /\ Len(calls) \in 1 .. Len(program)
    /\ want.fn = program[Len(calls)].fn /\ want.arg = program[Len(calls)].arg

RightHolds == LockInv /\ NestInv /\ UnreadableMeansUnreported
                /\ HeadInv /\ RightInv /\ RightContractReplays

\* A step stays in the log.
LEMMA StepStays == ASSUME TracerInv, ChainStep, HasStep PROVE HasStep'
<1>1. log[1] \in Seq(Entry) /\ Len(log[1]) \in Nat
  BY OutermostList
<1>2. PICK k \in 1 .. Len(log[1]) : log[1][k].sub = 0
  BY DEF HasStep
<1>3. CASE log'[1] = log[1]
  BY <1>2, <1>3 DEF HasStep
<1>4. CASE \E e \in Entry : log'[1] = Append(log[1], e)
  <2>1. PICK e \in Entry : log'[1] = Append(log[1], e)
    BY <1>4
  <2>2. Len(log'[1]) = Len(log[1]) + 1 /\ log'[1][k] = log[1][k]
    BY <1>1, <1>2, <2>1, AppendProperties
  <2>3. k \in 1 .. Len(log'[1])
    BY <1>1, <1>2, <2>2
  <2>4. QED BY <1>2, <2>2, <2>3 DEF HasStep
<1>5. QED BY <1>3, <1>4, ChainStepShows DEF Silent, Aside, Asks

\* The outermost frame is what it was, and what it does first is a step.
LEMMA HeadKept == ASSUME TracerInv, HeadInv, ChainStep PROVE HeadInv'
<1> DEFINE L == Len(frames)
<1>1. /\ frames \in Seq(Frame) /\ L \in Nat /\ L \in 1 .. L /\ 1 \in 1 .. L
      /\ Running = frames[L] /\ Running \in Frame /\ frames[1] \in Frame
      /\ frames[L].id = 1 => L = 1
  BY TopFrame, OutermostFirst DEF TracerInv, TraceTypes, Outermost
<1>2. ASSUME NEW f \in Frame, f.vm = Running.vm,
             f.state = Running.state \/ Running.state # "new" \/ (L = 1 => HasStep'),
             frames' = [frames EXCEPT ![L] = f], top' = top
      PROVE  HeadInv'
  <2>1. frames'[1] = IF L = 1 THEN f ELSE frames[1]
    BY <1>1, <1>2, ExceptSeq
  <2>2. CASE L = 1
    BY <1>1, <1>2, <2>1, <2>2, StepStays DEF HeadInv
  <2>3. CASE L # 1
    BY <1>2, <2>1, <2>3, StepStays DEF HeadInv
  <2>4. QED BY <2>2, <2>3
<1>3. ASSUME NEW name \in Skippable, NEW state \in {"running", "returned"},
             VmStep(name, state)
      PROVE  HeadInv'
  <2> DEFINE f == [Running EXCEPT !.state = state]
             e == Info(name, 0, 0)
  <2>1. f \in Frame /\ f.vm = Running.vm
    BY <1>1 DEF Frame
  <2>2. e \in Entry /\ e.sub = 0
    BY VmNames, StepsAreEntries DEF Info
  <2>3. /\ frames' = [frames EXCEPT ![L] = f] /\ top' = top
        /\ log' = [log EXCEPT ![Running.id] = Append(@, e)]
    BY <1>3 DEF VmStep, Logs
  <2> HIDE DEF f, e
  <2>4. L = 1 => HasStep'
    <3>1. SUFFICES ASSUME L = 1 PROVE HasStep'
      OBVIOUS
    <3>2. Running.id = 1 /\ Running.id \in 1 .. Len(log)
      BY <3>1, TopFrame, OutermostFirst DEF Outermost, TracerInv
    <3>3. log'[1] = Append(log[1], e) /\ log[1] \in Seq(Entry)
      BY <2>2, <2>3, <3>2, OtherLog, OutermostList
    <3>4. Len(log'[1]) = Len(log[1]) + 1 /\ log'[1][Len(log[1]) + 1] = e
          /\ Len(log[1]) \in Nat
      BY <2>2, <3>3, AppendProperties, LenProperties
    <3>5. Len(log'[1]) \in 1 .. Len(log'[1])
      BY <3>4
    <3>6. QED BY <2>2, <3>4, <3>5 DEF HasStep
  <2>5. QED BY <1>2, <2>1, <2>3, <2>4
<1>4. CASE Entrypoint
  BY <1>3, <1>4 DEF Entrypoint, Skippable
<1>5. CASE GrowMemory
  BY <1>3, <1>5 DEF GrowMemory, Skippable
<1>6. CASE Return
  BY <1>3, <1>6 DEF Return, Skippable
<1>7. CASE Ends
  <2> DEFINE c == L - 1
             caller == frames[c]
             after == IF caller.vm = "stylus" THEN caller
                                              ELSE [caller EXCEPT !.call = "none"]
  <2>1. L > 1 /\ c \in 1 .. L /\ c \in 1 .. c /\ 1 \in 1 .. c
    <3>1. L \in Nat \ {0} /\ L # 1
      BY <1>1, <1>7 DEF Ends, Outermost
    <3>2. \A m \in Nat \ {0} : m # 1 => /\ m > 1 /\ m - 1 \in 1 .. m
                                        /\ m - 1 \in 1 .. m - 1 /\ 1 \in 1 .. m - 1
      OBVIOUS
    <3>3. QED BY <3>1, <3>2
  <2>2. caller \in Frame
    BY <2>1, TopFrame DEF TracerInv
  <2>3. after \in Frame /\ after.vm = caller.vm /\ after.state = caller.state
    BY <2>2 DEF Frame
  <2>4. ButLast(frames)[c] = caller
    BY <1>1, <2>1, <2>2, CallerOnTop
  <2>5. frames' = [ButLast(frames) EXCEPT ![c] = after] /\ top' = top
    BY <1>7, <2>4 DEF Ends
  <2> HIDE DEF after
  <2>6. frames'[c] = after /\ \A p \in 1 .. c : p # c => frames'[p] = frames[p]
    BY <1>1, <2>1, <2>3, <2>5, CallerOnTop
  <2>7. frames'[1].vm = frames[1].vm /\ frames'[1].state = frames[1].state
    BY <2>1, <2>3, <2>6
  <2>8. QED BY <2>5, <2>7, StepStays DEF HeadInv
<1>8. CASE Reports
  <2> DEFINE f == [Running EXCEPT !.call = "none"]
  <2>1. f \in Frame /\ f.vm = Running.vm /\ f.state = Running.state
    BY <1>1 DEF Frame
  <2>2. frames' = [frames EXCEPT ![L] = f] /\ top' = top
    BY <1>8 DEF Reports, Logs
  <2> HIDE DEF f
  <2>3. QED BY <1>2, <2>1, <2>2
<1>9. CASE RunsOut
  <2> DEFINE f == [Running EXCEPT !.state = "returned"]
  <2>1. f \in Frame /\ f.vm = Running.vm /\ Running.state # "new"
    BY <1>1, <1>9 DEF Frame, RunsOut, Idle
  <2>2. frames' = [frames EXCEPT ![L] = f] /\ top' = top
    BY <1>1, <1>9 DEF RunsOut
  <2> HIDE DEF f
  <2>3. QED BY <1>2, <2>1, <2>2
<1>10. CASE \E fn \in Used : Uses(fn)
  <2>1. frames' = [frames EXCEPT ![L] = Running] /\ top' = top
    BY <1>10 DEF Uses, Logs
  <2>2. QED BY <1>1, <1>2, <2>1
<1>11. CASE \E type \in Types, vm \in {"stylus", "evm"} : Calls(type, vm)
  <2>1. PICK type \in Types, vm \in {"stylus", "evm"} : Calls(type, vm)
    BY <1>11
  <2> DEFINE n == Len(log) + 1
             caller == [frames[L] EXCEPT !.call = type, !.callee = n]
             callee == [NewFrame(n, vm) EXCEPT
                          !.state = IF type = "SELFDESTRUCT" THEN "returned" ELSE "new"]
             waiting == [frames EXCEPT ![L] = caller]
  <2>2. n \in Nat
    BY LenProperties DEF TracerInv, TraceTypes
  <2>3. /\ caller \in Frame /\ callee \in Frame
        /\ caller.vm = frames[L].vm /\ caller.state = frames[L].state
    BY ZenonT(40), <1>1, <2>2 DEF Frame, NewFrame
  <2>4. frames' = Append(waiting, callee) /\ top' = top
    BY <2>1 DEF Calls
  <2> HIDE DEF caller, callee
  <2>5. /\ waiting \in Seq(Frame) /\ Len(waiting) = L
        /\ waiting[1] = IF 1 = L THEN caller ELSE frames[1]
    BY <1>1, <2>3, ExceptSeq
  <2> HIDE DEF waiting
  <2>6. frames'[1] = waiting[1]
    BY <1>1, <2>3, <2>4, <2>5, AppendProperties
  <2>7. frames'[1].vm = frames[1].vm /\ frames'[1].state = frames[1].state
    BY <2>3, <2>5, <2>6
  <2>8. QED BY <2>4, <2>7, StepStays DEF HeadInv
<1>12. QED
  BY <1>4, <1>5, <1>6, <1>7, <1>8, <1>9, <1>10, <1>11 DEF ChainStep

\* What the theorem asks of the execution: a Stylus contract that is replayed by
\* itself, ran to its end, printed no number, met no frame that no host function
\* reports, and called none of the misfits.
Replayable ==
  /\ top = "stylus" /\ right /\ ~cut
  /\ ~SomeStep(PrintsNumber) /\ ~SomeStep(Unreported)
  /\ \A n \in 1 .. Len(program) : program[n].fn \notin Misfits

\* Its trace is read: it is not empty, not taken for an activation and parses.
LEMMA RightIsRead == ASSUME RightHolds, NewTrace, Replayable PROVE outcome' = "running"
<1>1. ReplayInv /\ TracerInv /\ NestInv /\ Executed
  BY DEF RightHolds, LockInv, ReplayInv, NewTrace
<1>2. lists[1] = log[1]
  BY <1>1, ListsAreLogs, OutermostList
<1>3. HasStep
  <2>1. frames[1].vm = "stylus" /\ (frames[1].state # "new" => HasStep)
    BY DEF RightHolds, HeadInv, Replayable
  <2>2. frames[1].state = "returned"
    BY <1>1, <2>1, TopFrame DEF Executed, Outermost, TracerInv
  <2>3. QED BY <2>1, <2>2
<1>4. lists[1] # <<>> /\ ~LooksLikeActivation
  <2>1. PICK k \in 1 .. Len(log[1]) : log[1][k].sub = 0
    BY <1>3 DEF HasStep
  <2>2. log[1] # <<>>
    BY <2>1, EmptySeq
  <2>3. QED BY <1>2, <2>1, <2>2 DEF LooksLikeActivation
<1>5. outcome' # "unparsed"
  <2>1. ~SomeStep(PrintsNumber) /\ ~SomeStep(Unreported)
    BY <1>1 DEF Replayable
  <2>2. ~SomeStep(Unnamed)
    BY <2>1 DEF RightHolds, NestInv, SubsAhead, NestsBelow, SomeStep
  <2>3. QED BY <1>1, <2>1, <2>2, Readable
<1>6. outcome' \in {"unparsed", "running"}
  BY <1>4 DEF NewTrace
<1>7. QED BY <1>5, <1>6

\* The call that the right contract waits for is the first that is not answered.
LEMMA RightWants ==
  ASSUME Plain, RightHolds, NextHostio, Replayable
  PROVE  LET n == Len(answers) + 1 IN
         /\ n \in 1 .. Len(program)
         /\ want.fn = program[n].fn /\ want.arg = program[n].arg
         /\ want.fn \in LocalFuns /\ want.fn \in Funs /\ want.fn \notin Skippable
         /\ want.fn \notin Misfits /\ Recorded(want.fn) = want.fn
<1>1. /\ outcome = "running" /\ want # NoCall /\ Len(answers) \in Nat
      /\ Len(calls) = Len(answers) + 1 /\ want.fn \in LocalFuns
  BY LenProperties
     DEF NextHostio, RightHolds, LockInv, ProgressInv, ReplayInv, LocalTypes
<1>2. /\ Len(calls) \in 1 .. Len(program)
      /\ want.fn = program[Len(calls)].fn /\ want.arg = program[Len(calls)].arg
  BY <1>1 DEF RightHolds, RightInv, Replayable
<1>3. want.fn \notin Misfits
  BY <1>2 DEF Replayable
<1>4. Recorded(want.fn) = want.fn
  BY <1>3 DEF Misfits, Prints, Recorded
<1>5. want.fn \notin Skippable /\ want.fn \in Funs
  BY <1>1, <1>4, PlainNames, LocalFunsAreFuns
<1>6. QED BY <1>1, <1>2, <1>3, <1>4, <1>5

\* A round of next_hostio passes over the virtual machine's step that it meets, or
\* answers the call: there is no other step to meet.
LEMMA RightGoesOn ==
  ASSUME Plain, RightHolds, NextHostio, Replayable
  PROVE  outcome' = "running"
<1> DEFINE A == Len(answers)
           e == Head(steps)
<1>1. /\ LockInv /\ ReplayInv /\ TracerInv /\ outcome = "running"
      /\ A + 1 \in 1 .. Len(program) /\ A \in Nat
  BY RightWants, LenProperties
     DEF RightHolds, LockInv, ReplayInv, NextHostio, LocalTypes
<1>2. /\ want.fn = program[A + 1].fn /\ want.arg = program[A + 1].arg
      /\ want.fn \in Funs /\ want.fn \notin Skippable
      /\ want.fn \notin Misfits /\ Recorded(want.fn) = want.fn
  BY RightWants
<1>3. steps # <<>>
  <2>1. SUFFICES ASSUME steps = <<>> PROVE FALSE
    OBVIOUS
  <2>2. Consumed = Len(log[1])
    BY <1>1, <2>1, OutermostList DEF Consumed
  <2>3. program[A + 1].at \in 1 .. Len(log[1]) /\ Len(log[1]) \in Nat
    BY <1>1, OutermostList DEF LockInv, ProgramInv
  <2>4. program[A + 1].at <= Consumed <=> A + 1 <= A
    BY <1>1 DEF LockInv, ProgressInv
  <2>5. QED BY <1>1, <2>2, <2>3, <2>4
<1>4. /\ e = log[1][Consumed + 1] /\ Consumed \in Nat
      /\ Consumed + 1 \in 1 .. Len(log[1]) /\ e \in Entry
  BY <1>1, <1>3, OneStepTaken
<1>5. e.hostio
  BY <1>1, <1>4, OutermostList DEF Replayable, SomeStep, Unreported
<1>6. IF KindName(e) = want.fn THEN Answer(e) ELSE OtherStep(e)
  BY <1>3 DEF NextHostio
<1> HIDE DEF e
<1>7. CASE e.name \in Skippable
  <2>1. KindName(e) = e.name
    BY <1>7, FrameNames DEF KindName
  <2>2. QED BY <1>1, <1>2, <1>6, <1>7, <2>1 DEF OtherStep
<1>8. CASE \E n \in 1 .. Len(program) : program[n].at = Consumed + 1
  <2>1. program[A + 1].at = Consumed + 1
    BY <1>1, <1>4, <1>8, NextAt
  <2>2. e.name = want.fn /\ e.arg = want.arg
    BY <1>1, <1>2, <1>4, <2>1 DEF LockInv, ProgramInv
  <2>3. KindName(e) = want.fn
    BY <1>2, <2>2, FrameNames DEF KindName
  <2>4. Unpacks(want.fn) = want.fn
    BY <1>2 DEF Unpacks, Misfits
  <2>5. Answer(e)
    BY <1>6, <2>3
  <2>6. QED BY <1>1, <2>2, <2>3, <2>4, <2>5 DEF Answer
<1>9. QED BY <1>1, <1>4, <1>5, <1>7, <1>8 DEF LockInv, ProgramInv

\* What the right contract calls is its next call on chain.
LEMMA RightCalls ==
  ASSUME RightHolds, NEW fn \in LocalFuns, NEW a \in Values,
         CallHostio([fn |-> fn, arg |-> a])
  PROVE  RightInv'
<1> DEFINE c == [fn |-> fn, arg |-> a]
<1>1. /\ UNCHANGED <<right, cut, program>> /\ want' = c /\ calls' = Append(calls, c)
      /\ MayCall(c)
  BY DEF CallHostio, tracerVars, chainVars
<1>2. /\ calls \in Seq(Call) /\ c \in Call /\ Len(calls) \in Nat /\ Len(program) \in Nat
  BY LocalFunsAreFuns, LenProperties
     DEF RightHolds, LockInv, ReplayInv, LocalTypes, TracerInv, TraceTypes, Call
<1> HIDE DEF c
<1>3. Len(calls') = Len(calls) + 1
  BY <1>1, <1>2, AppendProperties
<1>4. SUFFICES ASSUME right, ~cut
               PROVE  /\ Len(calls) + 1 \in 1 .. Len(program)
                      /\ c.fn = program[Len(calls) + 1].fn
                      /\ c.arg = program[Len(calls) + 1].arg
  BY <1>1, <1>3 DEF RightInv
<1>5. Len(calls) < Len(program)
  BY <1>1, <1>4 DEF MayCall
<1>6. QED BY <1>1, <1>2, <1>4, <1>5 DEF MayCall

\* A step that adds no call and sets nothing right keeps that.
LEMMA RightStays ==
  ASSUME RightInv, UNCHANGED <<cut, program, calls>>, right' => right,
         want' \in {want, NoCall}
  PROVE  RightInv'
BY DEF RightInv

\* Nor does it make a trace replayable.
LEMMA ReplayableBefore ==
  ASSUME UNCHANGED tracerVars, right' => right, Replayable'
  PROVE  Replayable
BY DEF Replayable, SomeStep, PrintsNumber, Unreported, tracerVars, chainVars

\* RightContractReplays in terms of what it asks of the execution.
LEMMA RightMeans ==
  /\ RightContractReplays <=> (Replayable => outcome \in {"tracing", "running", "returned"})
  /\ RightContractReplays' <=>
       (Replayable' => outcome' \in {"tracing", "running", "returned"})
BY DEF RightContractReplays, Replayable

\* Every step of the command keeps the right contract going.
LEMMA NextRight == ASSUME Plain, RightHolds, [Next]_vars PROVE RightHolds'
<1>1. LockInv' /\ NestInv' /\ UnreadableMeansUnreported'
  BY NextLocks, NextNests, NextReadable DEF RightHolds, LockInv, ReadInv
<1>2. CASE Trace
  <2>1. TracerInv /\ ChainStep /\ outcome' = "tracing" /\ want' = NoCall
    BY <1>2 DEF RightHolds, LockInv, ReplayInv, ProgressInv, Trace, localVars
  <2>2. HeadInv'
    BY <2>1, HeadKept DEF RightHolds
  <2>3. RightInv' /\ RightContractReplays'
    BY <2>1, RightMeans DEF RightInv
  <2>4. QED BY <1>1, <2>2, <2>3 DEF RightHolds
<1>3. ASSUME UNCHANGED tracerVars, right' => right, RightInv',
             Replayable => outcome' \in {"tracing", "running", "returned"}
      PROVE  RightHolds'
  <2>1. HeadInv'
    BY <1>3 DEF RightHolds, HeadInv, HasStep, tracerVars, chainVars
  <2>2. RightContractReplays'
    BY <1>3, RightMeans, ReplayableBefore
  <2>3. QED BY <1>1, <1>3, <2>1, <2>2 DEF RightHolds
<1>4. ASSUME UNCHANGED <<tracerVars, calls>>, right' => right,
             want' \in {want, NoCall},
             Replayable => outcome' \in {"tracing", "running", "returned"}
      PROVE  RightHolds'
  <2>1. UNCHANGED <<cut, program, calls>> /\ UNCHANGED tracerVars
    BY <1>4 DEF tracerVars, chainVars
  <2>2. RightInv'
    BY <1>4, <2>1, RightStays DEF RightHolds
  <2>3. QED BY <1>3, <1>4, <2>1, <2>2
<1>5. CASE NewTrace
  <2>1. Replayable => outcome' = "running"
    BY <1>5, RightIsRead
  <2>2. UNCHANGED <<tracerVars, calls>> /\ right' = right /\ want' = want
    BY <1>5 DEF NewTrace
  <2>3. QED BY <1>4, <2>1, <2>2
<1>6. CASE NextHostio
  <2>1. Replayable => outcome' = "running"
    BY <1>6, RightGoesOn
  <2>2. UNCHANGED <<tracerVars, calls>>
    BY <1>6 DEF NextHostio
  <2>3. (right' => right) /\ want' \in {want, NoCall}
    <3>1. CASE steps = <<>>
      BY <1>6, <3>1 DEF NextHostio, Fails
    <3>2. CASE steps # <<>>
      <4>1. right' = right \/ right' = (right /\ Copied(want.fn, Head(steps).out)
                                                    = Head(steps).out)
        BY <1>6, <3>2, Rounds
      <4>2. want' \in {want, NoCall}
        BY <1>6, <3>2, Rounds
      <4>3. right' => right
        BY <4>1, Zenon
      <4>4. QED BY <4>2, <4>3
    <3>3. QED BY <3>1, <3>2
  <2>4. QED BY <1>4, <2>1, <2>2, <2>3
<1>7. CASE ReturnLocally
  <2>1. UNCHANGED <<tracerVars, calls>> /\ right' = right /\ want' = want
        /\ outcome' = "returned"
    BY <1>7 DEF ReturnLocally
  <2>2. QED BY <1>4, <2>1
<1>8. CASE \E fn \in LocalFuns, a \in Values : CallHostio([fn |-> fn, arg |-> a])
  <2>1. RightInv'
    BY <1>8, RightCalls
  <2>2. UNCHANGED tracerVars /\ right' = right /\ outcome' = "running"
    BY <1>8 DEF CallHostio
  <2>3. QED BY <1>3, <2>1, <2>2
<1>9. CASE UNCHANGED vars
  <2>1. UNCHANGED <<tracerVars, calls>> /\ right' = right /\ want' = want
        /\ outcome' = outcome
    BY <1>9 DEF vars, localVars
  <2>2. Replayable => outcome \in {"tracing", "running", "returned"}
    BY RightMeans DEF RightHolds
  <2>3. QED BY <1>4, <2>1, <2>2
<1>10. QED BY <1>2, <1>5, <1>6, <1>7, <1>8, <1>9 DEF Next

\* At the start nothing is read yet.
LEMMA InitRight == ASSUME Init PROVE RightHolds
<1>1. /\ outcome = "tracing" /\ want = NoCall
      /\ frames[1].vm = top /\ frames[1].state = "new"
  BY DEF Init, TracerInit, NewFrame
<1>2. LockInv /\ NestInv
  BY InitLocks, InitNests
<1>3. UnreadableMeansUnreported /\ HeadInv /\ RightInv /\ RightContractReplays
  BY <1>1 DEF UnreadableMeansUnreported, HeadInv, RightInv, RightContractReplays
<1>4. QED BY <1>2, <1>3 DEF RightHolds

\* If each frame of a transaction was opened by a host function other than a
\* creation, no frame printed a number and the contract called none of the
\* misfits, then its replay, if it is the contract that ran on chain and ran to
\* its end there, neither fails nor panics: whatever else it calls and however
\* deep the Stylus contracts it calls nest, provided contracts leave
\* pay_for_memory_grow to the virtual machine.  Where contracts are created, or
\* EVM contracts call others, it does fail: that is EvmCallsParse.
THEOREM ReplaysToTheEnd == ASSUME Plain PROVE Spec => []RightContractReplays
<1>1. Init => RightHolds
  BY InitRight
<1>2. RightHolds /\ [Next]_vars => RightHolds'
  BY NextRight
<1>3. RightHolds => RightContractReplays
  BY DEF RightHolds
<1>4. QED BY <1>1, <1>2, <1>3, PTL DEF Spec
=============================================================================
