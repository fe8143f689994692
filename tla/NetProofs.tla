----------------------------- MODULE NetProofs ------------------------------
(***************************************************************************)
(* The safety of the parts between a descriptor and an HTTP request, each  *)
(* on its own:                                                             *)
(*   the operations of FdStream against stop requests and close(), for any *)
(*   number of operations of any size on one descriptor (the invariant     *)
(*   speaks of one operation at a time, but for the descriptor they share: *)
(*   the cancel() of one is a step of all the others);                     *)
(*   Runtime::shutdown() against any number of calls;                      *)
(*   Stream::next() for any number of calls;                               *)
(*   the HTTP client for every set of calls and every resource, its        *)
(*   request builder, and the rate limiter for every limit and window.     *)
(***************************************************************************)
EXTENDS FdStream, Runtime, Stream, HttpClient, HttpBuilder, RateLimit, TLAPS

----------------------------------------------------------------------------
(* FdStream.                                                               *)


Codes == {"ok", "aborted", "bad_descriptor", "eof", "error"}
Results == {"none", "value", "error", "stopped"}
OpType == [kind : Kinds, size : Nat, pc : PCs, completed : BOOLEAN, stop : BOOLEAN,
           late : BOOLEAN, on_stop : Callbacks, ec : Codes, got : Nat, result : Results]

FdTypeOK == open \in BOOLEAN /\ input \in Nat /\ eof \in BOOLEAN /\ op \in [Ops -> OpType]

\* Where the callback may be: not made before emplace, armed as long as asio
\* may have an operation nobody stopped, and not armed once it is taken away.
CallbackInv(x) ==
  /\ x.pc \in {"idle", "checked"} => x.on_stop = "none"
  /\ x.pc = "inline" => x.stop
  /\ x.pc \in {"begun", "pending", "between", "ready"} /\ ~x.stop => x.on_stop = "armed"
  /\ x.on_stop = "armed" => ~x.stop
  /\ x.pc = "finishing" => x.on_stop # "armed"
  /\ x.pc = "done" => x.on_stop \in {"none", "gone"}

\* A stop that met asio: the callback that runs finds the operation there.
LateInv(x) ==
  /\ x.completed => x.pc \in {"finishing", "done"}
  /\ x.pc = "between" => x.kind \notin Simple
  /\ x.late => x.stop
  /\ x.late /\ x.kind \in Simple => x.pc \in {"pending", "ready", "finishing", "done"}
  /\ x.late /\ x.kind \in Simple /\ x.pc = "pending" => x.on_stop \in {"checking", "cancelling"}

OpInv(x) == CallbackInv(x) /\ LateInv(x)

FdInv ==
  /\ FdTypeOK
  /\ \A o \in Ops : OpInv(op[o])
  /\ ~open => \A o \in Ops : op[o].pc # "pending"

\* The invariant holds of a descriptor just opened.
LEMMA FdInitInv == FdInit => FdInv
<1> SUFFICES ASSUME FdInit PROVE FdInv
  BY Zenon
<1>1. ASSUME NEW r \in Requests
      PROVE  Operation(r) \in OpType /\ OpInv(Operation(r)) /\ Operation(r).pc = "idle"
  <2>1. r.kind \in Kinds /\ r.size \in Nat
    BY Zenon, FdAssumption
  <2> QED BY Zenon, <2>1 DEF Operation, OpType, PCs, Callbacks, Codes, Results, OpInv, CallbackInv, LateInv
<1>2. op \in [Ops -> OpType] /\ \A o \in Ops : OpInv(op[o])
  BY Zenon, <1>1 DEF FdInit
<1> QED BY Zenon, <1>2 DEF FdInit, FdInv, FdTypeOK

\* A step that changes one operation keeps the invariant when the new state of
\* that operation is in order.
LEMMA OneOpStep ==
  ASSUME FdInv, NEW o \in Ops, NEW x \in OpType,
         OpInv(x), ~open => x.pc # "pending",
         op' = [op EXCEPT ![o] = x], open' = open, eof' = eof, input' \in Nat
  PROVE  FdInv'
<1>1. op' \in [Ops -> OpType]
  BY Zenon DEF FdInv, FdTypeOK
<1>2. \A p \in Ops : op'[p] = IF p = o THEN x ELSE op[p]
  BY Zenon DEF FdInv, FdTypeOK
<1> QED BY Zenon, <1>1, <1>2 DEF FdInv, FdTypeOK


\* The fields of an operation, for use in every step.
LEMMA OpFields ==
  ASSUME FdInv, NEW o \in Ops
  PROVE  /\ op[o] \in OpType /\ OpInv(op[o]) /\ (~open => op[o].pc # "pending")
         /\ open \in BOOLEAN /\ input \in Nat /\ eof \in BOOLEAN
BY Zenon DEF FdInv, FdTypeOK

\* begin_operation keeps the invariant: its checks, ...
LEMMA BeginStep == ASSUME FdInv, NEW o \in Ops, Begin(o) PROVE FdInv'
<1> DEFINE x == IF ~open
                THEN [op[o] EXCEPT !.pc = "done", !.completed = TRUE, !.result = "error"]
                ELSE IF op[o].stop
                THEN [op[o] EXCEPT !.pc = "done", !.completed = TRUE, !.result = "stopped"]
                ELSE [op[o] EXCEPT !.pc = "checked"]
<1>1. op[o].pc = "idle" /\ op' = [op EXCEPT ![o] = x] /\ open' = open /\ eof' = eof /\ input' \in Nat
  BY Zenon, OpFields DEF Begin, env, FdInv, FdTypeOK
<1>a. x \in OpType
  BY <1>1, OpFields, ZenonT(60) DEF OpType, PCs, Callbacks, Codes, Results
<1>b. /\ x.kind = op[o].kind
      /\ x.stop = op[o].stop /\ x.late = op[o].late /\ x.on_stop = op[o].on_stop
      /\ \/ x.pc = "done" /\ x.completed
         \/ x.pc = "checked" /\ x.completed = op[o].completed
  BY Zenon, <1>1, OpFields DEF OpType
<1> HIDE DEF x
<1>2. x \in OpType /\ OpInv(x) /\ (~open => x.pc # "pending")
  BY Zenon, <1>1, <1>a, <1>b, OpFields DEF OpInv, CallbackInv, LateInv
<1> QED BY Zenon, <1>1, <1>2, OneOpStep

\* ... and the callback it makes.
LEMMA EmplaceStep == ASSUME FdInv, NEW o \in Ops, Emplace(o) PROVE FdInv'
<1> DEFINE x == IF op[o].stop
                THEN [op[o] EXCEPT !.pc = "inline", !.on_stop = "checking"]
                ELSE [op[o] EXCEPT !.pc = "begun", !.on_stop = "armed"]
<1>1. op[o].pc = "checked" /\ op' = [op EXCEPT ![o] = x] /\ open' = open /\ eof' = eof /\ input' \in Nat
  BY Zenon, OpFields DEF Emplace, env, FdInv, FdTypeOK
<1>a. x \in OpType
  BY <1>1, OpFields, ZenonT(60) DEF OpType, PCs, Callbacks, Codes, Results
<1>b. /\ x.kind = op[o].kind
      /\ x.completed = op[o].completed /\ x.stop = op[o].stop /\ x.late = op[o].late
      /\ IF op[o].stop THEN x.pc = "inline" /\ x.on_stop = "checking"
                       ELSE x.pc = "begun" /\ x.on_stop = "armed"
  BY Zenon, <1>1, OpFields DEF OpType
<1> HIDE DEF x
<1>2. x \in OpType /\ OpInv(x) /\ (~open => x.pc # "pending")
  BY Zenon, <1>1, <1>a, <1>b, OpFields DEF OpInv, CallbackInv, LateInv
<1> QED BY Zenon, <1>1, <1>2, OneOpStep

\* request_stop(): it finds the callback armed when asio has the operation.
LEMMA RequestStopStep == ASSUME FdInv, NEW o \in Ops, RequestStop(o) PROVE FdInv'
<1> DEFINE x == [op[o] EXCEPT !.stop = TRUE, !.late = (op[o].pc = "pending"),
                              !.on_stop = IF @ = "armed" THEN "checking" ELSE @]
<1>1. ~op[o].stop /\ op' = [op EXCEPT ![o] = x] /\ open' = open /\ eof' = eof /\ input' \in Nat
  BY Zenon, OpFields DEF RequestStop, env, FdInv, FdTypeOK
<1>a. x \in OpType
  BY <1>1, OpFields, ZenonT(60) DEF OpType, PCs, Callbacks, Codes, Results
<1>b. /\ x.kind = op[o].kind
      /\ x.pc = op[o].pc /\ x.completed = op[o].completed /\ x.stop
      /\ x.late = (op[o].pc = "pending")
      /\ x.on_stop = IF op[o].on_stop = "armed" THEN "checking" ELSE op[o].on_stop
  BY Zenon, <1>1, OpFields DEF OpType
<1> HIDE DEF x
<1>2. x \in OpType /\ OpInv(x) /\ (~open => x.pc # "pending")
  BY Zenon, <1>1, <1>a, <1>b, OpFields DEF OpInv, CallbackInv, LateInv
<1> QED BY Zenon, <1>1, <1>2, OneOpStep

\* The tests of request_cancel: a pending operation is neither completed nor
\* is its descriptor closed.
LEMMA CancelTestsStep == ASSUME FdInv, NEW o \in Ops, CancelTests(o) PROVE FdInv'
<1> DEFINE x == IF op[o].completed \/ ~open
                THEN [op[o] EXCEPT !.on_stop = "gone",
                                   !.pc = IF op[o].pc = "inline" THEN "begun" ELSE op[o].pc]
                ELSE [op[o] EXCEPT !.on_stop = "cancelling"]
<1>1. op[o].on_stop = "checking" /\ op' = [op EXCEPT ![o] = x] /\ open' = open /\ eof' = eof /\ input' \in Nat
  BY Zenon, OpFields DEF CancelTests, AfterCallback, env, FdInv, FdTypeOK
<1>a. x \in OpType
  BY <1>1, OpFields, ZenonT(60) DEF OpType, PCs, Callbacks, Codes, Results
<1>b. /\ x.kind = op[o].kind
      /\ x.completed = op[o].completed /\ x.stop = op[o].stop /\ x.late = op[o].late
      /\ IF op[o].completed \/ ~open
         THEN /\ x.on_stop = "gone"
              /\ x.pc = IF op[o].pc = "inline" THEN "begun" ELSE op[o].pc
         ELSE x.on_stop = "cancelling" /\ x.pc = op[o].pc
  BY Zenon, <1>1, OpFields DEF OpType
<1> HIDE DEF x
<1>2. x \in OpType /\ OpInv(x) /\ (~open => x.pc # "pending")
  BY ZenonT(40), <1>1, <1>a, <1>b, OpFields DEF OpInv, CallbackInv, LateInv
<1> QED BY Zenon, <1>1, <1>2, OneOpStep

\* What cancel() makes of an operation: none is left with asio.
LEMMA CancelledOp ==
  ASSUME FdInv, NEW o \in Ops
  PROVE  /\ Cancelled(o) \in OpType /\ OpInv(Cancelled(o)) /\ Cancelled(o).pc # "pending"
         /\ Cancelled(o) = [op[o] EXCEPT !.pc = Cancelled(o).pc, !.ec = Cancelled(o).ec]
         /\ op[o].pc # "pending" => Cancelled(o) = op[o]
         /\ op[o].pc = "pending" => Cancelled(o).pc = "ready"
BY OpFields, ZenonT(60) DEF Cancelled, OpType, PCs, Callbacks, Codes, Results, OpInv, CallbackInv, LateInv

\* The cancel() of one operation ends all of them.
LEMMA CancelAllStep == ASSUME FdInv, NEW o \in Ops, CancelAll(o) PROVE FdInv'
<1> DEFINE x == [Cancelled(o) EXCEPT !.on_stop = "gone",
                   !.pc = IF op[o].pc = "inline" THEN "begun" ELSE Cancelled(o).pc]
<1>1. /\ op[o].on_stop = "cancelling" /\ open' = open /\ eof' = eof /\ input' = input
      /\ op' = [[p \in Ops |-> Cancelled(p)] EXCEPT ![o] = x]
  BY Zenon DEF CancelAll, env
<1>a. x \in OpType
  BY ZenonT(60), CancelledOp DEF OpType, PCs, Callbacks
<1>b. /\ x.kind = op[o].kind /\ x.completed = op[o].completed /\ x.stop = op[o].stop
      /\ x.late = op[o].late /\ x.on_stop = "gone"
      /\ x.pc = IF op[o].pc = "inline" THEN "begun"
                ELSE IF op[o].pc = "pending" THEN "ready" ELSE op[o].pc
  BY ZenonT(60), <1>1, OpFields, CancelledOp DEF OpType, Cancelled
<1>2. x \in OpType /\ OpInv(x) /\ x.pc # "pending"
  BY <1>1, <1>a, <1>b, OpFields DEF OpInv, CallbackInv, LateInv
<1> HIDE DEF x
<1>3. \A p \in Ops : op'[p] = IF p = o THEN x ELSE Cancelled(p)
  BY Zenon, <1>1
<1>4. op' \in [Ops -> OpType]
  BY ZenonT(60), <1>1, <1>2, CancelledOp
<1>5. \A p \in Ops : OpInv(op'[p]) /\ op'[p].pc # "pending"
  BY Zenon, <1>2, <1>3, CancelledOp
<1> QED BY Zenon, <1>1, <1>4, <1>5 DEF FdInv, FdTypeOK

\* close() leaves no operation with asio.
LEMMA CloseStep == ASSUME FdInv, Close PROVE FdInv'
<1>1. /\ open' = FALSE /\ eof' = eof /\ input' = input
      /\ op' = [p \in Ops |-> Cancelled(p)]
  BY Zenon DEF Close
<1>2. op' \in [Ops -> OpType] /\ \A p \in Ops : OpInv(op'[p]) /\ op'[p].pc # "pending"
  BY Zenon, <1>1, CancelledOp
<1> QED BY Zenon, <1>1, <1>2 DEF FdInv, FdTypeOK

\* Handing an operation to asio: one that a stop met before is not simple.
LEMMA SubmitStep ==
  ASSUME FdInv, NEW o \in Ops, Submit(o) \/ SubmitSized(o)
  PROVE  FdInv'
<1>1. /\ op[o].pc \in {"begun", "between"}
      /\ open' = open /\ eof' = eof /\ input' = input
      /\ \E to \in {"pending", "ready"}, ec \in Codes :
           (to = "pending" => open) /\ op' = [op EXCEPT ![o] = [op[o] EXCEPT !.pc = to, !.ec = ec]]
  <2>1. op[o] = [op[o] EXCEPT !.ec = op[o].ec] /\ op[o].ec \in Codes
    BY Zenon, OpFields DEF OpType
  <2> DEFINE y(to, ec) == [op EXCEPT ![o] = [op[o] EXCEPT !.pc = to, !.ec = ec]]
  <2>2. /\ [op EXCEPT ![o].pc = "pending"] = y("pending", op[o].ec)
        /\ [op EXCEPT ![o].pc = "ready"] = y("ready", op[o].ec)
        /\ [op EXCEPT ![o].pc = "ready", ![o].ec = "bad_descriptor"] = y("ready", "bad_descriptor")
    BY Zenon, <2>1 DEF FdInv, FdTypeOK, OpType
  <2>3. /\ op[o].pc \in {"begun", "between"} /\ UNCHANGED env
        /\ \/ open /\ op' = y("pending", op[o].ec)
           \/ op' = y("ready", op[o].ec)
           \/ op' = y("ready", "bad_descriptor")
    BY Zenon, <2>2 DEF Submit, SubmitSized, Submitted
  <2> QED BY Zenon, <2>1, <2>3 DEF env, Codes
<1>2. PICK to \in {"pending", "ready"}, ec \in Codes :
        (to = "pending" => open) /\ op' = [op EXCEPT ![o] = [op[o] EXCEPT !.pc = to, !.ec = ec]]
  BY Zenon, <1>1
<1> DEFINE x == [op[o] EXCEPT !.pc = to, !.ec = ec]
<1>3. x \in OpType
  BY ZenonT(60), OpFields DEF OpType, PCs
<1>4. /\ x.kind = op[o].kind /\ x.pc = to /\ x.completed = op[o].completed
      /\ x.stop = op[o].stop /\ x.late = op[o].late /\ x.on_stop = op[o].on_stop
  BY Zenon, OpFields DEF OpType
<1>5. op' = [op EXCEPT ![o] = x]
  BY Zenon, <1>2
<1> HIDE DEF x
<1>6. OpInv(x) /\ (~open => x.pc # "pending")
  BY ZenonT(60), <1>1, <1>2, <1>4, OpFields DEF OpInv, CallbackInv, LateInv
<1> QED BY Zenon, <1>1, <1>3, <1>5, <1>6, OpFields, OneOpStep

\* asio completes an operation.
LEMMA CompletesStep ==
  ASSUME FdInv, NEW o \in Ops, NEW ec \in Codes, Completes(o, ec)
  PROVE  FdInv'
<1> DEFINE x == [op[o] EXCEPT !.pc = "ready", !.ec = ec]
<1>1. op[o].pc = "pending" /\ op' = [op EXCEPT ![o] = x] /\ open' = open /\ eof' = eof /\ input' \in Nat
  BY Zenon, OpFields DEF Completes, env, FdInv, FdTypeOK
<1>2. x \in OpType
  BY <1>1, OpFields, ZenonT(60) DEF OpType, PCs, Callbacks, Codes, Results
<1>3. /\ x.kind = op[o].kind /\ x.pc = "ready" /\ x.completed = op[o].completed
      /\ x.stop = op[o].stop /\ x.late = op[o].late /\ x.on_stop = op[o].on_stop
  BY Zenon, <1>1, OpFields DEF OpType
<1> HIDE DEF x
<1>4. OpInv(x) /\ (~open => x.pc # "pending")
  BY Zenon, <1>1, <1>3, OpFields DEF OpInv, CallbackInv, LateInv
<1> QED BY Zenon, <1>1, <1>2, <1>4, OneOpStep

\* asio transfers bytes; only a composed operation has another part to go.
LEMMA TransfersStep ==
  ASSUME FdInv, NEW o \in Ops, NEW n \in Nat, Transfers(o, n),
         open' = open, eof' = eof, input' \in Nat
  PROVE  FdInv'
<1> DEFINE x == [op[o] EXCEPT !.got = @ + n,
                   !.pc = IF op[o].kind \in Simple \/ op[o].got + n = op[o].size
                          THEN "ready" ELSE "between"]
<1>1. op[o].pc = "pending" /\ op' = [op EXCEPT ![o] = x]
  BY Zenon, OpFields DEF Transfers, FdInv, FdTypeOK
<1>a. op[o].got + n \in Nat
  BY OpFields DEF OpType
<1>2. x \in OpType
  BY <1>a, OpFields, ZenonT(60) DEF OpType, PCs
<1>3. /\ x.kind = op[o].kind /\ x.pc = (IF op[o].kind \in Simple \/ op[o].got + n = op[o].size
                 THEN "ready" ELSE "between") /\ x.completed = op[o].completed
      /\ x.stop = op[o].stop /\ x.late = op[o].late /\ x.on_stop = op[o].on_stop
  BY Zenon, <1>1, OpFields DEF OpType
<1> HIDE DEF x
<1>4. OpInv(x) /\ (~open => x.pc # "pending")
  BY ZenonT(60), <1>1, <1>3, OpFields DEF OpInv, CallbackInv, LateInv
<1> QED BY Zenon, <1>1, <1>2, <1>4, OneOpStep

\* The handler takes the callback away, ...
LEMMA FinishStep == ASSUME FdInv, NEW o \in Ops, Finish(o) PROVE FdInv'
<1> DEFINE x == [op[o] EXCEPT !.pc = "finishing", !.completed = TRUE,
                              !.on_stop = IF @ = "armed" THEN "gone" ELSE @]
<1>1. op[o].pc = "ready" /\ op' = [op EXCEPT ![o] = x] /\ open' = open /\ eof' = eof /\ input' \in Nat
  BY Zenon, OpFields DEF Finish, env, FdInv, FdTypeOK
<1>2. x \in OpType
  BY ZenonT(60), <1>1, OpFields DEF OpType, PCs, Callbacks, Codes, Results
<1>3. /\ x.kind = op[o].kind /\ x.pc = "finishing" /\ x.completed = TRUE
      /\ x.stop = op[o].stop /\ x.late = op[o].late /\ x.on_stop = (IF op[o].on_stop = "armed" THEN "gone" ELSE op[o].on_stop)
  BY Zenon, <1>1, OpFields DEF OpType
<1> HIDE DEF x
<1>4. OpInv(x) /\ (~open => x.pc # "pending")
  BY Zenon, <1>1, <1>3, OpFields DEF OpInv, CallbackInv, LateInv
<1> QED BY Zenon, <1>1, <1>2, <1>4, OneOpStep

\* ... and completes the receiver when it is gone.
LEMMA CompleteStep == ASSUME FdInv, NEW o \in Ops, Complete(o) PROVE FdInv'
<1> DEFINE x == [op[o] EXCEPT !.pc = "done", !.result = Outcome(o)]
<1>0. Outcome(o) \in Results
  BY Zenon DEF Outcome, Results
<1>1. /\ op[o].pc = "finishing" /\ op[o].on_stop \notin {"checking", "cancelling"}
      /\ op' = [op EXCEPT ![o] = x] /\ open' = open /\ eof' = eof /\ input' \in Nat
  BY Zenon, OpFields DEF Complete, env, FdInv, FdTypeOK
<1>2. x \in OpType
  BY <1>0, <1>1, OpFields, ZenonT(60) DEF OpType, PCs, Callbacks, Codes, Results
<1>3. /\ x.kind = op[o].kind /\ x.pc = "done" /\ x.completed = op[o].completed
      /\ x.stop = op[o].stop /\ x.late = op[o].late /\ x.on_stop = op[o].on_stop
  BY Zenon, <1>1, OpFields DEF OpType
<1> HIDE DEF x
<1>a. op[o].on_stop \in Callbacks
  BY Zenon, OpFields DEF OpType
<1>4. OpInv(x) /\ (~open => x.pc # "pending")
  BY Zenon, <1>1, <1>3, <1>a, OpFields DEF OpInv, CallbackInv, LateInv, Callbacks
<1> QED BY Zenon, <1>1, <1>2, <1>4, OneOpStep

\* What asio does with the six kinds of operations.
LEMMA AsioStep ==
  ASSUME FdInv, NEW o \in Ops,
         \/ WaitReadable(o) \/ WaitWritable(o) \/ WriteSome(o) \/ WriteAll(o)
         \/ ReadSome(o) \/ ReadExactly(o)
  PROVE  FdInv'
<1>1. \/ Submit(o) \/ SubmitSized(o) \/ Reads(o) \/ Writes(o)
      \/ \E ec \in Codes : Completes(o, ec)
  BY Zenon DEF WaitReadable, WaitWritable, WriteSome, WriteAll, ReadSome, ReadExactly, Codes
<1>2. CASE Reads(o)
  <2>1. PICK n \in 1..input : Transfers(o, n) /\ input' = input - n /\ UNCHANGED <<open, eof>>
    BY Zenon, <1>2 DEF Reads
  <2>2. n \in Nat /\ input' \in Nat
    BY <2>1, OpFields
  <2> QED BY Zenon, <2>1, <2>2, TransfersStep
<1>3. CASE Writes(o)
  <2>1. PICK n \in 0..op[o].size : Transfers(o, n) /\ UNCHANGED env
    BY Zenon, <1>3 DEF Writes
  <2>2. op[o].size \in Nat
    BY Zenon, OpFields DEF OpType
  <2>3. n \in Nat /\ open' = open /\ eof' = eof /\ input' \in Nat
    BY <2>1, <2>2, OpFields DEF env
  <2> QED BY Zenon, <2>1, <2>3, TransfersStep
<1> QED BY Zenon, <1>1, <1>2, <1>3, SubmitStep, CompletesStep

\* Every step keeps the invariant.
LEMMA FdStepInv == FdInv /\ [FdNext]_fdVars => FdInv'
<1> SUFFICES ASSUME FdInv, [FdNext]_fdVars PROVE FdInv'
  BY Zenon
<1>1. CASE UNCHANGED fdVars
  BY Zenon, <1>1 DEF fdVars, FdInv, FdTypeOK
<1>2. CASE PeerSends \/ PeerEnds
  <2>0. input \in Nat /\ eof \in BOOLEAN
    BY Zenon DEF FdInv, FdTypeOK
  <2>1. open' = open /\ op' = op /\ input' \in Nat /\ eof' \in BOOLEAN
    <3>1. CASE PeerSends
      BY <2>0, <3>1 DEF PeerSends
    <3>2. CASE PeerEnds
      BY Zenon, <2>0, <3>2 DEF PeerEnds
    <3> QED BY Zenon, <1>2, <3>1, <3>2
  <2> QED BY Zenon, <2>1 DEF FdInv, FdTypeOK
<1>3. ASSUME NEW o \in Ops,
             \/ Begin(o) \/ Emplace(o) \/ RequestStop(o) \/ CancelTests(o) \/ CancelAll(o)
             \/ WaitReadable(o) \/ WaitWritable(o) \/ WriteSome(o) \/ WriteAll(o)
             \/ ReadSome(o) \/ ReadExactly(o) \/ Finish(o) \/ Complete(o)
      PROVE  FdInv'
  BY Zenon, <1>3, BeginStep, EmplaceStep, RequestStopStep, CancelTestsStep, CancelAllStep, AsioStep,
     FinishStep, CompleteStep
<1> QED BY Zenon, <1>1, <1>2, <1>3, CloseStep DEF FdNext

\* The inductive invariant holds in every reachable state.
THEOREM FdInvariant == FdSpec => []FdInv
BY FdInitInv, FdStepInv, PTL DEF FdSpec

\* For any operations on a descriptor: no stop callback is left, running or
\* armed, when the receiver of an operation has been completed (fd.h:182).
THEOREM CallbackIsGone == FdSpec => []NoTouchAfterDone
<1>1. FdInv => NoTouchAfterDone
  BY Zenon DEF FdInv, OpInv, CallbackInv, NoTouchAfterDone
<1> QED BY <1>1, FdInvariant, PTL

\* For any operations on a descriptor: a stop request that comes while asio has
\* a simple operation makes it leave asio before its callback ends (fd.h:194).
THEOREM StopReachesPending == FdSpec => []StopIsNotLost
<1>1. FdInv => StopIsNotLost
  BY Zenon DEF FdInv, OpInv, LateInv, StopIsNotLost
<1> QED BY <1>1, FdInvariant, PTL


----------------------------------------------------------------------------
(* Runtime.                                                                *)

Pools == {"io", "blocking"}
WorkPCs == {"new", "refused", "checked", "queued", "running", "suspended", "done"}
WorkType == [kind : WorkKinds, pc : WorkPCs, late : BOOLEAN]

RuntimeTypeOK ==
  /\ shutdown_started_ \in BOOLEAN
  /\ stage \in {"up", "stopping", "drained", "down"}
  /\ pool \in [Pools -> {"run", "stopping", "joined"}]
  /\ work \in [Works -> WorkType]

\* shutdown() goes through its stages in order.
StageInv ==
  /\ ~shutdown_started_ => stage = "up"
  /\ \A p \in Pools : pool[p] # "run" => stage \in {"drained", "down"}
  /\ pool["blocking"] # "run" => pool["io"] = "joined"
  /\ stage = "down" => pool["blocking"] = "joined"

\* What is live in the scope once it was seen empty came late, and a pool that
\* was joined runs nothing.
WorkInv ==
  \A w \in Works :
    /\ InScope(w) /\ work[w].pc \in Live /\ stage \in {"drained", "down"} => work[w].late
    /\ pool[PoolOf(w)] = "joined" => work[w].pc # "running"

RuntimeInv == RuntimeTypeOK /\ StageInv /\ WorkInv

\* A Runtime just made.
LEMMA RuntimeInitInv == RuntimeInit => RuntimeInv
<1> SUFFICES ASSUME RuntimeInit PROVE RuntimeInv
  OBVIOUS
<1>1. RuntimeTypeOK
  BY Zenon DEF RuntimeInit, RuntimeTypeOK, Pools, WorkType, WorkPCs
<1>2. StageInv /\ WorkInv
  BY Zenon DEF RuntimeInit, StageInv, WorkInv, Pools, Live, PoolOf
<1> QED BY Zenon, <1>1, <1>2 DEF RuntimeInv

\* A step of one call: it keeps the invariant when what it becomes is in order.
LEMMA OneWorkStep ==
  ASSUME RuntimeInv, NEW w \in Works, NEW x \in WorkType,
         work' = [work EXCEPT ![w] = x], x.kind = work[w].kind, SameRuntime,
         InScope(w) /\ x.pc \in Live /\ stage \in {"drained", "down"} => x.late,
         x.pc = "running" => pool[PoolOf(w)] = "run"
  PROVE  RuntimeInv'
<1>1. /\ shutdown_started_' = shutdown_started_ /\ stage' = stage /\ pool' = pool
      /\ work' \in [Works -> WorkType]
      /\ \A v \in Works : work'[v] = IF v = w THEN x ELSE work[v]
  BY Zenon DEF SameRuntime, RuntimeInv, RuntimeTypeOK
<1>2. \A v \in Works : PoolOf(v)' = PoolOf(v) /\ InScope(v)' = InScope(v)
  BY Zenon, <1>1 DEF PoolOf, InScope
<1>3. RuntimeTypeOK' /\ StageInv'
  BY Zenon, <1>1 DEF RuntimeInv, RuntimeTypeOK, StageInv
<1>4. WorkInv'
  <2> SUFFICES ASSUME NEW v \in Works
               PROVE  /\ InScope(v) /\ work'[v].pc \in Live /\ stage \in {"drained", "down"}
                           => work'[v].late
                      /\ pool[PoolOf(v)] = "joined" => work'[v].pc # "running"
    BY Zenon, <1>1, <1>2 DEF WorkInv
  <2>1. CASE v = w
    BY Zenon, <2>1, <1>1
  <2>2. CASE v # w
    BY Zenon, <2>2, <1>1 DEF RuntimeInv, WorkInv
  <2> QED BY Zenon, <2>1, <2>2
<1> QED BY Zenon, <1>3, <1>4 DEF RuntimeInv

\* The steps of a call.
LEMMA WorkStep ==
  ASSUME RuntimeInv, NEW w \in Works,
         Check(w) \/ Enter(w) \/ Run(w) \/ Suspend(w) \/ Resume(w) \/ End(w)
  PROVE  RuntimeInv'
<1>0. /\ work[w] \in WorkType /\ work \in [Works -> WorkType]
      /\ InScope(w) /\ work[w].pc \in Live /\ stage \in {"drained", "down"} => work[w].late
      /\ stage \in {"up", "stopping", "drained", "down"}
  BY Zenon DEF RuntimeInv, RuntimeTypeOK, WorkInv
<1>1. ASSUME NEW to \in WorkPCs, Becomes(w, to), SameRuntime,
             to \in Live => work[w].pc \in Live,
             to = "running" => pool[PoolOf(w)] = "run"
      PROVE  RuntimeInv'
  <2> DEFINE x == [work[w] EXCEPT !.pc = to]
  <2>1. /\ x \in WorkType /\ x.pc = to /\ x.kind = work[w].kind /\ x.late = work[w].late
        /\ work' = [work EXCEPT ![w] = x]
    BY Zenon, <1>0, <1>1 DEF WorkType, Becomes
  <2> HIDE DEF x
  <2> QED BY Zenon, <1>0, <1>1, <2>1, OneWorkStep
<1>2. CASE Enter(w)
  <2> DEFINE x == [work[w] EXCEPT !.pc = "queued", !.late = (stage \notin {"up", "stopping"})]
  <2>1. /\ x \in WorkType /\ x.pc = "queued" /\ x.kind = work[w].kind
        /\ x.late = (stage \notin {"up", "stopping"})
        /\ work' = [work EXCEPT ![w] = x] /\ SameRuntime
    BY Zenon, <1>0, <1>2 DEF WorkType, WorkPCs, Enter
  <2> HIDE DEF x
  <2> QED BY Zenon, <1>0, <2>1, OneWorkStep
<1>3. CASE Check(w)
  BY Zenon, <1>1, <1>3 DEF Check, WorkPCs, Live
<1>4. CASE Run(w)
  BY Zenon, <1>1, <1>4 DEF Run, WorkPCs, Live
<1>5. CASE Suspend(w) \/ Resume(w) \/ End(w)
  BY Zenon, <1>1, <1>5 DEF Suspend, Resume, End, WorkPCs, Live
<1> QED BY Zenon, <1>2, <1>3, <1>4, <1>5

\* The steps of shutdown().
LEMMA ShutdownStep ==
  ASSUME RuntimeInv,
         \/ \E c \in Closers : ShutdownStarts(c) \/ ShutdownReturns(c)
         \/ ShutdownDrains
         \/ \E p \in Pools : StopPool(p) \/ JoinPool(p)
  PROVE  RuntimeInv'
<1>0. /\ work' = work
      /\ \A w \in Works : /\ PoolOf(w)' = PoolOf(w) /\ InScope(w)' = InScope(w)
                          /\ PoolOf(w) \in Pools
  BY Zenon DEF ShutdownStarts, ShutdownReturns, ShutdownDrains, StopPool, JoinPool, SameWork,
         PoolOf, InScope, Pools
<1>1. CASE \E c \in Closers : ShutdownStarts(c)
  BY Zenon, <1>0, <1>1 DEF ShutdownStarts, RuntimeInv, RuntimeTypeOK, StageInv, WorkInv, Pools
<1>2. CASE ShutdownDrains
  <2>1. RuntimeTypeOK' /\ StageInv'
    BY Zenon, <1>0, <1>2 DEF ShutdownDrains, RuntimeInv, RuntimeTypeOK, StageInv, Pools
  <2>2. WorkInv'
    BY Zenon, <1>0, <1>2 DEF ShutdownDrains, RuntimeInv, WorkInv
  <2> QED BY Zenon, <2>1, <2>2 DEF RuntimeInv
<1>3. CASE \E c \in Closers : ShutdownReturns(c)
  BY <1>0, <1>3 DEF ShutdownReturns, RuntimeInv, RuntimeTypeOK, StageInv, WorkInv, Pools
<1>4. ASSUME NEW p \in Pools, StopPool(p) PROVE RuntimeInv'
  <2>1. /\ shutdown_started_' = shutdown_started_ /\ stage' = stage /\ stage = "drained"
        /\ pool' \in [Pools -> {"run", "stopping", "joined"}]
        /\ \A q \in Pools : pool'[q] = IF q = p THEN "stopping" ELSE pool[q]
        /\ pool[p] = "run" /\ (p = "blocking" => pool["io"] = "joined")
    BY Zenon, <1>4 DEF StopPool, RuntimeInv, RuntimeTypeOK
  <2>2. RuntimeTypeOK' /\ StageInv'
    BY Zenon, <1>0, <2>1 DEF RuntimeInv, RuntimeTypeOK, StageInv, Pools
  <2>3. WorkInv'
    BY Zenon, <1>0, <2>1 DEF RuntimeInv, WorkInv
  <2> QED BY Zenon, <2>2, <2>3 DEF RuntimeInv
<1>5. ASSUME NEW p \in Pools, JoinPool(p) PROVE RuntimeInv'
  <2>1. /\ shutdown_started_' = shutdown_started_ /\ stage' = stage
        /\ pool' \in [Pools -> {"run", "stopping", "joined"}]
        /\ \A q \in Pools : pool'[q] = IF q = p THEN "joined" ELSE pool[q]
        /\ pool[p] = "stopping"
        /\ \A w \in Works : PoolOf(w) = p => work[w].pc # "running"
    BY Zenon, <1>5 DEF JoinPool, RuntimeInv, RuntimeTypeOK
  <2>2. RuntimeTypeOK' /\ StageInv'
    BY Zenon, <1>0, <2>1 DEF RuntimeInv, RuntimeTypeOK, StageInv, Pools
  <2>3. WorkInv'
    BY ZenonT(60), <1>0, <2>1 DEF RuntimeInv, WorkInv
  <2> QED BY <2>2, <2>3 DEF RuntimeInv
<1> QED BY Zenon, <1>1, <1>2, <1>3, <1>4, <1>5

\* Every step keeps the invariant.
LEMMA RuntimeStepInv == RuntimeInv /\ [RuntimeNext]_runtimeVars => RuntimeInv'
<1> SUFFICES ASSUME RuntimeInv, [RuntimeNext]_runtimeVars PROVE RuntimeInv'
  OBVIOUS
<1>1. CASE UNCHANGED runtimeVars
  BY Zenon, <1>1 DEF runtimeVars, RuntimeInv, RuntimeTypeOK, StageInv, WorkInv, InScope, PoolOf
<1> QED BY Zenon, <1>1, WorkStep, ShutdownStep DEF RuntimeNext, Pools

\* The inductive invariant holds in every reachable state.
THEOREM RuntimeInvariant == RuntimeSpec => []RuntimeInv
BY RuntimeInitInv, RuntimeStepInv, PTL DEF RuntimeSpec

\* For any number of calls and of threads that call shutdown(): a task that was
\* in the scope when shutdown() waited for it has completed before its pool
\* stops, and nothing runs after shutdown() (runtime.cpp:128).
THEOREM ShutdownLeavesNothing == RuntimeSpec => []NothingLeftBehind
<1>1. RuntimeInv => NothingLeftBehind
  <2> SUFFICES ASSUME RuntimeInv PROVE NothingLeftBehind
    BY Zenon
  <2>1. \A w \in Works : PoolOf(w) \in Pools
    BY Zenon DEF PoolOf, Pools
  <2>2. stage = "down" => \A p \in Pools : pool[p] = "joined"
    BY Zenon DEF RuntimeInv, RuntimeTypeOK, StageInv, Pools
  <2> QED BY Zenon, <2>1, <2>2 DEF RuntimeInv, StageInv, WorkInv, NothingLeftBehind
<1> QED BY <1>1, RuntimeInvariant, PTL

----------------------------------------------------------------------------
(* Stream.                                                                 *)

CallStates == Active \cup {"idle", "nullopt", "refused", "stopped", "value", "error"}

\* Besides the property: the end is recorded when nobody fetches, and whoever
\* is stopped leaves in_flight set.
StreamInv ==
  /\ in_flight \in BOOLEAN /\ ended \in BOOLEAN /\ next \in [Call -> CallStates]
  /\ NextIsSound
  /\ ended => \A c \in Call : next[c] \notin Active

\* Every step of a call keeps the invariant.
LEMMA StreamStepInv == StreamInv /\ [Next]_vars => StreamInv'
<1> SUFFICES ASSUME StreamInv, [Next]_vars PROVE StreamInv'
  OBVIOUS
<1> USE DEF StreamInv, NextIsSound, OneInFlight, NothingAfterEnd, RefusalHasCause, Active,
            CallStates
<1>1. CASE UNCHANGED vars
  BY Zenon, <1>1 DEF vars
<1>2. ASSUME NEW c \in Call, NextEnded(c) \/ NextRefused(c) PROVE StreamInv'
  BY <1>2 DEF NextEnded, NextRefused
<1>3. ASSUME NEW c \in Call, NextFetch(c) PROVE StreamInv'
  BY Zenon, <1>3 DEF NextFetch
<1>4. ASSUME NEW c \in Call, Fetched(c) \/ FetchStopped(c) PROVE StreamInv'
  BY <1>4 DEF Fetched, FetchStopped
<1>5. ASSUME NEW c \in Call, ResumeValue(c) \/ ResumeNullopt(c) \/ ResumeError(c)
      PROVE  StreamInv'
  BY <1>5, ZenonT(60) DEF ResumeValue, ResumeNullopt, ResumeError
<1> QED BY Zenon, <1>1, <1>2, <1>3, <1>4, <1>5 DEF Next

\* For any number of calls of next(): one of them fetches at a time, the end is
\* final, and a stream that refuses has a call under way or one that was
\* stopped (stream.h:32).
THEOREM NextIsAlwaysSound == Spec => []NextIsSound
<1>1. Init => StreamInv
  BY Zenon DEF Init, StreamInv, NextIsSound, OneInFlight, NothingAfterEnd, RefusalHasCause, Active,
         CallStates
<1>2. StreamInv => NextIsSound
  BY Zenon DEF StreamInv
<1> QED BY <1>1, <1>2, StreamStepInv, PTL DEF Spec

USE DEF file
-----------------------------------------------------------------------------
(* The HTTP client. *)

\* Lists of pieces joined are one.
LEMMA ListsJoin == \A s, t \in Seq(Nat) : s \o t \in Seq(Nat) /\ Len(s) \in Nat
OBVIOUS

\* A resource is its first pieces and the rest, which is what a range request
\* asks for (Payload of a 206).
LEMMA PrefixAndRest ==
  ASSUME NEW n \in 0..Len(Entity)
  PROVE  SubSeq(Entity, 1, n) \o Rest(n) = Entity
<1> DEFINE a == SubSeq(Entity, 1, n)
           b == SubSeq(Entity, n + 1, Len(Entity))
<1>1. Entity \in Seq(Nat) /\ Len(Entity) \in Nat
  BY FilesAssumption
<1>2. a \in Seq(Nat) /\ Len(a) = n /\ \A i \in 1..n : a[i] = Entity[i]
  BY <1>1
<1>3. /\ b \in Seq(Nat) /\ Len(b) = Len(Entity) - n
      /\ \A i \in 1..(Len(Entity) - n) : b[i] = Entity[n + i]
  BY <1>1
<1> HIDE DEF a, b
<1>4. a \o b \in Seq(Nat) /\ Len(a \o b) = Len(Entity)
  BY <1>1, <1>2, <1>3
<1>5. ASSUME NEW i \in 1..Len(Entity) PROVE (a \o b)[i] = Entity[i]
  <2>1. (a \o b)[i] = IF i <= n THEN a[i] ELSE b[i - n]
    BY SMTT(30), <1>1, <1>2, <1>3
  <2>2. CASE i <= n
    BY <1>1, <1>2, <2>1, <2>2
  <2>3. CASE ~(i <= n)
    <3>1. i - n \in 1..(Len(Entity) - n) /\ n + (i - n) = i
      BY <1>1, <2>3
    <3> QED BY Zenon, <1>3, <2>1, <2>3, <3>1
  <2> QED BY Zenon, <2>2, <2>3
<1>6. a \o b = Entity
  <2>1. \A s \in Seq(Nat) : s = [i \in 1..Len(s) |-> s[i]]
    OBVIOUS
  <2> QED BY Zenon, <1>1, <1>4, <1>5, <2>1
<1> QED BY Zenon, <1>6 DEF a, b, Rest

\* What a file may hold at first is a list of pieces.
LEMMA PartsAreLists == Absent \in Seq(Nat) /\ Old \in Seq(Nat) /\ Parts \subseteq Seq(Nat)
<1>1. Absent \in Seq(Nat)
  BY DEF Absent
<1>2. \A n \in 0..Len(Entity) : SubSeq(Entity, 1, n) \in Seq(Nat)
  BY FilesAssumption
<1> QED BY Zenon, <1>1, <1>2, FilesAssumption

\* The first state satisfies the inductive invariant.
LEMMA HttpInvInit == HttpInit => HttpInv
<1> SUFFICES ASSUME HttpInit PROVE HttpInv
  OBVIOUS
<1>1. HttpTypeOK
  <2>1. temp \in Seq(Nat) /\ output \in Seq(Nat)
    BY Zenon, PartsAreLists DEF HttpInit
  <2>2. answer \in AnswerType
    BY Zenon DEF HttpInit, None, AnswerType
  <2> QED BY <2>1, <2>2, HttpAssumption DEF HttpInit, HttpTypeOK, CallType, Fresh
<1>2. RepeatInv
  BY DEF HttpInit, RepeatInv
<1>3. DownloadInv
  BY Zenon DEF HttpInit, DownloadInv
<1>4. OldOrNew
  BY Zenon DEF HttpInit, OldOrNew
<1> QED BY Zenon, <1>1, <1>2, <1>3, <1>4 DEF HttpInv

\* Every payload is a list of pieces.
LEMMA PayloadIsList ==
  ASSUME HttpTypeOK, NEW status \in Nat
  PROVE  Payload(status) \in Seq(Nat)
<1>1. RangeFrom \in Nat
  BY Zenon DEF HttpTypeOK, RangeFrom
<1>2. Rest(RangeFrom) \in Seq(Nat)
  BY <1>1, FilesAssumption DEF Rest
<1> QED BY <1>2, FilesAssumption DEF Payload

\* The response or the error at hand is one.
LEMMA AnswerKept ==
  ASSUME answer \in AnswerType, HttpNext
  PROVE  answer' \in AnswerType
<1>1. CASE Attempt \/ Respond
  <2>1. [answer EXCEPT !.kind = "status"] \in AnswerType
    BY Zenon DEF AnswerType
  <2>2. [kind |-> "invalid", status |-> 0] \in AnswerType
    BY Zenon DEF AnswerType
  <2> QED BY ZenonT(60), <1>1, <2>1, <2>2 DEF Attempt, Respond
<1>2. CASE \E kind \in {"timeout", "connect", "tls"} : ExchangeFails(kind)
  BY <1>2 DEF ExchangeFails, AnswerType
<1>3. ASSUME NEW status \in {200, 206, 302, 303, 307, 404, 416, 503}, NEW location,
             ExchangeAnswers(status, location)
      PROVE  answer' \in AnswerType
  BY SMTT(30), <1>3 DEF ExchangeAnswers, AnswerType
<1>4. CASE \/ Fail \/ DownloadStat \/ DownloadWrite \/ DownloadWriteFails
           \/ DownloadWritten \/ DownloadReplace \/ DownloadMove
  BY Zenon, <1>4 DEF Fail, DownloadStat, DownloadWrite, DownloadWriteFails, DownloadWritten,
              DownloadReplace, DownloadMove
<1> QED BY <1>1, <1>2, <1>3, <1>4 DEF HttpNext, ClientStep

\* Every step of a call keeps the types.
LEMMA HttpTypeKept ==
  ASSUME HttpTypeOK, HttpNext
  PROVE  HttpTypeOK'
<1> USE DEF HttpTypeOK
<1>0. answer' \in AnswerType
  BY Zenon, AnswerKept
<1> DEFINE Sent == [method : {"GET", "POST"}, body : BOOLEAN, ok : BOOLEAN]
<1>1. CASE \E kind \in {"timeout", "connect", "tls"} : ExchangeFails(kind)
  BY <1>0, <1>1 DEF ExchangeFails, Exchange
<1>2. ASSUME NEW status \in {200, 206, 302, 303, 307, 404, 416, 503}, NEW location,
             ExchangeAnswers(status, location)
      PROVE  HttpTypeOK'
  <2>1. streamed' \in Seq(Nat)
    <3>1. status \in Nat
      OBVIOUS
    <3>2. Payload(status) \in Seq(Nat)
      BY <3>1, PayloadIsList
    <3>3. streamed' = streamed \o Payload(status)
      BY ZenonT(60), <1>2 DEF ExchangeAnswers
    <3> QED BY ZenonT(60), <3>2, <3>3, ListsJoin, Zenon
  <2>2. sent' \in Seq(Sent)
    BY <1>2 DEF ExchangeAnswers, Exchange
  <2>3. now'.method \in {"GET", "POST"} /\ now'.body \in BOOLEAN
    <3>1. CASE now' = now
      BY <3>1
    <3>2. CASE now' = [method |-> "GET", body |-> FALSE, hops |-> now.hops + 1]
      BY <3>2
    <3>3. CASE now' = [now EXCEPT !.hops = @ + 1]
      BY <3>3
    <3> QED BY <1>2, <3>1, <3>2, <3>3 DEF ExchangeAnswers
  <2> QED BY ZenonT(60), <1>0, <1>2, <2>1, <2>2, <2>3 DEF ExchangeAnswers
<1>3. CASE Attempt
  <2>1. call.method \in {"GET", "POST"}
    BY Zenon DEF CallType
  <2>2. now'.method \in {"GET", "POST"} /\ now'.body \in BOOLEAN
    BY Zenon, <1>3, <2>1 DEF Attempt, Fresh
  <2> QED BY Zenon, <1>0, <1>3, <2>2 DEF Attempt
<1>4. CASE Respond \/ Fail
  BY Zenon, <1>0, <1>4 DEF Respond, Fail
<1>5. CASE DownloadStat \/ DownloadWritten
  <2>1. /\ <<call', now', sent', temp', output'>> = <<call, now, sent, temp, output>>
        /\ run' \in 0..2 /\ offset' \in Nat /\ streamed' \in Seq(Nat)
    <3>1. Len(TempFile) \in Nat /\ <<>> \in Seq(Nat)
      BY ListsJoin DEF TempFile
    <3>2. CASE DownloadStat
      BY <3>1, <3>2 DEF DownloadStat, RunOnce
    <3>3. CASE DownloadWritten
      <4>1. CASE run = 1 /\ offset > 0 /\ answer.status = 200
        BY <3>1, <3>3, <4>1 DEF DownloadWritten, RunOnce
      <4>2. CASE ~(run = 1 /\ offset > 0 /\ answer.status = 200)
        BY ZenonT(60), <3>3, <4>2 DEF DownloadWritten
      <4> QED BY Zenon, <4>1, <4>2
    <3> QED BY Zenon, <1>5, <3>2, <3>3
  <2> QED BY Zenon, <1>0, <2>1
<1>6. CASE DownloadWrite \/ DownloadWriteFails
  <2>1. streamed # <<>> => <<Head(streamed)>> \in Seq(Nat)
    OBVIOUS
  <2>2. TempFile \in Seq(Nat)
    BY Zenon DEF TempFile
  <2>3. temp' \in Seq(Nat) /\ output' \in Seq(Nat)
    <3>1. CASE DownloadWrite
      BY <3>1, <2>2, ListsJoin, Zenon DEF DownloadWrite, WriteTemp
    <3>2. CASE DownloadWriteFails
      <4>1. (IF run = 1 /\ offset > 0 THEN TempFile ELSE <<>>) \in Seq(Nat)
        BY <2>2
      <4>2. (IF run = 1 /\ offset > 0 THEN TempFile ELSE <<>>) \o <<Head(streamed)>> \in Seq(Nat)
        BY <2>1, <3>2, <4>1, ListsJoin, Zenon DEF DownloadWriteFails
      <4> QED BY <3>2, <4>2, Zenon DEF DownloadWriteFails, WriteTemp
    <3> QED BY Zenon, <1>6, <3>1, <3>2
  <2> QED BY Zenon, <1>0, <1>6, <2>3 DEF DownloadWrite, DownloadWriteFails
<1>7. CASE DownloadReplace \/ DownloadMove
  BY Zenon, <1>0, <1>7, PartsAreLists DEF DownloadReplace, DownloadMove
<1> QED BY <1>1, <1>2, <1>3, <1>4, <1>5, <1>6, <1>7 DEF HttpNext, ClientStep

\* A step that makes no exchange leaves the exchanges alone; once a call is in
\* error only the catch of execute_async is left, and nothing after it.
LEMMA QuietSteps ==
  ASSUME \/ Attempt \/ Respond \/ DownloadStat \/ DownloadWrite \/ DownloadWriteFails
         \/ DownloadWritten \/ DownloadReplace \/ DownloadMove
  PROVE  call' = call /\ sent' = sent /\ pc \notin {"error", "threw"}
BY Zenon DEF Attempt, Respond, DownloadStat, DownloadWrite, DownloadWriteFails, DownloadWritten,
       DownloadReplace, DownloadMove

\* A POST whose exchange failed is given up: should_retry_error refuses it.
LEMMA RepeatKept ==
  ASSUME HttpTypeOK, RepeatInv, HttpNext
  PROVE  RepeatInv'
<1> SUFFICES ASSUME call'.idempotent_only, call'.method = "POST", NEW n \in DOMAIN sent',
                    ~sent'[n].ok
             PROVE  n = Len(sent') /\ pc' \in {"error", "threw"}
  BY Zenon DEF RepeatInv
<1>0. /\ sent \in Seq([method : {"GET", "POST"}, body : BOOLEAN, ok : BOOLEAN])
      /\ now.method \in {"GET", "POST"} /\ now.body \in BOOLEAN
  BY Zenon DEF HttpTypeOK
<1>1. CASE \E kind \in {"timeout", "connect", "tls"} : ExchangeFails(kind)
  <2>1. /\ call' = call /\ pc = "hop" /\ pc' = "error"
        /\ sent' = Append(sent, Exchange(FALSE))
    BY Zenon, <1>1 DEF ExchangeFails
  <2>2. \A m \in DOMAIN sent : sent[m].ok
    BY Zenon, <2>1 DEF RepeatInv
  <2> QED BY <1>0, <2>1, <2>2 DEF Exchange
<1>2. ASSUME NEW status, NEW location, ExchangeAnswers(status, location)
      PROVE  n = Len(sent') /\ pc' \in {"error", "threw"}
  <2>1. call' = call /\ pc = "hop" /\ sent' = Append(sent, Exchange(TRUE))
    BY Zenon, <1>2 DEF ExchangeAnswers
  <2>2. \A m \in DOMAIN sent : sent[m].ok
    BY Zenon, <2>1 DEF RepeatInv
  <2> QED BY <1>0, <2>1, <2>2 DEF Exchange
<1>3. CASE Fail
  <2>1. call' = call /\ sent' = sent
    BY Zenon, <1>3 DEF Fail
  <2>2. ~ShouldRetry
    BY Zenon, <2>1 DEF ShouldRetry
  <2> QED BY Zenon, <1>3, <2>1, <2>2 DEF Fail, RepeatInv
<1>4. CASE \/ Attempt \/ Respond \/ DownloadStat \/ DownloadWrite \/ DownloadWriteFails
           \/ DownloadWritten \/ DownloadReplace \/ DownloadMove
  BY Zenon, <1>4, QuietSteps DEF RepeatInv
<1> QED BY <1>1, <1>2, <1>3, <1>4 DEF HttpNext, ClientStep

\* What a response brings, under the assumptions of OldOrNew: the whole resource,
\* the rest of it behind the .part file, or nothing.
LEMMA Payloads ==
  ASSUME ~call.noisy, NEW status \in Statuses
  PROVE  /\ status \notin 200..299 => Payload(status) = <<>>
         /\ status \in 200..299 =>
              \/ status = 200 /\ Payload(status) = Entity
              \/ /\ status = 206 /\ RangeFrom > 0 /\ RangeFrom < Len(Entity)
                 /\ Payload(status) = Rest(RangeFrom)
<1>1. status \in {200, 206, 416, 302, 303, 307, 404, 503}
  BY DEF Statuses
<1>2. status = 206 => RangeFrom > 0 /\ RangeFrom < Len(Entity)
  BY DEF Statuses
<1>3. CASE status = 200
  BY <1>3 DEF Payload
<1>4. CASE status = 206
  <2>1. 206 # 200
    OBVIOUS
  <2>2. Payload(status) = Rest(RangeFrom)
    BY <1>4, <2>1 DEF Payload
  <2> QED BY <1>2, <1>4, <2>2
<1>5. CASE status \in {416, 302, 303, 307, 404, 503}
  <2>1. \A x \in {416, 302, 303, 307, 404, 503} : x # 200 /\ x # 206 /\ x \notin 200..299
    OBVIOUS
  <2>2. Payload(status) = <<>>
    BY <1>5, <2>1 DEF Payload
  <2> QED BY <1>5, <2>1, <2>2
<1> QED BY <1>1, <1>3, <1>4, <1>5

\* Every step of a download keeps what is known of `streamed` and of the .part
\* file.
LEMMA DownloadKept ==
  ASSUME HttpTypeOK, DownloadInv, HttpNext
  PROVE  DownloadInv'
<1> DEFINE Judged == call.kind = "download" /\ call.use_temp /\ call.throws /\ ~call.noisy
<1>0. call' = call
  BY ZenonT(60) DEF HttpNext, ClientStep, Attempt, Respond, Fail, ExchangeFails, ExchangeAnswers,
         DownloadStat, DownloadWrite, DownloadWriteFails, DownloadWritten, DownloadReplace,
         DownloadMove
<1> SUFFICES ASSUME Judged PROVE DownloadInv'
  BY Zenon, <1>0 DEF DownloadInv
<1>a. streamed \in Seq(Nat) /\ run \in 0..2 /\ offset \in Nat
  BY Zenon DEF HttpTypeOK
<1>1. CASE Attempt \/ Fail
  BY <1>0, <1>1 DEF Attempt, Fail, DownloadInv, Statuses, Payload, RangeFrom
<1>2. CASE \E kind \in {"timeout", "connect", "tls"} : ExchangeFails(kind)
  BY <1>0, <1>2 DEF ExchangeFails, DownloadInv, Statuses, Payload, RangeFrom
<1>3. ASSUME NEW status, NEW location, ExchangeAnswers(status, location) PROVE DownloadInv'
  <2>1. /\ pc = "hop" /\ status \in Statuses /\ streamed = <<>>
        /\ streamed' = streamed \o Payload(status)
        /\ UNCHANGED <<temp, output, offset, run>>
    BY Zenon, <1>3 DEF ExchangeAnswers, DownloadInv
  <2>2. status \in Nat
    BY <2>1 DEF Statuses
  <2>3. streamed' = Payload(status)
    <3>1. Payload(status) \in Seq(Nat)
      BY Zenon, <2>2, PayloadIsList
    <3> QED BY <2>1, <3>1
  <2>4. Statuses' = Statuses /\ Payload(status)' = Payload(status)
    BY <1>0, <2>1 DEF Statuses, Payload, RangeFrom
  <2>5. CASE answer'.status = status /\ pc' = "response"
    BY Zenon, <1>0, <2>1, <2>3, <2>4, <2>5 DEF DownloadInv
  <2>6. CASE status \in Redirects /\ pc' \in {"hop", "error"}
    <3>1. streamed' = <<>>
      BY <2>1, <2>3, <2>6, Payloads DEF Redirects
    <3> QED BY Zenon, <1>0, <2>1, <2>6, <3>1 DEF DownloadInv
  <2> QED BY <1>3, <2>5, <2>6 DEF ExchangeAnswers
<1>4. CASE Respond
  <2>1. /\ pc = "response" /\ answer'.status = answer.status
        /\ answer.status \in Statuses /\ streamed = Payload(answer.status)
        /\ UNCHANGED <<streamed, temp, output, offset, run>>
    BY <1>4 DEF Respond, DownloadInv, HttpTypeOK, AnswerType
  <2>2. Statuses' = Statuses /\ Payload(answer.status)' = Payload(answer.status)
    BY SMTT(30), <1>0, <2>1 DEF Statuses, Payload, RangeFrom
  <2>3. CASE pc' = "value" /\ answer.status \in 200..299
    BY <1>0, <2>1, <2>2, <2>3 DEF DownloadInv
  <2>4. CASE pc' = "error" /\ answer.status \notin 200..299
    <3>1. streamed = <<>>
      BY Zenon, <2>1, <2>4, Payloads
    <3> QED BY Zenon, <1>0, <2>1, <2>4, <3>1 DEF DownloadInv
  <2> QED BY Zenon, <1>4, <2>3, <2>4 DEF Respond
<1>5. CASE DownloadStat
  <2>1. pc' = "attempt" /\ run' = 1 /\ streamed' = <<>> /\ temp' = temp /\ temp \in Parts
    BY Zenon, <1>5 DEF DownloadStat, RunOnce, DownloadInv
  <2>2. offset' = IF call.resume /\ temp # Absent THEN Len(temp) ELSE 0
    BY Zenon, <1>5 DEF DownloadStat, RunOnce, TempFile
  <2>3. offset' > 0 => offset' <= Len(Entity) /\ temp = SubSeq(Entity, 1, offset')
    <3> SUFFICES ASSUME offset' > 0 PROVE offset' <= Len(Entity) /\ temp = SubSeq(Entity, 1, offset')
      BY Zenon
    <3>1. offset' = Len(temp) /\ temp # Absent
      BY <2>2
    <3>2. PICK n \in 0..Len(Entity) : temp = SubSeq(Entity, 1, n)
      BY Zenon, <2>1, <3>1, FilesAssumption
    <3>3. Len(temp) = n
      BY <3>2, FilesAssumption
    <3> QED BY <3>1, <3>2, <3>3
  <2> QED BY Zenon, <1>0, <2>1, <2>3 DEF DownloadInv
<1>6. CASE DownloadWrite
  <2>1. /\ pc = "value" /\ pc' = "written" /\ UNCHANGED <<answer, offset, run>>
        /\ temp' = IF run = 1 /\ offset > 0 THEN temp \o streamed ELSE streamed
        /\ answer.status \in Statuses /\ answer.status \in 200..299
        /\ streamed = Payload(answer.status)
    BY Zenon, <1>6 DEF DownloadWrite, WriteTemp, TempFile, DownloadInv
  <2>2. CASE answer.status = 200 /\ streamed = Entity
    BY Zenon, <1>0, <2>1, <2>2 DEF DownloadInv, Whole
  <2>3. CASE /\ answer.status = 206 /\ RangeFrom > 0 /\ RangeFrom < Len(Entity)
             /\ streamed = Rest(RangeFrom)
    <3>1. run = 1 /\ offset > 0 /\ RangeFrom = offset
      BY <2>3 DEF RangeFrom
    <3>2. temp = SubSeq(Entity, 1, offset) /\ offset <= Len(Entity)
      BY Zenon, <2>1, <3>1 DEF DownloadInv
    <3>3. offset \in 0..Len(Entity)
      BY <1>a, <3>2, FilesAssumption
    <3>4. temp' = SubSeq(Entity, 1, offset) \o Rest(offset)
      BY ZenonT(60), <2>1, <2>3, <3>1, <3>2
    <3>5. temp' = Entity
      BY Zenon, <3>3, <3>4, PrefixAndRest
    <3> QED BY Zenon, <1>0, <2>1, <3>5 DEF DownloadInv, Whole
  <2> QED BY <2>1, <2>2, <2>3, Payloads
<1>7. CASE DownloadWriteFails
  BY Zenon, <1>0, <1>7 DEF DownloadWriteFails, DownloadInv
<1>8. CASE DownloadWritten
  <2>1. CASE run = 1 /\ offset > 0 /\ answer.status = 200
    BY SMTT(30), <1>0, <1>8, <2>1 DEF DownloadWritten, RunOnce, DownloadInv
  <2>2. CASE ~(run = 1 /\ offset > 0 /\ answer.status = 200)
    BY SMTT(30), <1>0, <1>8, <2>2 DEF DownloadWritten, DownloadInv, Whole
  <2> QED BY Zenon, <2>1, <2>2
<1>9. CASE DownloadReplace \/ DownloadMove
  BY <1>0, <1>9 DEF DownloadReplace, DownloadMove, DownloadInv, Whole
<1> QED BY SMTT(30), <1>1, <1>2, <1>3, <1>4, <1>5, <1>6, <1>7, <1>8, <1>9 DEF HttpNext, ClientStep

\* The output file is only touched once the new one is whole.
LEMMA OutputKept ==
  ASSUME DownloadInv, OldOrNew, HttpNext
  PROVE  OldOrNew'
<1>0. call' = call
  BY ZenonT(60) DEF HttpNext, ClientStep, Attempt, Respond, Fail, ExchangeFails, ExchangeAnswers,
         DownloadStat, DownloadWrite, DownloadWriteFails, DownloadWritten, DownloadReplace,
         DownloadMove
<1> SUFFICES ASSUME call.kind = "download", call.use_temp, call.throws, ~call.noisy
             PROVE  OldOrNew'
  BY Zenon, <1>0 DEF OldOrNew
<1>1. CASE \/ Attempt \/ Respond \/ Fail \/ DownloadStat \/ DownloadWritten
           \/ \E kind \in {"timeout", "connect", "tls"} : ExchangeFails(kind)
           \/ \E status, location : ExchangeAnswers(status, location)
  <2>1. output' = output /\ pc' # "move"
    BY Zenon, <1>1 DEF Attempt, Respond, Fail, DownloadStat, DownloadWritten, RunOnce, ExchangeFails,
                ExchangeAnswers
  <2> QED BY Zenon, <1>0, <2>1 DEF OldOrNew, Whole
<1>2. CASE DownloadWrite \/ DownloadWriteFails
  <2>1. output' = output /\ pc' # "move"
    BY Zenon, <1>2 DEF DownloadWrite, DownloadWriteFails, WriteTemp
  <2> QED BY <1>0, <2>1 DEF OldOrNew, Whole
<1>3. CASE DownloadReplace
  BY Zenon, <1>0, <1>3 DEF DownloadReplace, DownloadInv, OldOrNew, Whole
<1>4. CASE DownloadMove
  BY Zenon, <1>0, <1>4 DEF DownloadMove, DownloadInv, OldOrNew, Whole
<1> QED BY <1>1, <1>2, <1>3, <1>4 DEF HttpNext, ClientStep

\* The inductive invariant of the client holds throughout a call.
THEOREM HttpInvariant == HttpSpec => []HttpInv
<1>1. ASSUME HttpInv, [HttpNext]_httpVars PROVE HttpInv'
  <2>1. CASE HttpNext
    BY Zenon, <1>1, <2>1, HttpTypeKept, RepeatKept, DownloadKept, OutputKept DEF HttpInv
  <2>2. CASE UNCHANGED httpVars
    BY <1>1, <2>2 DEF HttpInv, HttpTypeOK, RepeatInv, DownloadInv, OldOrNew, httpVars, Statuses,
                      Payload, RangeFrom, Whole
  <2> QED BY Zenon, <1>1, <2>1, <2>2
<1> QED BY <1>1, HttpInvInit, PTL DEF HttpSpec

\* A request that must not be repeated is not repeated after an exchange whose
\* outcome is unknown (should_retry_error), for every call, every redirect limit
\* and every answer of the server.
THEOREM NeverRepeatsBlindly == HttpSpec => []NoBlindRepeat
<1>1. HttpInv => NoBlindRepeat
  BY Zenon DEF HttpInv, RepeatInv, NoBlindRepeat
<1> QED BY <1>1, HttpInvariant, PTL

\* download_to_file leaves the old file or the whole new one at every moment,
\* whatever the resource, the .part file, the retries and the ranges served.
THEOREM DownloadIsAtomic == HttpSpec => []OldOrNew
<1>1. HttpInv => OldOrNew
  BY Zenon DEF HttpInv
<1> QED BY <1>1, HttpInvariant, PTL

-----------------------------------------------------------------------------
(* The request builder. *)

\* The Content-Type headers of the formats are never the multipart one.
LEMMA MimesArePlain ==
  /\ "multipart/form-data" \notin Mimes
  /\ \A format \in DOMAIN MimeOf : MimeOf[format] \in Mimes
  /\ DOMAIN MimeOf = {"json", "xml", "form", "text", "binary"}
BY DEF MimeOf, Mimes

\* set_header_if_absent leaves a list of such headers.
LEMMA TypesStayPlain ==
  ASSUME NEW types \in Seq(Mimes), NEW format \in DOMAIN MimeOf \cup {"multipart"}
  PROVE  TypeIfAbsent(types, format) \in Seq(Mimes)
<1>1. format # "multipart" => <<MimeOf[format]>> \in Seq(Mimes)
  BY MimesArePlain
<1> QED BY <1>1, Zenon DEF TypeIfAbsent

\* set_header_if_absent of an Accept header.
LEMMA AcceptStaysPlain ==
  ASSUME NEW accept \in Mimes \cup {NoFormat}, NEW format \in DOMAIN MimeOf
  PROVE  AcceptIfAbsent(accept, format) \in Mimes \cup {NoFormat}
BY MimesArePlain, Zenon DEF AcceptIfAbsent

\* Every call of the builder that changes the request leaves one.
LEMMA RequestKept ==
  ASSUME request \in RequestType, BuilderNext
  PROVE  request' \in RequestType
<1>0. /\ request.parts \in Nat /\ request.types \in Seq(Mimes)
      /\ request.accept \in Mimes \cup {NoFormat}
  BY Zenon DEF RequestType
<1>a. DOMAIN MimeOf \subseteq Formats /\ "multipart" \in Formats
  BY Zenon DEF Formats
<1>1. CASE Send
  BY Zenon, <1>1 DEF Send
<1>2. CASE Body
  <2>1. "text" \in Formats
    BY Zenon, <1>a, MimesArePlain
  <2> QED BY Zenon, <1>2, <2>1 DEF Body, Build, RequestType
<1>3. CASE Part
  <2>1. "json" \in Formats /\ AcceptIfAbsent(request.accept, "json") \in Mimes \cup {NoFormat}
    BY Zenon, <1>0, <1>a, MimesArePlain, AcceptStaysPlain
  <2>2. request.parts + 1 \in Nat
    BY <1>0
  <2>3. request' = [request EXCEPT !.parts = request.parts + 1,
                      !.request_format = "multipart", !.response_format = "json",
                      !.accept = AcceptIfAbsent(request.accept, "json")]
    BY Zenon, <1>3 DEF Part, Build
  <2> QED BY <1>a, <2>1, <2>2, <2>3, Zenon DEF RequestType
<1>4. ASSUME NEW format \in {"json", "xml", "form"}, Typed(format) PROVE request' \in RequestType
  <2>1. /\ format \in Formats
        /\ TypeIfAbsent(request.types, format) \in Seq(Mimes)
        /\ AcceptIfAbsent(request.accept, format) \in Mimes \cup {NoFormat}
    BY Zenon, <1>0, <1>a, MimesArePlain, TypesStayPlain, AcceptStaysPlain
  <2> QED BY Zenon, <1>4, <2>1 DEF Typed, Build, RequestType
<1>5. ASSUME NEW format \in DOMAIN MimeOf, HeaderType(format) PROVE request' \in RequestType
  <2>1. Append(request.types, MimeOf[format]) \in Seq(Mimes)
    BY <1>0, MimesArePlain
  <2> QED BY ZenonT(60), <1>5, <2>1 DEF HeaderType, Build, RequestType
<1>6. ASSUME NEW format \in DOMAIN MimeOf \cup {"multipart"}, RequestFormat(format)
      PROVE  request' \in RequestType
  <2>1. format \in Formats /\ TypeIfAbsent(request.types, format) \in Seq(Mimes)
    BY Zenon, <1>0, <1>a, TypesStayPlain
  <2> QED BY Zenon, <1>6, <2>1 DEF RequestFormat, Build, RequestType
<1>7. ASSUME NEW format \in {"json", "xml", "form", "text"}, ResponseFormat(format)
      PROVE  request' \in RequestType
  <2>1. format \in Formats /\ AcceptIfAbsent(request.accept, format) \in Mimes \cup {NoFormat}
    BY Zenon, <1>0, <1>a, MimesArePlain, AcceptStaysPlain
  <2> QED BY Zenon, <1>7, <2>1 DEF ResponseFormat, Build, RequestType
<1>8. ASSUME NEW method \in {"GET", "POST", "PUT"}, SetMethod(method) PROVE request' \in RequestType
  BY Zenon, <1>8 DEF SetMethod, Build, RequestType
<1> QED BY Zenon, <1>1, <1>2, <1>3, <1>4, <1>5, <1>6, <1>7, <1>8 DEF BuilderNext

\* send() sends what the checks of execute_async let through, and the request is
\* not touched after it.
LEMMA SentKept ==
  ASSUME BuilderInv, BuilderNext
  PROVE  phase' = "sent" => ~Refused' /\ wire' = Wire'
<1>1. CASE Send
  <2>1. CASE Refused
    BY Zenon, <1>1, <2>1 DEF Send
  <2>2. CASE ~Refused
    <3>1. request' = request /\ wire' = Wire
      BY Zenon, <1>1, <2>2 DEF Send
    <3>2. Wire' = Wire /\ (Refused' <=> Refused)
      BY Zenon, <3>1 DEF Wire, FinalTypes, Effective, Refused
    <3> QED BY Zenon, <2>2, <3>1, <3>2
  <2> QED BY Zenon, <2>1, <2>2
<1>2. CASE ~Send
  <2>1. \E new : Build(new)
    BY Zenon, <1>2 DEF BuilderNext, Body, Part, Typed, HeaderType, RequestFormat, ResponseFormat,
                SetMethod
  <2> QED BY SMTT(30), <2>1 DEF Build
<1> QED BY Zenon, <1>1, <1>2

\* The inductive invariant of the builder holds whatever is called.
THEOREM BuilderInvariant == BuilderSpec => []BuilderInv
<1>1. BuilderInit => BuilderInv
  <2>1. <<>> \in Seq(Mimes)
    OBVIOUS
  <2> QED BY <2>1 DEF BuilderInit, BuilderInv, RequestType, Formats
<1>2. ASSUME BuilderInv, [BuilderNext]_builderVars PROVE BuilderInv'
  <2>1. CASE BuilderNext
    BY Zenon, <1>2, <2>1, RequestKept, SentKept DEF BuilderInv
  <2>2. CASE UNCHANGED builderVars
    BY Zenon, <1>2, <2>2 DEF BuilderInv, builderVars, Refused, Effective, Wire, FinalTypes
  <2> QED BY <1>2, <2>1, <2>2
<1> QED BY <1>1, <1>2, PTL DEF BuilderSpec

\* The parts of a multipart request, and only they, travel under the multipart
\* Content-Type, in whatever order the builder is used and whatever headers the
\* client has by default (execute_async).
THEOREM MultipartMeansParts == BuilderSpec => []PartsMeanMultipart
<1>1. BuilderInv => PartsMeanMultipart
  <2> SUFFICES ASSUME BuilderInv, phase = "sent", Len(DefaultTypes \o request.types) <= 1
               PROVE  /\ (wire.type = "multipart/form-data") = (request.parts > 0)
                      /\ (wire.body = "parts") = (request.parts > 0)
                      /\ request.body => wire.body = "plain"
    BY Zenon DEF PartsMeanMultipart
  <2> DEFINE types == DefaultTypes \o request.types
  <2>1. ~Refused /\ wire = Wire
    BY Zenon DEF BuilderInv
  <2>2. types \in Seq(Mimes) /\ Len(types) \in 0..1 /\ request.parts \in Nat
    BY BuilderAssumption DEF BuilderInv, RequestType
  <2>3. Effective \in DOMAIN MimeOf \cup {"multipart"}
    BY Zenon, MimesArePlain DEF Effective, BuilderInv, RequestType, Formats
  <2> HIDE DEF types
  <2>4. wire.type = FinalTypes(types)[Len(FinalTypes(types))]
    BY Zenon, <2>1 DEF Wire, types
  <2>5. /\ wire.body = "parts" <=> request.parts > 0
        /\ request.body => wire.body = "plain"
    BY Zenon, <2>1 DEF Wire, Refused
  <2>6. CASE request.parts > 0
    <3>1. FinalTypes(types) = Replaced(types, "multipart/form-data")
      BY Zenon, <2>1, <2>6 DEF FinalTypes, Refused, TypeIfAbsent
    <3>2. /\ Len(FinalTypes(types)) = 1
          /\ FinalTypes(types)[1] = "multipart/form-data"
      <4>1. CASE types = <<>>
        BY <3>1, <4>1 DEF Replaced
      <4>2. CASE types # <<>>
        <5>1. Len(types) = 1 /\ DOMAIN types = {1}
          BY <2>2, <4>2
        <5> QED BY <2>2, <3>1, <4>2, <5>1 DEF Replaced
      <4> QED BY Zenon, <4>1, <4>2
    <3> QED BY Zenon, <2>4, <2>5, <2>6, <3>2
  <2>7. CASE ~(request.parts > 0)
    <3>1. Effective # "multipart"
      BY <2>1, <2>2, <2>7 DEF Refused
    <3>2. FinalTypes(types) = TypeIfAbsent(types, Effective)
      BY Zenon, <2>7 DEF FinalTypes
    <3>3. FinalTypes(types) \in Seq(Mimes) /\ FinalTypes(types) # <<>>
      BY Zenon, <2>2, <2>3, <3>1, <3>2, TypesStayPlain DEF TypeIfAbsent
    <3>4. wire.type \in Mimes
      BY <2>4, <3>3
    <3> QED BY <2>5, <2>7, <3>4, MimesArePlain
  <2> QED BY Zenon, <2>6, <2>7
<1> QED BY <1>1, BuilderInvariant, PTL

-----------------------------------------------------------------------------
(* The rate limiter. *)

\* The first state satisfies the inductive invariant: nobody was let through.
LEMMA RateInvInit == RateInit => RateInv
<1> SUFFICES ASSUME RateInit PROVE RateInv
  OBVIOUS
<1>1. time \in Nat /\ entries \in [Keys -> [count : Nat, reset_time : Nat]]
  BY Zenon DEF RateInit, Free
<1>2. accepted \in [Keys -> Seq(Nat)]
  BY DEF RateInit
<1>3. ASSUME NEW k \in Keys PROVE Windows(k, {}) /\ {} \in SUBSET DOMAIN accepted[k]
  <2>1. accepted[k] = <<>> /\ entries[k] = Free /\ DOMAIN accepted[k] = {}
    BY DEF RateInit
  <2> QED BY Zenon, <2>1 DEF Windows
<1> QED BY Zenon, <1>1, <1>2, <1>3 DEF RateInv

\* The windows of a key as the passing of time and cleanup_expired_locked leave
\* them: an entry is dropped only when its window is over.
LEMMA CleanupKept ==
  ASSUME RateInv, NEW k \in Keys, NEW opening \in SUBSET DOMAIN accepted[k],
         Windows(k, opening), accepted'[k] = accepted[k], time' \in Nat, time <= time',
         entries'[k] = entries[k] \/ entries'[k] = Kept[k]
  PROVE  Windows(k, opening)'
<1> DEFINE at == accepted[k]
<1>1. /\ at \in Seq(Nat) /\ time \in Nat /\ Window \in Nat
      /\ entries[k] \in [count : Nat, reset_time : Nat]
  BY Zenon, RateAssumption DEF RateInv
<1>2. /\ \A n \in DOMAIN at : at[n] \in Nat /\ at[n] <= time
      /\ \A n \in DOMAIN at : at[n] <= time'
  <2>1. \A n \in DOMAIN at : at[n] \in Nat
    BY SMTT(30), <1>1
  <2>2. \A n \in DOMAIN at : at[n] <= time
    BY Zenon DEF Windows
  <2> QED BY SMTT(30), <1>1, <2>1, <2>2
<1>3. CASE entries'[k] = entries[k]
  BY SMTT(30), <1>1, <1>2, <1>3 DEF Windows
<1>4. CASE entries'[k] # entries[k]
  <2>1. entries'[k] = Free /\ time >= entries[k].reset_time /\ entries[k] # Free
    BY Zenon, <1>4 DEF Kept
  <2>2. PICK p \in opening : /\ \A q \in opening : q <= p
                             /\ entries[k].reset_time = at[p] + Window
    BY Zenon, <2>1 DEF Windows
  <2>3. \A q \in opening : at[q] + Window <= time'
    <3>1. \A q \in opening : at[q] <= at[p]
      BY Zenon, <1>1, <1>2, <2>2 DEF Windows
    <3> QED BY SMTT(30), <1>1, <1>2, <2>1, <2>2, <3>1
  <2> QED BY Zenon, <1>1, <1>2, <2>1, <2>3 DEF Windows
<1> QED BY Zenon, <1>3, <1>4

\* What Windows says of the requests let through so far.
LEMMA WindowFacts ==
  ASSUME RateInv, NEW k \in Keys, NEW opening \in SUBSET DOMAIN accepted[k],
         Windows(k, opening)
  PROVE  /\ accepted[k] \in Seq(Nat) /\ Len(accepted[k]) \in Nat
         /\ DOMAIN accepted[k] = 1..Len(accepted[k])
         /\ \A n \in DOMAIN accepted[k] : accepted[k][n] \in Nat /\ accepted[k][n] <= time
         /\ \A n, m \in DOMAIN accepted[k] : n <= m => accepted[k][n] <= accepted[k][m]
         /\ opening \subseteq 1..Len(accepted[k])
<1>1. accepted[k] \in Seq(Nat)
  BY Zenon DEF RateInv
<1>2. \A n \in DOMAIN accepted[k] : accepted[k][n] <= time
  BY Zenon DEF Windows
<1>3. \A n, m \in DOMAIN accepted[k] : n <= m => accepted[k][n] <= accepted[k][m]
  BY Zenon DEF Windows
<1> QED BY <1>1, <1>2, <1>3

\* A request that is let through at the current time: it is the last of all.
LEMMA LetThroughFacts ==
  ASSUME RateInv, NEW k \in Keys, NEW opening \in SUBSET DOMAIN accepted[k],
         Windows(k, opening), accepted'[k] = Append(accepted[k], time)
  PROVE  LET at == accepted[k]
             N == Len(at) + 1
         IN /\ N \in Nat /\ DOMAIN accepted'[k] = 1..N /\ accepted'[k][N] = time
            /\ \A n \in 1..Len(at) : accepted'[k][n] = at[n]
            /\ \A n \in 1..N : accepted'[k][n] <= time
            /\ \A n, m \in 1..N : n <= m => accepted'[k][n] <= accepted'[k][m]
<1> DEFINE at == accepted[k]
           N == Len(at) + 1
<1>1. /\ at \in Seq(Nat) /\ Len(at) \in Nat /\ DOMAIN at = 1..Len(at) /\ time \in Nat
      /\ \A n \in 1..Len(at) : at[n] \in Nat /\ at[n] <= time
      /\ \A n, m \in 1..Len(at) : n <= m => at[n] <= at[m]
  BY Zenon, WindowFacts DEF RateInv
<1>2. /\ N \in Nat /\ DOMAIN accepted'[k] = 1..N /\ accepted'[k][N] = time
      /\ \A n \in 1..Len(at) : accepted'[k][n] = at[n]
  BY <1>1
<1>3. \A n \in 1..N : n = N \/ n \in 1..Len(at)
  BY SMTT(30), <1>1
<1> HIDE DEF at, N
<1>4. \A n \in 1..N : accepted'[k][n] <= time
  BY SMTT(30), <1>1, <1>2, <1>3
<1>5. ASSUME NEW n \in 1..N, NEW m \in 1..N, n <= m PROVE accepted'[k][n] <= accepted'[k][m]
  <2>1. CASE m = N
    BY Zenon, <1>2, <1>4, <2>1
  <2>2. CASE m # N
    <3>1. m \in 1..Len(at) /\ n \in 1..Len(at)
      BY <1>1, <1>3, <1>5, <2>2
    <3> QED BY SMTT(30), <1>1, <1>2, <1>5, <3>1
  <2> QED BY Zenon, <2>1, <2>2
<1> QED BY SMTT(30), <1>2, <1>4, <1>5 DEF at, N

\* Without a live entry every window is over.
LEMMA FreeMeansOver ==
  ASSUME RateInv, NEW k \in Keys, NEW opening \in SUBSET DOMAIN accepted[k],
         Windows(k, opening), Kept[k] = Free
  PROVE  \A q \in opening : accepted[k][q] + Window <= time
<1> DEFINE at == accepted[k]
<1>1. /\ time \in Nat /\ Window \in Nat /\ Len(at) \in Nat
      /\ \A n \in 1..Len(at) : at[n] \in Nat
      /\ opening \subseteq 1..Len(at) /\ DOMAIN at = 1..Len(at)
      /\ \A n, m \in DOMAIN at : n <= m => at[n] <= at[m]
      /\ entries[k].reset_time \in Nat
  BY Zenon, WindowFacts, RateAssumption DEF RateInv
<1>2. CASE entries[k] = Free
  BY Zenon, <1>2 DEF Windows
<1>3. CASE entries[k] # Free
  <2>1. time >= entries[k].reset_time
    BY Zenon, <1>3 DEF Kept
  <2>2. PICK p \in opening : /\ \A q \in opening : q <= p
                             /\ entries[k].reset_time = at[p] + Window
    BY Zenon, <1>3 DEF Windows
  <2>3. \A q \in opening : at[q] <= at[p]
    BY Zenon, <1>1, <2>2
  <2> QED BY SMTT(30), <1>1, <2>1, <2>2, <2>3
<1> QED BY Zenon, <1>2, <1>3

\* A new window opens: every other one is over.
LEMMA OpenKept ==
  ASSUME RateInv, NEW k \in Keys, NEW opening \in SUBSET DOMAIN accepted[k],
         Windows(k, opening), Kept[k] = Free, time' = time,
         accepted'[k] = Append(accepted[k], time),
         entries'[k] = [count |-> 1, reset_time |-> time + Window]
  PROVE  \E o \in SUBSET DOMAIN accepted'[k] : Windows(k, o)'
<1> DEFINE at == accepted[k]
           N == Len(at) + 1
           new == accepted'[k]
<1>1. /\ time \in Nat /\ Window \in Nat \ {0} /\ Quota \in Nat \ {0} /\ Len(at) \in Nat
      /\ \A n \in 1..Len(at) : at[n] \in Nat
      /\ DOMAIN at = 1..Len(at) /\ opening \subseteq 1..Len(at)
  BY SMTT(60), WindowFacts, RateAssumption DEF RateInv, Quota
<1>2. /\ N \in Nat /\ DOMAIN new = 1..N /\ new[N] = time
      /\ \A n \in 1..Len(at) : new[n] = at[n]
      /\ \A n \in 1..N : new[n] <= time
      /\ \A n, m \in 1..N : n <= m => new[n] <= new[m]
      /\ \A n \in 1..N : n = N \/ n \in 1..Len(at)
      /\ N \in 1..N /\ 1..Len(at) \subseteq 1..N /\ \A n \in 1..Len(at) : n < N
  <2>1. /\ N \in Nat /\ DOMAIN new = 1..N /\ new[N] = time
        /\ \A n \in 1..Len(at) : new[n] = at[n]
        /\ \A n \in 1..N : new[n] <= time
        /\ \A n, m \in 1..N : n <= m => new[n] <= new[m]
    BY LetThroughFacts, Zenon
  <2>2. /\ \A n \in 1..N : n = N \/ n \in 1..Len(at)
        /\ N \in 1..N /\ 1..Len(at) \subseteq 1..N /\ \A n \in 1..Len(at) : n < N
    BY <1>1
  <2> QED BY <2>1, <2>2, Zenon
<1>3. \A q \in opening : at[q] + Window <= time
  BY Zenon, <1>1, FreeMeansOver
<1>4. \A n \in 1..Len(at) : \E q \in opening : q <= n /\ n < q + Quota /\ at[n] < at[q] + Window
  BY Zenon, <1>1 DEF Windows
<1>5. \A q, r \in opening : q < r => at[q] + Window <= at[r]
  BY Zenon DEF Windows
<1> PICK O : O = opening \cup {N}
  BY Zenon
<1>6. entries'[k] # Free /\ entries'[k].count = 1 /\ entries'[k].reset_time = time + Window
  BY <1>1 DEF Free
<1> HIDE DEF at, N, new
<1>7. \A n \in 1..N : \E q \in O : q <= n /\ n < q + Quota /\ new[n] < new[q] + Window
  <2>1. N <= N /\ N < N + Quota /\ new[N] < new[N] + Window
    BY <1>1, <1>2
  <2>2. ASSUME NEW n \in 1..Len(at)
        PROVE  \E q \in O : q <= n /\ n < q + Quota /\ new[n] < new[q] + Window
    BY Zenon, <1>1, <1>2, <1>4
  <2> QED BY Zenon, <1>2, <2>1, <2>2
<1>8. ASSUME NEW q \in O, NEW r \in O, q < r PROVE new[q] + Window <= new[r]
  <2>1. q \in opening
    BY <1>1, <1>2, <1>8
  <2>2. CASE r = N
    BY Zenon, <1>1, <1>2, <1>3, <2>1, <2>2
  <2>3. CASE r # N
    BY Zenon, <1>1, <1>2, <1>5, <1>8, <2>1, <2>3
  <2> QED BY Zenon, <2>2, <2>3
<1>9. \E q \in O : /\ \A r \in O : r <= q
                   /\ entries'[k].reset_time = new[q] + Window
                   /\ entries'[k].count = N + 1 - q /\ entries'[k].count <= Quota
  <2>1. \A r \in O : r <= N
    BY SMTT(30), <1>1, <1>2
  <2>2. entries'[k].count = N + 1 - N /\ entries'[k].count <= Quota
    BY SMTT(30), <1>1, <1>2, <1>6
  <2> QED BY ZenonT(60), <1>2, <1>6, <2>1, <2>2
<1>10. Len(new) = N
  BY <1>1 DEF new, N, at
<1>11. O \in SUBSET DOMAIN new
  BY Zenon, <1>1, <1>2
<1>12. Quota' = Quota /\ Window' = Window /\ Free' = Free
  BY SMTT(30) DEF Quota, Free
<1>13. Windows(k, O)'
  BY Zenon, <1>2, <1>6, <1>7, <1>8, <1>9, <1>10, <1>12 DEF Windows, new
<1> QED BY ZenonT(60), <1>11, <1>13 DEF new

\* A request of an open window that has room is let through: it is the next of
\* the same window.
LEMMA JoinKept ==
  ASSUME RateInv, NEW k \in Keys, NEW opening \in SUBSET DOMAIN accepted[k],
         Windows(k, opening), Kept[k] # Free, Kept[k].count < Limit, time' = time,
         accepted'[k] = Append(accepted[k], time),
         entries'[k] = [Kept[k] EXCEPT !.count = @ + 1]
  PROVE  \E o \in SUBSET DOMAIN accepted'[k] : Windows(k, o)'
<1> DEFINE at == accepted[k]
           N == Len(at) + 1
           new == accepted'[k]
<1>1. /\ time \in Nat /\ Window \in Nat \ {0} /\ Quota \in Nat \ {0} /\ Len(at) \in Nat
      /\ \A n \in 1..Len(at) : at[n] \in Nat
      /\ DOMAIN at = 1..Len(at) /\ opening \subseteq 1..Len(at)
      /\ Limit \in Nat /\ Limit <= Quota /\ entries[k] \in [count : Nat, reset_time : Nat]
  <2>1. /\ time \in Nat /\ Window \in Nat \ {0} /\ Quota \in Nat \ {0} /\ Len(at) \in Nat
        /\ \A n \in 1..Len(at) : at[n] \in Nat
        /\ DOMAIN at = 1..Len(at) /\ opening \subseteq 1..Len(at)
    BY SMTT(30), WindowFacts, RateAssumption DEF RateInv, Quota
  <2>2. Limit \in Nat /\ Limit <= Quota
    BY RateAssumption DEF Quota
  <2>3. entries[k] \in [count : Nat, reset_time : Nat]
    BY Zenon DEF RateInv
  <2> QED BY Zenon, <2>1, <2>2, <2>3
<1>2. /\ N \in Nat /\ DOMAIN new = 1..N /\ new[N] = time
      /\ \A n \in 1..Len(at) : new[n] = at[n]
      /\ \A n \in 1..N : new[n] <= time
      /\ \A n, m \in 1..N : n <= m => new[n] <= new[m]
      /\ \A n \in 1..N : n = N \/ n \in 1..Len(at)
      /\ N \in 1..N /\ 1..Len(at) \subseteq 1..N /\ \A n \in 1..Len(at) : n < N
  <2>1. /\ N \in Nat /\ DOMAIN new = 1..N /\ new[N] = time
        /\ \A n \in 1..Len(at) : new[n] = at[n]
        /\ \A n \in 1..N : new[n] <= time
        /\ \A n, m \in 1..N : n <= m => new[n] <= new[m]
    BY LetThroughFacts, Zenon
  <2>2. /\ \A n \in 1..N : n = N \/ n \in 1..Len(at)
        /\ N \in 1..N /\ 1..Len(at) \subseteq 1..N /\ \A n \in 1..Len(at) : n < N
    BY SMTT(30), <1>1
  <2> QED BY <2>1, <2>2, Zenon
<1>3. Kept[k] = entries[k] /\ time < entries[k].reset_time /\ entries[k] # Free
  BY <1>1 DEF Kept
<1>4. PICK p \in opening : /\ \A q \in opening : q <= p
                           /\ entries[k].reset_time = at[p] + Window
                           /\ entries[k].count = Len(at) + 1 - p
  BY Zenon, <1>3 DEF Windows
<1>5. \A n \in 1..Len(at) : \E q \in opening : q <= n /\ n < q + Quota /\ at[n] < at[q] + Window
  BY Zenon, <1>1 DEF Windows
<1>6. \A q, r \in opening : q < r => at[q] + Window <= at[r]
  BY Zenon DEF Windows
<1>7. /\ entries'[k] # Free
      /\ entries'[k].reset_time = entries[k].reset_time
      /\ entries'[k].count = entries[k].count + 1 /\ entries'[k].count <= Quota
  BY SMTT(30), <1>1, <1>3 DEF Free
<1>8. Len(new) = N
  BY <1>1
<1> HIDE DEF at, N, new
<1>9. p \in 1..Len(at) /\ at[p] \in Nat /\ new[p] = at[p]
  BY Zenon, <1>1, <1>2
<1>10. N + 1 - p <= Quota /\ N - p < Quota /\ entries'[k].count = N + 1 - p
  <2>1. N = Len(at) + 1
    BY Zenon DEF N
  <2>2. entries'[k].count = Len(at) + 1 - p + 1
    BY Zenon, <1>4, <1>7
  <2>3. Len(at) + 1 - p + 1 <= Quota
    BY Zenon, <1>7, <2>2
  <2>4. p \in Nat /\ Len(at) \in Nat /\ Quota \in Nat
    BY <1>1, <1>9
  <2>5. Len(at) + 1 - p + 1 = N + 1 - p
    BY <2>1, <2>4
  <2> QED BY <1>2, <2>2, <2>3, <2>4, <2>5
<1>11. \A n \in 1..N : \E q \in opening : q <= n /\ n < q + Quota /\ new[n] < new[q] + Window
  <2>1. p <= N /\ N < p + Quota /\ new[N] < new[p] + Window
    BY SMTT(30), <1>1, <1>2, <1>3, <1>4, <1>9, <1>10
  <2>2. ASSUME NEW n \in 1..Len(at)
        PROVE  \E q \in opening : q <= n /\ n < q + Quota /\ new[n] < new[q] + Window
    BY Zenon, <1>1, <1>2, <1>5
  <2> QED BY Zenon, <1>2, <2>1, <2>2
<1>12. \A q, r \in opening : q < r => new[q] + Window <= new[r]
  BY Zenon, <1>1, <1>2, <1>6
<1>13. opening \in SUBSET DOMAIN new
  BY Zenon, <1>1, <1>2
<1>14. Quota' = Quota /\ Window' = Window /\ Free' = Free
  BY Zenon DEF Quota, Free
<1>15. Windows(k, opening)'
  BY Zenon, <1>2, <1>4, <1>7, <1>8, <1>9, <1>10, <1>11, <1>12, <1>14 DEF Windows, new
<1> QED BY Zenon, <1>13, <1>15 DEF new

\* What a step leaves of the types.
LEMMA RateTypes ==
  ASSUME RateInv, RateNext \/ UNCHANGED rateVars
  PROVE  /\ time' \in Nat
         /\ entries' \in [Keys -> [count : Nat, reset_time : Nat]]
         /\ accepted' \in [Keys -> Seq(Nat)]
<1> USE RateAssumption
<1>1. /\ time \in Nat /\ Window \in Nat
      /\ entries \in [Keys -> [count : Nat, reset_time : Nat]]
      /\ accepted \in [Keys -> Seq(Nat)]
  BY Zenon DEF RateInv
<1>2. Kept \in [Keys -> [count : Nat, reset_time : Nat]]
  BY Zenon, <1>1 DEF Kept, Free
<1>3. ASSUME NEW k \in Keys, NEW entry \in [count : Nat, reset_time : Nat], NEW ok,
             Consume(k, entry, ok)
      PROVE  /\ time' \in Nat
             /\ entries' \in [Keys -> [count : Nat, reset_time : Nat]]
             /\ accepted' \in [Keys -> Seq(Nat)]
  <2>1. Append(accepted[k], time) \in Seq(Nat)
    BY <1>1
  <2> QED BY Zenon, <1>1, <1>2, <1>3, <2>1 DEF Consume
<1>4. ASSUME NEW k \in Keys, try_consume(k)
      PROVE  /\ time' \in Nat
             /\ entries' \in [Keys -> [count : Nat, reset_time : Nat]]
             /\ accepted' \in [Keys -> Seq(Nat)]
  <2>1. /\ [count |-> 1, reset_time |-> time + Window] \in [count : Nat, reset_time : Nat]
        /\ Kept[k] \in [count : Nat, reset_time : Nat]
    BY <1>1, <1>2
  <2>2. \A e \in [count : Nat, reset_time : Nat] :
          [e EXCEPT !.count = @ + 1] \in [count : Nat, reset_time : Nat]
    OBVIOUS
  <2>3. [Kept[k] EXCEPT !.count = @ + 1] \in [count : Nat, reset_time : Nat]
    BY Zenon, <2>1, <2>2
  <2> QED BY Zenon, <1>3, <1>4, <2>1, <2>3 DEF try_consume
<1>5. CASE Tick
  BY <1>1, <1>5 DEF Tick
<1>6. CASE UNCHANGED rateVars
  BY Zenon, <1>1, <1>6 DEF rateVars
<1> QED BY Zenon, <1>4, <1>5, <1>6 DEF RateNext

\* The windows survive a request of any key: try_consume's three outcomes.
LEMMA ConsumeKept ==
  ASSUME RateInv, NEW c \in Keys, try_consume(c), NEW k \in Keys
  PROVE  \E o \in SUBSET DOMAIN accepted'[k] : Windows(k, o)'
<1> USE RateAssumption
<1>1. PICK opening \in SUBSET DOMAIN accepted[k] : Windows(k, opening)
  BY Zenon DEF RateInv
<1>2. /\ time \in Nat /\ time' = time /\ time <= time
      /\ entries \in [Keys -> [count : Nat, reset_time : Nat]]
      /\ accepted \in [Keys -> Seq(Nat)]
  BY SMTT(30) DEF RateInv, try_consume, Consume
<1>3. CASE k # c
  <2>1. accepted'[k] = accepted[k] /\ entries'[k] = Kept[k]
    BY ZenonT(60), <1>2, <1>3 DEF try_consume, Consume, Kept
  <2> QED BY Zenon, <1>1, <1>2, <2>1, CleanupKept
<1>4. CASE k = c /\ Kept[k] = Free
  <2>1. /\ accepted'[k] = Append(accepted[k], time)
        /\ entries'[k] = [count |-> 1, reset_time |-> time + Window]
    BY ZenonT(60), <1>2, <1>4 DEF try_consume, Consume, Kept
  <2> QED BY Zenon, <1>1, <1>2, <1>4, <2>1, OpenKept
<1>5. CASE k = c /\ Kept[k] # Free /\ Kept[k].count >= Limit
  <2>1. accepted'[k] = accepted[k] /\ entries'[k] = Kept[k]
    BY Zenon, <1>2, <1>5 DEF try_consume, Consume, Kept
  <2> QED BY Zenon, <1>1, <1>2, <2>1, CleanupKept
<1>6. CASE k = c /\ Kept[k] # Free /\ ~(Kept[k].count >= Limit)
  <2>1. /\ accepted'[k] = Append(accepted[k], time)
        /\ entries'[k] = [Kept[k] EXCEPT !.count = @ + 1]
    BY ZenonT(60), <1>2, <1>6 DEF try_consume, Consume, Kept
  <2>2. Kept[k].count < Limit
    BY <1>2, <1>6 DEF Kept, Free
  <2> QED BY Zenon, <1>1, <1>2, <1>6, <2>1, <2>2, JoinKept
<1> QED BY Zenon, <1>3, <1>4, <1>5, <1>6

\* The inductive invariant of the limiter: requests are let through in windows
\* of at most Quota, and the entry is that of the last one (try_consume).
THEOREM RateInvariant == RateSpec => []RateInv
<1>1. RateInit => RateInv
  BY Zenon, RateInvInit
<1>2. RateInv /\ [RateNext]_rateVars => RateInv'
  <2> SUFFICES ASSUME RateInv, RateNext \/ UNCHANGED rateVars PROVE RateInv'
    BY Zenon
  <2>1. ASSUME NEW k \in Keys
        PROVE  \E o \in SUBSET DOMAIN accepted'[k] : Windows(k, o)'
    <3>1. CASE \E c \in Keys : try_consume(c)
      BY Zenon, <3>1, ConsumeKept
    <3>2. CASE Tick \/ UNCHANGED rateVars
      <4>1. PICK opening \in SUBSET DOMAIN accepted[k] : Windows(k, opening)
        BY Zenon DEF RateInv
      <4>2. /\ accepted' = accepted /\ entries' = entries
            /\ time' \in Nat /\ time <= time'
        BY <3>2 DEF Tick, rateVars, RateInv
      <4>3. Windows(k, opening)'
        BY Zenon, <4>1, <4>2, CleanupKept
      <4> QED BY Zenon, <4>1, <4>2, <4>3
    <3> QED BY Zenon, <3>1, <3>2 DEF RateNext
  <2> QED BY Zenon, <2>1, RateTypes DEF RateInv
<1> QED BY <1>1, <1>2, PTL DEF RateSpec

\* In a span as long as the window at most one window opens, so the requests let
\* through in it are of two windows at most; the one that opened the earlier of
\* the two is then not among them.  Hence at most 2 * Quota - 1 in a row.
LEMMA SpanIsShort ==
  ASSUME RateInv, NEW k \in Keys, NEW t \in Nat
  PROVE  \E a \in Nat :
           {n \in DOMAIN accepted[k] : accepted[k][n] \in t..(t + Window - 1)}
             \subseteq a..(a + 2 * Quota - 2)
<1>1. PICK opening \in SUBSET DOMAIN accepted[k] : Windows(k, opening)
  BY Zenon DEF RateInv
<1> DEFINE at == accepted[k]
           X == {n \in DOMAIN at : at[n] \in t..(t + Window - 1)}
<1>2. /\ Window \in Nat \ {0} /\ Quota \in Nat \ {0} /\ Len(at) \in Nat
      /\ \A n \in 1..Len(at) : at[n] \in Nat
      /\ DOMAIN at = 1..Len(at) /\ opening \subseteq 1..Len(at)
      /\ \A n, m \in 1..Len(at) : n <= m => at[n] <= at[m]
  <2>1. Window \in Nat \ {0} /\ Quota \in Nat \ {0}
    BY RateAssumption DEF Quota
  <2>2. /\ Len(at) \in Nat /\ \A n \in DOMAIN at : at[n] \in Nat
        /\ DOMAIN at = 1..Len(at) /\ opening \subseteq 1..Len(at)
        /\ \A n, m \in DOMAIN at : n <= m => at[n] <= at[m]
    BY Zenon, <1>1, WindowFacts
  <2> QED BY Zenon, <2>1, <2>2
<1>3. \A n \in 1..Len(at) : \E q \in opening : q <= n /\ n < q + Quota /\ at[n] < at[q] + Window
  BY ZenonT(60), <1>1, <1>2 DEF Windows
<1>4. \A q, r \in opening : q < r => at[q] + Window <= at[r]
  BY SMTT(30), <1>1 DEF Windows
<1>5. \A n : n \in X <=> n \in 1..Len(at) /\ t <= at[n] /\ at[n] < t + Window
  BY SMTT(30), <1>2
<1> HIDE DEF at, X
<1> SUFFICES \E a \in Nat : X \subseteq a..(a + 2 * Quota - 2)
  BY Zenon DEF at, X
<1>6. \A a, n \in Nat : a <= n /\ n < a + 2 * Quota - 1 => n \in a..(a + 2 * Quota - 2)
  BY <1>2
<1>7. CASE \E p \in opening : p \in X
  <2>1. PICK p \in opening : p \in X
    BY Zenon, <1>7
  <2>2. p \in 1..Len(at) /\ at[p] \in Nat /\ t <= at[p] /\ at[p] < t + Window
    BY Zenon, <1>2, <1>5, <2>1
  <2>3. ASSUME NEW n \in X PROVE n < p + Quota
    <3>1. n \in 1..Len(at) /\ at[n] \in Nat /\ t <= at[n] /\ at[n] < t + Window
      BY Zenon, <1>2, <1>5
    <3>2. PICK q \in opening : q <= n /\ n < q + Quota
      BY Zenon, <1>3, <3>1
    <3>3. q \in 1..Len(at) /\ at[q] \in Nat /\ at[q] <= at[n]
      BY ZenonT(60), <1>2, <3>1, <3>2
    <3>4. q <= p
      BY SMTT(30), <1>2, <1>4, <2>2, <3>1, <3>3
    <3> QED BY SMTT(30), <1>2, <2>2, <3>1, <3>2, <3>3, <3>4
  <2>4. CASE p = 1
    <3>1. \A n \in X : n \in Nat /\ 1 <= n /\ n < 1 + 2 * Quota - 1
      BY SMTT(30), <1>2, <1>5, <2>3, <2>4
    <3>2. X \subseteq 1..(1 + 2 * Quota - 2)
      BY Zenon, <1>6, <3>1
    <3> QED BY Zenon, <3>2
  <2>5. CASE p # 1
    <3>1. p - 1 \in 1..Len(at)
      BY <1>2, <2>2, <2>5
    <3>2. PICK q \in opening : q <= p - 1 /\ p - 1 < q + Quota
      BY Zenon, <1>3, <3>1
    <3>3. q \in 1..Len(at) /\ q < p /\ p <= q + Quota /\ at[q] \in Nat
      BY SMTT(30), <1>2, <2>2, <3>2
    <3>4. at[q] < t
      BY SMTT(30), <1>2, <1>4, <2>2, <3>3
    <3>5. ASSUME NEW n \in X PROVE n \in Nat /\ q + 1 <= n /\ n < q + 1 + 2 * Quota - 1
      <4>1. n \in 1..Len(at) /\ at[n] \in Nat /\ t <= at[n]
        BY Zenon, <1>2, <1>5
      <4>2. q < n
        BY SMTT(30), <1>2, <3>3, <3>4, <4>1
      <4> QED BY SMTT(30), <1>2, <2>2, <2>3, <3>3, <4>1, <4>2
    <3>6. q + 1 \in Nat /\ X \subseteq (q + 1)..(q + 1 + 2 * Quota - 2)
      BY SMTT(30), <1>2, <1>6, <3>3, <3>5
    <3> QED BY Zenon, <3>6
  <2> QED BY Zenon, <2>4, <2>5
<1>8. CASE X # {} /\ ~\E p \in opening : p \in X
  <2>1. PICK m \in X : TRUE
    BY Zenon, <1>8
  <2>2. m \in 1..Len(at) /\ at[m] \in Nat /\ t <= at[m] /\ at[m] < t + Window
    BY Zenon, <1>2, <1>5
  <2>3. PICK q \in opening : q <= m /\ at[m] < at[q] + Window
    BY Zenon, <1>3, <2>2
  <2>4. q \in 1..Len(at) /\ at[q] \in Nat /\ at[q] <= at[m] /\ q \notin X
    BY ZenonT(60), <1>2, <1>8, <2>2, <2>3
  <2>5. at[q] < t
    BY SMTT(30), <1>2, <1>5, <2>2, <2>4
  <2>6. ASSUME NEW n \in X PROVE n \in Nat /\ q <= n /\ n < q + 2 * Quota - 1
    <3>1. n \in 1..Len(at) /\ at[n] \in Nat /\ t <= at[n] /\ at[n] < t + Window
      BY Zenon, <1>2, <1>5
    <3>2. q < n
      BY <1>2, <2>4, <2>5, <3>1
    <3>3. PICK r \in opening : r <= n /\ n < r + Quota
      BY Zenon, <1>3, <3>1
    <3>4. r \in 1..Len(at) /\ at[r] \in Nat /\ at[r] <= at[n] /\ r \notin X
      BY Zenon, <1>2, <1>8, <3>1, <3>3
    <3>5. at[r] < t
      BY SMTT(30), <1>2, <1>5, <3>1, <3>4
    <3>6. r <= q
      <4>1. ASSUME q < r PROVE FALSE
        <5>1. at[q] + Window <= at[r]
          BY ZenonT(60), <1>4, <4>1
        <5> QED BY SMTT(30), <1>2, <2>2, <2>3, <2>4, <3>4, <3>5, <5>1
      <4> QED BY <2>4, <3>4, <4>1
    <3> QED BY SMTT(30), <1>2, <2>4, <3>1, <3>2, <3>3, <3>4, <3>6
  <2>7. q \in Nat /\ X \subseteq q..(q + 2 * Quota - 2)
    BY SMTT(30), <1>2, <1>6, <2>4, <2>6
  <2> QED BY Zenon, <2>7
<1>9. CASE X = {}
  <2>1. X \subseteq 0..(0 + 2 * Quota - 2)
    BY Zenon, <1>9
  <2> QED BY Zenon, <2>1
<1> QED BY Zenon, <1>7, <1>8, <1>9

\* In an open window the entry counts the requests let through since it opened.
LEMMA OpenWindow ==
  ASSUME RateInv, NEW k \in Keys, time < entries[k].reset_time, Limit > 0
  PROVE  \E p \in 1..Len(accepted[k]) :
           /\ {n \in DOMAIN accepted[k] :
                 accepted[k][n] \in (entries[k].reset_time - Window)..time} = p..Len(accepted[k])
           /\ remaining(k) = Limit - (Len(accepted[k]) - p + 1)
<1>1. PICK opening \in SUBSET DOMAIN accepted[k] : Windows(k, opening)
  BY Zenon DEF RateInv
<1> DEFINE at == accepted[k]
<1>2. /\ time \in Nat /\ Window \in Nat \ {0} /\ Limit \in Nat /\ Quota = Limit
      /\ Len(at) \in Nat /\ \A n \in 1..Len(at) : at[n] \in Nat /\ at[n] <= time
      /\ DOMAIN at = 1..Len(at) /\ opening \subseteq 1..Len(at)
      /\ \A n, m \in 1..Len(at) : n <= m => at[n] <= at[m]
  <2>1. time \in Nat /\ Window \in Nat \ {0} /\ Limit \in Nat /\ Quota = Limit
    BY RateAssumption DEF RateInv, Quota
  <2>2. /\ Len(at) \in Nat /\ \A n \in DOMAIN at : at[n] \in Nat /\ at[n] <= time
        /\ DOMAIN at = 1..Len(at) /\ opening \subseteq 1..Len(at)
        /\ \A n, m \in DOMAIN at : n <= m => at[n] <= at[m]
    BY Zenon, <1>1, WindowFacts
  <2> QED BY Zenon, <2>1, <2>2
<1>3. entries[k] \in [count : Nat, reset_time : Nat]
  BY Zenon DEF RateInv
<1>4. entries[k] # Free /\ Kept[k] = entries[k]
  BY <1>2, <1>3 DEF Free, Kept
<1>5. PICK p \in opening : /\ \A q \in opening : q <= p
                           /\ entries[k].reset_time = at[p] + Window
                           /\ entries[k].count = Len(at) + 1 - p
                           /\ entries[k].count <= Quota
  BY Zenon, <1>1, <1>4 DEF Windows
<1>6. p \in 1..Len(at) /\ at[p] \in Nat
  BY ZenonT(60), <1>2
<1>7. remaining(k) = Limit - (Len(at) - p + 1)
  <2>1. remaining(k) = IF Limit <= entries[k].count THEN 0 ELSE Limit - entries[k].count
    BY ZenonT(60), <1>4 DEF remaining
  <2> QED BY <1>2, <1>3, <1>5, <1>6, <2>1
<1>8. entries[k].reset_time - Window = at[p]
  BY SMTT(30), <1>2, <1>5, <1>6
<1>9. ASSUME NEW n \in 1..Len(at) PROVE at[n] \in at[p]..time <=> n \in p..Len(at)
  <2>1. CASE p <= n
    BY SMTT(30), <1>2, <1>6, <2>1
  <2>2. CASE n < p
    <3>1. PICK q \in opening : q <= n /\ at[n] < at[q] + Window
      BY Zenon, <1>1, <1>2 DEF Windows
    <3>2. q \in 1..Len(at) /\ at[q] \in Nat /\ q < p
      BY <1>2, <1>6, <2>2, <3>1
    <3>3. at[q] + Window <= at[p]
      BY ZenonT(60), <1>1, <3>2 DEF Windows
    <3> QED BY SMTT(30), <1>2, <1>6, <2>2, <3>1, <3>2, <3>3
  <2> QED BY SMTT(30), <1>6, <2>1, <2>2
<1>10. {n \in DOMAIN at : at[n] \in (entries[k].reset_time - Window)..time} = p..Len(at)
  BY <1>2, <1>6, <1>8, <1>9
<1> QED BY Zenon, <1>6, <1>7, <1>10

\* What WindowBound needs of the numbers of elements of sets.
IntervalCount ==
  \A a, b \in Nat : IsFiniteSet(a..b) /\ Cardinality(a..b) = IF a > b THEN 0 ELSE b - a + 1

SubsetCount ==
  \A S, T : IsFiniteSet(S) /\ T \subseteq S => Cardinality(T) \in Nat /\ Cardinality(T) <= Cardinality(S)

\* The bound, from the two facts about finite sets.
LEMMA WindowBoundFollows ==
  ASSUME IntervalCount, SubsetCount, RateInv PROVE WindowBound
<1> SUFFICES ASSUME NEW k \in Keys
             PROVE  /\ \A t \in 0..time :
                         LetThrough(k, t..(t + Window - 1)) <= IF Limit = 0 THEN 1 ELSE 2 * Limit - 1
                    /\ time < entries[k].reset_time /\ Limit > 0 =>
                         LetThrough(k, (entries[k].reset_time - Window)..time) + remaining(k) = Limit
  BY Zenon DEF WindowBound
<1>1. ASSUME NEW t \in 0..time
      PROVE  LetThrough(k, t..(t + Window - 1)) <= IF Limit = 0 THEN 1 ELSE 2 * Limit - 1
  <2>1. /\ t \in Nat /\ Quota \in Nat \ {0}
        /\ 2 * Quota - 1 = IF Limit = 0 THEN 1 ELSE 2 * Limit - 1
    BY RateAssumption DEF RateInv, Quota
  <2>2. PICK a \in Nat :
          {n \in DOMAIN accepted[k] : accepted[k][n] \in t..(t + Window - 1)}
            \subseteq a..(a + 2 * Quota - 2)
    BY Zenon, <2>1, SpanIsShort
  <2>3. /\ IsFiniteSet(a..(a + 2 * Quota - 2))
        /\ Cardinality(a..(a + 2 * Quota - 2)) = 2 * Quota - 1
    <3> PICK b : b = a + 2 * Quota - 2
      BY Zenon
    <3>1. b \in Nat /\ ~(a > b) /\ b - a + 1 = 2 * Quota - 1
      BY <2>1
    <3>2. IsFiniteSet(a..b) /\ Cardinality(a..b) = b - a + 1
      BY Zenon, <3>1 DEF IntervalCount
    <3> QED BY Zenon, <3>1, <3>2
  <2>4. LetThrough(k, t..(t + Window - 1)) <= 2 * Quota - 1
    BY Zenon, <2>2, <2>3 DEF LetThrough, SubsetCount
  <2> QED BY Zenon, <2>1, <2>4
<1>2. ASSUME time < entries[k].reset_time, Limit > 0
      PROVE  LetThrough(k, (entries[k].reset_time - Window)..time) + remaining(k) = Limit
  <2>1. PICK p \in 1..Len(accepted[k]) :
          /\ {n \in DOMAIN accepted[k] :
                accepted[k][n] \in (entries[k].reset_time - Window)..time} = p..Len(accepted[k])
          /\ remaining(k) = Limit - (Len(accepted[k]) - p + 1)
    BY Zenon, <1>2, OpenWindow
  <2>2. Len(accepted[k]) \in Nat /\ Limit \in Nat /\ p \in Nat /\ p <= Len(accepted[k])
    BY RateAssumption, <2>1 DEF RateInv
  <2>3. Cardinality(p..Len(accepted[k])) = Len(accepted[k]) - p + 1
    BY <2>2 DEF IntervalCount
  <2>4. LetThrough(k, (entries[k].reset_time - Window)..time) = Len(accepted[k]) - p + 1
    BY Zenon, <2>1, <2>3 DEF LetThrough
  <2>5. PICK c : c = Len(accepted[k]) - p + 1
    BY Zenon
  <2>6. c \in Nat
    BY <2>2, <2>5
  <2>7. c + (Limit - c) = Limit
    BY <2>2, <2>6
  <2> QED BY Zenon, <2>1, <2>4, <2>5, <2>7
<1> QED BY Zenon, <1>1, <1>2

\* The definitions of IsFiniteSet and Cardinality, spelt out: the library of
\* theorems about finite sets comes with copies of the two.
Finite(S) == IsFiniteSet(S)
Count(S) == Cardinality(S)

\* The definitions behind the two.
LEMMA CountsByDefinition ==
  /\ \A S : Finite(S) <=> \E q \in Seq(S) : \A x \in S : \E n \in 1..Len(q) : q[n] = x
  /\ \A S : Count(S) = LET C[T \in SUBSET S] ==
                             IF T = {} THEN 0 ELSE 1 + C[T \ {CHOOSE x : x \in T}]
                       IN  C[S]
BY Zenon DEF Finite, Count, IsFiniteSet, Cardinality

\* The two facts, said with them.
LEMMA CountFactsFollow ==
  ASSUME \A a, b \in Nat : Finite(a..b) /\ Count(a..b) = IF a > b THEN 0 ELSE b - a + 1,
         \A S, T : Finite(S) /\ T \subseteq S => Count(T) \in Nat /\ Count(T) <= Count(S)
  PROVE  IntervalCount /\ SubsetCount
BY Zenon DEF IntervalCount, SubsetCount, Finite, Count

-----------------------------------------------------------------------------
LOCAL INSTANCE FiniteSetTheorems

\* The library's copies are the same.
LEMMA CountsAgree == \A S : (Finite(S) <=> IsFiniteSet(S)) /\ Count(S) = Cardinality(S)
<1>1. \A S : Finite(S) <=> IsFiniteSet(S)
  BY Zenon, CountsByDefinition DEF IsFiniteSet
<1>2. \A S : Count(S) = Cardinality(S)
  BY Zenon, CountsByDefinition DEF Cardinality
<1> QED BY Zenon, <1>1, <1>2

\* The two facts hold.
LEMMA CountFactsHold == IntervalCount /\ SubsetCount
<1>1. \A a, b \in Nat : Finite(a..b) /\ Count(a..b) = IF a > b THEN 0 ELSE b - a + 1
  BY SMTT(30), CountsAgree, FS_Interval
<1>2. \A S, T : Finite(S) /\ T \subseteq S => Count(T) \in Nat /\ Count(T) <= Count(S)
  BY ZenonT(60), CountsAgree, FS_Subset, FS_CardinalityType
<1> QED BY ZenonT(60), <1>1, <1>2, CountFactsFollow

\* WindowBound, for every limit, window and set of keys: a key is let through at
\* most twice the limit, less one, in any span as long as the window, and
\* remaining() announces what is left of the limit (rate_limit.hpp:34, :53).
THEOREM LimitHolds == RateSpec => []WindowBound
<1>1. RateInv => WindowBound
  BY Zenon, CountFactsHold, WindowBoundFollows
<1> QED BY <1>1, RateInvariant, PTL
=============================================================================
