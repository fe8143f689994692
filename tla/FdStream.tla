------------------------------ MODULE FdStream ------------------------------
(***************************************************************************)
(* FdStream of include/flux/fd.h and src/fd.cpp: operations on one         *)
(* descriptor.  Each of the six senders has its own class with the same    *)
(* begin_operation, finish_operation and request_cancel; what differs is   *)
(* the asio operation it starts and how that one completes.                *)
(*                                                                         *)
(* start(), the stop callback and the completion handler of an operation   *)
(* may be on three threads, and other operations share the descriptor.     *)
(***************************************************************************)
EXTENDS Naturals, FiniteSets

CONSTANTS Ops,       \* operations
          Requests,  \* what an operation may be: [kind, size]
          MaxInput   \* bound on the bytes that wait to be read

VARIABLES open,   \* descriptor.is_open()
          input,  \* bytes that can be read
          eof,    \* the peer has closed: end of file after `input`
          op      \* the operation states

fdVars == <<open, input, eof, op>>

Simple == {"wait_readable", "wait_writable", "write_some", "read_some"}
Kinds == Simple \cup {"write_all", "read_exactly"}

ASSUME FdAssumption ==
  /\ MaxInput \in Nat
  /\ Requests \subseteq [kind : Kinds, size : Nat]

\* pc "checked" and "inline" are inside begin_operation, "begun" is before the
\* asio call, "between" is between two parts of a composed operation, "ready"
\* has a queued handler, "finishing" is inside on_stop.reset().
PCs == {"idle", "checked", "inline", "begun", "pending", "between", "ready",
        "finishing", "done"}
Callbacks == {"none", "armed", "checking", "cancelling", "gone"}

\* `late` records that the stop came when asio had the operation.
Operation(r) ==
  [kind |-> r.kind, size |-> r.size, pc |-> "idle", completed |-> FALSE, stop |-> FALSE,
   late |-> FALSE, on_stop |-> "none", ec |-> "ok", got |-> 0, result |-> "none"]

FdInit ==
  /\ open = TRUE /\ input = 0 /\ eof = FALSE
  /\ op \in [Ops -> {Operation(r) : r \in Requests}]

env == <<open, input, eof>>

----------------------------------------------------------------------------
(* begin_operation.                                                        *)

Begin(o) ==
  /\ op[o].pc = "idle"
  /\ op' = IF ~open
           THEN [op EXCEPT ![o].pc = "done", ![o].completed = TRUE, ![o].result = "error"]
           ELSE IF op[o].stop
           THEN [op EXCEPT ![o].pc = "done", ![o].completed = TRUE, ![o].result = "stopped"]
           ELSE [op EXCEPT ![o].pc = "checked"]
  /\ UNCHANGED env

\* on_stop.emplace: a stop that came since the check runs the callback here.
Emplace(o) ==
  /\ op[o].pc = "checked"
  /\ op' = IF op[o].stop
           THEN [op EXCEPT ![o].pc = "inline", ![o].on_stop = "checking"]
           ELSE [op EXCEPT ![o].pc = "begun", ![o].on_stop = "armed"]
  /\ UNCHANGED env

----------------------------------------------------------------------------
(* request_stop() and the stop callback, request_cancel.                   *)

RequestStop(o) ==
  /\ ~op[o].stop
  /\ op' = [op EXCEPT ![o].stop = TRUE, ![o].late = op[o].pc = "pending",
                      ![o].on_stop = IF @ = "armed" THEN "checking" ELSE @]
  /\ UNCHANGED env

AfterCallback(o) == IF op[o].pc = "inline" THEN "begun" ELSE op[o].pc

\* Mutant: the test of completed is the wrong way round.
CancelTestsInverted(o) ==
  /\ op[o].on_stop = "checking"
  /\ op' = IF ~op[o].completed \/ ~open
           THEN [op EXCEPT ![o].on_stop = "gone", ![o].pc = AfterCallback(o)]
           ELSE [op EXCEPT ![o].on_stop = "cancelling"]
  /\ UNCHANGED env

\* The two tests of request_cancel.
CancelTests(o) ==
  /\ op[o].on_stop = "checking"
  /\ op' = IF op[o].completed \/ ~open
           THEN [op EXCEPT ![o].on_stop = "gone", ![o].pc = AfterCallback(o)]
           ELSE [op EXCEPT ![o].on_stop = "cancelling"]
  /\ UNCHANGED env

\* descriptor.cancel() ends every operation that asio has on the descriptor.
Cancelled(p) ==
  IF op[p].pc = "pending" THEN [op[p] EXCEPT !.pc = "ready", !.ec = "aborted"] ELSE op[p]

CancelAll(o) ==
  /\ op[o].on_stop = "cancelling"
  /\ op' = [[p \in Ops |-> Cancelled(p)] EXCEPT
              ![o].on_stop = "gone",
              ![o].pc = IF op[o].pc = "inline" THEN "begun" ELSE Cancelled(o).pc]
  /\ UNCHANGED env

----------------------------------------------------------------------------
(* The asio operations.                                                    *)

\* Hand the operation to asio, for the first or the next part.
Submitted(o) ==
  IF open THEN [op EXCEPT ![o].pc = "pending"]
  ELSE [op EXCEPT ![o].pc = "ready", ![o].ec = "bad_descriptor"]

Submit(o) ==
  /\ op[o].pc \in {"begun", "between"}
  /\ op' = Submitted(o)
  /\ UNCHANGED env

\* ReadSome and ReadExactly of nothing are over at once.
SubmitSized(o) ==
  /\ op[o].pc \in {"begun", "between"}
  /\ op' = IF op[o].size = 0 THEN [op EXCEPT ![o].pc = "ready"] ELSE Submitted(o)
  /\ UNCHANGED env

Completes(o, ec) ==
  /\ op[o].pc = "pending"
  /\ op' = [op EXCEPT ![o].pc = "ready", ![o].ec = ec]
  /\ UNCHANGED env

\* A transfer of n bytes; a composed operation goes on until it has them all.
Transfers(o, n) ==
  /\ op[o].pc = "pending" /\ op[o].got + n <= op[o].size
  /\ op' = [op EXCEPT ![o].got = @ + n,
                      ![o].pc = IF op[o].kind \in Simple \/ op[o].got + n = op[o].size
                                THEN "ready" ELSE "between"]

Reads(o) ==
  \E n \in 1..input : Transfers(o, n) /\ input' = input - n /\ UNCHANGED <<open, eof>>
Writes(o) ==
  \E n \in 0..op[o].size : (n > 0 \/ op[o].size = 0) /\ Transfers(o, n) /\ UNCHANGED env

WaitReadable(o) ==
  /\ op[o].kind = "wait_readable"
  /\ Submit(o) \/ ((input > 0 \/ eof) /\ Completes(o, "ok"))

WaitWritable(o) ==
  /\ op[o].kind = "wait_writable"
  /\ Submit(o) \/ Completes(o, "ok")

WriteSome(o) ==
  /\ op[o].kind = "write_some"
  /\ Submit(o) \/ Writes(o) \/ Completes(o, "error")

WriteAll(o) ==
  /\ op[o].kind = "write_all"
  /\ Submit(o) \/ Writes(o) \/ Completes(o, "error")

ReadSome(o) ==
  /\ op[o].kind = "read_some"
  /\ SubmitSized(o) \/ Reads(o) \/ Completes(o, "error")
     \/ (input = 0 /\ eof /\ Completes(o, "eof"))

ReadExactly(o) ==
  /\ op[o].kind = "read_exactly"
  /\ SubmitSized(o) \/ Reads(o) \/ Completes(o, "error")
     \/ (input = 0 /\ eof /\ Completes(o, "eof"))

----------------------------------------------------------------------------
(* The handler: finish_operation and the completion of the receiver.       *)

\* completed becomes true, on_stop.reset() takes the callback away...
Finish(o) ==
  /\ op[o].pc = "ready"
  /\ op' = [op EXCEPT ![o].pc = "finishing", ![o].completed = TRUE,
                      ![o].on_stop = IF @ = "armed" THEN "gone" ELSE @]
  /\ UNCHANGED env

Outcome(o) ==
  CASE op[o].ec = "ok" -> "value"
    [] op[o].ec \in {"aborted", "bad_descriptor"} -> "stopped"
    [] op[o].ec = "eof" -> IF op[o].kind = "read_some" THEN "value" ELSE "error"
    [] OTHER -> "error"

\* Mutant: on_stop.reset() does not wait.
CompleteAtOnce(o) ==
  /\ op[o].pc = "finishing"
  /\ op' = [op EXCEPT ![o].pc = "done", ![o].result = Outcome(o)]
  /\ UNCHANGED env

\* ... or waits for the one that runs; then the operation may be destroyed.
Complete(o) ==
  /\ op[o].pc = "finishing" /\ op[o].on_stop \notin {"checking", "cancelling"}
  /\ op' = [op EXCEPT ![o].pc = "done", ![o].result = Outcome(o)]
  /\ UNCHANGED env

\* close(): cancel, then close.
Close ==
  /\ open /\ open' = FALSE
  /\ op' = [p \in Ops |-> Cancelled(p)]
  /\ UNCHANGED <<input, eof>>

PeerSends == input < MaxInput /\ ~eof /\ input' = input + 1 /\ UNCHANGED <<open, eof, op>>
PeerEnds == ~eof /\ eof' = TRUE /\ UNCHANGED <<open, input, op>>

FdNext ==
  \/ Close \/ PeerSends \/ PeerEnds
  \/ \E o \in Ops :
       \/ Begin(o) \/ Emplace(o) \/ RequestStop(o) \/ CancelTests(o) \/ CancelAll(o)
       \/ WaitReadable(o) \/ WaitWritable(o) \/ WriteSome(o) \/ WriteAll(o)
       \/ ReadSome(o) \/ ReadExactly(o) \/ Finish(o) \/ Complete(o)

FdSpec == FdInit /\ [][FdNext]_fdVars

----------------------------------------------------------------------------
\* The stop callback never touches an operation whose receiver has completed,
\* however request_stop() meets the completion handler: the receiver is only
\* completed when the callback is gone, or was never made (fd.h:182).
NoTouchAfterDone ==
  \A o \in Ops : op[o].pc = "done" => op[o].on_stop \in {"none", "gone"}

\* A stop requested once asio has the operation is not lost: when the callback
\* has run, the operation is no longer waiting (fd.h:194).  Of the simple
\* operations only: a cancel between two parts of write_all or read_exactly
\* meets nothing to cancel, as does one before the asio call.
StopIsNotLost ==
  \A o \in Ops :
    op[o].kind \in Simple /\ op[o].late /\ op[o].on_stop = "gone"
      => op[o].pc # "pending"
=============================================================================
