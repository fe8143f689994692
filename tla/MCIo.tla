-------------------------------- MODULE MCIo --------------------------------
(***************************************************************************)
(* Four independent parts of the base layer for TLC: a behaviour is one of *)
(*   "fd"       operations on one descriptor,                              *)
(*   "runtime"  calls of a Runtime against shutdown(),                     *)
(*   "watch"    a file watcher,                                            *)
(*   "stream"   calls of next() on one Stream.                             *)
(***************************************************************************)
EXTENDS FdStream, Runtime, FsWatcher, Stream, TLC

MCRequests ==
  {[kind |-> "wait_readable", size |-> 0], [kind |-> "wait_writable", size |-> 0],
   [kind |-> "write_some", size |-> 1], [kind |-> "write_all", size |-> 2],
   [kind |-> "read_some", size |-> 1], [kind |-> "read_exactly", size |-> 2],
   [kind |-> "read_exactly", size |-> 0]}

VARIABLE part

\* A part at rest is in one of its initial states.
FdRest == FdInit /\ \A o \in Ops : op[o].kind = "wait_readable"
RuntimeRest == RuntimeInit /\ \A w \in Works : work[w].kind = "post"
WatchRest == WatchInit /\ disk = CHOOSE c \in Contents : TRUE

MCInit ==
  /\ part \in {"fd", "runtime", "watch", "stream"}
  /\ IF part = "fd" THEN FdInit ELSE FdRest
  /\ IF part = "runtime" THEN RuntimeInit ELSE RuntimeRest
  /\ IF part = "watch" THEN WatchInit ELSE WatchRest
  /\ Init

MCNext ==
  /\ UNCHANGED part
  /\ \/ part = "fd" /\ FdNext /\ UNCHANGED <<runtimeVars, watchVars, vars>>
     \/ part = "runtime" /\ RuntimeNext /\ UNCHANGED <<fdVars, watchVars, vars>>
     \/ part = "watch" /\ WatchNext /\ UNCHANGED <<fdVars, runtimeVars, vars>>
     \/ part = "stream" /\ Next /\ UNCHANGED <<fdVars, runtimeVars, watchVars>>

MCSpec == MCInit /\ [][MCNext]_<<part, fdVars, runtimeVars, watchVars, vars>>

Symm == Permutations(Ops)
=============================================================================
