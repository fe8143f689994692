---------------------------- MODULE MCMessageBus ----------------------------
(***************************************************************************)
(* MessageBus for TLC: two messages and two subscribers, or four messages  *)
(* and one subscriber.  Of the four each publisher begins when the one     *)
(* before has given its message to the channel, which may be full.  The    *)
(* two subscribers see the topic closed by close_topic(), the one also by  *)
(* close() of the bus: what follows on the topic is the same.              *)
(***************************************************************************)
EXTENDS MessageBus, TLC

CONSTANTS m1, m2, m3, m4

VARIABLE line   \* the order of the four publishers, or <<>> for two at once

MCInit == Init /\ line \in {<<>>, <<m1, m2, m3, m4>>, <<m2, m1, m3, m4>>}

MayBegin(m) ==
  IF line = <<>> THEN m \in {m1, m2}
  ELSE \A i, j \in DOMAIN line : i < j /\ line[j] = m => pub[line[i]] \notin {"idle", "found"}

MCNext ==
  /\ Next
  /\ \A m \in Msg : pub[m] = "idle" /\ pub'[m] # "idle" => MayBegin(m)
  /\ line = <<>> => shut' # "bus"
  /\ line # <<>> => Cardinality({s \in Sub : sub'[s] # "none"}) <= 1
  /\ UNCHANGED line

MCSpec == MCInit /\ [][MCNext]_<<vars, line>>

Symm == Permutations({m1, m2}) \cup Permutations(Sub)
=============================================================================
