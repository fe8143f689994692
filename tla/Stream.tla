------------------------------- MODULE Stream -------------------------------
(***************************************************************************)
(* flux::Stream<T>::next(): the ended and in_flight flags under a mutex    *)
(* around a call of next_fn, the function that fetches one element.  The   *)
(* handlers behind co_await are steps of their own: other calls of next()  *)
(* come between next_fn's completion and the coroutine that resumes.       *)
(***************************************************************************)
CONSTANTS
  Call   \* calls of next() on one Stream

VARIABLES
  in_flight, ended,  \* Stream::State
  next               \* where each call is, or its result

vars == <<in_flight, ended, next>>

\* next_fn runs in "fetching"; it has answered in the others.
Active == {"fetching", "resume_value", "resume_nullopt", "resume_error"}

Init ==
  /\ in_flight = FALSE
  /\ ended = FALSE
  /\ next = [c \in Call |-> "idle"]

\* The first critical section: the stream has ended, ...
NextEnded(c) ==
  /\ next[c] = "idle"
  /\ ended
  /\ next' = [next EXCEPT ![c] = "nullopt"]
  /\ UNCHANGED <<in_flight, ended>>

\* ... another next() is in progress (runtime_error), ...
NextRefused(c) ==
  /\ next[c] = "idle"
  /\ ~ended
  /\ in_flight
  /\ next' = [next EXCEPT ![c] = "refused"]
  /\ UNCHANGED <<in_flight, ended>>

\* Mutant: in_flight is not tested.
NextFetchAlways(c) ==
  /\ next[c] = "idle"
  /\ ~ended
  /\ in_flight' = TRUE
  /\ next' = [next EXCEPT ![c] = "fetching"]
  /\ UNCHANGED ended

\* ... or in_flight is set and next_fn is called.
NextFetch(c) ==
  /\ next[c] = "idle"
  /\ ~ended
  /\ ~in_flight
  /\ in_flight' = TRUE
  /\ next' = [next EXCEPT ![c] = "fetching"]
  /\ UNCHANGED ended

\* next_fn completes with an element, with nullopt, or throws.
Fetched(c) ==
  /\ next[c] = "fetching"
  /\ \E to \in Active \ {"fetching"} : next' = [next EXCEPT ![c] = to]
  /\ UNCHANGED <<in_flight, ended>>

\* next_fn completes stopped (a timeout or a cancellation of the caller): the
\* coroutine is not resumed, neither the critical section nor the catch runs.
FetchStopped(c) ==
  /\ next[c] = "fetching"
  /\ next' = [next EXCEPT ![c] = "stopped"]
  /\ UNCHANGED <<in_flight, ended>>

\* The second critical section.
ResumeValue(c) ==
  /\ next[c] = "resume_value"
  /\ in_flight' = FALSE
  /\ next' = [next EXCEPT ![c] = "value"]
  /\ UNCHANGED ended

ResumeNullopt(c) ==
  /\ next[c] = "resume_nullopt"
  /\ in_flight' = FALSE
  /\ ended' = TRUE
  /\ next' = [next EXCEPT ![c] = "nullopt"]

\* The catch block.
ResumeError(c) ==
  /\ next[c] = "resume_error"
  /\ in_flight' = FALSE
  /\ next' = [next EXCEPT ![c] = "error"]
  /\ UNCHANGED ended

Next ==
  \E c \in Call :
    \/ NextEnded(c) \/ NextRefused(c) \/ NextFetch(c)
    \/ Fetched(c) \/ FetchStopped(c)
    \/ ResumeValue(c) \/ ResumeNullopt(c) \/ ResumeError(c)

Spec == Init /\ [][Next]_vars

-----------------------------------------------------------------------------

\* "only one next() call may be in flight per stream instance": next_fn is
\* never called again before the call of next() that called it is through,
\* and in_flight is set meanwhile.
OneInFlight ==
  /\ \A c, d \in Call : next[c] \in Active /\ next[d] \in Active => c = d
  /\ (\E c \in Call : next[c] \in Active) => in_flight

\* The end of the stream is final: once a next() has returned nullopt no other
\* one is fetching an element or about to return one.
NothingAfterEnd ==
  (\E c \in Call : next[c] = "nullopt") =>
    ended /\ \A c \in Call : next[c] \notin Active

\* next() is refused because another one is under way, or because one was
\* stopped: then in_flight stays set for ever.  Nothing else, an error of
\* next_fn in particular, makes a stream unusable.
RefusalHasCause ==
  in_flight => \E c \in Call : next[c] \in Active \cup {"stopped"}

\* What next() promises of concurrent calls and of how each of them ends
\* (stream.h:32).
NextIsSound == OneInFlight /\ NothingAfterEnd /\ RefusalHasCause
=============================================================================
