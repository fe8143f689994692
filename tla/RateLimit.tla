----------------------------- MODULE RateLimit ------------------------------
(***************************************************************************)
(* The fixed-window limiter of layer3/.../rate_limit.hpp.                  *)
(***************************************************************************)
EXTENDS Naturals, Sequences, FiniteSets

CONSTANTS Keys,      \* client addresses
          Limit,     \* options.max_requests
          Window,    \* options.window, in ticks
          Horizon    \* bound on the time of a behaviour

ASSUME RateAssumption == Limit \in Nat /\ Window \in Nat \ {0} /\ Horizon \in Nat

VARIABLES time, entries, accepted  \* accepted: when each key was let through

rateVars == <<time, entries, accepted>>

Free == [count |-> 0, reset_time |-> 0]   \* a key without an entry

RateInit ==
  /\ time = 0
  /\ entries = [k \in Keys |-> Free]
  /\ accepted = [k \in Keys |-> <<>>]

\* cleanup_expired_locked.
Kept == [k \in Keys |-> IF time >= entries[k].reset_time THEN Free ELSE entries[k]]

Consume(k, entry, ok) ==
  /\ entries' = [Kept EXCEPT ![k] = entry]
  /\ accepted' = IF ok THEN [accepted EXCEPT ![k] = Append(@, time)] ELSE accepted
  /\ UNCHANGED time

\* Mutant: one request too many.
try_consume_late(k) ==
  IF Kept[k] = Free
  THEN Consume(k, [count |-> 1, reset_time |-> time + Window], TRUE)
  ELSE IF Kept[k].count > Limit
       THEN Consume(k, Kept[k], FALSE)
       ELSE Consume(k, [Kept[k] EXCEPT !.count = @ + 1], TRUE)

\* cleanup() and try_consume() of a request of k.
try_consume(k) ==
  IF Kept[k] = Free
  THEN Consume(k, [count |-> 1, reset_time |-> time + Window], TRUE)
  ELSE IF Kept[k].count >= Limit
       THEN Consume(k, Kept[k], FALSE)
       ELSE Consume(k, [Kept[k] EXCEPT !.count = @ + 1], TRUE)

\* remaining(key), the X-RateLimit-Remaining header.
remaining(k) ==
  IF Kept[k] = Free THEN Limit
  ELSE IF Limit <= Kept[k].count THEN 0 ELSE Limit - Kept[k].count

Tick == time < Horizon /\ time' = time + 1 /\ UNCHANGED <<entries, accepted>>

RateNext == Tick \/ \E k \in Keys : try_consume(k)

RateSpec == RateInit /\ [][RateNext]_rateVars
----------------------------------------------------------------------------
LetThrough(k, times) == Cardinality({n \in DOMAIN accepted[k] : accepted[k][n] \in times})

\* Even at the boundary of two windows a key is let through at most twice the
\* limit, less one, in any span as long as the window (rate_limit.hpp:34); a
\* limit of 0 lets one request of each window through.  In an open window what
\* remaining() announces is what is left of the limit (rate_limit.hpp:53).
WindowBound ==
  \A k \in Keys :
    /\ \A t \in 0..time :
         LetThrough(k, t..(t + Window - 1)) <= IF Limit = 0 THEN 1 ELSE 2 * Limit - 1
    /\ time < entries[k].reset_time /\ Limit > 0 =>
         LetThrough(k, (entries[k].reset_time - Window)..time) + remaining(k) = Limit

----------------------------------------------------------------------------
(* The inductive invariant.  A window is known by the position, in         *)
(* accepted[k], of the request that opened it.                             *)

Quota == IF Limit = 0 THEN 1 ELSE Limit

\* Every request that was let through came in order, as one of the first Quota
\* of its window and before the end of it; a window opens when the one before
\* is over; the entry is that of the last window.
Windows(k, opening) ==
  LET at == accepted[k]
  IN /\ \A n, m \in DOMAIN at : n <= m => at[n] <= at[m]
     /\ \A n \in DOMAIN at : at[n] <= time
     /\ \A n \in DOMAIN at :
          \E p \in opening : p <= n /\ n < p + Quota /\ at[n] < at[p] + Window
     /\ \A p, q \in opening : p < q => at[p] + Window <= at[q]
     /\ IF entries[k] = Free
        THEN \A p \in opening : at[p] + Window <= time
        ELSE \E p \in opening :
               /\ \A q \in opening : q <= p
               /\ entries[k].reset_time = at[p] + Window
               /\ entries[k].count = Len(at) + 1 - p /\ entries[k].count <= Quota

RateInv ==
  /\ time \in Nat
  /\ entries \in [Keys -> [count : Nat, reset_time : Nat]]
  /\ accepted \in [Keys -> Seq(Nat)]
  /\ \A k \in Keys : \E opening \in SUBSET DOMAIN accepted[k] : Windows(k, opening)
=============================================================================
