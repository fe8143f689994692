----------------------------- MODULE FsWatcher -----------------------------
(***************************************************************************)
(* FsWatcher of src/watch.cpp: next() by several coroutines over one       *)
(* buffer of inotify events, against stop().                               *)
(*                                                                         *)
(* Events are numbered in the order of the kernel.  A buffer holds whole   *)
(* events (inotify splits none); its offset counts events, and Compact of  *)
(* them stand for the 2048 bytes after which the buffer is moved down.     *)
(***************************************************************************)
EXTENDS Naturals, Sequences, FiniteSets, Functions

CONSTANTS Readers,    \* coroutines that call next()
          Contents,   \* what load_file_info may say of an existing file
          Compact,    \* events consumed before the buffer is moved down
          MaxEvents   \* bound on the events of the kernel

ASSUME WatchAssumption == Compact \in Nat /\ MaxEvents \in Nat

VARIABLES running, descriptor,       \* State::running; the descriptor is open
          disk, snapshot,            \* the file now and as last seen, or Missing
          emitted, ignoredAt,        \* events so far; the number of IN_IGNORED, or 0
          kernel,                    \* events the descriptor has
          pending, pending_offset,
          reader,                    \* each next(): pc, chunk, event, ignored, previous
          results, lost            \* events that next() returned, and events it dropped

watchVars == <<running, descriptor, disk, snapshot, emitted, ignoredAt, kernel, pending,
               pending_offset, reader, results, lost>>

Missing == "missing"
Idle == [pc |-> "idle", chunk |-> <<>>, event |-> 0, ignored |-> FALSE, previous |-> Missing]

WatchInit ==
  /\ running = TRUE /\ descriptor = TRUE
  /\ disk \in Contents /\ snapshot = disk
  /\ emitted = 0 /\ ignoredAt = 0 /\ kernel = <<>>
  /\ pending = <<>> /\ pending_offset = 0
  /\ reader = [r \in Readers |-> Idle]
  /\ results = <<>> /\ lost = {}

----------------------------------------------------------------------------
(* The file system, external.                                              *)

Emit(n) == emitted' = emitted + n /\ kernel' = kernel \o [i \in 1..n |-> emitted + i]

FileChanges ==
  /\ descriptor /\ ignoredAt = 0 /\ emitted < MaxEvents
  /\ disk' \in Contents /\ Emit(1)
  /\ UNCHANGED <<running, descriptor, snapshot, ignoredAt, pending, pending_offset, reader,
                 results, lost>>

\* The file is deleted: IN_DELETE_SELF, and IN_IGNORED as the last event.
FileGoes ==
  /\ descriptor /\ ignoredAt = 0 /\ emitted + 1 < MaxEvents
  /\ disk' = Missing /\ Emit(2) /\ ignoredAt' = emitted + 2
  /\ UNCHANGED <<running, descriptor, snapshot, pending, pending_offset, reader, results,
                 lost>>

----------------------------------------------------------------------------
(* try_pop_pending_event_locked over the buffer `buf`.                     *)

\* Mutant: the offset survives the move.
PopUnreset(r, buf) ==
  LET consumed == pending_offset + 1
      e == buf[consumed]
      moved == consumed > Compact /\ consumed < Len(buf)
  IN /\ IF consumed >= Len(buf)
        THEN pending' = <<>> /\ pending_offset' = 0
        ELSE IF moved
        THEN pending' = SubSeq(buf, consumed + 1, Len(buf)) /\ pending_offset' = consumed
        ELSE pending' = buf /\ pending_offset' = consumed
     /\ reader' = [reader EXCEPT ![r] = [pc |-> "loading", chunk |-> <<>>, event |-> e,
                                         ignored |-> FALSE, previous |-> snapshot]]

\* The mask is read a second time, for `ignored`, after the buffer may have
\* been moved down over it: it can then hold any bytes.
Pop(r, buf) ==
  LET consumed == pending_offset + 1
      e == buf[consumed]
      moved == consumed > Compact /\ consumed < Len(buf)
  IN /\ IF consumed >= Len(buf)
        THEN pending' = <<>> /\ pending_offset' = 0
        ELSE IF moved
        THEN pending' = SubSeq(buf, consumed + 1, Len(buf)) /\ pending_offset' = 0
        ELSE pending' = buf /\ pending_offset' = consumed
     /\ \E flag \in BOOLEAN :
          /\ moved \/ flag = (e = ignoredAt)
          /\ reader' = [reader EXCEPT ![r] = [pc |-> "loading", chunk |-> <<>>, event |-> e,
                                              ignored |-> flag, previous |-> snapshot]]

Returns(r) == reader' = [reader EXCEPT ![r] = Idle]
KernelSame == UNCHANGED <<descriptor, disk, emitted, ignoredAt>>

\* The first critical section of next().
Next1(r) ==
  /\ reader[r].pc = "idle"
  /\ IF ~running THEN Returns(r) /\ UNCHANGED <<pending, pending_offset>>
     ELSE IF pending_offset < Len(pending) THEN Pop(r, pending)
     ELSE /\ reader' = [reader EXCEPT ![r].pc = "reading"]
          /\ UNCHANGED <<pending, pending_offset>>
  /\ KernelSame /\ UNCHANGED <<running, snapshot, kernel, results, lost>>

\* async_read_some, outside the lock: as many events as fit into the chunk.
ReadChunk(r) ==
  /\ reader[r].pc = "reading" /\ descriptor
  /\ \E n \in 1..Len(kernel) :
       /\ reader' = [reader EXCEPT ![r].pc = "read", ![r].chunk = SubSeq(kernel, 1, n)]
       /\ kernel' = SubSeq(kernel, n + 1, Len(kernel))
  /\ KernelSame
  /\ UNCHANGED <<running, snapshot, pending, pending_offset, results, lost>>

ReadAborted(r) ==
  /\ reader[r].pc = "reading" /\ ~descriptor
  /\ Returns(r) /\ KernelSame
  /\ UNCHANGED <<running, snapshot, kernel, pending, pending_offset, results, lost>>

\* The second critical section: what was read is dropped after stop().
Next2(r) ==
  /\ reader[r].pc = "read"
  /\ IF ~running
     THEN /\ Returns(r) /\ lost' = lost \cup Range(reader[r].chunk)
          /\ UNCHANGED <<pending, pending_offset>>
     ELSE Pop(r, pending \o reader[r].chunk) /\ UNCHANGED lost
  /\ KernelSame /\ UNCHANGED <<running, snapshot, kernel, results>>

\* load_file_info_async, then the third critical section.
Load(r) ==
  /\ reader[r].pc = "loading"
  /\ snapshot' = disk
  /\ running' = (running /\ ~reader[r].ignored)
  /\ results' = Append(results, [event |-> reader[r].event, current |-> disk,
                                     previous |-> reader[r].previous])
  /\ Returns(r) /\ KernelSame /\ UNCHANGED <<kernel, pending, pending_offset, lost>>

\* The file goes between two calls of load_file_info, which throws.
LoadThrows(r) ==
  /\ reader[r].pc = "loading" /\ disk = Missing
  /\ lost' = lost \cup {reader[r].event}
  /\ Returns(r) /\ KernelSame
  /\ UNCHANGED <<running, snapshot, kernel, pending, pending_offset, results>>

\* stop(): close_all.
Stop ==
  /\ running' = FALSE /\ descriptor' = FALSE
  /\ UNCHANGED <<disk, snapshot, emitted, ignoredAt, kernel, pending, pending_offset, reader,
                 results, lost>>

WatchNext ==
  \/ FileChanges \/ FileGoes \/ Stop
  \/ \E r \in Readers : \/ Next1(r) \/ ReadChunk(r) \/ ReadAborted(r) \/ Next2(r)
                        \/ Load(r) \/ LoadThrows(r)

WatchSpec == WatchInit /\ [][WatchNext]_watchVars

----------------------------------------------------------------------------
Unread == SubSeq(pending, pending_offset + 1, Len(pending))

Times(e, seq) == Cardinality({i \in DOMAIN seq : seq[i] = e})

\* Every event of the kernel is in one place: the kernel's queue, a chunk, the
\* unread part of the buffer, the hands of one next(), or gone with its result,
\* its exception or stop().  None is skipped and none is returned twice when
\* the buffer is consumed, moved down and filled by several coroutines
\* (watch.cpp:146, 274).
EventsOnce ==
  \A e \in 1..emitted :
    1 = Times(e, kernel) + Times(e, Unread)
        + Cardinality({i \in DOMAIN results : results[i].event = e})
        + Cardinality({r \in Readers : reader[r].event = e \/ e \in Range(reader[r].chunk)})
        + (IF e \in lost THEN 1 ELSE 0)

----------------------------------------------------------------------------
(* The inductive invariant: the places an event may be in share none, hold *)
(* none twice, and hold all that were emitted.                             *)

ReaderType ==
  [pc : {"idle", "reading", "read", "loading"}, chunk : Seq(Nat), event : Nat,
   ignored : BOOLEAN, previous : Contents \cup {Missing}]

WatchTypeOK ==
  /\ running \in BOOLEAN /\ descriptor \in BOOLEAN
  /\ disk \in Contents \cup {Missing} /\ snapshot \in Contents \cup {Missing}
  /\ emitted \in Nat /\ ignoredAt \in Nat
  /\ kernel \in Seq(Nat) /\ pending \in Seq(Nat)
  /\ pending_offset \in 0..Len(pending)
  /\ reader \in [Readers -> ReaderType]
  /\ results \in Seq([event : Nat, current : Contents \cup {Missing},
                        previous : Contents \cup {Missing}])
  /\ lost \subseteq Nat

\* A next() has a chunk between its read and its second critical section, and
\* an event while it loads the file's information.
ReaderInv ==
  \A r \in Readers :
    /\ reader[r].chunk # <<>> <=> reader[r].pc = "read"
    /\ reader[r].event # 0 <=> reader[r].pc = "loading"

\* What a buffer holds beyond its offset.
Beyond(buf, offset) == {buf[i] : i \in (offset + 1)..Len(buf)}
DistinctBeyond(buf, offset) == \A i, j \in (offset + 1)..Len(buf) : buf[i] = buf[j] => i = j

Returned == {results[i].event : i \in DOMAIN results}
InHands(r) == Range(reader[r].chunk) \cup ({reader[r].event} \ {0})

NoneTwice ==
  /\ IsInjective(kernel)
  /\ DistinctBeyond(pending, pending_offset)
  /\ \A r \in Readers : IsInjective(reader[r].chunk)
  /\ \A i, j \in DOMAIN results : results[i].event = results[j].event => i = j

\* K, U, D, L and the H[r] share nothing and make up 1..n.
Parted(K, U, D, L, H, n) ==
  /\ K \cap (U \cup D \cup L) = {} /\ U \cap (D \cup L) = {} /\ D \cap L = {}
  /\ \A r \in Readers : H[r] \cap (K \cup U \cup D \cup L) = {}
  /\ \A r, q \in Readers : r # q => H[r] \cap H[q] = {}
  /\ 1..n = K \cup U \cup D \cup L \cup UNION {H[r] : r \in Readers}

EachInOnePlace ==
  Parted(Range(kernel), Beyond(pending, pending_offset), Returned, lost,
         [r \in Readers |-> InHands(r)], emitted)

WatchInv == WatchTypeOK /\ ReaderInv /\ NoneTwice /\ EachInOnePlace
=============================================================================
