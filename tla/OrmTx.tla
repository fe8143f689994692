------------------------------- MODULE OrmTx -------------------------------
(***************************************************************************)
(* Mapper::tx of the ORM: one coroutine runs transactions with the three   *)
(* propagations on a connection, and hands the connection to the next user *)
(* when it is done.  The call stack of tx() is the variable calls; every   *)
(* statement goes through SqlConnection.                                   *)
(***************************************************************************)
EXTENDS SqlConnection

CONSTANTS
  Main, Isolated,  \* the caller's connection, the one requires_new opens
  MaxWrites,       \* statements of the bodies
  MaxCalls,        \* calls of tx()
  Options,         \* the TxOptions explored
  FileBacked       \* whether a sqlite database is a file

VARIABLES
  frames,      \* TxState::frames of each connection
  seq,         \* TxState::savepoint_seq
  calls,       \* the stack of tx() calls that have not returned
  made,        \* calls of tx() so far
  writes,      \* writes so far
  promised,    \* writes of root calls that returned a value
  withdrawn,   \* writes of root calls that threw
  poisoned,    \* writes of a boundary in which a joined call threw
  control      \* a BEGIN, COMMIT, ... reported an error

txVars == <<frames, seq, calls, made, writes, promised, withdrawn, poisoned, control>>
allVars == <<connVars, txVars>>
history == <<promised, withdrawn, poisoned>>

Propagation == {"required", "nested", "requires_new"}

\* isolation stands for a level that is not the default (and that sqlite does
\* not have).
TxOptions ==
  [propagation : Propagation, read_only : BOOLEAN, isolation : BOOLEAN, timeout : BOOLEAN]

ASSUME OptionsAssumption == Options \subseteq TxOptions
ASSUME MainAssumption == Main \in Conn /\ Isolated \in Conn /\ Main # Isolated

DefaultOptions ==
  [propagation |-> "required", read_only |-> FALSE, isolation |-> FALSE, timeout |-> FALSE]

Frame(sp, timeout) ==
  [savepoint |-> sp, rollback_only |-> FALSE, timeout |-> timeout, qonly |-> FALSE]

\* A call of tx(): on which connection, which boundary it opens (a root, a
\* savepoint, none, or an isolated connection), the stage it is in, the frame
\* while it is not on the stack, the exception that is in flight ("app", or
\* "sql" when a statement raised it), whether the body swallowed an "sql" one,
\* the writes acknowledged to it and the writes it tried.
Call(c, kind, stage, o, frame) ==
  [c |-> c, kind |-> kind, stage |-> stage, o |-> o, frame |-> frame,
   exc |-> "none", swallowed |-> FALSE, kept |-> {}, tried |-> {}]

TxInit ==
  /\ ConnInit
  /\ frames = [c \in Conn |-> <<>>]
  /\ seq = [c \in Conn |-> 0]
  /\ calls = <<>>
  /\ made = 0 /\ writes = 0
  /\ promised = {} /\ withdrawn = {} /\ poisoned = {}
  /\ control = FALSE

Depth == Len(calls)
Top == calls[Depth]
SetTop(k) == calls' = [calls EXCEPT ![Depth] = k]
Stage(s) == Depth > 0 /\ Top.stage = s
InTransaction(c) == frames[c] # <<>>
\* current_tx_timeout_ms
CurrentTxTimeout(c) == InTransaction(c) /\ frames[c][Len(frames[c])].timeout

\* The statement in progress on c is over: its outcome is taken and the guard
\* is freed.
Done(c) == op[c].phase = "done"
Taken(c) ==
  /\ Done(c)
  /\ op' = [op EXCEPT ![c] = NoOp]
  /\ UNCHANGED <<driver, handle, left, stray, signal, session, durable, faults>>
Ok(c) == op[c].res = "ok"
-----------------------------------------------------------------------------
(* Returning from tx().                                                    *)

\* The caller of a tx() that ends with exc: a body goes on with the exception
\* in flight; tx_requires_new goes on to close its connection.
Resumed(p, k, exc) ==
  LET merges == p.kind # "iso" /\ k.kind \in {"join", "sp"}
      takes == merges /\ (k.kind = "join" \/ exc = "none")
  IN [p EXCEPT !.exc = exc,
               !.stage = IF p.kind = "iso" THEN "close" ELSE @,
               !.swallowed = @ \/ (merges /\ k.swallowed),
               !.kept = IF takes THEN @ \cup k.kept ELSE @,
               !.tried = IF merges THEN @ \cup k.tried ELSE @]

\* tx() returns a value (exc = "none") or throws; k is the call as it ends.
Returns(k, exc) ==
  /\ calls' = IF Depth = 1 THEN <<>>
              ELSE Append(SubSeq(calls, 1, Depth - 2), Resumed(calls[Depth - 1], k, exc))
  /\ promised' = promised \cup
       (IF k.kind = "root" /\ exc = "none" /\ ~k.swallowed THEN k.kept ELSE {})
  /\ withdrawn' = withdrawn \cup (IF k.kind = "root" /\ exc # "none" /\ ~k.swallowed
                              THEN k.tried ELSE {})
  /\ poisoned' = poisoned \cup (IF k.kind = "join" /\ exc # "none" THEN k.kept ELSE {})

\* A tx() that throws before it opens anything.
Refused ==
  /\ calls' = IF Depth = 0 THEN calls ELSE [calls EXCEPT ![Depth].exc = "app"]
  /\ UNCHANGED <<frames, seq>>

\* tx_local on c: a flag inside a transaction throws; otherwise the call joins,
\* opens a savepoint or begins.
TxLocal(c, o, below) ==
  IF InTransaction(c) /\ (o.read_only \/ o.isolation)
  THEN Refused
  ELSE LET root == ~InTransaction(c)
           sp == ~root /\ o.propagation = "nested"
           timeout == o.timeout \/ (sp /\ frames[c][Len(frames[c])].timeout)
           n == seq[c] + 1
       IN /\ calls' = Append(below,
                 CASE root -> Call(c, "root", "begin", o, Frame(0, timeout))
                   [] sp   -> Call(c, "sp", "save", o, Frame(n, timeout))
                   [] OTHER -> Call(c, "join", "body", DefaultOptions, Frame(0, FALSE)))
          /\ seq' = IF sp THEN [seq EXCEPT ![c] = n] ELSE seq
          /\ UNCHANGED frames

\* The connection of the mapper the running body uses.
Here == IF Depth = 0 THEN Main ELSE Top.c

\* The program may call tx() at the top level and inside a body.
MayCall == made < MaxCalls /\ (Depth = 0 \/ (Stage("body") /\ Top.exc = "none"))

\* Mapper::tx.  requires_new needs a database that a second connection sees.
Tx(o) ==
  /\ MayCall /\ Guard(Here)
  /\ made' = made + 1
  /\ IF o.propagation # "requires_new" THEN TxLocal(Here, o, calls)
     ELSE IF driver = "sqlite" /\ ~FileBacked THEN Refused
     ELSE /\ Here # Isolated
          /\ calls' = Append(calls, Call(Isolated, "iso", "open", o, Frame(0, FALSE)))
          /\ seq' = [seq EXCEPT ![Isolated] = 0]
          /\ UNCHANGED frames
  /\ UNCHANGED <<connVars, writes, history, control>>
-----------------------------------------------------------------------------
(* requires_new: open a connection, run tx_local on it, close it.          *)

IsoOpen ==
  /\ Stage("open") /\ OpenTask(Isolated)
  /\ UNCHANGED txVars

\* An open that fails throws; the connection object is destroyed.
IsoOpened ==
  /\ Stage("open") /\ Done(Isolated)
  /\ op' = [op EXCEPT ![Isolated] = NoOp]
  /\ IF Ok(Isolated)
     THEN /\ TxLocal(Isolated, [Top.o EXCEPT !.propagation = "required"],
                     [calls EXCEPT ![Depth].stage = "inner"])
          /\ UNCHANGED <<handle, left, stray, signal, session, history>>
     ELSE /\ Returns(Top, "sql") /\ CloseSync(Isolated)
          /\ UNCHANGED <<frames, seq>>
  /\ UNCHANGED <<driver, durable, faults, made, writes, control>>

IsoClose ==
  /\ Stage("close") /\ CloseTask(Isolated)
  /\ UNCHANGED txVars

IsoClosed ==
  /\ Stage("close") /\ Taken(Isolated)
  /\ Returns(Top, Top.exc)
  /\ UNCHANGED <<frames, seq, made, writes, control>>
-----------------------------------------------------------------------------
(* The boundary of a root call or of a savepoint.                          *)

ControlStages ==
  {"begin", "apply", "undo", "undorestore", "save", "final", "rollto", "release", "restore"}

\* Mutant: rollback_only is not looked at.
AlwaysCommits(k) == [do |-> "commit"]

\* finalize_boundary of a root.
FinalStatement(k) == [do |-> IF k.frame.rollback_only THEN "rollback" ELSE "commit"]

\* The statement a stage executes.
Statement(k) ==
  CASE k.stage = "begin" -> [do |-> "begin"]
    [] k.stage = "apply" -> IF driver = "sqlite" THEN [do |-> "qonly", on |-> TRUE]
                            ELSE [do |-> "set"]
    [] k.stage = "undo"  -> [do |-> "rollback"]
    [] k.stage = "final" -> FinalStatement(k)
    [] k.stage = "save"  -> [do |-> "save", name |-> k.frame.savepoint]
    [] k.stage = "rollto" -> [do |-> "rollto", name |-> k.frame.savepoint]
    [] k.stage = "release" -> [do |-> "release", name |-> k.frame.savepoint]
    [] k.stage \in {"restore", "undorestore"} -> [do |-> "qonly", on |-> FALSE]

\* execute_sql_with_timeout
ExecuteControl ==
  /\ Depth > 0 /\ Top.stage \in ControlStages
  /\ QueryTask(Top.c, Statement(Top), Top.frame.timeout)
  /\ UNCHANGED txVars

\* The frame goes on the stack and the body starts.
PushFrame(k) ==
  /\ frames' = [frames EXCEPT ![k.c] = Append(@, k.frame)]
  /\ SetTop([k EXCEPT !.stage = "body", !.o = DefaultOptions, !.frame = Frame(0, FALSE)])
  /\ UNCHANGED history

Goto(k, stage) == SetTop([k EXCEPT !.stage = stage]) /\ UNCHANGED <<frames, history>>
Ends(k, exc) == Returns(k, exc) /\ UNCHANGED frames

\* apply_root_tx_options has nothing to do, a statement to execute, or throws.
Began(k) ==
  CASE ~k.o.read_only /\ ~k.o.isolation -> PushFrame(k)
    [] driver = "sqlite" /\ ~k.o.read_only -> Goto(k, "undo")
    [] OTHER -> Goto(k, "apply")

\* The option is applied.  sqlite then refuses an isolation level it lacks.
Applied(k) ==
  LET on == [k EXCEPT !.frame.qonly = driver = "sqlite"]
  IN IF driver = "sqlite" /\ k.o.isolation THEN Goto(on, "undo") ELSE PushFrame(on)

\* The outcome of a boundary: the body's exception, or "marked rollback_only".
Verdict(k) ==
  IF k.exc # "none" THEN k.exc ELSE IF k.frame.rollback_only THEN "app" ELSE "none"

\* Mutant: query_only is not restored after a failing BEGIN.
UndoneUnrestored(k) == Ends(k, "sql")

\* After a failing BEGIN or option: ROLLBACK and the restore run, their own
\* errors are dropped.
Undone(k) == IF k.frame.qonly THEN Goto(k, "undorestore") ELSE Ends(k, "sql")

\* Mutant: an error of COMMIT is dropped.
FinalizedUnchecked(k, ok) ==
  IF k.frame.qonly THEN Goto(k, "restore") ELSE Ends(k, Verdict(k))

\* The COMMIT or ROLLBACK of a root is over; its error is tx()'s error, and the
\* options are then not restored.
Finalized(k, ok) ==
  CASE ~ok -> Ends(k, "sql")
    [] ok /\ k.frame.qonly -> Goto(k, "restore")
    [] OTHER -> Ends(k, Verdict(k))

\* What follows the statement of a stage; ok: it reported no error.
AfterControl(k, ok) ==
  CASE k.stage = "begin"   -> IF ok THEN Began(k) ELSE Ends(k, "sql")
    [] k.stage = "apply"   -> IF ok THEN Applied(k) ELSE Goto(k, "undo")
    [] k.stage = "undo"    -> Undone(k)
    [] k.stage = "undorestore" -> Ends(k, "sql")
    [] k.stage = "save"    -> IF ok THEN PushFrame(k) ELSE Ends(k, "sql")
    [] k.stage = "final"   -> Finalized(k, ok)
    [] k.stage = "rollto"  -> IF ok THEN Goto(k, "release") ELSE Ends(k, "sql")
    [] k.stage \in {"release", "restore"} -> Ends(k, IF ok THEN Verdict(k) ELSE "sql")

Control ==
  /\ Depth > 0 /\ Top.stage \in ControlStages
  /\ Taken(Top.c)
  /\ AfterControl(Top, Ok(Top.c))
  /\ control' = (control \/ ~Ok(Top.c))
  /\ UNCHANGED <<seq, made, writes>>
-----------------------------------------------------------------------------
(* The body.                                                               *)

InBody == Stage("body") /\ Top.exc = "none" /\ Guard(Top.c)

\* A statement of the body, or of the program between transactions.
Write ==
  /\ Depth = 0 \/ InBody
  /\ writes < MaxWrites
  /\ QueryTask(Here, [do |-> "write", id |-> writes + 1], CurrentTxTimeout(Here))
  /\ writes' = writes + 1
  /\ UNCHANGED <<frames, seq, calls, made, history, control>>

WriteDone ==
  /\ Depth = 0 \/ Stage("body")
  /\ op[Here].kind = "query" /\ Taken(Here)
  /\ IF Depth = 0
     THEN /\ promised' = promised \cup (IF Ok(Here) /\ ~control THEN {writes} ELSE {})
          /\ UNCHANGED calls
     ELSE /\ SetTop([Top EXCEPT !.tried = @ \cup {writes},
                               !.kept = IF Ok(Here) THEN @ \cup {writes} ELSE @,
                               !.exc = IF Ok(Here) THEN "none" ELSE "sql"])
          /\ UNCHANGED promised
  /\ UNCHANGED <<frames, seq, made, writes, withdrawn, poisoned, control>>

\* The body catches the exception of a statement or of an inner tx().
Catch ==
  /\ Stage("body") /\ Top.exc # "none"
  /\ SetTop([Top EXCEPT !.exc = "none", !.swallowed = @ \/ Top.exc = "sql"])
  /\ UNCHANGED <<connVars, frames, seq, made, writes, history, control>>

\* Mapper::set_rollback_only
SetRollbackOnly ==
  /\ InBody /\ InTransaction(Top.c)
  /\ frames' = [frames EXCEPT ![Top.c][Len(frames[Top.c])].rollback_only = TRUE]
  /\ UNCHANGED <<connVars, seq, calls, made, writes, history, control>>

\* Mutant: a failed body does not mark its boundary.
MarkedNever(c, failed) == frames[c]

\* The frames once a body on c has ended: a failure marks the innermost one.
Marked(c, failed) ==
  IF failed /\ InTransaction(c)
  THEN [frames[c] EXCEPT ![Len(frames[c])].rollback_only = TRUE]
  ELSE frames[c]

\* The body ends: with a value, with the exception in flight, or with one of
\* its own (its timeout included).  A boundary takes its frame off the stack
\* and finishes it; a joined call that fails marks the boundary it is in.
BodyEnds(exc) ==
  /\ Stage("body") /\ Guard(Top.c)
  /\ IF Top.exc # "none" THEN exc = Top.exc ELSE exc \in {"none", "app"}
  /\ LET c == Top.c
         marked == Marked(c, exc # "none")
         f == marked[Len(marked)]
     IN IF Top.kind = "join"
        THEN /\ frames' = [frames EXCEPT ![c] = marked]
             /\ Returns(Top, exc)
        ELSE /\ frames' = [frames EXCEPT ![c] = SubSeq(marked, 1, Len(marked) - 1)]
             /\ SetTop([Top EXCEPT !.exc = exc, !.frame = f,
                          !.stage = CASE f.savepoint = 0 -> "final"
                                      [] f.rollback_only -> "rollto"
                                      [] OTHER -> "release"])
             /\ UNCHANGED history
  /\ UNCHANGED <<connVars, seq, made, writes, control>>
-----------------------------------------------------------------------------
(* The program between transactions.                                       *)

OpenMain ==
  /\ Depth = 0 /\ handle[Main] # "open" /\ OpenTask(Main)
  /\ UNCHANGED txVars

MainOpened ==
  /\ Depth = 0 /\ op[Main].kind = "open" /\ Taken(Main)
  /\ UNCHANGED txVars

\* The lease goes back and the next user wraps the same connection in a new
\* mapper: shared_tx_state makes a fresh TxState, the session is as it was.
Handover ==
  /\ Depth = 0 /\ Guard(Main) /\ seq[Main] > 0
  /\ seq' = [seq EXCEPT ![Main] = 0]
  /\ UNCHANGED <<connVars, frames, calls, made, writes, history, control>>

TxNext ==
  \/ \E o \in Options : Tx(o)
  \/ IsoOpen \/ IsoOpened \/ IsoClose \/ IsoClosed
  \/ ExecuteControl \/ Control
  \/ Write \/ WriteDone \/ Catch \/ SetRollbackOnly
  \/ \E exc \in {"none", "app", "sql"} : BodyEnds(exc)
  \/ OpenMain \/ MainOpened \/ Handover
  \/ \E c \in Conn : ConnStep(c) /\ UNCHANGED txVars

TxSpec == TxInit /\ [][TxNext]_allVars
-----------------------------------------------------------------------------
\* What a tx() that returned a value wrote is committed, and so is a write
\* outside a transaction that was acknowledged before any boundary statement
\* failed (tx_local, finalize_boundary).  A body that swallowed the error of a
\* statement is excepted: the server may have dropped the transaction.
ValueMeansCommitted == promised \subseteq durable

\* What a tx() that threw wrote is not committed (the same exception for a body
\* that swallowed an error), unless a boundary statement reported an error.
ThrowMeansRolledBack == control \/ withdrawn \cap durable = {}

\* Between transactions the connection that goes back to the pool, or to the
\* next user, is in no transaction and not in query_only mode, and the ORM
\* agrees, unless a boundary statement reported an error.
IdleConnectionClean ==
  (Depth = 0 /\ ~control) =>
     /\ \A c \in Conn : frames[c] = <<>>
     /\ session[Main] = NoSession
     /\ handle[Isolated] = "null"

\* A boundary in which a joined call failed is never committed as a success,
\* even when the body caught the failure.
PoisonedNeverKept == poisoned \cap promised = {}
-----------------------------------------------------------------------------
(* The inductive invariant behind PoisonedNeverKept.                       *)

FrameType == [savepoint : Nat, rollback_only : BOOLEAN, timeout : BOOLEAN, qonly : BOOLEAN]
Heights == [Conn -> Seq(FrameType)]
Opening == {"begin", "apply", "undo", "undorestore", "save"}
Closing == {"final", "rollto", "release", "restore"}
CallType ==
  [c : {Main, Isolated}, kind : {"root", "sp", "join", "iso"},
   stage : Opening \cup Closing \cup {"body", "open", "inner", "close"}, o : TxOptions,
   frame : FrameType, exc : {"none", "app", "sql"}, swallowed : BOOLEAN,
   kept : SUBSET Nat, tried : SUBSET Nat]
Statements ==
  [do : {"none", "begin", "set", "commit", "rollback"}]
  \cup [do : {"save", "release", "rollto"}, name : Nat]
  \cup [do : {"write"}, id : Nat] \cup [do : {"qonly"}, on : BOOLEAN]
OperationType ==
  [kind : {"none", "open", "query", "close"}, phase : {"none", "sent", "ran", "done"},
   st : Statements, timed : BOOLEAN, res : {"none", "ok", "err"}, late : BOOLEAN, hit : BOOLEAN]

\* A body runs in the call, and perhaps in a call above it.
Running(k) == k.kind # "iso" /\ k.stage = "body"

\* A call k and the one under it, p: roots on the caller's connection and on
\* the isolated one, what joins or nests in them above.
Fits(k, below, p) ==
  CASE k.kind = "iso"  -> k.c = Isolated /\ (below => p.kind # "iso" /\ p.c = Main)
    [] k.kind = "root" -> IF below THEN k.c = Isolated /\ p.kind = "iso" ELSE k.c = Main
    [] OTHER -> below /\ p.kind # "iso" /\ k.c = p.c

\* The stages of a call.  The savepoint of the frame, and not the call, selects
\* the closing statements; the invariant does not need to tell them apart.
StagesOf(kind) ==
  CASE kind = "iso"  -> {"open", "inner", "close"}
    [] kind = "root" -> {"begin", "apply", "undo", "undorestore", "body",
                         "final", "restore", "rollto", "release"}
    [] kind = "sp"   -> {"save", "body", "final", "restore", "rollto", "release"}
    [] kind = "join" -> {"body"}

\* The call stack cs: only its top opens, closes, or waits for a connection.
StackOf(cs) ==
  /\ \A i \in 1..Len(cs) :
       /\ Fits(cs[i], i > 1, cs[i - 1])
       /\ cs[i].stage \in StagesOf(cs[i].kind)
       /\ cs[i].kind = "iso" => (cs[i].stage = "inner" <=> i < Len(cs))
       /\ i < Len(cs) => cs[i].stage \in {"body", "inner"}
  /\ \A i, j \in 1..Len(cs) : i < j /\ cs[i].c = Isolated => cs[j].c = Isolated

\* level numbers the frame of the boundary that each call runs in.  A frame is
\* on the stack fs of its connection while the body of its boundary runs.
LevelOf1(k, below) ==
  CASE k.kind = "iso" -> 0 [] k.kind = "root" -> 1 [] k.kind = "sp" -> below + 1 [] OTHER -> below
Height(k, l) == CASE k.kind = "iso" -> 0 [] Running(k) -> l [] OTHER -> l - 1
LevelsOf(cs, fs, level) ==
  /\ \A i \in 1..Len(cs) : level[i] \in 0..i /\ level[i] = LevelOf1(cs[i], level[i - 1])
  /\ \A i, j \in 1..Len(cs) : i < j /\ cs[i].c = cs[j].c /\ cs[i].kind # "iso" =>
                                level[i] <= level[j] /\ (cs[j].kind # "join" => level[i] < level[j])
  /\ \A i \in 1..Len(cs) : Running(cs[i]) => level[i] \in 1..Len(fs[cs[i].c])
  /\ \A i \in 1..Len(cs) : i = Len(cs) => Len(fs[cs[i].c]) = Height(cs[i], level[i])
  /\ \A i \in 1..Len(cs) :
       cs[i].kind = "iso" => Len(fs[Main]) = IF i = 1 THEN 0 ELSE level[i - 1]
  /\ cs = <<>> => Len(fs[Main]) = 0
  /\ (\A i \in 1..Len(cs) : cs[i].c # Isolated) => Len(fs[Isolated]) = 0

\* A boundary that holds a poisoned write, one of P, is marked.
MarkOf(k, l, fs, P) ==
  /\ k.kind = "iso" \/ k.stage \in Opening => k.kept = {}
  /\ Running(k) /\ k.kept \cap P # {} => fs[k.c][l].rollback_only
  /\ k.stage \in Closing /\ k.kept \cap P # {} => k.frame.rollback_only
MarksOf(cs, fs, P, level) == \A i \in 1..Len(cs) : MarkOf(cs[i], level[i], fs, P)

\* A write is acknowledged to one call, once, before it is promised.
KeptOf(cs, R, P, w) ==
  /\ \A i, j \in 1..Len(cs) : i # j => cs[i].kept \cap cs[j].kept = {}
  /\ \A i \in 1..Len(cs) : cs[i].kept \cap R = {} /\ cs[i].kept \subseteq 1..w
  /\ P \cap R = {} /\ P \subseteq 1..w /\ R \subseteq 1..w

\* The calls cs, the frames fs, the poisoned writes P and the promised ones R of
\* a program that made w writes.
Sound(cs, fs, P, R, w) ==
  /\ cs \in Seq(CallType) /\ fs \in Heights /\ w \in Nat
  /\ StackOf(cs) /\ KeptOf(cs, R, P, w)
  /\ \E level \in [1..Len(cs) -> 0..Len(cs)] : LevelsOf(cs, fs, level) /\ MarksOf(cs, fs, P, level)

\* The write in progress is not acknowledged yet; only the connection of the
\* running body is in use.
Acknowledged == promised \cup poisoned \cup UNION {calls[i].kept : i \in 1..Depth}
BusyInv ==
  /\ (Depth = 0 \/ Stage("body")) /\ op[Here].kind = "query" =>
       writes > 0 /\ writes \notin Acknowledged
  /\ \A c \in Conn \ {Here} : op[c] = NoOp

PoisonInv ==
  /\ driver \in Drivers /\ op \in [Conn -> OperationType] /\ seq \in [Conn -> Nat]
  /\ Sound(calls, frames, poisoned, promised, writes) /\ BusyInv
=============================================================================
