------------------------------- MODULE MCOrm -------------------------------
(***************************************************************************)
(* The independent parts of the ORM for TLC: a behaviour is one of         *)
(*   "tx"         nested tx() calls on the caller's connection, and the    *)
(*                one that requires_new opens,                             *)
(*   "query"      a session with the query builder,                        *)
(*   "batch"      one batch call,                                          *)
(*   "relations"  one relation load.                                       *)
(***************************************************************************)
EXTENDS OrmTx, OrmQuery, OrmBatch, OrmRelations

MCOptions ==
  {DefaultOptions,
   [DefaultOptions EXCEPT !.propagation = "nested"],
   [DefaultOptions EXCEPT !.propagation = "requires_new"],
   [DefaultOptions EXCEPT !.read_only = TRUE, !.timeout = TRUE],
   [DefaultOptions EXCEPT !.read_only = TRUE, !.isolation = TRUE]}

MCMaxParams == [sqlite |-> 2, postgres |-> 6]

VARIABLE part

TxRest == TxInit /\ driver = "sqlite"
QueryRest ==
  /\ policy = "permissive" /\ stack = <<>> /\ assignments = <<>> /\ assigned = {}
  /\ built = 0 /\ plan = NoPlan
BatchRest ==
  /\ meta = "plain" /\ method = "insert" /\ dialect = "sqlite" /\ models = <<>> /\ size = 0
  /\ before = <<>> /\ table = <<>> /\ begin = 1 /\ width = [rows |-> 0, params |-> 0]
  /\ outcome = "none"
RelationRest ==
  /\ load = "none" /\ owners = <<>> /\ links = <<>> /\ related = <<>> /\ phase = "none"
  /\ grouped = <<>> /\ joinRows = <<>> /\ sawLinks = <<>> /\ sawRelated = <<>>

MCInit ==
  \/ part = "tx" /\ TxInit /\ QueryRest /\ BatchRest /\ RelationRest
  \/ part = "query" /\ TxRest /\ QueryInit /\ BatchRest /\ RelationRest
  \/ part = "batch" /\ TxRest /\ QueryRest /\ BatchInit /\ RelationRest
  \/ part = "relations" /\ TxRest /\ QueryRest /\ BatchRest /\ RelationInit

MCNext ==
  /\ UNCHANGED part
  /\ \/ part = "tx" /\ TxNext /\ UNCHANGED <<queryVars, batchVars, relationVars>>
     \/ part = "query" /\ QueryNext /\ UNCHANGED <<allVars, batchVars, relationVars>>
     \/ part = "batch" /\ BatchNext /\ UNCHANGED <<allVars, queryVars, relationVars>>
     \/ part = "relations" /\ RelationNext /\ UNCHANGED <<allVars, queryVars, batchVars>>

MCSpec == MCInit /\ [][MCNext]_<<part, allVars, queryVars, batchVars, relationVars>>
=============================================================================
