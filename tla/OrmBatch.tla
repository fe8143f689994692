------------------------------ MODULE OrmBatch ------------------------------
(***************************************************************************)
(* The writing methods of Mapper that take models: insert, upsert,         *)
(* update_by_id, remove_by_id, and the batch forms, which cut the list into*)
(* statements under the dialect's parameter limit.  A model has a key and   *)
(* one further column; key 0 is the default value of an auto-increment id. *)
(***************************************************************************)
EXTENDS Naturals, Sequences, FiniteSets, SequencesExt, FiniteSetsExt

CONSTANTS Keys, Values,   \* column values; 0 \notin Keys
          MaxParams,      \* parameters per statement, by dialect (900 and 32000)
          MaxRows,        \* bound on the rows of a list
          Sizes           \* batch_size arguments

VARIABLES meta,           \* what the key column is
          method, dialect, models, size,
          before, table,  \* the table when the call began, and now
          begin,          \* the first model no statement has covered
          width,          \* parameters of the last statement
          outcome         \* "running", "returned", "threw"

batchVars == <<meta, method, dialect, models, size, before, table, begin, width, outcome>>

\* model_meta: the key column is an auto-increment id, an id, unique, or plain;
\* "lone" is an auto-increment id without any other column.
Metas == {"auto", "id", "unique", "plain", "lone"}
IsAuto(m) == m \in {"auto", "lone"}
HasId(m) == m \in {"auto", "id", "lone"}
HasConflict(m) == m # "plain"
HasValue(m) == m # "lone"

Generated(m, row) == IsAuto(m) /\ row.k = 0
KeysOf(rows) == {rows[i].k : i \in 1..Len(rows)}

\* The database: one row of an INSERT, with ON CONFLICT(key) when upserting.
\* A generated key follows the largest one.
Put(m, rows, row, upserting) ==
  LET fresh == IF rows = <<>> THEN 1 ELSE 1 + Max(KeysOf(rows))
      stored == IF Generated(m, row) THEN [row EXCEPT !.k = fresh] ELSE row
      clash == m # "plain" /\ stored.k \in KeysOf(rows)
  IN CASE ~clash -> [ok |-> TRUE, rows |-> Append(rows, stored)]
       [] clash /\ ~upserting -> [ok |-> FALSE, rows |-> rows]
       [] OTHER -> [ok |-> TRUE,
                    rows |-> [i \in 1..Len(rows) |->
                                IF rows[i].k = stored.k THEN stored ELSE rows[i]]]

\* One INSERT of several rows: all or nothing.
PutAll(m, rows, new, upserting) ==
  LET all == FoldLeft(LAMBDA acc, row :
                        IF acc.ok THEN Put(m, acc.rows, row, upserting) ELSE acc,
                      [ok |-> TRUE, rows |-> rows], new)
  IN IF all.ok THEN all ELSE [ok |-> FALSE, rows |-> rows]

\* insert: an auto-increment column at its default is left out.
Insert(m, rows, row) == Put(m, rows, row, FALSE)
\* upsert: a plain insert when there is nothing to conflict on.
Upsert(m, rows, row) ==
  IF ~HasConflict(m) \/ Generated(m, row) THEN Insert(m, rows, row)
  ELSE Put(m, rows, row, TRUE)
\* update_by_id: nothing to set returns 0; the model needs an id.
UpdateById(m, rows, row) ==
  IF ~HasId(m) THEN [ok |-> FALSE, rows |-> rows]
  ELSE [ok |-> TRUE,
        rows |-> [i \in 1..Len(rows) |->
                    IF HasValue(m) /\ rows[i].k = row.k THEN row ELSE rows[i]]]
RemoveById(m, rows, k) ==
  IF ~HasId(m) THEN [ok |-> FALSE, rows |-> rows]
  ELSE [ok |-> TRUE, rows |-> SelectSeq(rows, LAMBDA r : r.k # k)]
-----------------------------------------------------------------------------
\* include_indexes: an auto-increment key is left out if every model has the
\* default; row_param_count.
IncludesKey == ~IsAuto(meta) \/ \E i \in 1..Len(models) : models[i].k # 0
RowParams(row) ==
  (IF IncludesKey /\ ~Generated(meta, row) THEN 1 ELSE 0) + (IF HasValue(meta) THEN 1 ELSE 0)
ParamsOf(rows) == FoldLeft(LAMBDA n, row : n + RowParams(row), 0, rows)

Rest == Len(models) - begin + 1
\* Mutant: the chunk runs one model into the next one.
RowsTooFar(n) == SubSeq(models, begin, Min({begin + n, Len(models)}))
Rows(n) == SubSeq(models, begin, begin + n - 1)

\* The rows of the next INSERT: up to batch_size, under the parameter limit,
\* and at least one.
InsertChunk ==
  Max({n \in 1..Rest : /\ size = 0 \/ n <= size
                       /\ n = 1 \/ ParamsOf(Rows(n)) <= MaxParams[dialect]})

\* batch_update_by_id: two parameters per model for each column to set, one
\* for IN; a model too wide for one statement goes through update_by_id.
ParamsPerRow == 3
TooWide == ParamsPerRow > MaxParams[dialect]
UpdateChunk ==
  LET auto == Max({1, MaxParams[dialect] \div ParamsPerRow})
      chunk == IF size > 0 THEN Min({auto, size}) ELSE auto
  IN Min({Rest, chunk})

Advance(n, result, params) ==
  /\ width' = [rows |-> n, params |-> params]
  /\ begin' = begin + n
  /\ IF result.ok THEN /\ table' = result.rows
                       /\ outcome' = IF begin' > Len(models) THEN "returned" ELSE "running"
     ELSE table' = before /\ outcome' = "threw"   \* the enclosing tx() rolls back
  /\ UNCHANGED <<meta, method, dialect, models, size, before>>

\* An INSERT ... VALUES (...), (...) [ON CONFLICT ...] of the next chunk; rows
\* without any column to write go one by one.
InsertStatement(upserting) ==
  IF ~IncludesKey /\ ~HasValue(meta)
  THEN Advance(1, Insert(meta, table, models[begin]), 0)
  ELSE LET n == InsertChunk IN
       Advance(n, PutAll(meta, table, Rows(n), upserting), ParamsOf(Rows(n)))

BatchInsert == method = "insert" /\ outcome = "running" /\ InsertStatement(FALSE)

\* batch_upsert falls back on batch_insert without a conflict column, or when
\* every model wants a generated one.
BatchUpsert ==
  /\ method = "upsert" /\ outcome = "running"
  /\ InsertStatement(HasConflict(meta) /\ (IsAuto(meta) => IncludesKey))

\* UPDATE ... SET v = CASE id WHEN ? THEN ? ... END WHERE id IN (...): the first
\* WHEN that matches gives the value.
CaseUpdate(rows, new) ==
  [i \in 1..Len(rows) |->
     LET hits == {j \in 1..Len(new) : new[j].k = rows[i].k}
     IN IF hits = {} THEN rows[i] ELSE new[Min(hits)]]
BatchUpdateById ==
  /\ method = "update" /\ outcome = "running"
  /\ IF ~HasId(meta) THEN Advance(Rest, [ok |-> FALSE, rows |-> table], 0)
     ELSE IF ~HasValue(meta) THEN Advance(Rest, [ok |-> TRUE, rows |-> table], 0)
     ELSE IF TooWide THEN Advance(1, UpdateById(meta, table, models[begin]), 2)
     ELSE LET n == UpdateChunk IN
          Advance(n, [ok |-> TRUE, rows |-> CaseUpdate(table, Rows(n))], ParamsPerRow * n)

RowsOf(m, ks) == [k : ks, v : IF HasValue(m) THEN Values ELSE {CHOOSE v \in Values : TRUE}]
DistinctKeys(rows) ==
  \A i, j \in 1..Len(rows) : i # j /\ rows[i].k = rows[j].k => rows[i].k = 0

\* A table holds stored keys only; a key that must be unique is.  The lists of
\* upserts and updates name each row once.
BatchInit ==
  /\ meta \in Metas /\ method \in {"insert", "upsert", "update"}
  /\ dialect \in DOMAIN MaxParams /\ size \in Sizes
  /\ models \in SeqOf(RowsOf(meta, IF IsAuto(meta) THEN Keys \cup {0} ELSE Keys), MaxRows) \ {<<>>}
  /\ method # "insert" => DistinctKeys(models)
  /\ before \in SeqOf(RowsOf(meta, Keys), 1)
  /\ table = before /\ begin = 1 /\ width = [rows |-> 0, params |-> 0] /\ outcome = "running"

\* Afterwards rows may be removed by id.
RemoveOne ==
  /\ outcome = "returned" /\ HasId(meta) /\ Len(table) > 1
  /\ \E k \in Keys : table' = RemoveById(meta, table, k).rows
  /\ outcome' = "removed"
  /\ UNCHANGED <<meta, method, dialect, models, size, before, begin, width>>

BatchNext == BatchInsert \/ BatchUpsert \/ BatchUpdateById \/ RemoveOne
-----------------------------------------------------------------------------
One(rows, row) ==
  CASE method = "insert" -> Insert(meta, rows, row)
    [] method = "upsert" -> Upsert(meta, rows, row)
    [] method = "update" -> UpdateById(meta, rows, row)
OneByOne ==
  FoldLeft(LAMBDA acc, row : IF acc.ok THEN One(acc.rows, row) ELSE acc,
           [ok |-> TRUE, rows |-> before], models)

\* No statement of a batch has more parameters than the dialect takes, unless
\* a single row has, nor more rows than batch_size.
StatementFits ==
  /\ width.rows > 1 => width.params <= MaxParams[dialect]
  /\ size > 0 /\ method # "update" => width.rows <= size

\* A batch does to the table what the single-row method does when it is called
\* for each model in order, wherever the list is cut; it throws, leaving the
\* table alone, exactly when one of those calls would throw; and it is cut
\* into statements that the dialect takes.
BatchIsLoop ==
  /\ outcome = "returned" => OneByOne.ok /\ table = OneByOne.rows
  /\ outcome = "threw" => ~OneByOne.ok /\ table = before
  /\ StatementFits
=============================================================================
