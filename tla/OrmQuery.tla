------------------------------ MODULE OrmQuery ------------------------------
(***************************************************************************)
(* Query, QueryChain and UpdateChain of the ORM, and the SQL plans that    *)
(* Mapper builds from them.  A plan keeps what the text and the parameter  *)
(* list have to agree on: the "?" of the text, each named by the value it  *)
(* was written for, the parameters, the tables that column references      *)
(* name, and the clauses.                                                  *)
(***************************************************************************)
EXTENDS Naturals, Sequences, SequencesExt

CONSTANTS Table,      \* the table of the model
          Joined,     \* the tables that can be joined
          Aliases,    \* join aliases
          MaxBuild    \* bound on the builder calls of a session

VARIABLES policy,     \* the process-wide RawSqlPolicy
          stack,      \* the query under construction, and those of open lambdas
          assignments, assigned,   \* UpdateChain: assignments_, assigned_columns_
          built,      \* builder calls so far
          plan        \* the statement the last terminal method sent, if any

queryVars == <<policy, stack, assignments, assigned, built, plan>>

\* Query(): everything empty, the next connector AND.
NewQuery ==
  [predicates |-> <<>>, next |-> "AND", joins |-> <<>>, orders |-> <<>>, groups |-> <<>>,
   havings |-> <<>>, refs |-> <<>>, alias |-> "", limit |-> FALSE, offset |-> FALSE,
   tail |-> FALSE]

\* A predicate: column reference ("" is a column of the model itself, "none"
\* no column), parameters, the number of "?" the caller put in a raw fragment,
\* and the children of a group.
Predicate(kind, connector, ref, params) ==
  [kind |-> kind, connector |-> connector, ref |-> ref, params |-> params,
   children |-> <<>>]

\* push_back of a predicate, with consume_next_connector.
AddPredicate(q, kind, ref, params) ==
  [q EXCEPT !.predicates = Append(@, Predicate(kind, q.next, ref, params)),
            !.next = "AND"]

\* add_binary: eq, ne, gt, ge, lt, le, like, likeRaw, notLike, likeLeft, likeRight.
AddBinary(q, ref, p) == AddPredicate(q, "Binary", ref, <<p>>)
AddIn(q, ref, params) == AddPredicate(q, "In", ref, params)
AddBetween(q, ref, low, high) == AddPredicate(q, "Between", ref, <<low, high>>)
NullCheck(q, ref) == AddPredicate(q, "NullCheck", ref, <<>>)

\* Member columns are unqualified until the plan is rendered.
Compare(q, p) == AddBinary(q, "", p)
IsNull(q) == NullCheck(q, "")
In(q, params) == AddIn(q, "", params)
Between(q, low, high) == AddBetween(q, "", low, high)
Like(q, p) == AddBinary(q, "", p)

\* resolve_join_ref: the alias the type was last joined under, else its table.
JoinRef(q, j) ==
  LET known == {i \in 1..Len(q.refs) : q.refs[i].type = j}
  IN IF known = {} THEN j ELSE q.refs[CHOOSE i \in known : \A k \in known : k <= i].ref

\* The same methods on a column of a joined model.
CompareJoined(q, j, p) == AddBinary(q, JoinRef(q, j), p)
IsNullJoined(q, j) == NullCheck(q, JoinRef(q, j))
InJoined(q, j, params) == AddIn(q, JoinRef(q, j), params)
BetweenJoined(q, j, low, high) == AddBetween(q, JoinRef(q, j), low, high)
LikeJoined(q, j, p) == AddBinary(q, JoinRef(q, j), p)

\* validate_raw_sql: whether a raw fragment is let through.
RawAllowed(pol, marked) == pol = "permissive" \/ marked

\* inSql, notInSql: a fragment in parentheses, without parameters.
AddInSql(q, ref) == AddPredicate(q, "InSql", ref, <<>>)
InSql(q) == AddInSql(q, "")
InSqlJoined(q, j) == AddInSql(q, JoinRef(q, j))

\* whereRaw: the fragment has a "?" for every parameter it comes with.
WhereRaw(q, params) == AddPredicate(q, "Raw", "none", params)

\* having: an empty fragment is ignored; the clause takes the connector.
Having(q, params) ==
  [q EXCEPT !.havings = Append(@, [connector |-> q.next, params |-> params]),
            !.next = "AND"]

Or(q) == [q EXCEPT !.next = "OR"]
And(q) == [q EXCEPT !.next = "AND"]
OrderBy(q) == [q EXCEPT !.orders = Append(@, "")]
OrderByJoined(q, j) == [q EXCEPT !.orders = Append(@, JoinRef(q, j))]
GroupBy(q) == [q EXCEPT !.groups = Append(@, "")]
GroupByJoined(q, j) == [q EXCEPT !.groups = Append(@, JoinRef(q, j))]
Limit(q) == [q EXCEPT !.limit = TRUE]
Offset(q) == [q EXCEPT !.offset = TRUE]
LastSql(q) == [q EXCEPT !.tail = TRUE]
FromAlias(q, a) == [q EXCEPT !.alias = a]

\* add_typed_join: the type is known from now on under its alias.
AddTypedJoin(q, j, alias) ==
  LET ref == IF alias = "" THEN j ELSE alias
  IN [q EXCEPT !.refs = Append(@, [type |-> j, ref |-> ref]),
               !.joins = Append(@, [ref |-> ref, columns |-> TRUE])]
Join(q, j, alias) == AddTypedJoin(q, j, alias)

\* add_join_raw: the ON text is the caller's; the type is not registered.
JoinRaw(q, j, alias) ==
  [q EXCEPT !.joins = Append(@, [ref |-> IF alias = "" THEN j ELSE alias,
                                 columns |-> FALSE])]

\* Mutant: an empty lambda is kept as a condition.
AppendGroupAlways(q, connector, inner) ==
  [q EXCEPT !.predicates =
     Append(@, [Predicate("Group", connector, "none", <<>>)
                  EXCEPT !.children = inner.predicates])]

\* append_group_predicate: what the lambda gets, and what is kept of it.
NestedQuery(q) == [NewQuery EXCEPT !.alias = q.alias, !.refs = q.refs]
AppendGroup(q, connector, inner) ==
  IF inner.predicates = <<>> THEN q
  ELSE [q EXCEPT !.predicates =
          Append(@, [Predicate("Group", connector, "none", <<>>)
                       EXCEPT !.children = inner.predicates])]
\* nested() consumes the connector before the lambda runs; and_() leaves it.
NestedOuter(q) == [q EXCEPT !.next = "AND"]
-----------------------------------------------------------------------------
(* Plans.                                                                  *)

\* SqlPlan: the "?" in text order, the parameters, the tables named, and the
\* number of conditions in WHERE.
Plan(holes, params, refs, leaves) ==
  [holes |-> holes, params |-> params, refs |-> refs, leaves |-> leaves]
NoText == Plan(<<>>, <<>>, {}, 0)

\* Text after text.
Then(a, b) ==
  Plan(a.holes \o b.holes, a.params \o b.params, a.refs \cup b.refs, a.leaves + b.leaves)

\* render_column_ref: an unqualified column belongs to the base table.
RenderRef(ref, base) == IF ref = "" THEN base ELSE ref

\* append_predicates_sql.
RECURSIVE AppendPredicates(_, _)
AppendPredicates(base, predicates) ==
  LET Text(p) ==
        CASE p.kind = "Binary" ->
               Plan(<<Head(p.params)>>, p.params, {RenderRef(p.ref, base)}, 1)
          [] p.kind = "In" ->
               Plan(p.params, p.params, {RenderRef(p.ref, base)}, 1)
          [] p.kind \in {"InSql", "NullCheck"} ->
               Plan(<<>>, <<>>, {RenderRef(p.ref, base)}, 1)
          [] p.kind = "Between" ->
               Plan(<<p.params[1], p.params[2]>>, <<p.params[1], p.params[2]>>,
                    {RenderRef(p.ref, base)}, 1)
          [] p.kind = "Raw" -> Plan(p.params, p.params, {}, 1)
          [] p.kind = "Group" -> AppendPredicates(base, p.children)
  IN FoldLeft(LAMBDA text, p : Then(text, Text(p)), NoText, predicates)

BaseRef(q) == IF q.alias = "" THEN Table ELSE q.alias

\* The text and the parameters of HAVING follow those of WHERE.
HavingText(q) ==
  FoldLeft(LAMBDA text, h : Then(text, Plan(h.params, h.params, {}, 0)), NoText, q.havings)

RefsOf(q, columns) == {RenderRef(columns[i], BaseRef(q)) : i \in 1..Len(columns)}

\* Mutant: the parameters of HAVING are collected before those of WHERE.
SelectPlanHavingFirst(q) ==
  LET where == AppendPredicates(BaseRef(q), q.predicates)
      having == HavingText(q)
  IN Plan(where.holes \o having.holes, having.params \o where.params, {}, where.leaves)

\* build_select_plan.
SelectPlan(q) ==
  LET base == BaseRef(q)
      from == Plan(<<>>, <<>>,
                   {base} \cup {q.joins[i].ref : i \in {k \in 1..Len(q.joins) : q.joins[k].columns}},
                   0)
      where == AppendPredicates(base, q.predicates)
      rest == Plan(<<>>, <<>>, RefsOf(q, q.groups) \cup RefsOf(q, q.orders), 0)
  IN Then(Then(from, where), Then(HavingText(q), rest))

\* The tables a SELECT brings into scope.
Scope(q) == {BaseRef(q)} \cup {q.joins[i].ref : i \in 1..Len(q.joins)}

WithLimitIfAbsent(q) == [q EXCEPT !.limit = TRUE]
WithoutWindowClauses(q) ==
  [q EXCEPT !.orders = <<>>, !.limit = FALSE, !.offset = FALSE, !.tail = FALSE]

\* UPDATE: the assignments come first; the predicates name the table itself.
UpdatePlan(q, sets) ==
  Then(FoldLeft(LAMBDA text, a : Then(text, Plan(a.params, a.params, {}, 0)),
                NoText, sets),
       AppendPredicates(Table, q.predicates))
UpdateRefused(q) ==
  q.joins # <<>> \/ q.groups # <<>> \/ q.havings # <<>> \/ q.limit \/ q.offset

DeletePlan(q) == AppendPredicates(Table, q.predicates)
DeleteRefused(q, allow_full_table) ==
  \/ q.joins # <<>> \/ q.groups # <<>> \/ q.havings # <<>>
  \/ q.orders # <<>> \/ q.limit \/ q.offset \/ q.tail
  \/ q.predicates = <<>> /\ ~allow_full_table

-----------------------------------------------------------------------------
(* A session: one caller builds a query and runs it, as often as it likes. *)

NoPlan == [kind |-> "none"]
Thrown == [kind |-> "throws"]

QueryInit ==
  /\ policy = "permissive"
  /\ stack = <<[q |-> NewQuery, connector |-> "AND"]>>
  /\ assignments = <<>> /\ assigned = {} /\ built = 0 /\ plan = NoPlan

Innermost == stack[Len(stack)].q
Arg(i) == <<built, i>>
Args(n) == [i \in 1..n |-> Arg(i)]

\* A builder method ends: *this is the new query.
Build(q) ==
  /\ built < MaxBuild /\ built' = built + 1 /\ plan' = NoPlan
  /\ stack' = [stack EXCEPT ![Len(stack)].q = q]
  /\ UNCHANGED <<policy, assignments, assigned>>

\* A method with a raw fragment: validate_raw_sql throws before anything
\* changes, and the exception leaves every open lambda.
Raw(q, marked) ==
  IF RawAllowed(policy, marked) THEN Build(q)
  ELSE /\ built < MaxBuild /\ built' = built + 1 /\ plan' = Thrown
       /\ stack' = <<stack[1]>>
       /\ UNCHANGED <<policy, assignments, assigned>>

\* set_raw_sql_policy, by anyone at any time.
SetPolicy(pol) ==
  policy # pol /\ policy' = pol /\ UNCHANGED <<stack, assignments, assigned, built, plan>>

\* The tables the outermost query has joined by type.
JoinedTypes == {stack[1].q.refs[i].type : i \in 1..Len(stack[1].q.refs)}

Predicates ==
  \/ Build(Compare(Innermost, Arg(1)))
  \/ Build(IsNull(Innermost))
  \/ \E n \in 0..2 : Build(In(Innermost, Args(n)))
  \/ Build(Between(Innermost, Arg(1), Arg(2)))
  \/ Build(Like(Innermost, Arg(1)))
  \/ \E marked \in BOOLEAN : Raw(InSql(Innermost), marked)
  \/ \E marked \in BOOLEAN, n \in 0..1 : Raw(WhereRaw(Innermost, Args(n)), marked)

\* A joined model is named after it was joined.
JoinedPredicates ==
  \E j \in JoinedTypes :
    \/ Build(CompareJoined(Innermost, j, Arg(1)))
    \/ Build(IsNullJoined(Innermost, j))
    \/ Build(InJoined(Innermost, j, Args(2)))
    \/ Build(BetweenJoined(Innermost, j, Arg(1), Arg(2)))
    \/ Build(LikeJoined(Innermost, j, Arg(1)))
    \/ Raw(InSqlJoined(Innermost, j), TRUE)

Clauses ==
  /\ Len(stack) = 1
  /\ \/ Build(OrderBy(Innermost)) \/ Build(GroupBy(Innermost))
     \/ \E n \in 0..1 : Build(Having(Innermost, Args(n)))
     \/ Build(Limit(Innermost)) \/ Build(Offset(Innermost)) \/ Build(LastSql(Innermost))
     \/ \E a \in Aliases : Build(FromAlias(Innermost, a))
     \/ \E j \in Joined, a \in Aliases \cup {""} :
          \/ Build(Join(Innermost, j, a))
          \/ \E marked \in BOOLEAN : Raw(JoinRaw(Innermost, j, a), marked)
     \/ \E j \in JoinedTypes : Build(OrderByJoined(Innermost, j)) \/ Build(GroupByJoined(Innermost, j))

Connectors == Build(Or(Innermost)) \/ Build(And(Innermost))

\* and_(lambda) and nested(lambda): the lambda fills a query of its own.
OpenLambda ==
  /\ built < MaxBuild /\ built' = built + 1 /\ plan' = NoPlan
  /\ \/ stack' = Append(stack, [q |-> NestedQuery(Innermost), connector |-> "AND"])
     \/ stack' = Append([stack EXCEPT ![Len(stack)].q = NestedOuter(@)],
                        [q |-> NestedQuery(Innermost), connector |-> Innermost.next])
  /\ UNCHANGED <<policy, assignments, assigned>>
CloseLambda ==
  /\ Len(stack) > 1
  /\ LET inner == stack[Len(stack)]
         outer == SubSeq(stack, 1, Len(stack) - 1)
     IN stack' = [outer EXCEPT ![Len(outer)].q = AppendGroup(@, inner.connector, inner.q)]
  /\ UNCHANGED <<policy, assignments, assigned, built, plan>>

\* UpdateChain: set (and setIf with a true condition), setIfAbsent, setSql.
Assign(column, params) ==
  /\ assignments' = Append(assignments, [column |-> column, params |-> params])
  /\ assigned' = assigned \cup {column}
Set(column) == Assign(column, Args(1))
SetIfAbsent(column) ==
  IF column \in assigned THEN UNCHANGED <<assignments, assigned>> ELSE Assign(column, Args(1))
SetSql(column, n, marked) ==
  IF RawAllowed(policy, marked) THEN Assign(column, Args(n)) ELSE UNCHANGED <<assignments, assigned>>
Assignments ==
  /\ Len(stack) = 1 /\ built < MaxBuild /\ built' = built + 1 /\ plan' = NoPlan
  /\ \E column \in {"a", "b"} :
       \/ Set(column) \/ SetIfAbsent(column)
       \/ \E n \in 0..1, marked \in BOOLEAN : SetSql(column, n, marked)
  /\ UNCHANGED <<policy, stack>>

\* execute_sql and query_sql get the text and the parameters.
Sent(kind, text, scope) == [kind |-> kind, text |-> text, scope |-> scope]
Run(sent) == plan' = sent /\ UNCHANGED <<policy, stack, assignments, assigned, built>>

SelectList == Run(Sent("select", SelectPlan(Innermost), Scope(Innermost)))
SelectOne == Run(Sent("select", SelectPlan(WithLimitIfAbsent(Innermost)), Scope(Innermost)))
CountFiltered == Run(Sent("select", SelectPlan(WithoutWindowClauses(Innermost)), Scope(Innermost)))
\* selectById builds its own query, with an unmarked fragment.
SelectById ==
  LET q == WithLimitIfAbsent(WhereRaw(NewQuery, Args(1)))
  IN IF RawAllowed(policy, FALSE) THEN Run(Sent("select", SelectPlan(q), {Table})) ELSE Run(Thrown)
\* UpdateChain::execute moves the assignments out; assigned_columns_ stays.
UpdateExecute ==
  /\ assignments' = <<>>
  /\ plan' = IF assignments = <<>> THEN NoPlan
             ELSE IF UpdateRefused(Innermost) THEN Thrown
             ELSE Sent("update", UpdatePlan(Innermost, assignments), {Table})
  /\ UNCHANGED <<policy, stack, assigned, built>>
DeleteByQuery(allow_full_table) ==
  IF DeleteRefused(Innermost, allow_full_table) THEN Run(Thrown)
  ELSE Run(Sent(IF allow_full_table THEN "purge" ELSE "delete", DeletePlan(Innermost), {Table}))

Terminals ==
  /\ Len(stack) = 1
  /\ \/ SelectList \/ SelectOne \/ CountFiltered \/ SelectById \/ UpdateExecute
     \/ \E allow \in BOOLEAN : DeleteByQuery(allow)

QueryNext ==
  \/ Predicates \/ JoinedPredicates \/ Clauses \/ Connectors \/ OpenLambda \/ CloseLambda
  \/ Assignments \/ Terminals
  \/ \E pol \in {"permissive", "require_unsafe_marker"} : SetPolicy(pol)
-----------------------------------------------------------------------------
Executed == plan.kind \in {"select", "update", "delete", "purge"}

\* Whatever the order of the builder calls, the n-th "?" of every statement
\* was written for the n-th parameter of its list: WHERE before HAVING in a
\* select, the assignments before WHERE in an update, groups in place.  And a
\* statement names no table that its FROM and JOIN clauses do not bring in:
\* aliases given to a join are seen by later predicates, orders, groups, and
\* by lambdas.
StatementsFit ==
  Executed => /\ plan.text.holes = plan.text.params
              /\ plan.text.refs \subseteq plan.scope

\* delete_by_query deletes every row only when the caller allowed it: a
\* statement it sends otherwise has a condition, also when the conditions
\* were to come from a lambda that added none.
DeleteIsGuarded == plan.kind = "delete" => plan.text.leaves > 0
=============================================================================
