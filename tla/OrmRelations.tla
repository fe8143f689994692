---------------------------- MODULE OrmRelations ----------------------------
(***************************************************************************)
(* load_one_to_many, load_many_to_one and load_many_to_many of Mapper: one *)
(* or two selects and the grouping of their rows in memory.  Other clients *)
(* write to the tables between the two selects of a many-to-many load.     *)
(***************************************************************************)
EXTENDS Naturals, Sequences, FiniteSets, SequencesExt

CONSTANTS OwnerKeys, RelatedKeys,
          Null,              \* an empty optional key
          MaxOwners, MaxLinks, MaxRelated   \* bounds on lists and tables

VARIABLES load,              \* which of the three
          owners,            \* the keys of the models passed in
          links, related,    \* the join table, the related table, in query order
          phase, grouped, joinRows,
          sawLinks, sawRelated   \* the tables as the two selects found them

relationVars == <<load, owners, links, related, phase, grouped, joinRows, sawLinks, sawRelated>>

\* extract_member_key drops empty keys; dedupe_keys keeps first occurrences.
Present(keys) == SelectSeq(keys, LAMBDA k : k # Null)
DedupeKeys(keys) ==
  FoldLeft(LAMBDA out, k : IF k \in Range(out) THEN out ELSE Append(out, k), <<>>, keys)
KeysFor(list) == DedupeKeys(Present(list))

\* select_list of a query with in(column, keys), in table order.
SelectIn(rows, column, keys) == SelectSeq(rows, LAMBDA r : r[column] \in Range(keys))

\* Mutant: buckets come into being with their first row.
OneToManyLazy(list, rows) ==
  LET found == SelectIn(rows, "fk", KeysFor(list))
  IN [k \in {found[i].fk : i \in 1..Len(found)} |-> SelectSeq(found, LAMBDA r : r.fk = k)]

\* load_one_to_many: a bucket for each key; rows go to the bucket they name.
OneToMany(list, rows) ==
  LET keys == KeysFor(list)
      Into(g, r) == IF r.fk \in DOMAIN g THEN [g EXCEPT ![r.fk] = Append(@, r)] ELSE g
  IN IF keys = <<>> THEN <<>>
     ELSE FoldLeft(Into, [k \in Range(keys) |-> <<>>], SelectIn(rows, "fk", keys))

\* load_many_to_one: the last row with a key is the one kept.
LastWith(rows, k) == rows[CHOOSE i \in 1..Len(rows) :
                            rows[i].key = k /\ \A j \in i + 1 .. Len(rows) : rows[j].key # k]
ByKey(rows) == [k \in {rows[i].key : i \in 1..Len(rows)} \ {Null} |-> LastWith(rows, k)]
ManyToOne(list, rows) ==
  LET keys == KeysFor(list)
  IN IF keys = <<>> THEN <<>> ELSE ByKey(SelectIn(rows, "key", keys))

\* load_many_to_many: the related keys of each owner in join-row order, then
\* their rows; a key whose row is not there is skipped.
Linked(list, rows) ==
  SelectSeq(SelectIn(rows, "owner", KeysFor(list)), LAMBDA l : l.related # Null)
ManyToMany(list, joined, rows) ==
  LET byKey == ByKey(rows)
      Into(g, l) == IF l.related \in DOMAIN byKey
                    THEN [g EXCEPT ![l.owner] = Append(@, byKey[l.related])] ELSE g
  IN FoldLeft(Into, [k \in Range(KeysFor(list)) |-> <<>>], joined)
-----------------------------------------------------------------------------
RelationInit ==
  /\ load \in {"one_to_many", "many_to_one", "many_to_many"}
  /\ owners \in SeqOf(OwnerKeys \cup {Null}, MaxOwners)
  /\ IF load = "many_to_many"
     THEN /\ links \in SeqOf([owner : OwnerKeys, related : RelatedKeys \cup {Null}], MaxLinks)
          /\ related \in {s \in SeqOf([key : RelatedKeys, fk : {Null}], MaxRelated) : IsInjective(s)}
     ELSE /\ links = <<>>
          /\ related \in SeqOf([key : OwnerKeys, fk : OwnerKeys \cup {Null}], MaxRelated)
  /\ phase = "start" /\ grouped = <<>> /\ joinRows = <<>>
  /\ sawLinks = <<>> /\ sawRelated = <<>>

Finish(result) ==
  /\ grouped' = result /\ phase' = "done"
  /\ UNCHANGED <<load, owners, links, related>>

LoadOneToMany ==
  /\ load = "one_to_many" /\ phase = "start"
  /\ Finish(OneToMany(owners, related)) /\ sawRelated' = related
  /\ UNCHANGED <<joinRows, sawLinks>>
LoadManyToOne ==
  /\ load = "many_to_one" /\ phase = "start"
  /\ Finish(ManyToOne(owners, related)) /\ sawRelated' = related
  /\ UNCHANGED <<joinRows, sawLinks>>

\* The first select of load_many_to_many; no second one without related keys.
LoadLinks ==
  /\ load = "many_to_many" /\ phase = "start"
  /\ joinRows' = Linked(owners, links) /\ sawLinks' = links
  /\ IF joinRows' = <<>>
     THEN grouped' = [k \in Range(KeysFor(owners)) |-> <<>>] /\ phase' = "done"
     ELSE phase' = "joined" /\ UNCHANGED grouped
  /\ UNCHANGED <<load, owners, links, related, sawRelated>>
LoadRelated ==
  /\ phase = "joined"
  /\ Finish(ManyToMany(owners, joinRows,
                       SelectIn(related, "key", [i \in 1..Len(joinRows) |-> joinRows[i].related])))
  /\ sawRelated' = related
  /\ UNCHANGED <<joinRows, sawLinks>>

\* Another client deletes a link or a related row between the selects.
Interfere ==
  /\ phase = "joined"
  /\ \/ \E i \in 1..Len(links) : links' = RemoveAt(links, i) /\ UNCHANGED related
     \/ \E i \in 1..Len(related) : related' = RemoveAt(related, i) /\ UNCHANGED links
  /\ UNCHANGED <<load, owners, phase, grouped, joinRows, sawLinks, sawRelated>>

RelationNext == LoadOneToMany \/ LoadManyToOne \/ LoadLinks \/ LoadRelated \/ Interfere
-----------------------------------------------------------------------------
Asked == {k \in Range(owners) : k # Null}

\* What a load returns is the relation: each non-empty key passed in is there
\* once, with exactly the rows that refer to it, in query order; for a
\* many-to-many load the links are those of the first select and the rows
\* those of the second, so a row deleted in between is left out and no owner
\* gets a row that was never linked to it.
RelationsMatch ==
  phase = "done" =>
    CASE load = "one_to_many" ->
           /\ DOMAIN grouped = Asked
           /\ \A k \in Asked : grouped[k] = SelectSeq(sawRelated, LAMBDA r : r.fk = k)
      [] load = "many_to_one" ->
           /\ DOMAIN grouped = {k \in Asked : \E r \in Range(sawRelated) : r.key = k}
           /\ \A k \in DOMAIN grouped : grouped[k] \in Range(sawRelated) /\ grouped[k].key = k
      [] OTHER ->
           /\ DOMAIN grouped = Asked
           /\ \A k \in Asked :
                [i \in 1..Len(grouped[k]) |-> grouped[k][i].key] =
                LET mine == SelectSeq(sawLinks, LAMBDA l :
                              l.owner = k /\ \E r \in Range(sawRelated) : r.key = l.related)
                IN [i \in 1..Len(mine) |-> mine[i].related]
=============================================================================
