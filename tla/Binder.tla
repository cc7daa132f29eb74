------------------------------- MODULE Binder -------------------------------
(***************************************************************************)
(* crates/policysql-parser: the client's SQL is bound to the catalog.      *)
(*                                                                         *)
(* Binding replaces every name by the catalog column it denotes and every  *)
(* client variable by a typed parameter, flattens a transparent derived    *)
(* table or CTE into the query above it, and refuses everything outside    *)
(* the closed subset.  What is refused here is an `Invalid` node inside    *)
(* the bound statement or FALSE in its field `ok`; which error the caller  *)
(* gets is left out, as are the size and depth limits.                     *)
(***************************************************************************)
EXTENDS SqlLanguage

ColumnOf(res, col) == Node("column", <<>>, [res |-> res, col |-> col])

TypeOf(e) ==
    CASE e.op = "column" -> Catalog[e.x.res][e.x.col].type
      [] e.op \in {"param", "lit", "case"} -> e.x.type
      [] e.op = "concat" -> "String"
      [] e.op \in {"count", "rownum"} -> "Int64"
      [] OTHER -> "none"

\* A scope names one source: its qualifier and the columns it offers.
BindSource(source) ==
    [res  |-> source.res,
     q    |-> Qualifier(source),
     cols |-> [c \in DOMAIN Catalog[source.res] |-> ColumnOf(source.res, c)]]

ResolveDirectColumn(q, n, scopes) ==
    LET holders == {i \in DOMAIN scopes : n \in DOMAIN scopes[i].cols}
        named   == {i \in DOMAIN scopes : scopes[i].q = q}
    IN  IF q # ""
        THEN IF named # {} /\ Min(named) \in holders
             THEN scopes[Min(named)].cols[n] ELSE Invalid
        ELSE IF Cardinality(holders) = 1
             THEN scopes[Min(holders)].cols[n] ELSE Invalid

Typed(e, expected) ==
    IF expected # "" /\ TypeOf(e) # expected THEN Invalid ELSE e

----------------------------------------------------------------------------

RECURSIVE BindBoolean(_, _), BindScalar(_, _, _), BindProjection(_, _)

\* A variable takes the type of the other side, which must have one.
BindComparison(e, scopes) ==
    LET l == e.args[1]
        r == e.args[2]
        typedR == BindScalar(r, scopes, "")
        typedL == BindScalar(l, scopes, "")
    IN  IF l.op = "var" /\ r.op = "var" THEN Invalid
        ELSE IF l.op = "var"
        THEN [e EXCEPT !.args = <<BindScalar(l, scopes, TypeOf(typedR)), typedR>>]
        ELSE [e EXCEPT !.args =
                 <<typedL, Typed(BindScalar(r, scopes, TypeOf(typedL)), TypeOf(typedL))>>]

BindInList(e, scopes) ==
    LET l == e.args[1]
        known == {i \in 2..Len(e.args) : e.args[i].op # "var"}
        head == IF l.op # "var" THEN BindScalar(l, scopes, "")
                ELSE IF known = {} THEN Invalid
                ELSE BindScalar(l, scopes,
                                TypeOf(BindScalar(e.args[Min(known)], scopes, "")))
    IN  [e EXCEPT !.args = [i \in DOMAIN e.args |->
            IF i = 1 THEN head ELSE BindScalar(e.args[i], scopes, TypeOf(head))]]

UniqueResultNames(projections) ==
    \A i, j \in DOMAIN projections : projections[i].as = projections[j].as => i = j

\* The list of an EXISTS is the constant 1 without a name, or projections.
BindListItems(e, nested) ==
    LET items == [i \in DOMAIN ListItems(e) |-> [e |-> e.args[i], as |-> e.x.items[i]]]
        one == Node("lit", <<>>, [type |-> "Int64", v |-> 1])
    IN  IF items = <<[e |-> one, as |-> ""]>> THEN <<one>>
        ELSE IF ~UniqueResultNames(items) THEN <<Invalid>>
        ELSE [i \in DOMAIN items |-> BindProjection(items[i], nested).e]

\* EXISTS sees the scopes around it, and may not read a resource they read.
BindExists(e, scopes) ==
    IF \E i \in DOMAIN scopes : scopes[i].res = e.x.res THEN Invalid
    ELSE LET nested == Append(scopes, BindSource(e.x))
             where == NestedWhere(e)
         IN  [e EXCEPT !.args =
                 BindListItems(e, nested)
                 \o [i \in DOMAIN where |-> BindBoolean(where[i], nested)]]

BindBoolean(e, scopes) ==
    CASE e.op \in Relations           -> BindComparison(e, scopes)
      [] e.op \in {"and", "or", "not"} -> MapArgs(e, LAMBDA k : BindBoolean(k, scopes))
      [] e.op = "isnull"              -> MapArgs(e, LAMBDA k : BindScalar(k, scopes, ""))
      [] e.op = "in"                  -> BindInList(e, scopes)
      [] e.op = "exists"              -> BindExists(e, scopes)
      [] OTHER                        -> Invalid

\* Each value of a CASE is bound with the type of the branch before it.
BindCase(e, scopes, expected) ==
    LET branch(bound, k) ==
            bound \o <<BindBoolean(e.args[2 * k - 1], scopes),
                       BindScalar(e.args[2 * k], scopes,
                                  IF bound = <<>> THEN expected ELSE TypeOf(Last(bound)))>>
        branches == FoldLeft(branch, <<>>, [k \in 1..(Len(e.args) \div 2) |-> k])
        type == TypeOf(Last(branches))
        otherwise == IF Len(e.args) % 2 = 0 THEN <<>>
                     ELSE <<BindScalar(Last(e.args), scopes, type)>>
    IN  Node("case", branches \o otherwise, [type |-> type])

BindScalar(e, scopes, expected) ==
    CASE e.op = "name"   -> Typed(ResolveDirectColumn(e.x.q, e.x.n, scopes), expected)
      [] e.op = "var"    -> IF expected \in {"", "none"} THEN Invalid
                            ELSE Node("param", <<>>, [name |-> e.x.var, type |-> expected])
      [] e.op = "lit"    -> IF e.x.v = Null THEN Invalid ELSE Typed(e, expected)
      [] e.op = "count"  -> Node("count", <<>>, [last |-> Last(scopes).res])
      [] e.op = "concat" -> Typed(MapArgs(e, LAMBDA k : BindScalar(k, scopes, "String")),
                                  expected)
      [] e.op = "case"   -> BindCase(e, scopes, expected)
      [] OTHER           -> Invalid

----------------------------------------------------------------------------

\* ROW_NUMBER() OVER (PARTITION BY p ORDER BY o) on columns of one resource.
BindRowNumber(e, scopes) ==
    LET bound == MapArgs(e, LAMBDA k : ResolveDirectColumn(k.x.q, k.x.n, scopes))
    IN  IF Failed(bound) \/ bound.args[1].x.res # bound.args[2].x.res THEN Invalid
        ELSE [bound EXCEPT !.x = [last |-> bound.args[2].x.res]]

\* The select list takes a direct column, COUNT, ROW_NUMBER or a registered
\* scalar form; a bare literal or variable is no projection.
BindProjection(p, scopes) ==
    [p EXCEPT !.e =
        CASE p.e.op = "name"                     -> ResolveDirectColumn(p.e.x.q, p.e.x.n, scopes)
          [] p.e.op = "rownum"                   -> BindRowNumber(p.e, scopes)
          [] p.e.op \in {"count", "concat", "case"} -> BindScalar(p.e, scopes, "")
          [] OTHER                               -> Invalid]

BindReturning(returning, scopes) ==
    [i \in DOMAIN returning |->
        [returning[i] EXCEPT !.e =
            IF @.op = "name" THEN ResolveDirectColumn(@.x.q, @.x.n, scopes) ELSE Invalid]]

\* A literal LIMIT is not negative; a variable is an Int64 parameter.
BindLimit(limit) ==
    [i \in DOMAIN limit |->
        CASE limit[i].op = "lit" /\ limit[i].x.v >= 0 -> limit[i]
          [] limit[i].op = "var" -> BindScalar(limit[i], <<>>, "Int64")
          [] OTHER -> Invalid]

\* ORDER BY names a column or, when no column has the name, a projection.
BindOrder(order, scopes, projections) ==
    [i \in DOMAIN order |->
        LET n == order[i].e.x
            known == \E k \in DOMAIN scopes : n.n \in DOMAIN scopes[k].cols
            alias == {k \in DOMAIN projections : projections[k].as = n.n}
        IN  [order[i] EXCEPT !.e =
                IF n.q # "" \/ known THEN ResolveDirectColumn(n.q, n.n, scopes)
                ELSE IF alias # {} THEN projections[Min(alias)].e ELSE Invalid]]

\* A derived table or CTE is flattened: its direct columns under their output
\* names, its predicate inherited by the query above.
BindDerivedSource(bound, alias) ==
    LET plain == /\ bound.joins = <<>> /\ bound.order = <<>> /\ bound.limit = <<>>
                 /\ bound.offset = <<>> /\ bound.group = <<>> /\ bound.having = <<>>
                 /\ \A i \in DOMAIN bound.proj : bound.proj[i].e.op = "column"
        at(n) == CHOOSE i \in DOMAIN bound.proj : bound.proj[i].as = n
    IN  [ok    |-> bound.ok /\ plain,
         scope |-> [res  |-> bound.from.res,
                    q    |-> alias,
                    cols |-> [n \in {bound.proj[i].as : i \in DOMAIN bound.proj} |->
                                 bound.proj[at(n)].e]],
         where |-> bound.where]

Conjoin(inherited, where) ==
    IF inherited = <<>> THEN where
    ELSE IF where = <<>> THEN inherited
    ELSE <<Node("and", <<inherited[1], where[1]>>, NoX)>>

\* Each ON clause sees the sources up to its own; no resource and no qualifier
\* appears twice.
BindJoins(joins, root) ==
    LET scopes(n) == <<root>> \o [i \in 1..n |-> BindSource(joins[i])]
        all == scopes(Len(joins))
    IN  [ok     |-> \A i, j \in DOMAIN all :
                       i # j => all[i].res # all[j].res /\ all[i].q # all[j].q,
         scopes |-> all,
         joins  |-> [i \in DOMAIN joins |->
                        [joins[i] EXCEPT !.on = BindBoolean(@, scopes(i))]]]

RECURSIVE BindRootSource(_), BindSelect(_)

BindRootSource(from) ==
    IF from.inner = <<>>
    THEN [ok |-> TRUE, scope |-> BindSource(from), where |-> <<>>]
    ELSE BindDerivedSource(BindSelect(from.inner[1]), from.alias)

BindSelect(s) ==
    LET root == BindRootSource(s.from)
        joined == BindJoins(s.joins, root.scope)
        all == joined.scopes
        proj == [i \in DOMAIN s.proj |-> BindProjection(s.proj[i], all)]
        booleans(es) == [i \in DOMAIN es |-> BindBoolean(es[i], all)]
    IN  [kind   |-> "select",
         ok     |-> /\ root.ok /\ joined.ok /\ UniqueResultNames(s.proj)
                    /\ s.having # <<>> => s.group # <<>>,
         from   |-> [res |-> root.scope.res, alias |-> root.scope.q, inner |-> <<>>],
         joins  |-> joined.joins,
         proj   |-> proj,
         where  |-> Conjoin(root.where, booleans(s.where)),
         group  |-> [i \in DOMAIN s.group |->
                        ResolveDirectColumn(s.group[i].x.q, s.group[i].x.n, all)],
         having |-> booleans(s.having),
         order  |-> BindOrder(s.order, all, proj),
         limit  |-> BindLimit(s.limit),
         offset |-> BindLimit(s.offset)]

----------------------------------------------------------------------------

\* An assignment stores a parameter or a literal of the column's type.
BindAssignment(set, res, scopes) ==
    IF set.col \notin DOMAIN Catalog[res] \/ set.e.op \notin {"var", "lit"}
    THEN [set EXCEPT !.e = Invalid]
    ELSE [set EXCEPT !.e = BindScalar(@, scopes, Catalog[res][set.col].type)]

DistinctColumns(sets) ==
    \A i, j \in DOMAIN sets : sets[i].col = sets[j].col => i = j

BindInsert(s) ==
    LET scopes == <<BindSource([res |-> s.res, alias |-> ""])>>
        columns(row) == [i \in DOMAIN row |-> row[i].col]
    IN  [kind |-> "insert", res |-> s.res,
         ok |-> /\ \A i \in DOMAIN s.rows :
                      /\ columns(s.rows[i]) = columns(s.rows[1])
                      /\ DistinctColumns(s.rows[i])
                /\ UniqueResultNames(s.returning),
         rows |-> [i \in DOMAIN s.rows |->
                      [k \in DOMAIN s.rows[i] |->
                          BindAssignment(s.rows[i][k], s.res, scopes)]],
         returning |-> BindReturning(s.returning, scopes)]

BindUpdate(s) ==
    LET scopes == <<BindSource([res |-> s.res, alias |-> ""])>>
    IN  [kind |-> "update", res |-> s.res,
         ok |-> s.sets # <<>> /\ DistinctColumns(s.sets) /\ UniqueResultNames(s.returning),
         sets |-> [k \in DOMAIN s.sets |-> BindAssignment(s.sets[k], s.res, scopes)],
         where |-> [i \in DOMAIN s.where |-> BindBoolean(s.where[i], scopes)],
         returning |-> BindReturning(s.returning, scopes)]

BindDelete(s) ==
    LET scopes == <<BindSource([res |-> s.res, alias |-> ""])>>
    IN  [kind |-> "delete", res |-> s.res, ok |-> UniqueResultNames(s.returning),
         where |-> [i \in DOMAIN s.where |-> BindBoolean(s.where[i], scopes)],
         returning |-> BindReturning(s.returning, scopes)]

BindDocument(s) ==
    CASE s.kind = "select" -> BindSelect(s)
      [] s.kind = "insert" -> BindInsert(s)
      [] s.kind = "update" -> BindUpdate(s)
      [] s.kind = "delete" -> BindDelete(s)

----------------------------------------------------------------------------

\* Every expression of a statement, in the order the passes visit them.
Projected(projections) == [i \in DOMAIN projections |-> projections[i].e]

Expressions(s) ==
    CASE s.kind = "select" ->
            Projected(s.proj) \o [i \in DOMAIN s.joins |-> s.joins[i].on]
            \o s.where \o s.group \o s.having \o Projected(s.order) \o s.limit \o s.offset
      [] s.kind = "insert" -> FlattenSeq([i \in DOMAIN s.rows |-> Projected(s.rows[i])])
                              \o Projected(s.returning)
      [] s.kind = "update" -> Projected(s.sets) \o s.where \o Projected(s.returning)
      [] s.kind = "delete" -> s.where \o Projected(s.returning)

Accepted(s) ==
    LET es == Expressions(s) IN
    s.ok /\ \A i \in DOMAIN es : ~Failed(es[i])
=============================================================================
