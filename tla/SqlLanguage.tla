---------------------------- MODULE SqlLanguage ----------------------------
(***************************************************************************)
(* The SQL that PolicySQL reads and writes, and what a database answers.   *)
(*                                                                         *)
(* A statement is the same kind of record before and after compilation:    *)
(* the client's statement uses the client's names, the emitted one the     *)
(* aliases the emitter made up.  `EvalSelect` and `ExecWrite` are the      *)
(* database (SQLite, external to this repository), so a property can run   *)
(* the client's statement on one database and the emitted one on another   *)
(* and compare the answers.                                                *)
(*                                                                         *)
(* Values are integers whatever their column's type: only equality, order  *)
(* and NULL matter.  A table is the sequence of its rows in scan order.    *)
(***************************************************************************)
EXTENDS Integers, Sequences, FiniteSets, FiniteSetsExt, SequencesExt, TLC

CONSTANTS
    Null,           \* SQL NULL
    Catalog         \* Catalog[resource][column] = [type, nullable]

Resources == DOMAIN Catalog

----------------------------------------------------------------------------
(* Expressions: an operator, its operands and a record of attributes.      *)

NoX == [none |-> TRUE]

Node(op, args, x) == [op |-> op, args |-> args, x |-> x]

\* A sub-expression that a pass of the compiler refused.
Invalid == Node("error", <<>>, NoX)

Relations == {"=", "<>", "<", "<="}

MapArgs(e, F(_)) == [e EXCEPT !.args = [i \in DOMAIN e.args |-> F(e.args[i])]]

\* Every node of an expression, the expression itself first.
RECURSIVE Nodes(_)
Nodes(e) == <<e>> \o FlattenSeq([i \in DOMAIN e.args |-> Nodes(e.args[i])])

RECURSIVE HasOp(_, _)
HasOp(e, op) == e.op = op \/ \E i \in DOMAIN e.args : HasOp(e.args[i], op)

Failed(e) == HasOp(e, "error")

\* EXISTS (SELECT list FROM res AS alias WHERE ...): `x.items` holds the output
\* names of its list, whose expressions come first among the operands.
ListItems(e) == SubSeq(e.args, 1, Len(e.x.items))
NestedWhere(e) == SubSeq(e.args, Len(e.x.items) + 1, Len(e.args))

\* The resources the EXISTS of an expression read, at any depth.
NestedResources(e) == {n.x.res : n \in {m \in ToSet(Nodes(e)) : m.op = "exists"}}

\* COUNT of the query the expression belongs to, not of an EXISTS in it.
RECURSIVE Aggregates(_)
Aggregates(e) ==
    \/ e.op = "count"
    \/ e.op # "exists" /\ \E i \in DOMAIN e.args : Aggregates(e.args[i])

----------------------------------------------------------------------------
(* Three-valued logic.                                                     *)

Not3(v) == IF v = Null THEN Null ELSE ~v

And3(v, w) == IF v = FALSE \/ w = FALSE THEN FALSE
              ELSE IF v = Null \/ w = Null THEN Null ELSE TRUE

Or3(v, w) == Not3(And3(Not3(v), Not3(w)))

Compare3(rel, v, w) ==
    IF v = Null \/ w = Null THEN Null
    ELSE CASE rel = "="  -> v = w
           [] rel = "<>" -> v # w
           [] rel = "<"  -> v < w
           [] rel = "<=" -> v <= w

In3(v, values) ==
    IF v = Null THEN Null
    ELSE IF \E i \in DOMAIN values : values[i] = v THEN TRUE
    ELSE IF \E i \in DOMAIN values : values[i] = Null THEN Null
    ELSE FALSE

----------------------------------------------------------------------------
(* Evaluation.  An environment holds the database, the bound variables,    *)
(* the scopes from the outermost to the innermost (each maps the aliases   *)
(* of one FROM to their current rows) and, for COUNT and ROW_NUMBER, the   *)
(* rows of the current group with the position of the current one.         *)

NullRow(columns) == [c \in columns |-> Null]

Lookup(q, n, scopes) ==
    LET holders(i) == {a \in DOMAIN scopes[i] :
                          (q = "" \/ a = q) /\ n \in DOMAIN scopes[i][a]}
        level == Max({i \in DOMAIN scopes : holders(i) # {}})
    IN  scopes[level][CHOOSE a \in holders(level) : TRUE][n]

RECURSIVE Eval(_, _)
Eval(e, env) ==
    LET val(i)  == Eval(e.args[i], env)
        rest    == [i \in 1..(Len(e.args) - 1) |-> val(i + 1)]
        at(s, i) == Eval(e.args[i], [env EXCEPT !.scopes[Len(env.scopes)] = s])
    IN
    CASE e.op = "name"     -> Lookup(e.x.q, e.x.n, env.scopes)
      [] e.op = "var"      -> env.vars[e.x.var]
      [] e.op = "lit"      -> e.x.v
      [] e.op \in Relations -> Compare3(e.op, val(1), val(2))
      [] e.op = "and"      -> And3(val(1), val(2))
      [] e.op = "or"       -> Or3(val(1), val(2))
      [] e.op = "not"      -> Not3(val(1))
      [] e.op = "isnull"   -> val(1) = Null
      [] e.op = "in"       -> IF e.x.negated THEN Not3(In3(val(1), rest))
                                             ELSE In3(val(1), rest)
      [] e.op = "exists"   ->
            /\ e.x.limit # <<0>>
            /\ \/ \E i \in DOMAIN ListItems(e) : Aggregates(e.args[i])
               \/ \E i \in DOMAIN env.db[e.x.res] :
                     \/ NestedWhere(e) = <<>>
                     \/ Eval(Last(e.args),
                             [env EXCEPT !.scopes =
                                 Append(@, (e.x.alias :> env.db[e.x.res][i]))]) = TRUE
      [] e.op = "count"    -> Len(env.rows)
      [] e.op = "case"     ->
            \* WHEN and THEN in turn, then ELSE if there is one.
            LET taken == {k \in 1..(Len(e.args) \div 2) : val(2 * k - 1) = TRUE} IN
            IF taken # {} THEN val(2 * Min(taken))
            ELSE IF Len(e.args) % 2 = 1 THEN val(Len(e.args)) ELSE Null
      [] e.op = "concat"   -> IF val(1) = Null \/ val(2) = Null THEN Null
                              ELSE 10 * val(1) + val(2)
      [] e.op = "least"    -> IF val(1) = Null \/ val(2) = Null THEN Null
                              ELSE Min({val(1), val(2)})
      [] e.op = "rownum"   ->
            \* PARTITION BY the first operand, ORDER BY the second.
            LET peer(j) == at(env.rows[j], 1) = val(1)
                before(j) == LET k == at(env.rows[j], 2) IN
                    IF k = val(2) THEN j < env.at
                    ELSE k = Null \/ (val(2) # Null /\ k < val(2))
            IN  1 + Cardinality({j \in DOMAIN env.rows : peer(j) /\ before(j)})

Qualifier(source) == IF source.alias = "" THEN source.res ELSE source.alias

LessOrNull(v, w) == v # w /\ (v = Null \/ (w # Null /\ v < w))

Cut(rows, limit, offset) ==
    LET from == IF offset = <<>> \/ offset[1] < 0 THEN 0 ELSE offset[1]
        last == IF limit = <<>> \/ limit[1] < 0 THEN Len(rows)
                ELSE Min({Len(rows), from + limit[1]})
    IN  SubSeq(rows, from + 1, last)

\* A SELECT is evaluated clause by clause: rows are scopes up to WHERE,
\* environments from GROUP BY on.
Env(db, vars, scopes, rows, at) ==
    [db |-> db, vars |-> vars, scopes |-> scopes, rows |-> rows, at |-> at]

Holds(e, db, vars, scope) == Eval(e, Env(db, vars, <<scope>>, <<>>, 0)) = TRUE

\* FROM: the rows of a table, or those of a derived table under its names.
NamedRows(projections, rows) ==
    [i \in DOMAIN rows |->
        [n \in {projections[k].as : k \in DOMAIN projections} |->
            rows[i][CHOOSE k \in DOMAIN projections : projections[k].as = n]]]

FromRows(from, rows) == [i \in DOMAIN rows |-> (Qualifier(from) :> rows[i])]

\* An unmatched row of a LEFT JOIN is padded with NULL.
PadLeft(j, scope, hits) ==
    IF hits = <<>> /\ j.kind = "left"
    THEN <<scope @@ (Qualifier(j) :> NullRow(DOMAIN Catalog[j.res]))>> ELSE hits

JoinRows(scopes, j, db, vars) ==
    FlattenSeq([i \in DOMAIN scopes |->
        PadLeft(j, scopes[i],
                SelectSeq([k \in DOMAIN db[j.res] |-> scopes[i] @@ (Qualifier(j) :> db[j.res][k])],
                          LAMBDA w : Holds(j.on, db, vars, w)))])

JoinedRows(s, rows, db, vars) ==
    FoldLeft(LAMBDA scopes, j : JoinRows(scopes, j, db, vars), rows, s.joins)

WhereRows(s, rows, db, vars) ==
    SelectSeq(rows, LAMBDA w : s.where = <<>> \/ Holds(s.where[1], db, vars, w))

\* The row an aggregate of no rows reads: NULL in every column.
EmptyScope(s) ==
    LET outputs(inner) == {inner.proj[i].as : i \in DOMAIN inner.proj}
        columns == UNION {DOMAIN Catalog[r] : r \in Resources}
                   \cup UNION {outputs(s.from.inner[i]) : i \in DOMAIN s.from.inner}
    IN  [q \in {Qualifier(s.from)} \cup {Qualifier(s.joins[i]) : i \in DOMAIN s.joins} |->
            NullRow(columns)]

Grouped(rows, keys, db, vars) ==
    LET leads(k) == \A m \in 1..(k - 1) : keys[m] # keys[k]
        leaders == SelectSeq([k \in DOMAIN rows |-> k], leads)
        group(k) == LET ks == SelectSeq([m \in DOMAIN rows |-> m],
                                        LAMBDA m : keys[m] = keys[k])
                    IN  [m \in DOMAIN ks |-> rows[ks[m]]]
    IN  [i \in DOMAIN leaders |->
            Env(db, vars, <<rows[leaders[i]]>>, group(leaders[i]), 1)]

GroupRows(s, rows, db, vars) ==
    IF s.group # <<>>
    THEN Grouped(rows,
                 [i \in DOMAIN rows |->
                     [g \in DOMAIN s.group |->
                         Eval(s.group[g], Env(db, vars, <<rows[i]>>, <<>>, 0))]],
                 db, vars)
    ELSE IF \E i \in DOMAIN s.proj : Aggregates(s.proj[i].e)
    THEN <<Env(db, vars, <<IF rows = <<>> THEN EmptyScope(s) ELSE rows[1]>>, rows, 1)>>
    ELSE [i \in DOMAIN rows |-> Env(db, vars, <<rows[i]>>, rows, i)]

HavingRows(s, units) ==
    SelectSeq(units, LAMBDA u : s.having = <<>> \/ Eval(s.having[1], u) = TRUE)

\* An unqualified sort key that is an output name stands for that output.
SortExpression(s, e) ==
    LET aliased == {i \in DOMAIN s.proj :
                       e.op = "name" /\ e.x.q = "" /\ s.proj[i].as = e.x.n}
    IN  IF aliased = {} THEN e ELSE s.proj[Min(aliased)].e

SortedBy(units, keys, desc) ==
    LET before(i, j) == IF keys[i] = keys[j] THEN i < j
                        ELSE LessOrNull(keys[i], keys[j]) # desc
        order == SetToSortSeq(DOMAIN units, before)
    IN  [i \in DOMAIN units |-> units[order[i]]]

OrderRows(s, units) ==
    IF s.order = <<>> THEN units
    ELSE SortedBy(units,
                  [i \in DOMAIN units |-> Eval(SortExpression(s, s.order[1].e), units[i])],
                  s.order[1].desc)

ProjectRows(s, units) ==
    [i \in DOMAIN units |-> [k \in DOMAIN s.proj |-> Eval(s.proj[k].e, units[i])]]

\* LIMIT and OFFSET read no row.
BoundValue(e, db, vars) ==
    [i \in DOMAIN e |-> Eval(e[i], Env(db, vars, <<>>, <<>>, 0))]

\* The rows of a SELECT, each the sequence of its projected values.
RECURSIVE EvalSelect(_, _, _)
EvalSelect(s, db, vars) ==
    LET base == IF s.from.inner = <<>> THEN db[s.from.res]
                ELSE NamedRows(s.from.inner[1].proj, EvalSelect(s.from.inner[1], db, vars))
        kept == WhereRows(s, JoinedRows(s, FromRows(s.from, base), db, vars), db, vars)
        units == HavingRows(s, GroupRows(s, kept, db, vars))
    IN  Cut(ProjectRows(s, OrderRows(s, units)),
            BoundValue(s.limit, db, vars), BoundValue(s.offset, db, vars))

\* What a write does: whether a NOT NULL constraint stopped it, the tables
\* after it, its RETURNING rows and the number of rows it affected.
ExecWrite(s, db, vars) ==
    LET scope(r) == [db |-> db, vars |-> vars, scopes |-> <<(s.res :> r)>>,
                     rows |-> <<>>, at |-> 0]
        matches(i) == s.where = <<>> \/ Eval(s.where[1], scope(db[s.res][i])) = TRUE
        assigned(old, sets) == [c \in DOMAIN Catalog[s.res] |->
            LET at == {i \in DOMAIN sets : sets[i].col = c} IN
            IF at = {} THEN old[c] ELSE Eval(sets[Max(at)].e, scope(old))]
        fresh(i) == assigned(NullRow(DOMAIN Catalog[s.res]), s.rows[i])
        touched == IF s.kind = "insert" THEN [i \in DOMAIN s.rows |-> fresh(i)]
                   ELSE LET ks == SelectSeq([i \in DOMAIN db[s.res] |-> i], matches)
                        IN  [k \in DOMAIN ks |->
                                IF s.kind = "update"
                                THEN assigned(db[s.res][ks[k]], s.sets)
                                ELSE db[s.res][ks[k]]]
        table == CASE s.kind = "insert" -> db[s.res] \o touched
                   [] s.kind = "update" ->
                        [i \in DOMAIN db[s.res] |->
                            IF matches(i) THEN assigned(db[s.res][i], s.sets)
                            ELSE db[s.res][i]]
                   [] s.kind = "delete" ->
                        LET ks == SelectSeq([i \in DOMAIN db[s.res] |-> i],
                                            LAMBDA i : ~matches(i))
                        IN  [k \in DOMAIN ks |-> db[s.res][ks[k]]]
    IN  [broken   |-> \E i \in DOMAIN touched, c \in DOMAIN Catalog[s.res] :
                         touched[i][c] = Null /\ ~Catalog[s.res][c].nullable,
         db       |-> [db EXCEPT ![s.res] = table],
         touched  |-> touched,
         rows     |-> [i \in DOMAIN touched |->
                          [k \in DOMAIN s.returning |->
                              Eval(s.returning[k].e, scope(touched[i]))]]]
============================================================================
