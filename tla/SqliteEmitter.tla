---------------------------- MODULE SqliteEmitter ----------------------------
(***************************************************************************)
(* crates/policysql-sqlite and crates/policysql-turso: a protected         *)
(* statement is emitted as SQL, the client's parameters are checked        *)
(* against the contracts the statement proves, the result columns are      *)
(* described, and the database's answer is validated against all of it.    *)
(*                                                                         *)
(* The emitter makes one alias per resource; here it is the resource's     *)
(* name.  Which string literals travel as server parameters, and the       *)
(* verifier that parses the emitted text again and compares the two        *)
(* syntax trees, are below this abstraction.                               *)
(***************************************************************************)
EXTENDS PolicyCompiler

CONSTANT MaxRows    \* limits.max_rows

----------------------------------------------------------------------------
(* Emission.                                                               *)

\* The resources of the EXISTS of a predicate, their lists left out.
RECURSIVE AllocateNestedAliases(_)
AllocateNestedAliases(e) ==
    LET below == IF e.op = "exists" THEN NestedWhere(e) ELSE e.args
    IN  (IF e.op = "exists" THEN {e.x.res} ELSE {})
        \cup UNION {AllocateNestedAliases(below[i]) : i \in DOMAIN below}

\* A write has its target unaliased.  A SELECT has an alias for its root, for
\* each join and for what its predicate reads; nothing else is searched.
AliasesForStatement(s) ==
    IF s.kind # "select" THEN (s.res :> "")
    ELSE LET aliased == {s.from.res} \cup {s.joins[i].res : i \in DOMAIN s.joins}
                        \cup UNION {AllocateNestedAliases(s.where[i]) : i \in DOMAIN s.where}
         IN  [r \in aliased |-> r]

RECURSIVE EmitExpression(_, _)
EmitExpression(e, aliases) ==
    LET inner == MapArgs(e, LAMBDA k : EmitExpression(k, aliases)) IN
    CASE e.op = "column" -> IF e.x.res \notin DOMAIN aliases THEN Invalid
                            ELSE Node("name", <<>>, [q |-> aliases[e.x.res], n |-> e.x.col])
      [] e.op = "param"  -> Node("var", <<>>, [var |-> e.x.name])
      [] e.op = "server" -> Node("var", <<>>, [var |-> e.x.key])
      [] e.op = "cond"   -> Node("case", <<inner.args[2], inner.args[1]>>, [type |-> "any"])
      [] e.op = "exists" -> IF e.x.res \notin DOMAIN aliases THEN Invalid
                            ELSE [inner EXCEPT !.x.alias = aliases[e.x.res]]
      [] OTHER           -> inner

\* Mutant of TruthColumn: only FALSE is FALSE, so UNKNOWN passes.
NotFalseColumn(condition, aliases, name) ==
    [e  |-> Node("case", <<Node("not", <<EmitExpression(condition, aliases)>>, NoX),
                           Node("lit", <<>>, [type |-> "Boolean", v |-> FALSE]),
                           Node("lit", <<>>, [type |-> "Boolean", v |-> TRUE])>>,
                 [type |-> "Boolean"]),
     as |-> name]

\* TRUE when the condition is TRUE, else FALSE: UNKNOWN is not TRUE.
TruthColumn(condition, aliases, name) ==
    [e  |-> Node("case", <<EmitExpression(condition, aliases),
                           Node("lit", <<>>, [type |-> "Boolean", v |-> TRUE]),
                           Node("lit", <<>>, [type |-> "Boolean", v |-> FALSE])>>,
                 [type |-> "Boolean"]),
     as |-> name]

\* A conditional output is followed by the column that says whether it shows.
EmitProjections(projections, aliases) ==
    FlattenSeq([i \in DOMAIN projections |->
        <<[projections[i] EXCEPT !.e = EmitExpression(@, aliases)]>>
        \o IF projections[i].e.op = "cond"
           THEN <<TruthColumn(projections[i].e.args[2], aliases, "__policysql_visible")>>
           ELSE <<>>])

EmitSelect(s) ==
    LET a == AliasesForStatement(s)
        each(es) == [i \in DOMAIN es |-> EmitExpression(es[i], a)]
    IN  [s EXCEPT
            !.from.alias = a[s.from.res],
            !.joins  = [i \in DOMAIN s.joins |->
                           [s.joins[i] EXCEPT !.on = EmitExpression(@, a),
                                              !.alias = a[s.joins[i].res]]],
            !.proj   = EmitProjections(s.proj, a),
            !.where  = each(s.where),
            !.group  = each(s.group),
            !.having = each(s.having),
            !.order  = [i \in DOMAIN s.order |->
                           [s.order[i] EXCEPT !.e = EmitExpression(@, a)]],
            !.limit  = each(s.limit),
            !.offset = each(s.offset)]

EmitSets(sets, aliases) ==
    [k \in DOMAIN sets |-> [sets[k] EXCEPT !.e = EmitExpression(@, aliases)]]

\* INSERT and UPDATE return the post-state check as their last column.
EmitReturning(s) ==
    LET a == AliasesForStatement(s) IN
    EmitProjections(s.returning, a)
    \o [i \in DOMAIN s.check |-> TruthColumn(s.check[i], a, "__policysql_check")]

EmitWrite(s) ==
    LET a == AliasesForStatement(s)
        where == [i \in DOMAIN s.where |-> EmitExpression(s.where[i], a)]
    IN  CASE s.kind = "insert" ->
                [s EXCEPT !.rows = [i \in DOMAIN s.rows |-> EmitSets(s.rows[i], a)],
                          !.returning = EmitReturning(s)]
          [] s.kind = "update" ->
                [s EXCEPT !.sets = EmitSets(s.sets, a), !.where = where,
                          !.returning = EmitReturning(s)]
          [] s.kind = "delete" -> [s EXCEPT !.where = where, !.returning = EmitReturning(s)]

Emit(s) == IF s.kind = "select" THEN EmitSelect(s) ELSE EmitWrite(s)

----------------------------------------------------------------------------
(* Client parameters.  A use is a parameter with its type and whether it   *)
(* is a direct assignment to a nullable column.                            *)

AssignmentUses(sets, res) ==
    {[name |-> sets[k].e.x.name, type |-> sets[k].e.x.type,
      nullable |-> Catalog[res][sets[k].col].nullable] :
        k \in {i \in DOMAIN sets : sets[i].e.op = "param"}}

OtherUses(es) ==
    UNION {{[name |-> n.x.name, type |-> n.x.type, nullable |-> FALSE] :
               n \in {m \in ToSet(Nodes(es[i])) : m.op = "param"}} :
           i \in DOMAIN es}

ParameterUses(s) ==
    CASE s.kind = "select" -> OtherUses(Expressions(s))
      [] s.kind = "insert" -> UNION {AssignmentUses(s.rows[i], s.res) : i \in DOMAIN s.rows}
      [] s.kind = "update" -> AssignmentUses(s.sets, s.res) \cup OtherUses(s.where)
      [] s.kind = "delete" -> OtherUses(s.where)

\* Mutant of ValidateClientParameters: one nullable use is proof enough.
AnyNullableUse(s, values) ==
    LET uses == ParameterUses(s) IN
    /\ DOMAIN values = {u.name : u \in uses}
    /\ \A u, w \in uses : u.name = w.name => u.type = w.type
    /\ \A u \in uses : values[u.name].v = Null \/ values[u.name].type = u.type
    /\ \A n \in DOMAIN values :
          values[n].v = Null => \E u \in uses : u.name = n /\ u.nullable

\* NULL is accepted only where every use of the parameter proves it.
ValidateClientParameters(s, values) ==
    LET uses == ParameterUses(s) IN
    /\ DOMAIN values = {u.name : u \in uses}
    /\ \A u, w \in uses : u.name = w.name => u.type = w.type
    /\ \A u \in uses : values[u.name].v = Null \/ values[u.name].type = u.type
    /\ \A n \in DOMAIN values :
          values[n].v = Null => \A u \in uses : u.name = n => u.nullable

----------------------------------------------------------------------------
(* Result columns: whether NULL may appear, and whether it may be a        *)
(* redaction.                                                              *)

\* Mutant of LeftJoined: the rows a LEFT JOIN pads with NULL are forgotten.
NeverPadded(s, res) == FALSE

LeftJoined(s, res) ==
    s.kind = "select" /\ \E i \in DOMAIN s.joins :
        s.joins[i].kind = "left" /\ s.joins[i].res = res

RECURSIVE ExpressionNullable(_, _)
ExpressionNullable(e, s) ==
    CASE e.op = "column" -> Catalog[e.x.res][e.x.col].nullable \/ LeftJoined(s, e.x.res)
      [] e.op = "concat" -> \E i \in 1..2 : ExpressionNullable(e.args[i], s)
      [] e.op = "case"   -> \/ Len(e.args) % 2 = 0
                            \/ \E i \in DOMAIN e.args :
                                  /\ i % 2 = 0 \/ i = Len(e.args)
                                  /\ ExpressionNullable(e.args[i], s)
      [] e.op \in {"param", "lit"} -> FALSE
      [] OTHER -> TRUE

ResultDescriptors(s) ==
    LET outputs == IF s.kind = "select" THEN s.proj ELSE s.returning
        describe(e) ==
            CASE e.op = "cond" -> [nullable |-> TRUE, conditional |-> TRUE]
              [] e.op \in {"count", "rownum"} -> [nullable |-> FALSE, conditional |-> FALSE]
              [] OTHER -> [nullable |-> ExpressionNullable(e, s), conditional |-> FALSE]
    IN  [i \in DOMAIN outputs |-> describe(outputs[i].e)]

----------------------------------------------------------------------------
(* The sealed plan, and the validation of what the database returned.      *)

\* What every sealed plan has; `rows` is the result count the request expects.
SealedPlan(s, values, rows) ==
    LET emitted == Emit(s) IN
    [ok       |-> /\ s.ok /\ Accepted(emitted)
                  /\ ValidateClientParameters(s, values),
     sql      |-> emitted,
     result   |-> ResultDescriptors(s),
     rows     |-> rows,
     affected |-> <<>>,
     checked  |-> FALSE]

CompileVerifiedSelect(s, values, rows) == SealedPlan(s, values, rows)

\* An INSERT knows its affected rows, and it and an UPDATE their check.
CompileVerifiedInsert(s, values, rows) ==
    [SealedPlan(s, values, rows) EXCEPT
        !.ok = @ /\ s.check # <<>> /\ s.affected # <<>>,
        !.affected = s.affected,
        !.checked = TRUE]

CompileVerifiedUpdate(s, values, rows) ==
    [SealedPlan(s, values, rows) EXCEPT
        !.ok = @ /\ s.check # <<>>,
        !.affected = s.affected,
        !.checked = TRUE]

CompileVerifiedDelete(s, values, rows) ==
    [SealedPlan(s, values, rows) EXCEPT
        !.ok = @ /\ s.check = <<>>,
        !.affected = s.affected]

CompileVerified(s, values, rows) ==
    CASE s.kind = "select" -> CompileVerifiedSelect(s, values, rows)
      [] s.kind = "insert" -> CompileVerifiedInsert(s, values, rows)
      [] s.kind = "update" -> CompileVerifiedUpdate(s, values, rows)
      [] s.kind = "delete" -> CompileVerifiedDelete(s, values, rows)

\* Where descriptor d starts in a physical row: a conditional one takes two.
Position(result, d) ==
    d + Cardinality({i \in 1..(d - 1) : result[i].conditional})

StripVisibility(result, rows) ==
    [r \in DOMAIN rows |->
        [d \in DOMAIN result |-> rows[r][Position(result, d)]]]

\* A hidden value must have arrived as NULL, and a NULL must be described.
Contradicts(result, rows) ==
    \E r \in DOMAIN rows, d \in DOMAIN result :
        LET at == Position(result, d) IN
        \/ rows[r][at] = Null /\ ~result[d].nullable
        \/ result[d].conditional /\ rows[r][at + 1] = FALSE /\ rows[r][at] # Null

\* Mutant of ValidatePublicResult: one row too many passes.
OneRowTooMany(plan, rows) ==
    CASE Len(rows) > MaxRows + 1 -> "limit_exceeded"
      [] Contradicts(plan.result, rows) -> "invalid_result"
      [] plan.rows # <<>> /\ plan.rows[1] # Len(rows) -> "expectation_failed"
      [] OTHER -> "ok"

ValidatePublicResult(plan, rows) ==
    CASE Len(rows) > MaxRows -> "limit_exceeded"
      [] Contradicts(plan.result, rows) -> "invalid_result"
      [] plan.rows # <<>> /\ plan.rows[1] # Len(rows) -> "expectation_failed"
      [] OTHER -> "ok"

\* A write without RETURNING answers no rows.
PublicRows(plan, rows) == IF plan.result = <<>> THEN <<>> ELSE rows

\* Mutant of ValidateMutationResult: the check is judged, the count is not.
CountIgnored(plan, rows) ==
    CASE plan.checked /\ \E r \in DOMAIN rows : Last(rows[r]) # TRUE -> "check_failed"
      [] OTHER -> ValidatePublicResult(plan, PublicRows(plan, rows))

ValidateMutationResult(plan, rows) ==
    CASE plan.affected # <<>> /\ plan.affected[1] # Len(rows) -> "expectation_failed"
      [] plan.checked /\ \E r \in DOMAIN rows : Last(rows[r]) # TRUE -> "check_failed"
      [] OTHER -> ValidatePublicResult(plan, PublicRows(plan, rows))
==============================================================================
