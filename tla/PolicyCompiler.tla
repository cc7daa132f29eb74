--------------------------- MODULE PolicyCompiler ---------------------------
(***************************************************************************)
(* crates/policysql-policy: a bundle is activated once, and every bound    *)
(* statement is rewritten with the policies of the caller's role.          *)
(*                                                                         *)
(* A bundle maps a resource and a role to at most one policy for each      *)
(* operation (a sequence of length 0 or 1).  A policy predicate is a Node: *)
(* "all", "any", "not" over predicates, and the leaves "cmp", "in" and     *)
(* "is_null" on a column of the policy's own resource.  An operand is a    *)
(* session key, a column or a literal.                                     *)
(***************************************************************************)
EXTENDS Binder

----------------------------------------------------------------------------
(* Activation: what a bundle must satisfy before any statement uses it.    *)

ActivateOperand(operand, res, type) ==
    CASE "session" \in DOMAIN operand -> type = "String"
      [] "column" \in DOMAIN operand ->
            /\ operand.column \in DOMAIN Catalog[res]
            /\ Catalog[res][operand.column].type = type
      [] "literal" \in DOMAIN operand ->
            operand.literal # Null /\ operand.type = type

ParseComparison(p, res) ==
    /\ p.x.col \in DOMAIN Catalog[res]
    /\ CASE p.op = "is_null" -> TRUE
         [] p.op = "in"  -> /\ p.x.values # <<>>
                            /\ \A i \in DOMAIN p.x.values :
                                  /\ "literal" \in DOMAIN p.x.values[i]
                                  /\ ActivateOperand(p.x.values[i], res,
                                                     Catalog[res][p.x.col].type)
         [] p.op = "cmp" -> /\ p.x.rel \in Relations
                            /\ ActivateOperand(p.x.operand, res,
                                               Catalog[res][p.x.col].type)

RECURSIVE ParsePredicate(_, _)
ParsePredicate(p, res) ==
    IF p.op \in {"all", "any", "not"}
    THEN p.args # <<>> /\ \A i \in DOMAIN p.args : ParsePredicate(p.args[i], res)
    ELSE ParseComparison(p, res)

NoRepeats(names) == \A i, j \in DOMAIN names : names[i] = names[j] => i = j

KnownColumns(names, res) ==
    NoRepeats(names) /\ \A i \in DOMAIN names : names[i] \in DOMAIN Catalog[res]

\* A column is either regular or visible under a condition, and the latter is
\* never nullable: its NULL is the redaction.
ActivateSelect(p, res) ==
    LET conditional == [i \in DOMAIN p.conditional |-> p.conditional[i].name] IN
    /\ p.columns \o conditional # <<>>
    /\ KnownColumns(p.columns \o conditional, res)
    /\ \A i \in DOMAIN p.conditional :
          /\ ~Catalog[res][conditional[i]].nullable
          /\ ParsePredicate(p.conditional[i].visible_if, res)
    /\ ParsePredicate(p.filter, res)

\* `returning` is absent (<<>>) or a list (<<names>>), which is not empty.
ActivateReturning(returning, res) ==
    \A i \in DOMAIN returning : returning[i] # <<>> /\ KnownColumns(returning[i], res)

\* A preset column is never one the caller may write, and a preset is not
\* read from the row.
ActivateWrite(p, res) ==
    /\ p.columns # <<>> /\ KnownColumns(p.columns, res)
    /\ \A c \in DOMAIN p.presets :
          /\ c \in DOMAIN Catalog[res] /\ ~Contains(p.columns, c)
          /\ "column" \notin DOMAIN p.presets[c]
          /\ ActivateOperand(p.presets[c], res, Catalog[res][c].type)
    /\ ParsePredicate(p.check, res)
    /\ ActivateReturning(p.returning, res)

ActivateInsert(p, res) == ActivateWrite(p, res)

ActivateUpdate(p, res) == ActivateWrite(p, res) /\ ParsePredicate(p.filter, res)

ActivateDelete(p, res) ==
    ParsePredicate(p.filter, res) /\ ActivateReturning(p.returning, res)

ActivateBundle(bundle) ==
    /\ DOMAIN bundle # {} /\ DOMAIN bundle \subseteq Resources
    /\ \A res \in DOMAIN bundle : \A role \in DOMAIN bundle[res] :
          LET policy == bundle[res][role] IN
          /\ \A i \in DOMAIN policy.select : ActivateSelect(policy.select[i], res)
          /\ \A i \in DOMAIN policy.insert : ActivateInsert(policy.insert[i], res)
          /\ \A i \in DOMAIN policy.update : ActivateUpdate(policy.update[i], res)
          /\ \A i \in DOMAIN policy.delete : ActivateDelete(policy.delete[i], res)

----------------------------------------------------------------------------
(* Instantiation: a policy predicate for one session, as an expression.    *)

InstantiateOperand(operand, res, session) ==
    CASE "session" \in DOMAIN operand ->
            IF operand.session \in DOMAIN session.values
            THEN Node("server", <<>>, [key |-> operand.session]) ELSE Invalid
      [] "column" \in DOMAIN operand -> ColumnOf(res, operand.column)
      [] "literal" \in DOMAIN operand ->
            Node("lit", <<>>, [type |-> operand.type, v |-> operand.literal])

\* `res` is the resource whose columns the predicate names.
RECURSIVE InstantiatePredicate(_, _, _)
InstantiatePredicate(p, res, session) ==
    LET sub == [i \in DOMAIN p.args |-> InstantiatePredicate(p.args[i], res, session)]
        column == ColumnOf(res, p.x.col)
        value(o) == InstantiateOperand(o, res, session)
        isNull == Node("isnull", <<column>>, NoX)
    IN
    CASE p.op = "all" -> FoldLeft(LAMBDA a, b : Node("and", <<a, b>>, NoX),
                                  Head(sub), Tail(sub))
      [] p.op = "any" -> FoldLeft(LAMBDA a, b : Node("or", <<a, b>>, NoX),
                                  Head(sub), Tail(sub))
      [] p.op = "not" -> Node("not", sub, NoX)
      [] p.op = "cmp" -> Node(p.x.rel, <<column, value(p.x.operand)>>, NoX)
      [] p.op = "in"  -> Node("in", <<column>> \o [i \in DOMAIN p.x.values |->
                                                      value(p.x.values[i])],
                              [negated |-> p.x.negated])
      [] p.op = "is_null" -> IF p.x.yes THEN isNull ELSE Node("not", <<isNull>>, NoX)

----------------------------------------------------------------------------
(* Protection of a SELECT.                                                 *)

Policies(bundle, session, op, res) ==
    IF res \in DOMAIN bundle /\ session.role \in DOMAIN bundle[res]
    THEN bundle[res][session.role][op] ELSE <<>>

\* The resources an expression's EXISTS and ROW_NUMBER read.
ExpressionResources(e) ==
    NestedResources(e) \cup {n.x.last : n \in {m \in ToSet(Nodes(e)) : m.op = "rownum"}}

\* The root, the joins and what the predicate reads; nothing else is searched.
StatementResources(s) ==
    {s.from.res} \cup {s.joins[i].res : i \in DOMAIN s.joins}
    \cup UNION {ExpressionResources(s.where[i]) : i \in DOMAIN s.where}

\* An expression of the client reads regular columns only.
ValidateClientExpression(e, regular) ==
    \A n \in ToSet(Nodes(e)) :
        /\ n.op = "column" => <<n.x.res, n.x.col>> \in regular
        /\ n.op # "cond"

ConditionalAt(policy, col) ==
    {i \in DOMAIN policy.conditional : policy.conditional[i].name = col}

\* A conditional column may only be an output of its own.
ApplyProjectionPermission(p, selected, session) ==
    IF p.e.op = "column"
    THEN LET policy == selected[p.e.x.res]
             at == ConditionalAt(policy, p.e.x.col)
         IN  IF Contains(policy.columns, p.e.x.col) THEN p
             ELSE IF at = {} THEN [p EXCEPT !.e = Invalid]
             ELSE [p EXCEPT !.e =
                      Node("cond", <<p.e, InstantiatePredicate(
                              policy.conditional[Min(at)].visible_if, p.e.x.res, session)>>,
                           NoX)]
    ELSE IF p.e.op \in {"count", "rownum", "concat", "case"} THEN p
    ELSE [p EXCEPT !.e = Invalid]

\* Mutant of AndFilter: a predicate of the client replaces the filter.
ClientPredicateFirst(where, filter) == IF where = <<>> THEN <<filter>> ELSE where

AndFilter(where, filter) == Conjoin(where, <<filter>>)

ApplyPolicyLimit(limit, policyLimit) ==
    IF policyLimit = <<>> THEN limit
    ELSE LET cap == Node("lit", <<>>, [type |-> "Int64", v |-> policyLimit[1]]) IN
         IF limit = <<>> THEN <<cap>>
         ELSE IF limit[1].op = "lit"
              THEN <<[cap EXCEPT !.x.v = Min({@, limit[1].x.v})]>>
              ELSE <<Node("least", <<limit[1], cap>>, NoX)>>

\* Mutant of ProtectNestedSelects: an EXISTS is left as the client wrote it.
LeavesNestedSelects(e, selected, session) == e

\* Every EXISTS below `e` is filtered with its own resource's policy; the list
\* of an EXISTS is left as it is.
RECURSIVE ProtectNestedSelects(_, _, _)
ProtectNestedSelects(e, selected, session) ==
    LET inner == MapArgs(e, LAMBDA k : ProtectNestedSelects(k, selected, session)) IN
    IF e.op # "exists" THEN inner
    ELSE [e EXCEPT
            !.args = ListItems(e) \o AndFilter(NestedWhere(inner),
                InstantiatePredicate(selected[e.x.res].filter, e.x.res, session)),
            !.x.limit = selected[e.x.res].limit]

\* COUNT and ROW_NUMBER need the grant of the resource they count.
AggregateAllowed(e, selected, regular) ==
    /\ e.op = "count" => selected[e.x.last].aggregations
    /\ e.op = "rownum" => /\ selected[e.x.last].windows
                          /\ ValidateClientExpression(e, regular)
    /\ e.op \in {"concat", "case"} => ValidateClientExpression(e, regular)

CompileSelect(s, bundle, session) ==
    LET resources == StatementResources(s)
        policy(r) == Policies(bundle, session, "select", r)
        granted == \A r \in resources : policy(r) # <<>>
        selected == [r \in resources |-> policy(r)[1]]
        regular == UNION {{<<r, c>> : c \in ToSet(selected[r].columns)} : r \in resources}
        filter(r) == InstantiatePredicate(selected[r].filter, r, session)
        proj == [i \in DOMAIN s.proj |->
                    ApplyProjectionPermission(s.proj[i], selected, session)]
        left == {s.joins[i].res : i \in {k \in DOMAIN s.joins : s.joins[k].kind = "left"}}
        inner == SelectSeq(s.joins, LAMBDA j : j.kind = "inner")
        nested == [i \in DOMAIN s.where |->
                      ProtectNestedSelects(s.where[i], selected, session)]
        limits == {selected[r].limit[1] : r \in {q \in resources : selected[q].limit # <<>>}}
        policyLimit == IF limits = {} THEN <<>> ELSE <<Min(limits)>>
    IN  IF ~granted THEN [s EXCEPT !.ok = FALSE]
        ELSE [s EXCEPT
            !.ok = /\ s.ok
                   /\ \A i \in DOMAIN proj : proj[i].e.op = "cond" =>
                         proj[i].e.args[1].x.res \notin left
                   /\ \A i \in DOMAIN s.proj : AggregateAllowed(s.proj[i].e, selected, regular)
                   /\ LET read == s.where \o Projected(s.order) \o s.group \o s.having
                                  \o [i \in DOMAIN s.joins |-> s.joins[i].on]
                      IN  \A i \in DOMAIN read : ValidateClientExpression(read[i], regular),
            !.proj  = proj,
            !.where = FoldLeft(LAMBDA w, j : AndFilter(w, filter(j.res)),
                               AndFilter(nested, filter(s.from.res)), inner),
            !.joins = [i \in DOMAIN s.joins |->
                          IF s.joins[i].kind = "inner" THEN s.joins[i]
                          ELSE [s.joins[i] EXCEPT !.on =
                                   Node("and", <<@, filter(s.joins[i].res)>>, NoX)]],
            !.limit = ApplyPolicyLimit(s.limit, policyLimit)]

----------------------------------------------------------------------------
(* Protection of the writes.                                               *)

ValidateReturning(returning, allowed) ==
    \A i \in DOMAIN returning :
        /\ returning[i].e.op = "column"
        /\ Contains(FlattenSeq(allowed), returning[i].e.x.col)

CallerMayWrite(sets, policy) ==
    \A i \in DOMAIN sets : Contains(policy.columns, sets[i].col)
                           /\ sets[i].col \notin DOMAIN policy.presets

WithPresets(sets, policy, res, session) ==
    sets \o [i \in 1..Cardinality(DOMAIN policy.presets) |->
                LET c == SetToSeq(DOMAIN policy.presets)[i] IN
                [col |-> c, e |-> InstantiateOperand(policy.presets[c], res, session)]]

CompileInsert(s, bundle, session) ==
    LET policies == Policies(bundle, session, "insert", s.res)
        p == policies[1]
    IN  IF policies = <<>> THEN [ok |-> FALSE] @@ s
        ELSE [ok |-> /\ s.ok /\ ValidateReturning(s.returning, p.returning)
                     /\ \A i \in DOMAIN s.rows : CallerMayWrite(s.rows[i], p),
              rows |-> [i \in DOMAIN s.rows |-> WithPresets(s.rows[i], p, s.res, session)],
              check |-> <<InstantiatePredicate(p.check, s.res, session)>>,
              affected |-> <<Len(s.rows)>>] @@ s

CompileUpdate(s, bundle, session) ==
    LET policies == Policies(bundle, session, "update", s.res)
        p == policies[1]
    IN  IF policies = <<>> THEN [ok |-> FALSE] @@ s
        ELSE [ok |-> /\ s.ok /\ ValidateReturning(s.returning, p.returning)
                     /\ CallerMayWrite(s.sets, p),
              sets |-> WithPresets(s.sets, p, s.res, session),
              where |-> AndFilter(s.where, InstantiatePredicate(p.filter, s.res, session)),
              check |-> <<InstantiatePredicate(p.check, s.res, session)>>,
              affected |-> <<>>] @@ s

CompileDelete(s, bundle, session) ==
    LET policies == Policies(bundle, session, "delete", s.res)
        p == policies[1]
    IN  IF policies = <<>> THEN [ok |-> FALSE] @@ s
        ELSE [ok |-> s.ok /\ ValidateReturning(s.returning, p.returning),
              where |-> AndFilter(s.where, InstantiatePredicate(p.filter, s.res, session)),
              check |-> <<>>,
              affected |-> <<>>] @@ s

CompilePolicy(s, bundle, session) ==
    CASE s.kind = "select" -> CompileSelect(s, bundle, session)
      [] s.kind = "insert" -> CompileInsert(s, bundle, session)
      [] s.kind = "update" -> CompileUpdate(s, bundle, session)
      [] s.kind = "delete" -> CompileDelete(s, bundle, session)
=============================================================================
