--------------------------- MODULE ProtectedQuery ---------------------------
(***************************************************************************)
(* One statement through the whole pipeline of the gateway: the deployment *)
(* activates its bundle, the session is authorized, the statement is bound, *)
(* protected by the caller's policies, emitted and sealed, run in a         *)
(* transaction, and its result is validated before the transaction may      *)
(* commit and the caller is answered.                                       *)
(*                                                                         *)
(* The properties compare the answer with a reference that knows nothing   *)
(* of the pipeline: the client's own statement, run on a database in which *)
(* every resource was replaced by what its policy shows.                   *)
(***************************************************************************)
EXTENDS RuntimeBoundary

CONSTANTS
    Requests,       \* [sql, values, expect]: the client's statement, its parameters
                    \* and what it expects of the result
    Bundles,        \* policy bundles as written by the deployment
    Sessions,       \* sessions the wrapper vouches for, with the requested role
    Databases       \* tables a database may hold

VARIABLES
    request,        \* what the caller sent
    bundle,         \* the deployment's bundle
    session,        \* the caller's session
    auth,           \* the canonical session that authorization made of it
    before,         \* the database before the statement
    database,       \* the committed database
    stage,          \* how far the statement got, or how it ended
    plan,           \* the statement after the last pass, then the sealed plan
    work,           \* the open transaction: its tables and the physical rows
    reply           \* the rows answered to the caller

vars == <<request, bundle, session, before, auth, database, stage, plan, work, reply>>

inputs == <<request, bundle, session, before>>

NoWork == [db |-> Null, rows |-> <<>>]

Init ==
    /\ request \in Requests
    /\ bundle \in Bundles
    /\ session \in Sessions
    /\ before \in Databases
    /\ auth = [outcome |-> "none"]
    /\ database = before
    /\ stage = "deploying"
    /\ plan = [ok |-> TRUE]
    /\ work = NoWork
    /\ reply = <<>>

----------------------------------------------------------------------------

Activate ==
    /\ stage = "deploying"
    /\ stage' = IF ActivateBundle(bundle) THEN "received" ELSE "bundle_refused"
    /\ UNCHANGED <<inputs, auth, database, plan, work, reply>>

Authorize ==
    /\ stage = "received"
    /\ auth' = AuthorizeSession(session, session.requested, "execute")
    /\ stage' = auth'.outcome
    /\ UNCHANGED <<inputs, database, plan, work, reply>>

Bind ==
    /\ stage = "authorized"
    /\ plan' = BindDocument(request.sql)
    /\ stage' = IF ActivateAuthorized(auth, "execute") # auth THEN "internal"
                ELSE IF Accepted(plan') THEN "bound" ELSE "bind_refused"
    /\ UNCHANGED <<inputs, auth, database, work, reply>>

Protect ==
    /\ stage = "bound"
    /\ plan' = CompilePolicy(plan, bundle, TrustedSession(auth))
    /\ stage' = IF Accepted(plan') THEN "protected" ELSE "policy_refused"
    /\ UNCHANGED <<inputs, auth, database, work, reply>>

Seal ==
    /\ stage = "protected"
    /\ LET refused == RefusedExpectation(plan, request.expect) IN
       /\ plan' = CompileVerified(WithExpectation(plan, request.expect), request.values,
                                  request.expect.rows)
       /\ stage' = IF refused # "none" THEN refused
                   ELSE IF plan'.ok THEN "sealed" ELSE "seal_refused"
    /\ UNCHANGED <<inputs, auth, database, work, reply>>

\* Client parameters and session values are bound under separate names.
Bindings == [n \in DOMAIN request.values |-> request.values[n].v] @@ TrustedSession(auth).values

Execute ==
    /\ stage = "sealed"
    /\ IF plan.sql.kind = "select"
       THEN /\ work' = [db   |-> database,
                        rows |-> EvalSelect(plan.sql, database, Bindings)]
            /\ stage' = "executed"
       ELSE LET result == ExecWrite(plan.sql, database, Bindings) IN
            IF result.broken
            THEN stage' = "database_refused" /\ UNCHANGED work
            ELSE /\ work' = [db |-> result.db, rows |-> result.rows]
                 /\ stage' = "executed"
    /\ UNCHANGED <<inputs, auth, database, plan, reply>>

\* The verdict on the result: commit and answer, or roll back.
Finish ==
    /\ stage = "executed"
    /\ LET verdict == IF plan.sql.kind = "select"
                      THEN ValidatePublicResult(plan, work.rows)
                      ELSE ValidateMutationResult(plan, work.rows)
       IN  IF verdict = "ok"
           THEN /\ database' = work.db
                /\ reply' = StripVisibility(plan.result, PublicRows(plan, work.rows))
                /\ stage' = "answered"
           ELSE /\ stage' = verdict
                /\ UNCHANGED <<database, reply>>
    /\ work' = NoWork
    /\ UNCHANGED <<inputs, auth, plan>>

Next == Activate \/ Authorize \/ Bind \/ Protect \/ Seal \/ Execute \/ Finish

Spec == Init /\ [][Next]_vars

----------------------------------------------------------------------------
(* The reference.                                                          *)

\* Policy predicates on plain rows, as the test kit's oracle evaluates them; a
\* session value that is missing is unknown.
OracleOperand(operand, row, who) ==
    CASE "session" \in DOMAIN operand ->
            IF operand.session \in DOMAIN who.values
            THEN who.values[operand.session] ELSE Null
      [] "column" \in DOMAIN operand  -> row[operand.column]
      [] "literal" \in DOMAIN operand -> operand.literal

RECURSIVE Oracle(_, _, _)
Oracle(p, row, who) ==
    LET sub(i) == Oracle(p.args[i], row, who)
        value(o) == OracleOperand(o, row, who)
        listed == In3(row[p.x.col], [i \in DOMAIN p.x.values |-> value(p.x.values[i])])
        all == \A i \in DOMAIN p.args : sub(i) = TRUE
        none == \A i \in DOMAIN p.args : sub(i) = FALSE
    IN
    CASE p.op = "all" -> IF \E i \in DOMAIN p.args : sub(i) = FALSE THEN FALSE
                         ELSE IF all THEN TRUE ELSE Null
      [] p.op = "any" -> IF \E i \in DOMAIN p.args : sub(i) = TRUE THEN TRUE
                         ELSE IF none THEN FALSE ELSE Null
      [] p.op = "not" -> Not3(sub(1))
      [] p.op = "cmp" -> Compare3(p.x.rel, row[p.x.col], value(p.x.operand))
      [] p.op = "in"  -> IF p.x.negated THEN Not3(listed) ELSE listed
      [] p.op = "is_null" -> (row[p.x.col] = Null) = p.x.yes

\* The session the caller is entitled to: the role it asks for, or else its
\* default role, and the wrapper's values with its subject.
Claimed ==
    [role   |-> IF session.requested = <<>> THEN session.default ELSE session.requested[1],
     values |-> session.values @@ [subject_id |-> session.subject]]

PolicyOf(op, res) == Policies(bundle, Claimed, op, res)[1]

\* What the caller's select policy shows of a row.
Shown(policy, row) ==
    [c \in DOMAIN row |->
        LET at == ConditionalAt(policy, c) IN
        IF at # {} /\ Oracle(policy.conditional[Min(at)].visible_if, row, Claimed) # TRUE
        THEN Null ELSE row[c]]

\* Each resource replaced by the rows and values its select policy shows; a
\* resource the caller has no policy for is empty.
PolicyView ==
    [res \in Resources |->
        IF Policies(bundle, Claimed, "select", res) = <<>> THEN <<>>
        ELSE LET p == PolicyOf("select", res)
                 visible == SelectSeq(before[res],
                                      LAMBDA row : Oracle(p.filter, row, Claimed) = TRUE)
             IN  [i \in DOMAIN visible |-> Shown(p, visible[i])]]

\* The resources a client statement reads, wherever they are named.
RECURSIVE ClientResources(_)
ClientResources(s) ==
    {s.from.res} \cup {s.joins[i].res : i \in DOMAIN s.joins}
    \cup UNION {NestedResources(Expressions(s)[i]) : i \in DOMAIN Expressions(s)}
    \cup UNION {ClientResources(s.from.inner[i]) : i \in DOMAIN s.from.inner}

\* The strictest row limit among the policies of those resources.
PolicyCap ==
    LET limits == UNION {ToSet(PolicyOf("select", r).limit) :
                            r \in ClientResources(request.sql)}
    IN  IF limits = {} THEN <<>> ELSE <<Min(limits)>>

\* LIMIT is a parameter and its value is negative, which SQLite takes as no
\* limit, and so the emitted MIN(:p, cap): bind_limit takes any Int64.
NegativeLimit(r) ==
    /\ r.sql.kind = "select" /\ r.sql.limit # <<>> /\ r.sql.limit[1].op = "var"
    /\ LET v == r.values[r.sql.limit[1].x.var].v IN v # Null /\ v < 0

ViewAnswer ==
    Cut(EvalSelect(request.sql, PolicyView, Bindings),
        IF NegativeLimit(request) THEN <<>> ELSE PolicyCap, <<>>)

\* Three kinds of statement the binder or the compiler takes to mean something
\* else than SQLite does, or protects in part: the reference above does not
\* describe what the code answers them.

\* An EXISTS outside WHERE has no row filter (finding RowFilterEverywhere).
OutsideWhere(s) ==
    Projected(s.proj) \o s.having \o [i \in DOMAIN s.joins |-> s.joins[i].on]

UnfilteredExists(s) ==
    s.kind = "select" /\ \E i \in DOMAIN OutsideWhere(s) : HasOp(OutsideWhere(s)[i], "exists")

\* The name of an EXISTS source is that of a source around it, and its WHERE
\* uses it: bind_exists compares resources and not names, and
\* resolve_direct_column takes the outermost source of that name.
ShadowedAlias(s) ==
    /\ s.kind = "select"
    /\ LET outer == {Qualifier(s.from)} \cup {Qualifier(s.joins[i]) : i \in DOMAIN s.joins}
           nodes(es) == UNION {ToSet(Nodes(es[i])) : i \in DOMAIN es}
       IN  \E e \in nodes(Expressions(s)) :
              /\ e.op = "exists" /\ e.x.alias \in outer
              /\ \E n \in nodes(NestedWhere(e)) : n.op = "name" /\ n.x.q = e.x.alias

\* An unqualified ORDER BY name that is both a column of FROM and the name of
\* another output: bind_select takes the column, SQLite the output.
AmbiguousSortKey(s) ==
    /\ s.kind = "select"
    /\ \E i \in DOMAIN s.order, k \in DOMAIN s.proj :
          LET n == s.order[i].e.x.n IN
          /\ s.order[i].e.x.q = "" /\ s.proj[k].as = n
          /\ s.proj[k].e.op # "name" \/ s.proj[k].e.x.n # n
          /\ \E r \in {s.from.res} \cup {s.joins[j].res : j \in DOMAIN s.joins} :
                n \in DOMAIN Catalog[r]

TakenOtherwise(s) == UnfilteredExists(s) \/ ShadowedAlias(s) \/ AmbiguousSortKey(s)

\* The rows that the select policies do not hide, their values untouched.
VisibleRows ==
    [res \in Resources |->
        IF Policies(bundle, Claimed, "select", res) = <<>> THEN <<>>
        ELSE SelectSeq(before[res],
                 LAMBDA row : Oracle(PolicyOf("select", res).filter, row, Claimed) = TRUE)]

\* The client's write on a table that holds only `rows`.
WriteOn(sql, rows) == ExecWrite(sql, [before EXCEPT ![sql.res] = rows], Bindings)

Preset(policy, row) ==
    [c \in DOMAIN row |-> IF c \in DOMAIN policy.presets
                          THEN OracleOperand(policy.presets[c], row, Claimed) ELSE row[c]]

AllowedInsert(sql, policy, touched) ==
    [rows     |-> before[sql.res] \o [k \in DOMAIN touched |-> Preset(policy, touched[k])],
     affected |-> Len(touched)]

\* The write alone on each row, where the filter lets it: `done[i]` is what it
\* did to row i.
AllowedRewrite(sql, policy, done) ==
    LET left(i) == done[i].db[sql.res]
        new(row) == IF sql.kind = "delete" THEN row ELSE Preset(policy, row)
        touched(i) == done[i].touched # <<>>
                      /\ Oracle(policy.filter, before[sql.res][i], Claimed) = TRUE
    IN  [rows     |-> FlattenSeq([i \in DOMAIN done |->
                         IF touched(i) THEN [k \in DOMAIN left(i) |-> new(left(i)[k])]
                         ELSE <<before[sql.res][i]>>]),
         affected |-> Cardinality({i \in DOMAIN done : touched(i)})]

\* The client's write, restricted to the rows its policy lets it touch and
\* completed with the presets.
AllowedWrite ==
    LET sql == request.sql IN
    IF sql.kind = "insert"
    THEN AllowedInsert(sql, PolicyOf("insert", sql.res), WriteOn(sql, <<>>).touched)
    ELSE AllowedRewrite(sql, PolicyOf(sql.kind, sql.res),
                        [i \in DOMAIN before[sql.res] |-> WriteOn(sql, <<before[sql.res][i]>>)])

----------------------------------------------------------------------------
(* Properties.                                                             *)

\* The pipeline's own record: stages, and a transaction open only while one runs.
TypeOK ==
    /\ stage \in {"deploying", "bundle_refused", "received", "session_malformed", "forbidden",
                  "authorized", "bind_refused", "bound", "invalid_request",
                  "policy_refused", "protected", "seal_refused", "sealed",
                  "database_refused", "executed", "answered", "limit_exceeded",
                  "invalid_result", "expectation_failed", "check_failed"}
    /\ work # NoWork <=> stage = "executed"
    /\ reply # <<>> => stage = "answered"
    /\ Len(reply) <= MaxRows

\* compile_select with the binder before it and the emitter after it: an
\* answered SELECT holds exactly what the client's own statement finds in a
\* database that contains only what the caller's policies show, cut to the
\* strictest policy limit (a negative LIMIT parameter lifts both limits).  Row
\* filters, conditional columns, joins, EXISTS, grouping, flattened derived
\* tables, name resolution and NULL all meet here.  It is about every statement
\* but the three kinds of TakenOtherwise, of which it is false.
SelectIsViewQuery ==
    stage = "answered" /\ request.sql.kind = "select" /\ ~TakenOtherwise(request.sql)
        => reply = ViewAnswer

\* docs/security-model.md, invariants 4 and 6: every base-table access is
\* filtered.  The sealed SQL of an answered SELECT finds the same rows in a
\* database from which the rows its policies hide were removed.  Violated:
\* compile_select filters the EXISTS of the predicate only.
RowFilterEverywhere ==
    stage = "answered" /\ request.sql.kind = "select" =>
        reply = StripVisibility(plan.result, EvalSelect(plan.sql, VisibleRows, Bindings))

\* The same of every SELECT that has its EXISTS in WHERE, shadowed aliases and
\* ambiguous sort keys included: whatever the binder takes a name to mean,
\* and wherever a filter went, no hidden row reaches or shapes the answer.
HiddenRowsDoNotMatter == ~UnfilteredExists(request.sql) => RowFilterEverywhere


\* compile_insert, compile_update, compile_delete and the post-state check: a
\* write that is answered changed exactly the rows the client asked for and its
\* policy lets it touch, with the presets in place, and every row it left there
\* satisfies the check; any other outcome changed nothing.
WriteIsPolicyWrite ==
    LET sql == request.sql IN
    IF stage # "answered" \/ sql.kind = "select" THEN database = before
    ELSE /\ database = [before EXCEPT ![sql.res] = AllowedWrite.rows]
         /\ sql.kind # "delete" =>
               \A i \in DOMAIN database[sql.res] :
                  \/ \E k \in DOMAIN before[sql.res] :
                        before[sql.res][k] = database[sql.res][i]
                  \/ Oracle(PolicyOf(sql.kind, sql.res).check,
                            database[sql.res][i], Claimed) = TRUE

\* The bare columns beside COUNT(*) are NULL when no row is left to count: the
\* one accepted query whose descriptors the database contradicts.
BareColumnOfEmptyCount ==
    /\ request.sql.kind = "select" /\ request.sql.group = <<>>
    /\ \E i, j \in DOMAIN request.sql.proj :
          /\ request.sql.proj[i].e.op = "count" /\ request.sql.proj[j].e.op = "name"
          /\ EvalSelect(plan.sql, database, Bindings)[1][Position(plan.result, i)] = 0

\* result_descriptors and validate_value: a query the compiler accepted is not
\* refused afterwards because the database returned a NULL, or a redacted
\* value, that its descriptors exclude.
DescriptorsHold == stage = "invalid_result" => BareColumnOfEmptyCount

\* The nullability proof of client parameters: a write that the compiler sealed
\* and that sets every required column never breaks NOT NULL.
AcceptedWriteStores ==
    stage = "database_refused" =>
        /\ request.sql.kind = "insert"
        /\ \E c \in DOMAIN Catalog[request.sql.res] :
              /\ ~Catalog[request.sql.res][c].nullable
              /\ c \notin DOMAIN PolicyOf("insert", request.sql.res).presets
              /\ \A k \in DOMAIN request.sql.rows[1] : request.sql.rows[1][k].col # c

\* A SELECT affects no row: one that expects to is an invalid request, not a
\* failed expectation.
SelectMeets(expect, rows) == expect.rows \in {<<>>, <<rows>>}

WriteMeets(expect, returning, affected) ==
    /\ expect.rows \in {<<>>, <<IF returning = <<>> THEN 0 ELSE affected>>}
    /\ expect.affected \in {<<>>, <<affected>>}

WouldMeet(sql, expect) ==
    IF sql.kind = "select" THEN SelectMeets(expect, Len(ViewAnswer))
    ELSE WriteMeets(expect, sql.returning, AllowedWrite.affected)

\* expected_affected_rows and expected_row_count: what is answered is what the
\* request expected, and a request is refused for its expectation only when
\* the client's statement, on what its policy shows, really misses it.
ExpectationsDecide ==
    stage \in {"answered", "expectation_failed"} /\ ~TakenOtherwise(request.sql) =>
        (WouldMeet(request.sql, request.expect) <=> stage = "answered")

----------------------------------------------------------------------------
(* The catalog.                                                            *)

ColumnsIn(e) == {n.x : n \in {m \in ToSet(Nodes(e)) : m.op = "column"}}

\* How a bound SELECT uses columns: [res, col, usage].  A column inside an
\* expression of the select list counts as a predicate's.
ColumnUses(s) ==
    LET uses(es, usage) == UNION {{[res |-> c.res, col |-> c.col, usage |-> usage] :
                                      c \in ColumnsIn(es[i])} : i \in DOMAIN es}
        outputs(ops) == SelectSeq(Projected(s.proj), LAMBDA e : e.op \in ops)
    IN  uses(outputs({"column"}), "projection")
        \cup uses(outputs({"concat", "case"}), "predicate")
        \cup uses(outputs({"rownum"}), "window")
        \cup uses(s.where \o s.having, "predicate")
        \cup uses([i \in DOMAIN s.joins |-> s.joins[i].on], "join")
        \cup uses(Projected(s.order), "order")
        \cup uses(s.group, "group")

\* GROUP BY is granted with "predicate": the compiler asks for the aggregation
\* grant where COUNT is an output.
ListedUse(listed, u) ==
    LET columns == listed[u.res].select.columns IN
    /\ u.res \in DOMAIN listed /\ u.col \in DOMAIN columns
    /\ (IF u.usage = "group" THEN "predicate" ELSE u.usage) \in columns[u.col]

ListedWrite(listed, s) ==
    /\ s.res \in DOMAIN listed /\ listed[s.res][s.kind] # <<>>
    /\ LET access == listed[s.res][s.kind][1]
           sets == CASE s.kind = "insert" -> FlattenSeq(s.rows)
                     [] s.kind = "update" -> s.sets
                     [] s.kind = "delete" -> <<>>
       IN  /\ \A i \in DOMAIN sets : sets[i].col \in access.columns
           /\ \A i \in DOMAIN s.returning : s.returning[i].e.x.col \in access.returning

ListedSelect(listed, s) ==
    /\ StatementResources(s) \subseteq DOMAIN listed
    /\ \A u \in ColumnUses(s) : ListedUse(listed, u)
    /\ \A i \in DOMAIN s.proj : s.proj[i].e.op = "count" =>
          listed[s.proj[i].e.x.last].select.aggregations

\* A conditional column of a LEFT JOINed resource is listed and still refused:
\* its NULL could be either.
PaddedConditional(listed, s) ==
    s.kind = "select" /\ \E i \in DOMAIN s.proj :
        LET e == s.proj[i].e IN
        /\ e.op = "column" /\ LeftJoined(s, e.x.res)
        /\ "predicate" \notin listed[e.x.res].select.columns[e.x.col]

\* A policy that needs a session value the caller does not have.
RECURSIVE SessionKeys(_)
SessionKeys(p) ==
    UNION {SessionKeys(p.args[i]) : i \in DOMAIN p.args}
    \cup (IF p.op = "cmp" /\ "session" \in DOMAIN p.x.operand
          THEN {p.x.operand.session} ELSE {})

MissingSessionValue(s) ==
    s.kind = "select" /\ \E res \in StatementResources(s) :
        \E i \in DOMAIN Policies(bundle, Claimed, "select", res) :
            ~(SessionKeys(PolicyOf("select", res).filter) \subseteq DOMAIN Claimed.values)

\* Policies are sought for the root, the joins and the EXISTS of WHERE: an
\* EXISTS elsewhere that reads a column of another resource is refused,
\* whatever the catalog lists.
ExistsOutsideWhere(s) ==
    s.kind = "select" /\ \E i \in DOMAIN OutsideWhere(s) :
        \E c \in ColumnsIn(OutsideWhere(s)[i]) : c.res \notin StatementResources(s)

\* What a request may reach, by the catalog that lists `listed`.
Honest(listed, s, allowed) ==
    /\ stage \in {"sealed", "answered"} => allowed
    /\ stage = "policy_refused" =>
          \/ ~allowed \/ PaddedConditional(listed, s)
          \/ MissingSessionValue(s) \/ ExistsOutsideWhere(s)
    /\ stage = "answered" /\ s.kind = "select" /\ ~NegativeLimit(request) =>
          Len(reply) <= Min({listed[r].select.max_rows : r \in StatementResources(s)})

ListedStatement(listed, s) ==
    IF s.kind = "select" THEN ListedSelect(listed, s) ELSE ListedWrite(listed, s)

HonestAbout(listed, s) == Honest(listed, s, ListedStatement(listed, s))

\* catalog and the compiler's permission checks agree, two paths over the same
\* policies: a statement that reaches the database uses only what the caller's
\* catalog lists, and returns no more rows than it says (unless its LIMIT
\* parameter is negative); one the policies refuse uses something that is not
\* listed, apart from the cases above.
CatalogIsHonest == HonestAbout(CatalogOf(bundle, Claimed), BindDocument(request.sql))
=============================================================================
