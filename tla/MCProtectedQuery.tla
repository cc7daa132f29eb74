-------------------------- MODULE MCProtectedQuery --------------------------
(***************************************************************************)
(* Two resources, eight sessions, six bundles and the statements of the    *)
(* supported subset that combine what the compiler treats apart.           *)
(***************************************************************************)
EXTENDS ProtectedQuery

Column(type, nullable) == [type |-> type, nullable |-> nullable]

MCCatalog ==
    [a |-> [id  |-> Column("Int64", FALSE), own |-> Column("String", FALSE),
            opt |-> Column("String", TRUE), tag |-> Column("String", FALSE)],
     b |-> [bid |-> Column("Int64", FALSE), own |-> Column("String", FALSE),
            note |-> Column("String", TRUE)]]

A(id, own, opt, tag) == [id |-> id, own |-> own, opt |-> opt, tag |-> tag]
B(bid, own, note) == [bid |-> bid, own |-> own, note |-> note]

MCDatabases ==
    {[a |-> <<A(1, 1, Null, 1), A(2, 2, 1, 2), A(3, 1, 1, 2)>>,
      b |-> <<B(1, 1, Null), B(2, 2, 1), B(3, 1, 2)>>],
     [a |-> <<A(1, 2, Null, 1), A(2, 1, 2, 2)>>, b |-> <<B(1, 2, 1)>>],
     [a |-> <<A(1, 1, Null, 2), A(2, 1, 2, 1), A(3, 2, 1, 1)>>, b |-> <<>>]}

Caller(subject, values, roles, requested) ==
    [principal |-> "p", subject |-> subject, roles |-> roles, default |-> roles[1],
     access |-> <<"execute">>, values |-> values, requested |-> requested]
Team(n) == [team |-> n]
User == Caller(1, Team(2), <<"user">>, <<>>)

\* Three callers with the role the bundles are about, one without, and four the
\* runtime turns away: a role not held, no access, and two malformed sessions.
MCSessions ==
    {User,
     Caller(2, Team(1), <<"guest", "user">>, <<"user">>),
     Caller(1, << >>, <<"user">>, <<>>),
     Caller(1, Team(1), <<"guest", "user">>, <<>>),
     Caller(1, Team(1), <<"guest">>, <<"user">>),
     [User EXCEPT !.access = <<"catalog">>],
     [User EXCEPT !.default = "guest"],
     [User EXCEPT !.values = [role |-> "guest"]]}

----------------------------------------------------------------------------
(* Bundles.                                                                *)

Literal(v) == [literal |-> v, type |-> "String"]
Session(k) == [session |-> k]
Cmp(col, rel, operand) == Node("cmp", <<>>, [col |-> col, rel |-> rel, operand |-> operand])
AllOf(p, q) == Node("all", <<p, q>>, NoX)
OneOf(p, q) == Node("any", <<p, q>>, NoX)
Not(p) == Node("not", <<p>>, NoX)
IsNull(col, yes) == Node("is_null", <<>>, [col |-> col, yes |-> yes])
In(col, v, negated) == Node("in", <<>>, [col |-> col, values |-> <<Literal(v)>>,
                                         negated |-> negated])
Mine == Cmp("own", "=", Session("subject_id"))

SelectRule(columns, conditional, filter, limit, grants) ==
    <<[columns |-> columns, conditional |-> conditional, filter |-> filter,
       limit |-> limit, aggregations |-> grants, windows |-> grants]>>
When(name, p) == <<[name |-> name, visible_if |-> p]>>
InsertRule(columns, presets, check) ==
    <<[columns |-> columns, presets |-> presets, check |-> check,
       returning |-> <<<<"id", "own">>>>]>>
UpdateRule(columns, presets, filter, check) ==
    <<[columns |-> columns, presets |-> presets, filter |-> filter, check |-> check,
       returning |-> <<<<"id", "opt">>>>]>>
DeleteRule(filter, returning) == <<[filter |-> filter, returning |-> returning]>>
For(s, i, u, d) == [user |-> [select |-> s, insert |-> i, update |-> u, delete |-> d]]

Tenant ==
    [a |-> For(SelectRule(<<"id", "own", "opt", "tag">>, <<>>, Mine, <<>>, TRUE),
               InsertRule(<<"id", "opt", "tag">>, [own |-> Session("subject_id")],
                          Cmp("opt", "<>", [column |-> "tag"])),
               UpdateRule(<<"opt", "tag">>, [k \in {} |-> Null], Mine,
                          Not(Cmp("opt", "=", Literal(2)))),
               DeleteRule(AllOf(Mine, Not(In("opt", 1, FALSE))), <<<<"id">>>>)),
     b |-> For(SelectRule(<<"bid", "own", "note">>, <<>>, Not(In("note", 2, FALSE)),
                          <<>>, TRUE), <<>>, <<>>, <<>>)]

Redacting ==
    [a |-> For(SelectRule(<<"id", "own", "opt">>,
                          When("tag", Cmp("opt", "=", Literal(1))),
                          OneOf(Cmp("own", "=", Session("team")), IsNull("opt", TRUE)),
                          <<2>>, TRUE),
               InsertRule(<<"id", "own", "tag">>, [opt |-> Literal(1)], Mine),
               UpdateRule(<<"tag", "own">>, [opt |-> Literal(2)], IsNull("opt", FALSE),
                          OneOf(Mine, Cmp("tag", "<", [column |-> "opt"]))),
               DeleteRule(Not(Mine), <<>>)),
     b |-> For(SelectRule(<<"own">>, When("bid", Mine), Cmp("own", "<=", Literal(2)), <<1>>, FALSE),
               <<>>, <<>>, <<>>)]

Partial ==
    [a |-> For(SelectRule(<<"id", "own">>, When("tag", Mine), In("opt", 1, TRUE),
                          <<1>>, FALSE), <<>>, <<>>, <<>>)]

Shared ==
    [a |-> For(SelectRule(<<"id", "own", "opt">>, When("tag", Mine),
                          IsNull("own", FALSE), <<>>, TRUE), <<>>, <<>>, <<>>),
     b |-> For(SelectRule(<<"bid", "own", "note">>, <<>>, Mine, <<>>, TRUE),
               <<>>, <<>>, <<>>)]

Overlapping ==
    [a |-> For(<<>>, InsertRule(<<"id", "own">>, [own |-> Session("subject_id")], Mine),
               <<>>, <<>>)]

ReturnsNothing == [a |-> For(<<>>, <<>>, <<>>, DeleteRule(Mine, <<<<>>>>))]

\* The last two are refused when they are activated.
MCBundles == {Tenant, Redacting, Partial, Shared, Overlapping, ReturnsNothing}

----------------------------------------------------------------------------
(* Statements.                                                             *)

Name(q, n) == Node("name", <<>>, [q |-> q, n |-> n])
Var == Node("var", <<>>, [var |-> "p"])
Text(v) == Node("lit", <<>>, [type |-> "String", v |-> v])
Number(v) == Node("lit", <<>>, [type |-> "Int64", v |-> v])
Rel(op, l, r) == Node(op, <<l, r>>, NoX)
Both(l, r) == Node("and", <<l, r>>, NoX)
Either(l, r) == Node("or", <<l, r>>, NoX)
Negate(e) == Node("not", <<e>>, NoX)
Missing(e) == Node("isnull", <<e>>, NoX)
Listed(e, vs, negated) == Node("in", <<e>> \o vs, [negated |-> negated])
ExistsOf(item, name, res, alias, where) ==
    Node("exists", <<item>> \o where,
         [items |-> <<name>>, res |-> res, alias |-> IF alias = "" THEN res ELSE alias,
          limit |-> <<>>])
Exists(res, alias, where) == ExistsOf(Number(1), "", res, alias, where)
Count == Node("count", <<>>, NoX)
Concat(l, r) == Node("concat", <<l, r>>, NoX)
Case(args) == Node("case", args, [type |-> "any"])
RowNumber(p, o) == Node("rownum", <<p, o>>, NoX)

Out(e, as) == [e |-> e, as |-> as]
Table(res, alias) == [res |-> res, alias |-> alias, inner |-> <<>>]
Derived(s, alias) == [res |-> s.from.res, alias |-> alias, inner |-> <<s>>]
Join(kind, res, alias, on) == [kind |-> kind, res |-> res, alias |-> alias, on |-> on]

Query(from, joins, proj, where) ==
    [kind |-> "select", from |-> from, joins |-> joins, proj |-> proj, where |-> where,
     group |-> <<>>, having |-> <<>>, order |-> <<>>, limit |-> <<>>, offset |-> <<>>]

ai == Name("a", "id")
ao == Name("a", "own")
an == Name("a", "opt")
at == Name("a", "tag")
bo == Name("b", "own")
bn == Name("b", "note")

SameOwner == Rel("=", bo, ao)

Joins ==
    {<<>>,
     <<Join("inner", "b", "", SameOwner)>>,
     <<Join("left", "b", "", SameOwner)>>,
     <<Join("left", "b", "", Both(SameOwner, Rel("=", bn, Text(1))))>>,
     <<Join("inner", "a", "c", Rel("=", ao, Text(1)))>>}

Projections ==
    {<<Out(ai, "id"), Out(at, "t")>>,
     <<Out(Name("", "opt"), "opt")>>,
     <<Out(Count, "n")>>,
     <<Out(Count, "n"), Out(ao, "own")>>,
     <<Out(ai, "id"), Out(Concat(ao, an), "c")>>,
     <<Out(Case(<<Rel("=", an, Text(1)), ao, Text(2)>>), "c")>>,
     <<Out(Case(<<Missing(an), ao>>), "c"), Out(ai, "c2")>>,
     <<Out(Case(<<Missing(an), Text(2), Rel("=", ao, Text(1)), ao, an>>), "c")>>,
     <<Out(RowNumber(ao, ai), "r"), Out(ai, "id")>>,
     <<Out(Case(<<Exists("b", "", <<SameOwner>>), ao, Text(2)>>), "c")>>}

JoinedProjections ==
    {<<Out(ai, "id"), Out(bn, "note")>>,
     <<Out(at, "tag"), Out(bo, "o")>>,
     <<Out(Case(<<Rel("=", an, Text(1)), bo, bo>>), "c")>>,
     <<Out(RowNumber(bo, Name("b", "bid")), "r")>>}

Predicates ==
    {<<>>,
     <<Rel("<=", ai, Var)>>,
     <<Negate(Rel("=", Var, an))>>,
     <<Either(Missing(an), Rel("<", ao, Text(2)))>>,
     <<Listed(an, <<Text(2), Var>>, TRUE)>>,
     <<Rel("=", at, Text(2))>>,
     <<Rel("=", Name("", "own"), Text(1))>>}

NestedPredicates ==
    {<<Exists("b", "", <<SameOwner>>)>>,
     <<Negate(Exists("b", "x", <<Rel("=", Name("x", "note"), an)>>))>>,
     <<Either(Exists("b", "", <<>>), Rel("=", an, Text(1)))>>,
     <<Exists("b", "", <<Rel("=", bn, at)>>)>>,
     <<ExistsOf(bn, "note", "b", "", <<SameOwner>>)>>,
     <<ExistsOf(Count, "n", "b", "", <<Rel("=", bn, an)>>)>>,
     <<Exists("b", "a", <<Rel("=", ao, Text(1))>>)>>}

\* The statements of the four shapes below, each over all of its own choices.
Plain == {Query(Table("a", ""), j, p, w) :
             j \in Joins, p \in Projections, w \in Predicates}
JoinedQueries == {Query(Table("a", ""), j, p, w) :
             j \in Joins \ {<<>>}, p \in JoinedProjections,
             w \in {<<>>, <<Rel("=", bn, Text(1))>>, <<Negate(Missing(bn))>>}}
Nested == {Query(Table("a", ""), <<>>, p, w) :
             p \in Projections, w \in NestedPredicates}
Inner(p, w) == Query(Table("a", ""), <<>>, p, w)
Deriveds == {Query(Derived(Inner(<<Out(ai, "id"), Out(an, "x"), Out(ao, "own")>>, w), "d"),
                   j, p, v) :
             w \in {<<>>, <<Rel("=", an, Text(1))>>, <<Exists("b", "", <<SameOwner>>)>>},
             j \in {<<>>, <<Join("left", "b", "", Rel("=", bo, Name("d", "own")))>>},
             p \in {<<Out(Name("d", "x"), "x")>>, <<Out(Name("", "id"), "id")>>},
             v \in {<<>>, <<Negate(Rel("=", Name("", "x"), Text(2)))>>,
                    <<Rel("=", ao, Text(1))>>}}
Shaped == {[Query(Table("a", ""), j, <<Out(ao, "own"), Out(Count, "n")>>, w)
              EXCEPT !.group = <<ao>>, !.having = h, !.order = o] :
             j \in {<<>>, <<Join("left", "b", "", SameOwner)>>},
             w \in {<<>>, <<Rel("=", an, Text(1))>>, <<Exists("b", "", <<>>)>>},
             h \in {<<>>, <<Rel("<", Number(1), Count)>>, <<Exists("b", "", <<SameOwner>>)>>},
             o \in {<<>>, <<[e |-> Name("", "n"), desc |-> TRUE]>>}}
Limited == {[Query(Table("a", ""), j, <<Out(ai, "id"), Out(an, n)>>, <<>>)
              EXCEPT !.order = o, !.limit = l, !.offset = f] :
             n \in {"opt", "tag"},
             j \in {<<>>, <<Join("inner", "b", "", SameOwner)>>},
             o \in {<<>>, <<[e |-> an, desc |-> TRUE]>>, <<[e |-> at, desc |-> FALSE]>>,
                    <<[e |-> Name("", "tag"), desc |-> FALSE]>>},
             l \in {<<Number(1)>>, <<Number(3)>>, <<Var>>},
             f \in {<<>>, <<Number(1)>>, <<Var>>}}

Set(col, e) == [col |-> col, e |-> e]
Ids == <<Out(Name("", "id"), "id")>>
Inserts == {[kind |-> "insert", res |-> "a", rows |-> r, returning |-> t] :
    r \in {<<<<Set("id", Number(7)), Set("tag", x), Set(c, y)>>>> :
              x \in {Text(1), Var}, c \in {"opt", "own"}, y \in {Text(1), Text(2), Var}}
          \cup {<<<<Set("id", Number(7)), Set("tag", Text(2)), Set("opt", Text(1))>>,
                  <<Set("id", Number(8)), Set("tag", Text(2)), Set("opt", Var)>>>>,
                <<<<Set("id", Number(7)), Set("tag", Text(1))>>>>,
                <<<<Set("id", Number(7)), Set("opt", Var)>>>>},
    t \in {<<>>, Ids}}
Updates == {[kind |-> "update", res |-> "a", sets |-> s, where |-> w, returning |-> t] :
    s \in {<<Set("opt", Var)>>, <<Set("tag", Text(2))>>, <<Set("tag", Var), Set("opt", Text(1))>>,
           <<Set("own", Text(1)), Set("tag", Text(1))>>},
    w \in {<<>>, <<Rel("<", Number(1), Name("", "id"))>>, <<Negate(Rel("=", an, Text(1)))>>,
           <<Rel("=", an, Var)>>, <<Exists("b", "", <<SameOwner>>)>>},
    t \in {<<>>, Ids}}
Deletes == {[kind |-> "delete", res |-> "a", where |-> w, returning |-> t] :
    w \in {<<>>, <<Missing(an)>>, <<Rel("<=", Name("", "id"), Var)>>,
           <<Exists("b", "", <<>>)>>},
    t \in {<<>>, Ids, <<Out(Name("", "tag"), "tag")>>}}

----------------------------------------------------------------------------

UsesVar(s) ==
    LET inner(q) == IF q.kind = "select" /\ q.from.inner # <<>>
                    THEN Expressions(q.from.inner[1]) ELSE <<>>
        es == Expressions(s) \o inner(s)
    IN  \E i \in DOMAIN es : HasOp(es[i], "var")

Expect(affected, rows) == [affected |-> affected, rows |-> rows]
Nothing == Expect(<<>>, <<>>)

WithValues(statements, values, expects) ==
    {[sql |-> s, values |-> v, expect |-> x] :
        s \in {t \in statements : UsesVar(t)}, v \in values, x \in expects}
    \cup {[sql |-> s, values |-> << >>, expect |-> x] :
        s \in {t \in statements : ~UsesVar(t)}, x \in expects}

Value(type, v) == [p |-> [type |-> type, v |-> v]]

MCValues == {Value("String", 1), Value("Int64", 1), Value("Int64", 2), Value("String", Null)}

MCExpectations == {Nothing, Expect(<<1>>, <<>>), Expect(<<>>, <<1>>), Expect(<<2>>, <<0>>)}

\* Expectations vary where a statement's count does, and a limit or an offset
\* may be negative.
Counted == {q \in Limited : q.order = <<>> /\ q.offset = <<>>}
MCRequests ==
    WithValues(Plain \cup JoinedQueries \cup Nested \cup Deriveds \cup Shaped \cup Limited
               \cup Inserts \cup Updates \cup Deletes, MCValues, {Nothing})
    \cup WithValues(Counted \cup Inserts \cup Updates \cup Deletes,
                    {Value("Int64", 1), Value("String", 1)}, MCExpectations)
    \cup WithValues(Limited, {Value("Int64", -1)}, {Nothing})
    \cup WithValues(Counted, {Value("Int64", -1)}, MCExpectations)

\* The requests with an EXISTS outside WHERE.
MCUnfiltered == {r \in MCRequests : UnfilteredExists(r.sql)}

=============================================================================
