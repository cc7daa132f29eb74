--------------------------- MODULE RuntimeBoundary ---------------------------
(***************************************************************************)
(* crates/policysql-wasm and crates/policysql-gateway: what the runtime    *)
(* does around the compiler.  It authorizes the session the wrapper vouches *)
(* for, tells a role what it may use (the catalog), and settles what the   *)
(* request expects of its result.                                          *)
(*                                                                         *)
(* A session is what the wrapper hands over (principal, subject, roles,    *)
(* default role, access and values) with the role the client asks for in   *)
(* `requested`, a sequence of length 0 or 1.                               *)
(***************************************************************************)
EXTENDS SqliteEmitter

Permissions == {"execute", "explain", "catalog", "debug"}

ReservedKeys == {"subject_id", "role"}

\* The shape of a session is the wrapper's business: it is judged first, and
\* whatever the client asked for.
WellFormed(s) ==
    /\ s.principal # "" /\ s.subject # Null
    /\ s.roles # <<>> /\ NoRepeats(s.roles)
    /\ Contains(s.roles, s.default)
    /\ s.access # <<>> /\ NoRepeats(s.access) /\ ToSet(s.access) \subseteq Permissions
    /\ DOMAIN s.values \cap ReservedKeys = {}

\* The canonical session keeps the one role that was selected.
AuthorizeSession(s, requested, required) ==
    LET role == IF requested = <<>> THEN s.default ELSE requested[1] IN
    IF ~WellFormed(s) THEN [outcome |-> "session_malformed"]
    ELSE IF ~Contains(s.roles, role) \/ ~Contains(s.access, required)
    THEN [outcome |-> "forbidden"]
    ELSE [outcome |-> "authorized", principal |-> s.principal, subject |-> s.subject,
          role |-> role, roles |-> s.roles, access |-> s.access, values |-> s.values]

\* Every later call judges the canonical session again, by the same rules.
ActivateAuthorized(auth, required) ==
    AuthorizeSession([principal |-> auth.principal, subject |-> auth.subject,
                      roles |-> auth.roles, default |-> auth.role,
                      access |-> auth.access, values |-> auth.values],
                     <<auth.role>>, required)

TrustedSession(auth) ==
    [role   |-> auth.role,
     values |-> auth.values @@ [subject_id |-> auth.subject, role |-> auth.role]]

----------------------------------------------------------------------------
(* The catalog of one role.                                                *)

\* Mutant of SelectColumnUsage: a conditional column is listed like any other.
ConditionalAnywhere(conditional, aggregations, windows) ==
    {"projection", "predicate", "join", "order"}
    \cup (IF aggregations THEN {"group", "aggregate"} ELSE {})
    \cup (IF windows THEN {"window"} ELSE {})

SelectColumnUsage(conditional, aggregations, windows) ==
    IF conditional THEN {"projection"}
    ELSE {"projection", "predicate", "join", "order"}
         \cup (IF aggregations THEN {"group", "aggregate"} ELSE {})
         \cup (IF windows THEN {"window"} ELSE {})

SelectAccess(policy) ==
    LET conditional == {policy.conditional[i].name : i \in DOMAIN policy.conditional} IN
    [columns |-> [c \in ToSet(policy.columns) \cup conditional |->
                     SelectColumnUsage(c \in conditional, policy.aggregations, policy.windows)],
     aggregations |-> policy.aggregations,
     windows      |-> policy.windows,
     max_rows     |-> IF policy.limit = <<>> THEN MaxRows ELSE policy.limit[1]]

\* A delete lists no columns of its own.
MutationAccess(policy) ==
    [columns   |-> IF "columns" \in DOMAIN policy THEN ToSet(policy.columns) ELSE {},
     returning |-> ToSet(FlattenSeq(policy.returning))]

\* A resource is listed when the role may select from it; its writes with it.
CatalogOf(bundle, session) ==
    LET policies(op, res) == Policies(bundle, session, op, res)
        writes(op, res) == [i \in DOMAIN policies(op, res) |->
                               MutationAccess(policies(op, res)[i])]
    IN  [res \in {r \in Resources : policies("select", r) # <<>>} |->
            [select |-> SelectAccess(policies("select", res)[1]),
             insert |-> writes("insert", res),
             update |-> writes("update", res),
             delete |-> writes("delete", res)]]

----------------------------------------------------------------------------
(* What a request expects: `affected` and `rows`, each of length 0 or 1.   *)

\* The expectation that cannot be met, or that a SELECT cannot have.
RefusedExpectation(s, expect) ==
    CASE expect.affected = <<>>     -> "none"
      [] s.kind = "select"          -> "invalid_request"
      [] s.affected \notin {<<>>, expect.affected} -> "expectation_failed"
      [] OTHER                      -> "none"

WithExpectation(s, expect) ==
    IF s.kind = "select" \/ expect.affected = <<>> THEN s
    ELSE [s EXCEPT !.affected = expect.affected]
=============================================================================
