---------------------------- MODULE AtomicExecution ----------------------------
(***************************************************************************)
(* One-shot `execute` requests: the request kind of the step machine, which *)
(* runs in the engine, and the atomic kind, which runs an envelope there    *)
(* (direct) or on the owner its key names (step/atomic.rs), over a database *)
(* with one writer, the idempotency table and its cleanup by age.           *)
(*                                                                          *)
(* An attempt is one HTTP request.  Attempts with the same envelope are     *)
(* retries of one another; they may overlap, arrive late and outlive the    *)
(* caller that sent them.                                                   *)
(***************************************************************************)
EXTENDS Naturals, FiniteSets

CONSTANTS
    Attempts,
    Callers,        \* authorized sessions: principal, subject, role and values
    Keys,           \* well-formed idempotency keys
    Bodies,         \* canonical request bodies
    Requests,       \* the requests an attempt may carry: [who, key, body]
    Reads,          \* the bodies that only read
    Trailing,       \* the bodies with a write after their first statement
    Guarded,        \* the bodies whose mutations could trigger a commit check
    Versions,       \* deployments
    Compiles,       \* [Versions -> SUBSET Bodies]
    BatchSize, MaxBatches,
    MaxDeploys, MaxLosses

ASSUME RequestsAssumption ==
    /\ Requests \subseteq [who : Callers, key : Keys \cup {"none", "malformed"}, body : Bodies]
    /\ Reads \subseteq Bodies /\ Trailing \subseteq Bodies
    /\ Guarded \subseteq Bodies \ Reads
    /\ Compiles \in [Versions -> SUBSET Bodies]
    /\ BatchSize \in Nat \ {0} /\ MaxBatches \in Nat \ {0}
    /\ MaxDeploys \in Nat /\ MaxLosses \in Nat
    /\ "none" \notin Attempts \cup Keys \cup Versions /\ "malformed" \notin Keys
    /\ Attempts \cap (Callers \X Keys) = {}

VARIABLES
    run,        \* what each attempt's execution awaits
    answer,     \* what the caller of each attempt was told
    worker,     \* the deployment the engine runs
    host,       \* the deployment each owner runs
    tx,         \* each attempt's database transaction
    rows,       \* policysql_idempotency: the attempt that wrote each key hash's row
    aged,       \* the key hashes whose row is older than the retention
    sweep,      \* batches the cleanup under way has sent (0: none under way)
    deploys, losses,
    \* history
    applied,    \* attempts whose COMMIT the database applied
    stray,      \* attempts a statement of which committed by itself
    deleted,    \* attempts whose row the cleanup deleted
    before,     \* per attempt: the attempts that had committed its request
    vetted      \* attempts whose commit checks all allowed, or triggered none

vars == <<run, answer, worker, host, tx, rows, aged, sweep, deploys, losses,
          applied, stray, deleted, before, vetted>>
database == <<tx, rows, applied, stray>>
world == <<worker, host, aged, sweep, deploys, losses, deleted, before>>

--------------------------------------------------------------------------------
\* Idempotency applies to keyed writes only.
Body(a) == run[a].request.body
Keyed(a) == run[a].request.key # "none"
Idempotent(a) == run[a].request.key \in Keys /\ Body(a) \notin Reads
SameRequest(a, b) == run[a].request = run[b].request

\* Mutant of KeyHash: the hash covers the key alone.
KeyAlone(request) == <<CHOOSE c \in Callers : TRUE, request.key>>

\* A key belongs to the caller that sent it, the fingerprint to the caller and
\* the body.  Neither covers the snapshot, so both outlive a deployment.
KeyHash(request) == <<request.who, request.key>>

Fingerprint(request) == <<request.who, request.body>>
KeyHashes == Callers \X Keys

\* A keyed execution runs on the owner its key hash names, any other on a
\* random one.
OwnerOf(a) == IF Idempotent(a) THEN KeyHash(run[a].request) ELSE a
Owners == KeyHashes \cup Attempts

Tasks == {"new", "RequestBinding", "AtomicForward", "AtomicBinding", "AtomicOpen",
          "AtomicPersist", "AtomicTimer", "AtomicLookup", "AtomicExecute",
          "Validator", "AtomicCommitBinding", "AtomicInsert", "AtomicCommit",
          "AtomicReplay", "CloseRollback", "Reply", "done"}

\* The tasks of an execution that has started, which an owner's deadline bounds.
Started == Tasks \ {"new", "RequestBinding", "AtomicForward", "AtomicBinding", "done"}

\* The codes the client library takes as proof that nothing was committed.
Definite == {"stale", "invalid", "key_invalid", "compile", "conflict", "unavailable",
             "check_rejected", "limit", "complex", "result_rejected"}
Codes == Definite \cup {"committed", "internal", "binding_rejected", "database", "timeout"}
Classes == {"unreachable", "rejected", "unknown", "limit", "complex",
            "not_committed"}

\* A reply names the attempt whose results it carries.
Replies == [code : Codes, of : Attempts]
None == [code |-> "none", of |-> "none"]
Given == [code |-> "given", of |-> "none"]
Err(a, code) == [code |-> code, of |-> a]

Runs == [request : Requests, at : Tasks, place : {"none", "direct", "owner"}, snap : Versions \cup {"none"},
         late : BOOLEAN, reply : Replies \cup {None, Given},
         failure : Replies \cup {None}]
Transactions == [at : {"none", "open", "sent"}, did : SUBSET {"envelope", "row"}]
NoTx == [at |-> "none", did |-> {}]

\* Every value has its type, and the cleanup never runs more than its batches.
TypeOK ==
    /\ run \in [Attempts -> Runs] /\ answer \in [Attempts -> Replies \cup {None}]
    /\ worker \in Versions /\ host \in [Owners -> Versions]
    /\ tx \in [Attempts -> Transactions]
    /\ rows \in [KeyHashes -> Attempts \cup {"none"}] /\ aged \subseteq KeyHashes
    /\ sweep \in 0..MaxBatches - 1 /\ deploys \in 0..MaxDeploys /\ losses \in 0..MaxLosses
    /\ applied \subseteq Attempts /\ stray \subseteq Attempts
    /\ deleted \subseteq Attempts /\ vetted \subseteq Attempts
    /\ before \in [Attempts -> SUBSET Attempts]

Init ==
    /\ worker \in Versions
    /\ run \in [Attempts -> {[request |-> r, at |-> "new", place |-> "none", snap |-> worker,
                              late |-> FALSE, reply |-> None, failure |-> None] : r \in Requests}]
    /\ answer = [a \in Attempts |-> None]
    /\ host = [o \in Owners |-> worker]
    /\ tx = [a \in Attempts |-> NoTx]
    /\ rows = [k \in KeyHashes |-> "none"] /\ aged = {} /\ sweep = 0
    /\ deploys = 0 /\ losses = 0
    /\ applied = {} /\ stray = {} /\ deleted = {} /\ vetted = {}
    /\ before = [a \in Attempts |-> {}]

--------------------------------------------------------------------------------
(***************************************************************************)
(* Codes                                                                    *)
(***************************************************************************)
ForClass(class) ==
    CASE class = "unreachable" -> "database"
      [] class = "rejected" -> "binding_rejected"
      [] class \in {"not_committed", "unknown"} -> "internal"
      [] class = "limit" -> "limit"
      [] class = "complex" -> "complex"

\* Mutant: a database that cannot be reached is taken as proof of no COMMIT.
EveryFailureRejects(class) ==
    CASE class \in {"unreachable", "not_committed", "unknown"} -> "unavailable"
      [] OTHER -> "internal"

\* What a failed COMMIT answers: a rejection only when it provably was not sent.
CommitFailure(class) ==
    CASE class = "unreachable" -> "database"
      [] class = "not_committed" -> "unavailable"
      [] OTHER -> "internal"

\* Mutant: a limit on the results is definite whatever else the envelope does.
LimitAlwaysDefinite(task, class, laterWrite) == ForClass(class)

\* What a failed Execute answers: a limit or a complexity refusal is no proof
\* about the row a lookup or insert met, nor, for a limit, about a write that
\* may have committed by itself after the transaction was rolled back.
ExecuteFailure(task, class, laterWrite) ==
    IF \/ task \in {"AtomicLookup", "AtomicInsert"} /\ class \in {"limit", "complex"}
       \/ task = "AtomicExecute" /\ class = "limit" /\ laterWrite
    THEN "internal" ELSE ForClass(class)

(***************************************************************************)
(* Ending an execution                                                      *)
(***************************************************************************)
\* The engine answers its caller with the first reply it has: its own, or the
\* owner's if it still waits for it.
Tell(a, reply) ==
    answer' = [answer EXCEPT ![a] = IF @ = None THEN reply ELSE @]

\* An execution ends and is forgotten.
Ended(r) == [r EXCEPT !.at = "done", !.snap = "none", !.reply = None, !.failure = None]
Ends(a) == run' = [run EXCEPT ![a] = Ended(@)]

\* Nothing was opened and no record written: answer and forget.
Abort(a, code) ==
    /\ Ends(a)
    /\ Tell(a, Err(a, code))
    /\ UNCHANGED <<database, world, vetted>>

Await(a, task) == run' = [run EXCEPT ![a].at = task]

\* The rest of a step that changes nothing but what it awaits.
Waits == UNCHANGED <<answer, database, world, vetted>>

\* Roll back, then (on an owner) record the phase, then answer.
Close(a, reply) ==
    run' = [run EXCEPT ![a].at = "CloseRollback", ![a].reply = reply,
                       ![a].failure = Err(a, "internal")]

Expired(a) == run[a].place = "owner" /\ run[a].late
ExpireAtomic(a) == Close(a, Err(a, "unavailable"))

\* The work runs on, or an owner whose deadline passed closes it instead.
UnlessExpired(a, Continue) == IF Expired(a) THEN ExpireAtomic(a) ELSE Continue

(***************************************************************************)
(* The request kind, in the engine                                          *)
(***************************************************************************)
\* The attempt arrives, with the snapshot its body was written for.
Request(a) ==
    /\ run[a].at = "new"
    /\ before' = [before EXCEPT ![a] = {b \in applied \ deleted :
                                          Idempotent(a) /\ SameRequest(a, b)}]
    /\ \E pin \in Versions :
          IF pin = worker
          THEN /\ run' = [run EXCEPT ![a].at = "RequestBinding", ![a].snap = worker]
               /\ UNCHANGED answer
          ELSE /\ Ends(a)
               /\ Tell(a, Err(a, "stale"))
    /\ UNCHANGED <<database, worker, host, aged, sweep, deploys, losses, deleted, vetted>>

\* Mutant: the engine runs every envelope itself.
NeverForwards(a) == FALSE

\* A commit check could trigger: the envelope belongs to its owner.
Forwards(a) == Body(a) \in Guarded

\* The compile comes before the lookup, so a keyed request that does not
\* compile under this deployment may have committed under an earlier one.
CompileFails(a, version) ==
    /\ Body(a) \notin Compiles[version]
    /\ Abort(a, IF Keyed(a) THEN "internal" ELSE "compile")

\* The binding is allowed: compile, identify, and forward or run here.
RequestChecked(a) ==
    \/ CompileFails(a, run[a].snap)
    \/ /\ Body(a) \in Compiles[run[a].snap]
       /\ \/ /\ run[a].request.key = "malformed" /\ Body(a) \notin Reads
             /\ Abort(a, "key_invalid")
          \/ /\ run[a].request.key # "malformed" \/ Body(a) \in Reads
             /\ run' = [run EXCEPT
                          ![a].at = IF Forwards(a) THEN "AtomicForward" ELSE "AtomicOpen",
                          ![a].place = IF Forwards(a) THEN "owner" ELSE "direct"]
             /\ Waits

\* A binding check that does not allow, or cannot tell.
BindingFails(a) ==
    \E code \in {"binding_rejected", "database", "internal"} :
        Abort(a, code)

RequestBinding(a) ==
    /\ run[a].at = "RequestBinding"
    /\ RequestChecked(a) \/ BindingFails(a)

\* The call to the owner fails, whatever became of it there.
ForwardFailed(a) ==
    /\ run[a].place = "owner" /\ answer[a] = None
    /\ Tell(a, Err(a, "internal"))
    /\ UNCHANGED <<run, database, world, vetted>>

(***************************************************************************)
(* The owner's atomic input                                                 *)
(***************************************************************************)
\* The executions an owner holds; its lane admits an input when none of them
\* still owes its reply.
Busy(a) == {b \in Attempts \ {a} : /\ OwnerOf(b) = OwnerOf(a) /\ run[b].place = "owner"
                                   /\ run[b].at \in Started \cup {"AtomicBinding"}}
LaneFree(a) == \A b \in Busy(a) : run[b].reply = Given

AtomicInput(a) ==
    /\ run[a].at = "AtomicForward" /\ LaneFree(a)
    /\ \/ /\ run[a].snap # host[OwnerOf(a)] \/ Busy(a) # {}
          /\ Abort(a, "internal")
       \/ /\ run[a].snap = host[OwnerOf(a)] /\ Busy(a) = {}
          /\ Await(a, "AtomicBinding") /\ Waits

AtomicBinding(a) ==
    /\ run[a].at = "AtomicBinding"
    /\ \/ CompileFails(a, run[a].snap)
       \/ /\ Body(a) \in Compiles[run[a].snap]
          /\ Await(a, "AtomicOpen") /\ Waits
       \/ BindingFails(a)

(***************************************************************************)
(* The execution                                                            *)
(***************************************************************************)
\* BEGIN IMMEDIATE waits for the writer; a read takes no lock.
Writer == {a \in Attempts : tx[a].at # "none" /\ Body(a) \notin Reads}
MayBegin(a) == tx[a].at = "none" /\ (Body(a) \in Reads \/ Writer = {})
Begun(a) == tx' = [tx EXCEPT ![a] = [at |-> "open", did |-> {}]]

\* The first query of the transaction.
AtomicQuery(a) == IF Idempotent(a) THEN "AtomicLookup" ELSE "AtomicExecute"

AtomicOpen(a) ==
    /\ run[a].at = "AtomicOpen"
    /\ \/ /\ MayBegin(a) /\ Begun(a)
          /\ Await(a, IF run[a].place = "owner" THEN "AtomicPersist" ELSE AtomicQuery(a))
          /\ UNCHANGED <<answer, rows, applied, stray, world, vetted>>
       \* BEGIN fails, or ran and its reply was lost.
       \/ /\ UNCHANGED tx \/ (MayBegin(a) /\ Begun(a))
          /\ Ends(a)
          /\ \E class \in {"unreachable", "rejected", "unknown"} :
                Tell(a, Err(a, ForClass(class)))
          /\ UNCHANGED <<rows, applied, stray, world, vetted>>

\* The owner records its execution and sets its timer; neither is read again.
AtomicPersist(a) ==
    /\ run[a].at \in {"AtomicPersist", "AtomicTimer"}
    /\ \/ /\ run[a].at = "AtomicPersist" /\ Await(a, "AtomicTimer")
       \/ /\ run[a].at = "AtomicTimer" /\ UnlessExpired(a, Await(a, AtomicQuery(a)))
       \/ Close(a, Err(a, "internal"))
    /\ Waits

\* Mutant: any row of the key is replayed.
AnyRow(row, a) == TRUE

\* The row's fingerprint is this request's.
SameFingerprint(row, a) == Fingerprint(run[row].request) = Fingerprint(run[a].request)

\* The lookup returned: no row executes, another request's row conflicts, this
\* request's row is replayed if it can be read.
LookupReturned(a) ==
    /\ run[a].at = "AtomicLookup" /\ tx[a].at = "open"
    /\ LET row == rows[OwnerOf(a)] IN
       UnlessExpired(a,
          IF row = "none" THEN Await(a, "AtomicExecute")
          ELSE IF ~SameFingerprint(row, a) THEN Close(a, Err(a, "conflict"))
          ELSE \/ run' = [run EXCEPT ![a].at = "AtomicReplay",
                                     ![a].reply = Err(row, "committed"),
                                     ![a].failure = Err(a, "internal")]
               \/ Close(a, Err(a, "internal")))
    /\ Waits

\* A failed Execute.  The error may have made the database roll back, and then
\* a later write of the same pipeline commits by itself; only a complexity
\* refusal is known to be the last statement, only a rejection unsent.
ExecuteFailed(a) ==
    /\ run[a].at \in {"AtomicLookup", "AtomicExecute", "AtomicInsert"}
    /\ \E class \in Classes \ {"not_committed"}, commits \in BOOLEAN, aborts \in BOOLEAN :
          /\ commits => /\ aborts /\ tx[a].at = "open" /\ run[a].at = "AtomicExecute"
                        /\ Body(a) \in Trailing
                        /\ class \notin {"complex", "rejected"}
          /\ UnlessExpired(a, Close(a, Err(a,
                 ExecuteFailure(run[a].at, class, Body(a) \in Trailing))))
          /\ stray' = IF commits THEN stray \cup {a} ELSE stray
          /\ tx' = IF aborts THEN [tx EXCEPT ![a] = NoTx] ELSE tx
    /\ UNCHANGED <<answer, rows, applied, world, vetted>>

\* Mutant: the row is left out, so nothing marks the key as used.
CommitsWithoutRow(a) == UnlessExpired(a, Await(a, "AtomicCommit"))

InsertOrCommit(a) ==
    UnlessExpired(a, Await(a, IF Idempotent(a) THEN "AtomicInsert" ELSE "AtomicCommit"))

\* The envelope returned.  Its results may break the plan, the budgets or the
\* time limit; then the checks of the rows it changed, on an owner.
AtomicExecuted(a) ==
    /\ run[a].at = "AtomicExecute" /\ tx[a].at = "open"
    /\ tx' = [tx EXCEPT ![a].did = @ \cup {"envelope"}]
    /\ \/ /\ UnlessExpired(a, \E code \in {"result_rejected", "limit", "timeout", "internal"} :
                                 Close(a, Err(a, code)))
          /\ UNCHANGED vetted
       \/ /\ ~Expired(a)
          /\ IF run[a].place = "direct"
             THEN InsertOrCommit(a) /\ UNCHANGED vetted
             ELSE \* some check triggers, or a check is not configured, or none triggers
                  \/ Await(a, "Validator") /\ UNCHANGED vetted
                  \/ Close(a, Err(a, "check_rejected")) /\ UNCHANGED vetted
                  \/ Await(a, "AtomicCommitBinding") /\ vetted' = vetted \cup {a}
    /\ UNCHANGED <<answer, rows, applied, stray, world>>

\* The validators allow, or one of them does not.
Validated(a) ==
    /\ run[a].at = "Validator"
    /\ \/ Await(a, "AtomicCommitBinding") /\ vetted' = vetted \cup {a}
       \/ Close(a, Err(a, "check_rejected")) /\ UNCHANGED vetted
    /\ UNCHANGED <<answer, database, world>>

\* The timer fires on an owner that is due: a validation is answered now and
\* closed in the background; database work ends when it returns.
AtomicTimer(a) ==
    /\ run[a].at = "Validator" /\ run[a].late
    /\ Tell(a, Err(a, "check_rejected"))
    /\ run' = [run EXCEPT ![a].at = "CloseRollback", ![a].reply = Given]
    /\ UNCHANGED <<database, world, vetted>>

AtomicCommitBinding(a) ==
    /\ run[a].at = "AtomicCommitBinding"
    /\ \/ InsertOrCommit(a)
       \/ \E code \in {"binding_rejected", "database", "internal"} :
             Close(a, Err(a, code))
    /\ Waits

\* The row goes into the same transaction; its key is unique.
AtomicInserted(a) ==
    /\ run[a].at = "AtomicInsert" /\ tx[a].at = "open" /\ rows[OwnerOf(a)] = "none"
    /\ tx' = [tx EXCEPT ![a].did = @ \cup {"row"}]
    /\ UnlessExpired(a, Await(a, "AtomicCommit"))
    /\ UNCHANGED <<answer, rows, applied, stray, world, vetted>>

\* COMMIT is handed to the transport.
SendCommit(a) ==
    /\ run[a].at = "AtomicCommit" /\ tx[a].at = "open"
    /\ tx' = [tx EXCEPT ![a].at = "sent"]
    /\ UNCHANGED <<run, answer, rows, applied, stray, world, vetted>>

\* The reply stands even if the owner cannot record it.
Committed(a) ==
    /\ run[a].at = "AtomicCommit" /\ a \in applied
    /\ IF run[a].place = "direct"
       THEN /\ Ends(a) /\ Tell(a, Err(a, "committed"))
       ELSE /\ run' = [run EXCEPT ![a].at = "Reply", ![a].reply = Err(a, "committed"),
                                  ![a].failure = Err(a, "committed")]
            /\ UNCHANGED answer
    /\ UNCHANGED <<database, world, vetted>>

\* Not sent while the transaction is the engine's, or failed after it was sent
\* (a stream the database gave up is refused); an owner knows no class of it.
CommitFailed(a) ==
    /\ run[a].at = "AtomicCommit"
    /\ \E class \in {"not_committed", "unreachable", "unknown"} :
          /\ class = "not_committed" => (tx[a].at # "sent" /\ a \notin applied)
          /\ class # "not_committed" => /\ tx[a].at # "open"
                                        /\ (run[a].place = "owner") = (class = "unknown")
          /\ Close(a, Err(a, CommitFailure(class)))
    /\ Waits

\* The rollback of a close or of a replay: it takes, or the stream is left to
\* the database.  A COMMIT already sent is not undone by it.
RolledBack(a) ==
    /\ run[a].at \in {"CloseRollback", "AtomicReplay"}
    /\ tx' = IF tx[a].at = "open" THEN [tx EXCEPT ![a] = NoTx] ELSE tx
    /\ IF run[a].place = "direct"
       THEN Ends(a) /\ Tell(a, run[a].reply)
       ELSE Await(a, "Reply") /\ UNCHANGED answer
    /\ UNCHANGED <<rows, applied, stray, world, vetted>>

RollbackFailed(a) ==
    /\ run[a].at \in {"CloseRollback", "AtomicReplay"}
    /\ IF run[a].place = "direct"
       THEN Ends(a) /\ Tell(a, run[a].reply)
       ELSE Await(a, "Reply") /\ UNCHANGED answer
    /\ UNCHANGED <<database, world, vetted>>

\* The owner's last persist ends, stored or not, and its caller is answered.
Reply(a) ==
    /\ run[a].at = "Reply"
    /\ \E reply \in {run[a].reply, run[a].failure} :
          IF run[a].reply = Given THEN UNCHANGED answer ELSE Tell(a, reply)
    /\ Ends(a)
    /\ UNCHANGED <<database, world, vetted>>

--------------------------------------------------------------------------------
(***************************************************************************)
(* The world: the database, the clock, deployments, losses, the cleanup     *)
(***************************************************************************)
DbApplies(a) ==
    /\ tx[a].at = "sent"
    /\ tx' = [tx EXCEPT ![a] = NoTx]
    /\ applied' = applied \cup {a}
    /\ rows' = IF "row" \in tx[a].did THEN [rows EXCEPT ![OwnerOf(a)] = a] ELSE rows
    /\ UNCHANGED <<run, answer, stray, world, vetted>>

\* A COMMIT that is lost or refused, a stream that expired.
DbAborts(a) ==
    /\ tx[a].at # "none"
    /\ tx' = [tx EXCEPT ![a] = NoTx]
    /\ UNCHANGED <<run, answer, rows, applied, stray, world, vetted>>

DeadlinePasses(a) ==
    /\ run[a].place = "owner" /\ run[a].at \in Started /\ ~run[a].late
    /\ run' = [run EXCEPT ![a].late = TRUE]
    /\ Waits

Deploy ==
    /\ deploys < MaxDeploys /\ deploys' = deploys + 1
    /\ worker' \in Versions \ {worker}
    /\ UNCHANGED <<run, answer, database, host, aged, sweep, losses, deleted, before, vetted>>

\* An owner that was called is lost with its executions; its successor runs
\* some deployment.
OwnerLost(o) ==
    /\ losses < MaxLosses /\ losses' = losses + 1
    /\ \E a \in Attempts : run[a].place = "owner" /\ OwnerOf(a) = o
    /\ run' = [a \in Attempts |->
                  IF OwnerOf(a) = o /\ run[a].place = "owner" /\ run[a].at # "AtomicForward"
                  THEN Ended(run[a]) ELSE run[a]]
    /\ host' \in {[host EXCEPT ![o] = v] : v \in Versions}
    /\ UNCHANGED <<answer, database, worker, aged, sweep, deploys, deleted, before, vetted>>

\* The engine is lost, or fails: its caller learns nothing.
EngineLost(a) ==
    /\ losses < MaxLosses /\ losses' = losses + 1
    /\ run[a].at \notin {"new", "done"} /\ run[a].place # "owner"
    /\ Ends(a)
    /\ Tell(a, Err(a, "internal"))
    /\ UNCHANGED <<database, worker, host, aged, sweep, deploys, deleted, before, vetted>>

RowAges(k) ==
    /\ rows[k] # "none" /\ k \notin aged
    /\ aged' = aged \cup {k}
    /\ UNCHANGED <<run, answer, database, worker, host, sweep, deploys, losses,
                   deleted, before, vetted>>

\* Mutant: the bound on the batches of one cleanup is not enforced.
EndlessBatches(full) == IF full THEN sweep + 1 ELSE 0

NextBatch(full) == IF full /\ sweep + 1 < MaxBatches THEN sweep + 1 ELSE 0

\* One batch of the cleanup, in a short transaction of its own: it deletes up
\* to BatchSize old rows, and goes on while a batch was full.
CleanupBatch ==
    /\ Writer = {}
    /\ \E batch \in SUBSET aged :
          /\ \/ Cardinality(batch) = BatchSize
             \/ batch = aged /\ Cardinality(batch) < BatchSize
          /\ rows' = [k \in KeyHashes |-> IF k \in batch THEN "none" ELSE rows[k]]
          /\ deleted' = deleted \cup {rows[k] : k \in batch}
          /\ aged' = aged \ batch
          /\ sweep' = NextBatch(Cardinality(batch) = BatchSize)
    /\ UNCHANGED <<run, answer, worker, host, tx, deploys, losses, applied, stray,
                   before, vetted>>

CleanupFails ==
    /\ sweep # 0 /\ sweep' = 0
    /\ UNCHANGED <<run, answer, database, worker, host, aged, deploys, losses,
                   deleted, before, vetted>>

--------------------------------------------------------------------------------
\* The next step of an attempt's own execution, whatever its outcome.
Advance(a) ==
    \/ RequestBinding(a) \/ AtomicInput(a) \/ AtomicBinding(a) \/ AtomicOpen(a)
    \/ AtomicPersist(a) \/ LookupReturned(a) \/ ExecuteFailed(a)
    \/ AtomicExecuted(a) \/ Validated(a) \/ AtomicTimer(a)
    \/ AtomicCommitBinding(a) \/ AtomicInserted(a) \/ SendCommit(a)
    \/ Committed(a) \/ CommitFailed(a) \/ RolledBack(a) \/ RollbackFailed(a)
    \/ Reply(a)

Next ==
    \/ \E a \in Attempts : Request(a) \/ Advance(a) \/ ForwardFailed(a)
    \/ \E a \in Attempts : DbApplies(a) \/ DbAborts(a) \/ DeadlinePasses(a) \/ EngineLost(a)
    \/ \E o \in Owners : OwnerLost(o)
    \/ \E k \in KeyHashes : RowAges(k)
    \/ Deploy \/ CleanupBatch \/ CleanupFails

Spec == Init /\ [][Next]_vars

--------------------------------------------------------------------------------
(***************************************************************************)
(* Properties                                                               *)
(***************************************************************************)
\* A key's write is committed at most once while its row is retained, however
\* many attempts overlap, are lost or are retried (LOOKUP_SQL before the
\* envelope, INSERT_SQL in the same transaction).
OncePerKey ==
    \A who \in Callers, k \in Keys :
        Cardinality({a \in applied \ deleted : /\ Idempotent(a)
                                               /\ run[a].request.who = who
                                               /\ run[a].request.key = k}) <= 1

\* identity.rs: a key conflict is the caller's own doing.  It used the key for
\* another body, which committed; what other callers send under the same key,
\* and a deployment between two attempts, never conflict.
ConflictIsOwn ==
    \A a \in Attempts : answer[a].code = "conflict" =>
        \E b \in applied : /\ run[b].request.who = run[a].request.who
                           /\ run[b].request.key = run[a].request.key
                           /\ Body(b) # Body(a)

\* A committed reply is true: it carries the results of an attempt that did
\* commit, the caller's own or, replayed, one of the same request.
CommittedReplyIsTrue ==
    \A a \in Attempts : answer[a].code = "committed" =>
        /\ answer[a].of \in applied
        /\ answer[a].of = a \/ (Idempotent(a) /\ SameRequest(a, answer[a].of))

\* An attempt whose caller was told of a rejection never commits: its COMMIT
\* was not sent and never will be.
RejectedNeverCommits ==
    \A a \in Attempts : answer[a].code \in Definite =>
        (a \notin applied /\ tx[a].at # "sent" /\ run[a].at # "AtomicCommit")

\* An envelope that could trigger a commit check commits only on its owner and
\* only after the checks its changes triggered allowed it.
GuardedIsVetted ==
    \A a \in applied : Body(a) \in Guarded => (run[a].place = "owner" /\ a \in vetted)

\* ADR 0007: a retry of a keyed write that had committed is not rejected while
\* its row is retained.  (Its exception: a request pinned to a superseded
\* snapshot.)  An owner whose deadline passed rejects before it uses the row.
RetryNotRejected ==
    \A a \in Attempts : answer[a].code \in Definite \ {"stale"} => before[a] \subseteq deleted

\* Where no owner's deadline is involved that promise holds, and a rejected
\* attempt left nothing behind: no statement of it committed by itself.
TimelyRejectionIsTrue ==
    \A a \in Attempts : (~run[a].late /\ answer[a].code \in Definite \ {"stale"}) =>
        (a \notin stray /\ before[a] \subseteq deleted)

================================================================================
