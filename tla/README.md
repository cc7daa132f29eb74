# PolicySQL in TLA+

PolicySQL compiles client SQL under a policy and runs it on a Turso/SQLite
database behind a Cloudflare Worker. Two things in it are hard to get right and
hard to test. The transaction protocol: a commit is announced, checked by
external validators, sent over HTTP to a database that may answer late or never,
recorded by an owner object that may be lost at any moment, and retried by a
client that does not know what happened. And the policy pipeline: whatever SQL a
caller writes, the answer must be what its policies show. This project models
both, checks them with TLC and proves with TLAPS what the transaction protocol
promises: that the record can be trusted, that a keyed write commits once, and
that the client's status is true.

Paths below are relative to `src/`.

## Inventory

| Component | State it keeps | Operations | What is hard |
| --- | --- | --- | --- |
| Step machine, `crates/policysql-transaction/src/machine` (`step.rs`, `step/checks.rs`, `state.rs`, `io.rs`) | durable record (phase, sequence, last command, mutations), volatile part (connection, work, callback, capability, deferred verdict, `rollback_requested`, revoked validator) | `step(state, event, host)`: forwarded begin, statement, commit, rollback, callback query; timer; abandon; the outcome of each effect | every order of outcomes, late and unexpected events, expiry during work, faults that must fail closed |
| Owner executor, `deploy/cloudflare/src/transaction-owner.ts` | the state in memory, the connection, one waiter per lane | lanes, `drive`, `perform`, `onTimer`, `abandon`, `reset`, `load` | three concurrent drives over one state, owner loss, replies that find no waiter |
| Owner port and Durable Object adapter (`transaction-owner-port.ts`, `adapters/durable-objects.ts`) | key/value store, one alarm | get, put, schedule, delivery | ambiguous writes, an alarm consumed by its delivery |
| Database layer (`database.ts`, `turso-http.ts`) | HTTP stream with a baton, COMMIT attempted | begin, execute, commit, rollback, recovery | lost responses, what proves that COMMIT was not sent |
| Atomic execution (`step/atomic.rs`, `request-step.ts`) | idempotency row, run state | lookup, execute, insert, commit; direct or on an owner | keyed retries, replay, unknown outcome |
| Idempotency cleanup (`idempotency-cleanup.ts`) | rows by age | bounded deletes | a deleted row and a late retry |
| Client library (`packages/client`) | queue, pending command, state | execute, commit, rollback, retryPending, dispose | an unknown outcome that a later rejection must not settle |
| Identities, canonical and strict JSON, bounds (`crates/policysql-transaction/src`) | none | pure functions | boundaries, duplicate keys, depth |
| Parser and binder (`crates/policysql-parser`, `policysql-ir`) | none | `bind_document`: scopes, names, types | derived tables, joins, shadowed names |
| Policies (`crates/policysql-policy`, `policysql-catalog`, `policysql-core`) | the active bundle | activate; `compile_select`, `compile_insert`, `compile_update`, `compile_delete` | a filter in the wrong place, NULL, a resource named only in EXISTS |
| Emitter and sealed plans (`crates/policysql-sqlite`, `policysql-execution`) | none | emit, descriptors, nullability of parameters, `compile_verified_*` | UNKNOWN in a check, padded rows of an outer join |
| Gateway, result validation, WASM boundary (`crates/policysql-gateway`, `policysql-turso`, `policysql-wasm`) | plan handles | authorize, compile, catalog, validate a result | two readings of the same policy, a result refused after the write ran |
| Engine, HTTP adapter | request-scoped | authentication, limits, routing | I/O |

Interaction: an HTTP request reaches the engine, which forwards it through the
port to the owner named by the transaction id. The owner's *lane* queues it,
its *drive* steps the machine and performs the one awaited effect the step asks
for, and feeds the outcome back until no effect is left. The client lane, the
callback lane (a validator's queries during a commit check) and the timer each
have a drive; they interleave at every `await`. A commit that changed rows calls
validators, which query through the callback lane while the client lane waits.

`PROJECT.json` lists the components with their status, the hazards at their
lines and the properties that answer them.

## Modules

**`StepMachine`** is the pure step function: one operator per Rust handler, with
the handler's name in TLA+ case. `RunDispatch(m, h, ev)` is `run_dispatch`:
dispatch, the consistency check of the resulting volatile part, and
`fail_closed` from the original state on a fault. A machine state is a record
with the durable record and the volatile part; an output is the next state, the
first reply of each lane, the one awaited effect and the reset flag. Operators
marked *Mutant* are deliberately wrong variants used to test the properties.

What is abstracted, and why the properties do not see it:

* a statement's text is what it does: `read`, `write`, or `bad` (it does not
  compile). A digest is the command's kind and payload; hashes are injective;
* the caller's identity is one value, the snapshot another;
* a result over a row, byte or time limit is one outcome, `refused`; the
  budgets' arithmetic, plan handles, usage, logs and traces are left out;
* time is two facts of each step: whether the record's deadline and whether the
  capability's have passed (`due` implies `late`, as the latter is never after
  the former);
* effect ids count up from a random seed in the code. The model takes an id that
  no drive and no part of the state still names, which is what a fresh id means
  to every comparison the code makes, and keeps the state space finite.

**`TransactionOwner`** is the executor with its world. `flight[d]` is what
drive `d` is at: idle, an event ready to be stepped, or an effect under way.
`Feed` is one turn of `drive`'s loop: `load`, `step`, the replies, the closing
of the connection a stateless step leaves behind, and the start of the next
effect. A put or an alarm takes effect, or not, when it starts and is reported,
truly or not, when it ends. One action per outcome of each effect feeds the next
step. `SendCommit`, `DbApplies` and `DbAborts` separate the COMMIT handed to the
transport from its application and its answer, so a COMMIT may be applied long
after the client was answered. `Crash` loses the owner: the successor has the
store and the alarm (an alarm whose handler did not finish is delivered again),
and perhaps another deployment, which may not be able to read the record.
`EngineFault` is a throw of `load` or `step_json`.

Variables marked *history* record what happened for the properties and are read
by no guard of the system's own, except that `sent` and `db` are the database.

**`CommitRecord`** is the abstract specification: one record, at most one COMMIT
and the fate of the database transaction, with no lanes, drives, timers or
restarts. `TransactionOwner` instantiates it with `record <- store.phase`,
`sent <- (sent # NotSent)`, `fate <- db`; `KeepsPromise` says that the owner
implements it.

**`MCTransactionOwner`** builds the sets of commands and queries from small sets
of sequences and payloads given in the `.cfg` files.

**`AtomicExecution`** is the `execute` endpoint: the request kind of the machine in
the engine and the atomic kind there or on the owner that the key names
(`step/atomic.rs`). An attempt is one HTTP request; attempts with the same
request are retries and may overlap. `run[a].at` is the task attempt `a` awaits,
`tx` its database transaction under SQLite's single writer, `rows` the
idempotency table, `aged` the rows that the cleanup (`CleanupBatch`, one short
transaction per batch) may delete. A deployment changes what compiles; a loss
takes an owner or an engine with its executions, not the COMMIT it sent. The
stored result is the attempt that produced it, so a reply that carries another's
results is visible.

**`TransactionClient`** is the client library's transaction object: admission, the
queue's work, the pending command that stays fixed until it is confirmed, and the
table of answers that prove a rejection. **`HranaStream`** is
`TursoHttpTransaction`: batons, replies of which only the first bytes were read,
the unusable stream and what COMMIT and ROLLBACK do with it, with the server
modelled from how this code uses it. **`ClientSession`** composes both with a
network that loses answers and delays commands and with an owner. That owner is
the one of `StepMachine` with the steps the client cannot tell apart merged: a
command's binding check, its persist and its host calls are one step on each side
of the database round trip, and phases that answer alike are one. What stays is
the order of its checks, the record a lost owner leaves, and everything it does
with the stream.

**The policy pipeline** is six modules, each extending the one before:

* `SqlLanguage`: statements as syntax trees, the three-valued logic of the test
  kit, and a small SQLite (marked external) that runs them;
* `Binder`: `bind_document` and its parts;
* `PolicyCompiler`: activation of a bundle, and the four `compile_*` functions;
* `SqliteEmitter`: aliases, companions, truth columns, descriptors, parameter
  contracts, sealed plans, and the validation of results;
* `RuntimeBoundary`: session authorization, the role's catalog, expectations;
* `ProtectedQuery`: one statement from deployment to answer, an action per pass.

Its reference knows nothing of the pipeline: the client's own statement, run on a
database in which every resource was replaced by what its policy shows (the test
kit's predicate oracle decides). `MCProtectedQuery` lists the statements,
bundles, sessions and databases. SQL stays a tree: text, quoting and parsing are
left out.

The theorems are in modules of their own. About one step of the machine:
**`StepMachineProofs`** (types, and what leads to COMMIT) and **`OwnerStepProofs`**
(what a step may do to the record, the connection, the work, the sequence and the
checks). About the owner: **`TransactionOwnerProofs`** (types, and that COMMIT is
recorded first), **`OwnerRecordProofs`** (the record and the refinement),
**`OwnerConnectionProofs`** (what goes over the connection) and **`AnswerProofs`**
(what a step may answer, and what a commit's caller is told).
**`AtomicProofs`** and **`ClientSessionProofs`** are about `AtomicExecution` and
`ClientSession`.

## Runs

| Run | Shows |
| --- | --- |
| `OwnerCommitPath` | with two faults and one owner loss anywhere: types; no commit is misreported; a `committed` record is true; COMMIT is recorded before it is sent, once, and covers exactly the executed statements; terminal records are final; a sent COMMIT is never followed by another transaction of that name |
| `OwnerCheckedCommit` | two checks, callback queries good and bad, the timer: COMMIT only after every check allowed and the binding was confirmed again; one effect at a time on the connection |
| `OwnerTwoCallers` | two callers, two deployments, an owner loss: nothing runs under another's binding |
| `OwnerLiveness` | under fair drives every caller is answered, a validation ends, and an expiry releases the connection and is recorded unless a begin retry comes between |
| `AtomicExecution` | two attempts of two callers, keyed or not, direct or on their owner, with a deployment, a loss and the cleanup: a keyed write commits at most once while its row is kept; a conflict is the caller's own; `committed` is true and carries its own results; a rejected attempt never commits; a write that could trigger a check is vetted on its owner |
| `PolicyPipeline` | every combination of the statements, bundles, sessions and databases: an answered SELECT is the client's query on its policy view; rows a policy hides neither reach nor shape an answer; a write touches exactly the rows its policy allows, with presets, and leaves rows that satisfy the check, or changes nothing; descriptors and the parameter proof hold on the database's rows; expectations are judged correctly; catalog and compiler agree |
| `ClientSession` | five calls, two lost answers, one owner loss, requests that arrive late: the status the application reads is true of the database; COMMIT covers exactly the confirmed statements; the baton is never stale; a resolved `closed` is final |
| `OwnerAnswers` | *violation*: see finding 1 |
| `OwnerExpiry` | *violation*: see finding 2 |
| `OwnerSuccessor` | *violation*: see finding 3 |
| `AtomicRetry` | *violation*: see finding 4 |
| `PolicyUnfilteredExists` | *violation*: see finding 5 |

`OwnerCommitPath` and `OwnerCheckedCommit` also check that the owner implements
`CommitRecord`.

### Bounds

Clients may send any command of the set at any time, in any order and any number
of times: requests are not bounded. `MaxStatements` is 1, so sequences 1 and 2
(and 0, "no valid sequence") contain the next, the repeated and the skipped
sequence, and the statement after the limit. `MaxFaults` bounds failed or
misreported writes and engine faults, `MaxCrashes` owner losses. `OwnerCommitPath`
has two faults, so that a put may fail and the engine after it (only then does
`commit_unknown` replace `active` in the store), and one loss, at any point of the
protocol; the runs with checks, queries and several callers leave faults to it. Two checks are the least for which "the last" and "the next"
differ; two callers and two snapshots the least for which "another" exists. The
owner's runs separate these dimensions because their product is out of reach; the proofs
have no bounds.

`AtomicExecution`: two attempts are the least for a retry or a conflict, and every
pair of requests over two callers, one key (and none, and a malformed one), a
read, a write and a guarded write with a later write is tried. A batch of one row
and two batches reach the cleanup's limit. Attempts are symmetric: no action and no property
tells them apart by name.

`ClientSession`: five calls hold a statement, a terminal call, a retry of each and
a dispose; the second loss makes the retry ambiguous too. Two sequence numbers
beyond the first reach a skipped and a repeated one.

`PolicyPipeline`: two resources of four and three columns, one of each nullable;
three databases of at most three rows per resource, with NULLs, own and foreign
rows; six bundles (rows of one's own, redacted columns with row limits, one
resource only, rows shared with redaction, and two that activation refuses: a
preset that overlaps a client column, an empty `returning` list); eight sessions,
four of them turned away. Statements are products of projections, joins,
predicates, nested and derived queries, groupings and limits, and the three kinds
of writes. EXISTS stands in WHERE, in a CASE projection, in HAVING and in two of
these at once, with the constant 1, a column or COUNT as its list, under an alias
of its own or that of the outer source; sort keys are columns, outputs and a name
that is both; LIMIT and OFFSET are literals or a parameter of 1, 2 or -1. A
statement is run once from every database: the pipeline keeps no state between
statements. `PolicyUnfilteredExists` runs those of them that have an EXISTS outside
WHERE.

`AtomicExecution`, `PolicyPipeline` and `ClientSession` may stop (all attempts
answered, the statement finished, the calls used up), so their deadlock check is
off.

### Fairness

`FairSpec` assumes that a drive which is not idle takes its next step
(every effect has a timeout in the code: database deadlines, the validator's
timeout, the platform's storage), that the clock advances and that the platform
delivers a due alarm. It assumes nothing of clients, validators' answers, the
database's answers or the order of drives. Progress of a drive is stated as
"the drive is idle again and again, or changes again and again", which is weak
fairness of `Progress(d)`: that action is enabled exactly while the drive is not
idle.

No run of the owner disables the deadlock check: a client may always arrive, or a
drive move.

## Findings

1. **The answer of a commit finished on the callback drive** (`OwnerAnswers`).
   A query that fails the validation, or one a verdict waited for, closes the
   commit on the callback's drive. The client's drive, which awaited the
   validator, ends before that reply is sent, and `lane()` answers
   `POLICYSQL_INTERNAL` although the comment there says that every event is
   answered by the step that decides it. The client sees an unknown outcome for a
   commit that was definitely rejected; safety is not affected.
2. **Expiry during a begin retry** (`OwnerExpiry`). The timer defers to the
   retry's binding check through `rollback_requested`; `begin_checked` never
   reads it. The alarm is used up, and the connection stays open past the
   deadline until another command arrives. The expiry of a validation is lost in
   the same way: `after_callback` skips the deferred rollback when any work is
   pending, a begin retry can be pending, and nothing repeats it. `ExpiryCarriedOut`
   shows that without a begin retry, a failed write or an engine fault both are
   carried out.
3. **A successor without an alarm** (`OwnerSuccessor`). The timer fires during the
   `validating` persist and is deferred in memory only; after a loss of the owner
   the record stays `validating`, which only an alarm could end.
4. **A committed keyed write rejected on retry** (`AtomicRetry`). On an owner,
   `lookup_returned` asks whether the deadline passed before it looks at the row.
   A retry whose deadline passes while the lookup is in flight, or before it is
   sent (`atomic_query` asks the same first), is answered 409
   `TRANSACTION_UNAVAILABLE`, which the client takes as proof that nothing was
   committed; ADR 0007 says that such a retry is not answered with a rejection.
   `TimelyRejectionIsTrue` shows that the passed deadline is the only way it
   happens.
5. **An EXISTS outside WHERE without its row filter** (`PolicyUnfilteredExists`).
   `compile_select` protects the nested SELECTs of the predicate only, and the
   policies and the emitter's aliases are collected from the predicate too. An
   EXISTS in a CASE projection or in HAVING is refused when WHERE has none on its
   resource; when it has, the statement is accepted and that EXISTS is emitted
   unfiltered, so rows the policy hides decide the answer. `security-model.md`
   says that every base-table access has an applicable policy.

Met while modelling, and stated where the properties make room for them:

* a negative LIMIT parameter lifts the policy's limit (`NegativeLimit`).
  `bind_limit` refuses a negative literal and takes a parameter of any Int64; the
  emitted `MIN(:p, cap)` is -1 for `p = -1`, which SQLite takes as no limit, and
  only `limits.max_rows` is left. `docs/policy-semantics.md:45` says that the
  stricter of the two limits is effective, `docs/sql-subset.md:12` that the
  parameter is non-negative. `SelectIsViewQuery` and `ExpectationsDecide` state
  the answer as the code gives it, without the policy's limit; `CatalogIsHonest`
  excepts such a request from its row count only;
* a nested alias may shadow (`ShadowedAlias`). `bind_exists` compares resources and
  not names, and a qualifier is resolved in the outermost source that has it:
  `EXISTS (SELECT 1 FROM b AS a WHERE a.own = ...)` under `FROM a` is bound to the
  outer `a`, where SQL means `b` and `docs/sql-subset.md:23` says that the
  statement is refused;
* an ORDER BY name may be a column and another output (`AmbiguousSortKey`).
  `bind_select` takes the column, SQLite the output; `docs/sql-subset.md:23` says
  that ambiguous references are rejected;
* `SelectIsViewQuery` and `ExpectationsDecide` are false of the statements of the
  last two items and of finding 5, and leave out these (`TakenOtherwise`) and no other.
  `HiddenRowsDoNotMatter` leaves out those of finding 5 only: a misread name
  shows or moves no row that a policy hides;
* the bare columns beside `COUNT(*)` are NULL when no row is left to count, which
  their descriptors exclude: the result is refused after it was computed
  (`BareColumnOfEmptyCount`);
* a conditional column of a LEFT JOINed resource is in the catalog and refused by
  the compiler (`PaddedConditional`); an EXISTS outside WHERE is refused, whatever
  the catalog lists, when WHERE has no EXISTS on its resource
  (`ExistsOutsideWhere`; finding 5 when it has). Both refusals fail closed;
* `allow_aggregations` gates COUNT as an output, not GROUP BY or COUNT in HAVING
  (`ListedUse`);
* the list of an EXISTS may be any projection list, COUNT included, where
  `docs/sql-subset.md:11` says one direct column or the constant 1;
* the catalog lists a resource only if the role may select from it, also when it
  may write to it;
* UPDATE and DELETE predicates are not held against the role's select columns.

## Proofs

The theorems about the machine and the owner hold for every value of the
constants that satisfies `ConstantsAssumption` and `InputsAssumption` (naturals
where numbers are meant, the configured checks are among the checks, `"none"`
names no snapshot or caller, client inputs are client commands, callback inputs
are queries, and a commit carries its sequence only, because `parse_command` in
`step.rs` refuses one with other members); those about `AtomicExecution` assume `RequestsAssumption`, those
about `ClientSession` `BoundsAssumption`. TLC evaluates the assumptions in every
run of the module. Every inductive invariant was checked by TLC on the runs'
instances before it was proved.

### One step of the machine

* `StepType`: a step on well-typed arguments yields a well-typed output. One
  lemma per handler.
* `CommitStep`: a step leads to COMMIT only by announcing it (persisting
  `committing` from a confirmed binding) or by the success of exactly that
  persist. `SealedStep`: from a sealed state every step, on any event, early, late
  or repeated, stays sealed, except COMMIT's own proof that it was not sent.
* `MachineSteps`: from an `Orderly` state a step resets, or does what `Steps`
  allows and leaves an orderly state. `Orderly` says which work goes with which
  phase and connection, that the command of every work is the record's own
  caller's for the record's next sequence under the runtime's snapshot, and that a
  query that holds the connection keeps every other user waiting. `Steps` says
  what may become of the record (`RecordSteps`: a terminal one stays, `committed`
  follows COMMIT's success only), of one that is not stored yet (`StartSteps`), of
  the connection (`ConnSteps`), of the work (`WorkSteps`: new work has the
  fresh id of the effect asked for) and of the transaction's progress
  (`ProgressSteps`: what uses the connection keeps it until it is answered, the
  sequence counts the statements that succeeded, and the checks go on one by one).
  The proof has a lemma per handler (`...Consumed`, what an outcome leads to) and
  per kind of move (`...Steps`).
* `FrankSteps`: from an `Honest` state a step says `committed` only on a
  committed record, gives a definite rejection only for one of the `Reasons`
  (the command is no commit; a commit is refused as it comes and the state left
  alone; the answer is a begin's, or of a transaction that ended, or another
  commit is in doubt; a validation expired), and leaves an honest state. `Honest` says what may be said
  later: a persisted answer waits in the work, with one text for the write's
  success and one for its failure. Most handlers are `Calm` (they say nothing
  definite and keep the record's caller and sequence), which one lemma makes frank.

### The owner

* `TypeCorrect`: `Spec => []TypeOK`.
* `RecordedFirst`: `Spec => []CommitRecordedFirst`. While the store holds a record
  that a successor would fail for certain, no COMMIT was handed to the database.

`CommitRecordedFirst` is not inductive: it says nothing about the state in
memory, a persist under way or a COMMIT about to be sent. The strengthening is
`CommitProtocol`:

* `SealedByCommit`: from the moment COMMIT is asked for, the store says so and the
  state in memory is `Sealed`: its phase is one of `committing`,
  `commit_unknown`, `committed`, `discarded`, its connection is not open, and its
  pending work is one of the few tasks that cannot record anything else;
* `SentOnce`: one drive at most awaits a commit, and before it is sent none was;
* `AnnouncedFirst`: while a `CommitPersist` is pending the phase is `committing`,
  and if its put took effect the store says so;
* `EventsUnanswered` and `Consistent(m)`, the machine's own consistency rule.

`CommitProtocolHolds` combines `CommitStep` and `SealedStep` over the owner's
actions, including faults, misreported writes and owner losses.

`OwnerRecordProofs` adds the second inductive invariant, `RecordInv`
(`RecordInvariant`), and from it:

* `CommittedIsTruth`: a stored `committed` is of a transaction the database
  committed;
* `OwnBinding`: nothing runs under another caller's binding or another snapshot;
* `TerminalForever` and `CommitForever`, the two action properties;
* `OwnerKeepsPromise`: `Spec => KeepsPromise`, the refinement of `CommitRecord`.
  `StoreSteps` lists what each action does to the store and the database, and
  `PromiseStep` maps each case to `Record`, `Open`, `Send`, `Apply`, `Abort`,
  `Lose` or no step.

The parts of `RecordInv`, and what each is needed for:

* `MemoryFollows`: what the next write makes of the record may follow the one in
  the store. Memory and store differ while a persist is under way, after one that
  failed, and after one that took effect and was reported as failed;
* `NotYetStored` and `BegunFirst`: a transaction whose record is not stored yet
  stores it before anything else, or ends; so a crash then leaves no record at
  all, and `Lose` never finds one to lose;
* `OpensOnce` and `BeginsOnClient`: only the client's drive opens a transaction,
  and only for a name without a record, although the other drives run the same
  machine. The `sent` of an earlier transaction is therefore never reset;
* `ClosesOnce`: an open connection is not being opened or closed, and the drive
  that awaits COMMIT for the work `CommitSend` still has the connection it had.
  That excludes the success `finish()` returns without a word to the database for
  the work that would record it as `committed`;
* `SentFor`: COMMIT is on its way for a sequence and under a readable record;
* `CommittedTruly`: the same as `CommittedIsTrue` of the record in memory, which
  is `committed` before the store is;
* `OrderlyNow` and `ReadyEvents`: the hypotheses of `MachineSteps`.

`FeedStep` takes one turn of a drive apart, `LiveInv`, `DiscardInv` and `DropInv`
say that it keeps `RecordInv`, and `SameInv` and `DroppedInv` cover the actions
that leave the machine alone or drop it.

The first attempt at the refinement failed for a good reason: with two faults
`commit_unknown` may be written over `active` or `validating` (the put of
`committing` failed, and the engine before its outcome was stepped), which an
earlier `CommitRecord` did not allow. `Follows` was widened and the run given the second fault.

`OwnerConnectionProofs` is about the effects in flight. `OwnerSteps` divides the
actions into four kinds: a turn of a drive, a step that starts no effect, COMMIT
handed to the database, and an outcome lost with its drive. Three more invariants
are inductive on top of `CommitProtocol` and `RecordInv`, each on the one before:

* `UseInv`, from which `ConnectionIsExclusive` follows. Effects in flight have ids
  of their own (`UniqueIds`: a fresh id is none that is awaited), and while the
  connection is open, what executes on it is the statement of the work in progress
  or the query of its validation (`Attached`). A step that wants the connection
  finds it free of both, so nobody is using it;
* `CountInv`, from which `CommitCoversExecuted` follows. The sequence of a
  transaction that can still commit counts the statements that ran (`Counted`),
  and so does the COMMIT in flight or sent (`SentCounts`). The exception is
  `Orphan`: a statement whose drive failed may have run or not, no outcome will
  answer it, and its transaction can only end. `Counted` also says that a
  transaction that changed rows is `dirty`;
* `CheckInv`, from which `CommitIsChecked` follows. The validator in flight is the
  one the work waits for (`AttachedValidator`), and each stage of the checks, a
  verdict that waits for a query included, stands for the checks allowed so far
  (`Checking`); a transaction that is not `dirty` skips them because it changed
  nothing. `CommitReady` carries this over to the COMMIT underway.

`AnswerProofs` is about what commits are told, and rests on all of these.
`CommitReportedTruly` is `CommitNeverMisreported`: `committed` is told only of a
commit the database committed, and a commit whose last attempt was definitely
rejected never commits, however late the database applies a COMMIT. The property is
not inductive, because a rejection is about the future: of a commit still in
progress on another drive, of a COMMIT that was sent and not applied, of the
commit a client sends next. `AnswerInvariant` proves `AnswerInv`:

* `CallerInv`: memory and store are honest, each drive is about to step the
  commands of its own lane, whose caller is the one that waits, and a begin or an
  answer in doubt is held by the client's drive, so that its rejection reaches no
  other commit. A write that took effect left a record (`TookStored`): a rejection
  of an ended transaction is given after its record was stored;
* `SentInv`: the caller and sequence of a COMMIT that is awaited or sent are those
  of the record, in memory and in the store (`Tracked`). Without it a successor
  could not tell a repeated commit from another one;
* `ToldInv`: after a rejection the transaction is over (`Over`: nothing sent or
  awaited, and the record's transaction does not run), or nothing sent,
  awaited, in progress or about to be stepped is that commit (`Silent`). The second
  is needed for refusals that end nothing: another caller's commit, a skipped
  sequence, a repeated commit with another sequence while one is in doubt. It is
  lost when the client sends the same commit again, which is why the property is
  about the last attempt: `told` drops the rejection then.

`AnswerSteps` divides the owner's actions as callers see them: a turn of a drive
(`Speaks`, with what becomes of its state: `Carries`, `Drops` or `Discards`), a new
command (`Asks`), COMMIT handed to the database (`Hands`), a successor that cannot
read the record (`Forgets`) and steps that say nothing (`Pauses`).

### One-shot executions

`AtomicInvariant` proves `TypeOK` and `AtomicInv`, for every set of attempts; from
it follow `CommitsOncePerKey`, `ConflictsAreOwn`, `CommittedRepliesAreTrue`,
`RejectionsNeverCommit`, `GuardedAreVetted` and `TimelyRejectionsAreTrue`.
`AtomicInv` is a statement about each attempt (`AttemptOK`) and two about all of
them:

* `RepliesLast`, `SentByCommit` and `RejectionExcludes`: replies are decided as an
  execution ends, COMMIT is sent only by the work that waits for it, and a
  rejection that is decided or told excludes COMMIT from then on, because the
  execution is over but for its rollback;
* `RepliesTrue` with `RowsTrue`: the row a replay reads is of an applied attempt
  of the same caller and key;
* `RowFirst` with `OneWriter`: a keyed write inserts its row before COMMIT in the
  same transaction, under SQLite's single writer, so a second attempt of the key
  either finds the row or could not have been in the transaction at all. This is
  what `OncePerKey` rests on;
* `ChecksFirst`, `LookedUp` and `DeadlineIsOwners` for the checks, for what an
  execution past its lookup knows of earlier attempts, and for whose deadline a
  late answer is.

### The client session

`SessionInvariant` proves `TypeOK` and `SessionInv`, for any number of calls, lost
answers and lost owners; from it follow `StatusNeverLies`, `CommitsConfirmed`,
`BatonNeverStale` and the action property `ClosedStays`. Two chains make the
status true. A success is heard only for a command the owner completed
(`Numbering`: the owner is at the client's command or one ahead; `Success`), and
the owner completes a commit only after the server committed (`Recorded`). A
rejection settles a command only while the client has sent it once
(`FirstAttempt`), and an attempt is on the wire, in the owner's hands or answered,
never two of these (`Tokens`), so that nothing of it can still commit. `RanOK` says
that the server ran exactly the statements the owner completed, `BatonOK` and
`FlightOK` where the stream's baton is, and `QueueOK` that a disposing call is the
last one, which `ClosedIsFinal` needs.

### Model-checked only

* Liveness (fairness and `ENABLED` are out of the prover's reach).
* The policy pipeline: its operators walk syntax trees with RECURSIVE definitions,
  so no theorem can be stated about them here, and what a recursive definition
  computes would need induction over data, which the installed provers lack.

## Not modelled

* `load()` and the step that follows it are one action: the Durable Object input
  gate delivers nothing while a storage read is pending.
* The transaction a throwing step has just opened (`EngineFault` on the outcome of
  `open`) is not tracked: the record does not know it, and it is closed with the
  state.
* BEGIN over HTTP and the recovery of a stream whose BEGIN failed
  (`recoverStream`): `ClientSession` starts after BEGIN. Value codecs and size
  limits of the transport.
* Binder and compiler: the tokenizer, constant and JSON-collection SELECT, LIKE and
  GLOB, `>` and `>=` (mirror images of `<` and `<=`), CAST, registered scalars,
  string-literal witnesses, column-metadata bytes, complexity and depth limits,
  value formats and constraints, the explain endpoint, `validate_deployment_surface`
  (a second look at the same statement, which takes the expressions used here). With
  two resources, one of them joined, an EXISTS in a join's ON has no third to name
  and does not bind.
* `AtomicExecution`: where a read-only execution is placed (`Mode::Read`), the
  comparison of start fingerprints, the binding's generation in the fingerprint,
  and the second look at the snapshot after the binding check of a commit.
* The plan-handle table of the WASM runtime (at most 64 plans) and its marshalling;
  a throw of it is `EngineFault`.
* Canonical and strict JSON, the bounds arithmetic, result budgets: hashes are
  injective and a limit is one outcome.
* The engine's authentication and routing, the HTTP adapter, the Kysely driver
  (an adapter over the client library), the generator and the spikes.

## Plan

1. `StepMachine`, `TransactionOwner`, their runs and the commit theorems (done).
2. `CommitRecord` and the refinement (checked and proved).
3. `AtomicExecution` with the cleanup (checked and proved).
4. `TransactionClient`, `HranaStream` and their composition (checked and proved).
5. The policy pipeline against the policy view (checked).
6. What goes over the connection: `ConnectionExclusive`, `CommitsWhatWasExecuted`
   and `CommitOnlyChecked` (checked and proved).
7. What commits are told: `CommitNeverMisreported` (checked and proved).
