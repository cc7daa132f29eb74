----------------------------- MODULE StepMachine -----------------------------
(***************************************************************************)
(* The step machine of crates/policysql-transaction: the pure function     *)
(* step(state, event, host) that decides everything an interactive         *)
(* transaction does.  The host (module TransactionOwner) keeps its state,  *)
(* feeds it events and runs the effects it asks for.                       *)
(*                                                                         *)
(* A machine state m holds the durable record (rec) and the volatile part: *)
(*   conn                what the machine knows of its database connection *)
(*   work                the pending effect of the client or background    *)
(*                       lane, with the task that waits for it             *)
(*   callback            the pending effect of a validator's query         *)
(*   cap                 the live callback capability                      *)
(*   deferred            a verdict that waits for the connection           *)
(*   rollback_requested  an expiry that waits for the connection           *)
(*   revoked             the validator call whose answer no longer counts  *)
(* "No volatile part" is the state Fresh(rec).                             *)
(*                                                                         *)
(* An output o is the next state, the first reply sent to each lane (a     *)
(* lane has one caller, so only the first can reach one), the one awaited  *)
(* effect (the batch rule allows at most one) and whether the host must    *)
(* reset; `fault` is the Err(Fault) of the Rust code, which never leaves   *)
(* RunDispatch.                                                            *)
(*                                                                         *)
(* h holds the host facts of one step: due (the record's deadline passed), *)
(* late (the capability's passed), snap (the runtime's snapshot), id (the  *)
(* next effect id: fresh, because ids count up from a random seed).        *)
(***************************************************************************)
EXTENDS Naturals

CONSTANTS
    Snapshots,      \* deployment snapshots (schema and policy versions)
    Principals,     \* callers: principal, subject, role and session
    Checks,         \* how many commit checks a changed row triggers
    Configured,     \* the checks that have an endpoint
    MaxStatements   \* limits.max_transaction_statements

ASSUME ConstantsAssumption ==
    /\ Checks \in Nat
    /\ MaxStatements \in Nat
    /\ Configured \subseteq 1..Checks
    /\ "none" \notin Snapshots \cup Principals

(***************************************************************************)
(* Vocabulary                                                              *)
(***************************************************************************)
HasDeadline == {"active", "validating", "committing"}
Terminal == {"committed", "rolled_back", "failed", "expired", "commit_unknown",
             "discarded"}
Phases == {"absent"} \cup HasDeadline \cup Terminal
Connections == {"none", "opening", "open", "closing"}
Lanes == {"none", "client", "background"}
Tasks == {"none", "BeginBinding", "BeginOpen", "BeginPersist", "BeginTimer",
          "StatementBinding", "StatementExecute", "CommitBinding",
          "ValidatingPersist", "Validator", "Verdict", "CommitPersist",
          "CommitSend", "RollbackBinding", "RollbackSend", "CloseRollback",
          "Reply", "ResetAfterPersist"}
EffectTypes == {"checkBinding", "open", "persist", "setTimer", "execute",
                "callValidator", "commit", "rollback"}
Codes == {"state", "result", "committed", "rolled_back", "internal",
          "unavailable", "conflict", "outcome_unknown", "check_rejected",
          "binding_rejected", "database", "sql_rejected", "limit", "invalid"}
Replies == Codes \cup {"none"}
Kinds == {"none", "begin", "statement", "commit", "rollback", "invalid", "query"}
Payloads == {"none", "read", "write", "bad"}
SnapshotOrNone == Snapshots \cup {"none"}
PrincipalOrNone == Principals \cup {"none"}

\* A client command or a callback query.  seq 0 is a command without a valid
\* sequence; pay is what the statement does ("bad": it does not compile);
\* tok is the check whose capability a query presents.
Commands == [kind : Kinds, seq : Nat, pay : Payloads, snap : SnapshotOrNone,
             auth : PrincipalOrNone, tok : Nat]
NoCmd == [kind |-> "none", seq |-> 0, pay |-> "none", snap |-> "none",
          auth |-> "none", tok |-> 0]

\* The digest of the last completed command; its sequence is rec.seq - 1.
Digests == [kind : Kinds, pay : Payloads]
NoDigest == [kind |-> "none", pay |-> "none"]
DigestOf(cmd) == [kind |-> cmd.kind, pay |-> cmd.pay]

\* The durable record.  dirty: some statement changed rows, so `mutations`
\* is not empty.  "absent" is no record, "discarded" the tombstone.
Records == [phase : Phases, snap : SnapshotOrNone, auth : PrincipalOrNone,
            seq : Nat, last : Digests, dirty : BOOLEAN]
NoRec == [phase |-> "absent", snap |-> "none", auth |-> "none", seq |-> 0,
          last |-> NoDigest, dirty |-> FALSE]
Tombstone == [NoRec EXCEPT !.phase = "discarded"]
Live(rec) == rec.phase \notin {"absent", "discarded"}

\* The work of a lane: its task, the id of the effect it awaits, and the
\* fields of the Rust task variants (check is CommitChecks.index + 1).
Works == [id : Nat, task : Tasks, lane : Lanes, cmd : Commands, check : Nat,
          allowed : BOOLEAN, phase : Phases, reply : Replies,
          failure : Replies, expire_after : BOOLEAN, restore : Records]
NoWork == [id |-> 0, task |-> "none", lane |-> "none", cmd |-> NoCmd,
           check |-> 0, allowed |-> FALSE, phase |-> "absent",
           reply |-> "none", failure |-> "none", expire_after |-> FALSE,
           restore |-> NoRec]

\* The callback lane's work and the capability (check 0: none).
Callbacks == [id : Nat, task : {"none", "Binding", "Execute"}, tok : Nat,
              seq : Nat]
NoCallback == [id |-> 0, task |-> "none", tok |-> 0, seq |-> 0]
Capabilities == [check : Nat, next : Nat]
NoCap == [check |-> 0, next |-> 0]

Machines == [rec : Records, conn : Connections, work : Works,
             callback : Callbacks, cap : Capabilities, deferred : Works,
             rollback_requested : BOOLEAN, revoked : Nat]
Fresh(rec) == [rec |-> rec, conn |-> "none", work |-> NoWork,
               callback |-> NoCallback, cap |-> NoCap, deferred |-> NoWork,
               rollback_requested |-> FALSE, revoked |-> 0]

\* An awaited effect; arg is the sequence of the client lane's statement or
\* commit, and the check of a validator call.
Effects == [type : EffectTypes \cup {"none"}, id : Nat, arg : Nat]
NoEffect == [type |-> "none", id |-> 0, arg |-> 0]

Results == {"none", "ok", "denied", "failed", "refused", "allow", "deny",
            "not_committed", "unknown"}
Events == [type : EffectTypes \cup {"forwarded", "timerFired", "abandon"},
           id : Nat, result : Results, cmd : Commands]
HostFacts == [due : BOOLEAN, late : BOOLEAN, snap : Snapshots, id : Nat]

Outputs == [m : Machines, client : Replies, callback : Replies,
            await : Effects, reset : BOOLEAN, fault : BOOLEAN]

(***************************************************************************)
(* Plumbing                                                                *)
(***************************************************************************)
\* The effect each task waits for (state.rs awaited_by).
AwaitedBy(task) ==
    CASE task \in {"BeginBinding", "StatementBinding", "CommitBinding",
                   "RollbackBinding"} -> "checkBinding"
      [] task = "BeginOpen" -> "open"
      [] task \in {"BeginPersist", "CommitPersist", "ValidatingPersist",
                   "Reply", "ResetAfterPersist"} -> "persist"
      [] task = "BeginTimer" -> "setTimer"
      [] task \in {"Validator", "Verdict"} -> "callValidator"
      [] task = "StatementExecute" -> "execute"
      [] task = "CommitSend" -> "commit"
      [] task \in {"RollbackSend", "CloseRollback"} -> "rollback"
      [] OTHER -> "none"

CallbackAwaits(task) ==
    IF task = "Binding" THEN "checkBinding"
    ELSE IF task = "Execute" THEN "execute" ELSE "none"

Quiet(m) == [m |-> m, client |-> "none", callback |-> "none",
             await |-> NoEffect, reset |-> FALSE, fault |-> FALSE]
Fault(m) == [Quiet(m) EXCEPT !.fault = TRUE]
Reset(o) == [o EXCEPT !.reset = TRUE]

\* A reply on a lane, sent before what the output already holds; "none" is
\* no reply.
Respond(reply, o) == IF reply = "none" THEN o ELSE [o EXCEPT !.client = reply]
RespondCallback(reply, o) == [o EXCEPT !.callback = reply]

Wait(m, h, w) ==
    [Quiet([m EXCEPT !.work = [w EXCEPT !.id = h.id]]) EXCEPT
        !.await = [type |-> AwaitedBy(w.task), id |-> h.id,
                   arg |-> IF w.task \in {"StatementExecute", "CommitSend"}
                           THEN w.cmd.seq
                           ELSE IF w.task = "Validator" THEN w.check ELSE 0]]

WaitCallback(m, h, task, q) ==
    [Quiet([m EXCEPT !.callback = [id |-> h.id, task |-> task, tok |-> q.tok,
                                   seq |-> q.seq]]) EXCEPT
        !.await = [type |-> CallbackAwaits(task), id |-> h.id, arg |-> 0]]

TaskWork(task, lane, cmd) ==
    [NoWork EXCEPT !.task = task, !.lane = lane, !.cmd = cmd]
ReplyWork(lane, reply, failure) ==
    [NoWork EXCEPT !.task = "Reply", !.lane = lane, !.reply = reply,
                   !.failure = failure]

HasWork(m) == m.work.task # "none"
HasDeferred(m) == m.deferred.task # "none"
CallbackExecuting(m) == m.callback.task = "Execute"

\* Nothing in progress or held: the volatile part is dropped.
Idle(m) == /\ ~HasWork(m)
           /\ m.conn = "none"
           /\ m.callback.task = "none"
           /\ m.cap.check = 0
           /\ ~HasDeferred(m)

\* Volatile::is_consistent: what every step must leave behind.
Consistent(m) ==
    /\ m.work.task # "Verdict"
    /\ m.cap.check # 0 => m.work.task = "Validator"
    /\ HasDeferred(m) => /\ ~HasWork(m)
                         /\ m.deferred.task = "Verdict"
                         /\ CallbackExecuting(m)
    /\ HasWork(m) /\ m.callback.task # "none" => m.work.id # m.callback.id

\* expires_at_ms.is_none_or(now >= at): a phase without a deadline is due.
Expired(m, h) == h.due \/ m.rec.phase \notin HasDeadline

SetPhase(m, phase) ==
    IF phase = "discarded" THEN [m EXCEPT !.rec = Tombstone]
    ELSE IF Live(m.rec) THEN [m EXCEPT !.rec.phase = phase] ELSE m

(***************************************************************************)
(* Closing                                                                 *)
(***************************************************************************)
Revoke(m) ==
    [m EXCEPT !.cap = NoCap,
              !.revoked = IF m.work.task = "Validator" THEN m.work.id ELSE @]

PersistPhase(m, h, lane, phase, reply) ==
    IF m.rec.phase = "absent"
    THEN Respond(reply, Quiet([m EXCEPT !.work = NoWork]))
    ELSE Wait(SetPhase(m, phase), h,
              ReplyWork(lane, reply,
                        IF reply = "none" THEN "none" ELSE "internal"))

\* Roll back an open connection, persist the phase, then answer.
Close(m, h, lane, phase, reply) ==
    IF CallbackExecuting(m) THEN Fault(m)
    ELSE IF m.conn = "open"
    THEN Wait([Revoke(m) EXCEPT !.conn = "closing"], h,
              [TaskWork("CloseRollback", lane, NoCmd) EXCEPT
                  !.phase = phase, !.reply = reply])
    ELSE PersistPhase([Revoke(m) EXCEPT !.conn = "none"], h, lane, phase, reply)

ExpireClient(m, h, lane) == Close(m, h, lane, "expired", "unavailable")

\* Persist the record as it is, then answer.
PersistReply(m, h, reply, failure) ==
    Wait(m, h, ReplyWork("client", reply, failure))

\* complete: a finished terminal command is the last one.
Complete(m, phase, cmd) ==
    SetPhase([m EXCEPT !.rec.seq = @ + 1, !.rec.last = DigestOf(cmd)], phase)

(***************************************************************************)
(* Commit checks and validator callbacks (step/checks.rs)                  *)
(***************************************************************************)
\* Whether the record's mutations trigger checks, by ascending id 1..Checks.
Triggered(rec) == rec.dirty /\ Checks > 0

Issue(m, h, w) ==
    IF h.due \/ m.conn # "open"
    THEN Close(m, h, w.lane, "failed", "check_rejected")
    ELSE Wait([m EXCEPT !.cap = [check |-> w.check, next |-> 1]], h,
              [TaskWork("Validator", w.lane, w.cmd) EXCEPT !.check = w.check])

StartChecks(m, h, w) ==
    IF ~Triggered(m.rec) THEN Fault(m)
    ELSE IF ~(1..Checks \subseteq Configured)
    THEN Close(m, h, w.lane, "failed", "check_rejected")
    ELSE Wait(SetPhase(m, "validating"), h,
              [TaskWork("ValidatingPersist", w.lane, w.cmd) EXCEPT !.check = 1])

\* Mutant: the last check is skipped.
VerdictOffByOne(m, h, w, allowed) ==
    IF ~allowed THEN Close(m, h, w.lane, "failed", "check_rejected")
    ELSE IF w.check + 1 < Checks THEN Issue(m, h, [w EXCEPT !.check = @ + 1])
    ELSE Wait(m, h, TaskWork("CommitBinding", w.lane, w.cmd))

Verdict(m, h, w, allowed) ==
    IF ~allowed THEN Close(m, h, w.lane, "failed", "check_rejected")
    ELSE IF w.check < Checks THEN Issue(m, h, [w EXCEPT !.check = @ + 1])
    ELSE Wait(m, h, TaskWork("CommitBinding", w.lane, w.cmd))

\* Mutant: the verdict does not wait for the query that holds the connection.
VerdictOvertakes(m, h, w, allowed) ==
    Verdict([m EXCEPT !.cap = NoCap], h, w, allowed)

\* The capability dies with the answer; the verdict waits for the connection
\* when a query holds it.
VerdictArrived(m, h, w, allowed) ==
    LET n == [m EXCEPT !.cap = NoCap]
    IN  IF CallbackExecuting(n)
        THEN Quiet([n EXCEPT !.deferred = [w EXCEPT !.id = 0, !.task = "Verdict",
                                                    !.allowed = allowed]])
        ELSE Verdict(n, h, w, allowed)

ExpireValidating(m, h) ==
    LET ended == IF HasWork(m)
                 THEN [m EXCEPT !.cap = NoCap, !.revoked = m.work.id,
                                !.work = NoWork]
                 ELSE [m EXCEPT !.cap = NoCap, !.deferred = NoWork]
        n == SetPhase(ended, "expired")
    IN  Respond("check_rejected",
            IF CallbackExecuting(n)
            THEN Quiet([n EXCEPT !.rollback_requested = TRUE])
            ELSE Close(n, h, "background", "expired", "none"))

CapabilityLive(m) == /\ m.cap.check # 0
                     /\ m.rec.phase = "validating"
                     /\ m.conn = "open"
                     /\ m.work.task = "Validator"

\* Answer the query, then end the transaction and reject the commit.
FailValidation(m, h, reply) ==
    LET n == [m EXCEPT !.callback = NoCallback, !.cap = NoCap,
                       !.revoked = m.work.id, !.work = NoWork]
    IN  IF m.work.task # "Validator" THEN Fault(m)
        ELSE RespondCallback(reply,
                 Close(n, h, "client", "failed", "check_rejected"))

CallbackQuery(m, h, q) ==
    IF m.callback.task # "none" THEN RespondCallback("internal", Quiet(m))
    ELSE IF ~CapabilityLive(m) THEN RespondCallback("unavailable", Quiet(m))
    ELSE IF q.tok # m.cap.check \/ h.late \/ h.due \/ q.seq = 0
                \/ m.rec.snap # h.snap
    THEN FailValidation(m, h, "unavailable")
    ELSE IF m.cap.next > 1 /\ q.seq + 1 = m.cap.next /\ q.pay = "read"
    THEN RespondCallback("result", Quiet(m))
    ELSE IF q.seq # m.cap.next \/ q.seq > MaxStatements
    THEN FailValidation(m, h, "conflict")
    ELSE IF q.pay # "read"
    THEN FailValidation(m, h, IF q.pay = "bad" THEN "sql_rejected" ELSE "conflict")
    ELSE WaitCallback(m, h, "Binding", q)

\* Mutant: the rollback that waited for the query is forgotten.
AfterCallbackVerdictOnly(m, h) ==
    IF HasDeferred(m)
    THEN Verdict([m EXCEPT !.deferred = NoWork], h, m.deferred, m.deferred.allowed)
    ELSE Quiet(m)

\* The connection is free again: the verdict or the rollback that waited.
AfterCallback(m, h) ==
    IF HasDeferred(m)
    THEN Verdict([m EXCEPT !.deferred = NoWork], h, m.deferred, m.deferred.allowed)
    ELSE IF /\ m.rollback_requested
            /\ ~HasWork(m)
            /\ m.conn = "open"
            /\ m.rec.phase \in Terminal
    THEN Close(m, h, "background", m.rec.phase, "none")
    ELSE Quiet(m)

CallbackFailed(m, h, live, reply) ==
    IF live THEN FailValidation(m, h, reply)
    ELSE RespondCallback("unavailable", AfterCallback(m, h))

CallbackBinding(m, h, cb, live, result) ==
    CASE result = "ok" /\ ~live ->
            RespondCallback("unavailable", AfterCallback(m, h))
      [] result = "ok" /\ live /\ (h.due \/ h.late \/ m.rec.snap # h.snap) ->
            FailValidation(m, h, "unavailable")
      [] result = "ok" /\ live /\ ~(h.due \/ h.late \/ m.rec.snap # h.snap) ->
            WaitCallback(m, h, "Execute", cb)
      [] result = "denied" -> CallbackFailed(m, h, live, "binding_rejected")
      [] OTHER -> CallbackFailed(m, h, live, "database")

CallbackExecuted(m, h, cb, live, result) ==
    CASE result = "ok" /\ live ->
            RespondCallback("result", Quiet([m EXCEPT !.cap.next = cb.seq + 1]))
      [] result = "refused" /\ live -> FailValidation(m, h, "limit")
      [] result = "failed" -> CallbackFailed(m, h, live, "database")
      [] OTHER -> RespondCallback("unavailable", AfterCallback(m, h))

CallbackOutcome(m, h, result) ==
    LET cb == m.callback
        n == [m EXCEPT !.callback = NoCallback]
        live == CapabilityLive(n) /\ n.cap.check = cb.tok
    IN  IF cb.task = "Binding" THEN CallbackBinding(n, h, cb, live, result)
        ELSE CallbackExecuted(n, h, cb, live, result)

(***************************************************************************)
(* Outcomes of the client and background lanes (step.rs consume).  Each    *)
(* operator is called with the work already taken out of m.                *)
(***************************************************************************)
Recheck(m, h, lane, next) ==
    IF ~Live(m.rec) THEN Fault(m)
    ELSE IF Expired(m, h) \/ m.rollback_requested THEN ExpireClient(m, h, lane)
    ELSE IF m.rec.snap # h.snap THEN Close(m, h, lane, "failed", "unavailable")
    ELSE next

BindingRefused(m, h, w, result) ==
    Close(m, h, w.lane, "failed",
          IF result = "denied" THEN "binding_rejected" ELSE "database")

\* Mutant: a begin retry fails any record it finds without a connection.
BeginFailsAnyRecord(m, h, w) ==
    IF Live(m.rec) /\ m.conn # "open"
    THEN PersistReply(SetPhase(m, "failed"), h, "unavailable", "internal")
    ELSE IF Live(m.rec) THEN Respond("state", Quiet(m))
    ELSE IF m.rec.phase = "discarded" THEN Respond("unavailable", Quiet(m))
    ELSE Wait([m EXCEPT !.conn = "opening"], h,
              TaskWork("BeginOpen", "client", w.cmd))

BeginChecked(m, h, w) ==
    CASE m.rec.phase = "discarded" -> Respond("unavailable", Quiet(m))
      [] m.rec.phase = "absent" ->
            Wait([m EXCEPT !.conn = "opening"], h,
                 TaskWork("BeginOpen", "client", w.cmd))
      [] Live(m.rec) /\ (m.rec.auth # w.cmd.auth \/ m.rec.snap # w.cmd.snap) ->
            Respond("conflict", Quiet(m))
      [] OTHER ->
            IF m.rec.phase \in {"committing", "commit_unknown"}
            THEN Respond("unavailable", Quiet(m))
            ELSE IF m.rec.phase = "active" /\ m.conn # "open"
            THEN PersistReply(SetPhase(m, "failed"), h, "unavailable", "internal")
            ELSE Respond("state", Quiet(m))

BeginBinding(m, h, w, result) ==
    IF result = "ok" THEN BeginChecked(m, h, w)
    ELSE Respond(IF result = "denied" THEN "binding_rejected" ELSE "database",
                 Quiet(m))

BeginOpen(m, h, w, result) ==
    IF result = "ok"
    THEN Wait([m EXCEPT !.conn = "open",
                        !.rec = [NoRec EXCEPT !.phase = "active", !.seq = 1,
                                              !.snap = w.cmd.snap,
                                              !.auth = w.cmd.auth]], h,
              TaskWork("BeginPersist", w.lane, NoCmd))
    ELSE Respond("database", Quiet([m EXCEPT !.conn = "none"]))

BeginPersist(m, h, w, result) ==
    IF result # "ok" THEN Close(m, h, w.lane, "failed", "internal")
    ELSE IF m.rec.phase \notin HasDeadline THEN Fault(m)
    ELSE Wait(m, h, TaskWork("BeginTimer", w.lane, NoCmd))

BeginTimer(m, h, w, result) ==
    IF result # "ok" THEN Close(m, h, w.lane, "failed", "internal")
    ELSE IF m.rollback_requested THEN ExpireClient(m, h, w.lane)
    ELSE IF ~Live(m.rec) THEN Fault(m)
    ELSE Respond("state", Quiet(m))

StatementBinding(m, h, w, result) ==
    IF result # "ok" THEN BindingRefused(m, h, w, result)
    ELSE Recheck(m, h, w.lane, Wait(m, h, [w EXCEPT !.task = "StatementExecute"]))

StatementExecute(m, h, w, result) ==
    LET n == [m EXCEPT !.conn = "open"]
        done == [n EXCEPT !.rec.seq = w.cmd.seq + 1,
                          !.rec.last = DigestOf(w.cmd),
                          !.rec.dirty = @ \/ w.cmd.pay = "write"]
    IN  IF n.rollback_requested THEN ExpireClient(n, h, w.lane)
        ELSE IF result # "ok"
        THEN Close(n, h, w.lane, "failed",
                   IF result = "refused" THEN "limit" ELSE "database")
        ELSE IF ~Live(n.rec) THEN Fault(m)
        ELSE Wait(done, h, [ReplyWork(w.lane, "result", "internal") EXCEPT
                                !.expire_after = TRUE, !.restore = m.rec])

\* Mutant: COMMIT is sent without persisting `committing` first.
CommitUnrecorded(m, h, w, result) ==
    IF result # "ok" THEN BindingRefused(m, h, w, result)
    ELSE Recheck(m, h, w.lane,
             IF w.check = 1 THEN StartChecks(m, h, w)
             ELSE Wait([m EXCEPT !.conn = "closing"], h,
                       TaskWork("CommitSend", w.lane, w.cmd)))

CommitBinding(m, h, w, result) ==
    IF result # "ok" THEN BindingRefused(m, h, w, result)
    ELSE Recheck(m, h, w.lane,
             IF w.check = 1 THEN StartChecks(m, h, w)
             ELSE Wait(SetPhase(m, "committing"), h,
                       TaskWork("CommitPersist", w.lane, w.cmd)))

ValidatingPersist(m, h, w, result) ==
    IF result # "ok" THEN Close(m, h, w.lane, "failed", "internal")
    ELSE IF Expired(m, h) \/ m.rollback_requested
    THEN Close(m, h, w.lane, "expired", "check_rejected")
    ELSE Issue(m, h, w)

CommitPersist(m, h, w, result) ==
    IF result # "ok" THEN Close(m, h, w.lane, "failed", "internal")
    ELSE IF m.rec.phase \notin HasDeadline THEN Fault(m)
    ELSE IF h.due \/ m.rollback_requested
    THEN Close(m, h, w.lane, "expired", "unavailable")
    ELSE Wait([m EXCEPT !.conn = "closing"], h,
              TaskWork("CommitSend", w.lane, w.cmd))

\* Mutant: an unknown outcome is taken for a failure.
UnknownIsFailure(m, h, w, result) ==
    LET n == [m EXCEPT !.conn = "none"]
    IN  IF result = "ok"
        THEN Wait(Complete(n, "committed", w.cmd), h,
                  ReplyWork(w.lane, "committed", "committed"))
        ELSE Close(n, h, w.lane, "failed", "unavailable")

\* Mutant: any answer that is not a proof of the contrary is taken for success.
UnknownIsSuccess(m, h, w, result) ==
    LET n == [m EXCEPT !.conn = "none"]
    IN  IF result = "not_committed"
        THEN Close(n, h, w.lane, "failed", "unavailable")
        ELSE Wait(Complete(n, "committed", w.cmd), h,
                  ReplyWork(w.lane, "committed", "committed"))

CommitSend(m, h, w, result) ==
    LET n == [m EXCEPT !.conn = "none"]
    IN  CASE result = "ok" ->
               IF ~Live(n.rec) THEN Fault(m)
               ELSE Wait(Complete(n, "committed", w.cmd), h,
                         ReplyWork(w.lane, "committed", "committed"))
          [] result = "not_committed" ->
               Close(n, h, w.lane, "failed", "unavailable")
          [] OTHER ->
               Wait(SetPhase(n, "commit_unknown"), h,
                    ReplyWork(w.lane, "outcome_unknown", "outcome_unknown"))

RollbackBinding(m, h, w, result) ==
    IF result # "ok" THEN BindingRefused(m, h, w, result)
    ELSE Recheck(m, h, w.lane,
             Wait([m EXCEPT !.conn = "closing"], h,
                  TaskWork("RollbackSend", w.lane, w.cmd)))

\* A failed ROLLBACK changes nothing: the database's deadline ends it.
RollbackSend(m, h, w) ==
    LET n == [m EXCEPT !.conn = "none"]
    IN  IF ~Live(n.rec) THEN Fault(m)
        ELSE Wait(Complete(n, "rolled_back", w.cmd), h,
                  ReplyWork(w.lane, "rolled_back", "internal"))

\* Mutant: the phase the rollback was for is forgotten.
PhaseForgotten(m, h, w) ==
    PersistPhase([m EXCEPT !.conn = "none"], h, w.lane, m.rec.phase, w.reply)

CloseRollback(m, h, w) ==
    PersistPhase([m EXCEPT !.conn = "none"], h, w.lane, w.phase, w.reply)

\* The awaited persist of a Reply task: answer it, unless it could not be
\* stored, when a statement closes from the record before it.
Reply(m, h, w, result) ==
    IF result = "ok"
    THEN Respond(w.reply, IF w.expire_after /\ m.rollback_requested
                          THEN Close(m, h, "background", "expired", "none")
                          ELSE Quiet(m))
    ELSE IF w.expire_after
    THEN Close([m EXCEPT !.rec = w.restore], h, w.lane, "failed", w.failure)
    ELSE Reset(Respond(w.failure, Quiet(m)))

Consume(m, h, w, result) ==
    CASE w.task = "BeginBinding" -> BeginBinding(m, h, w, result)
      [] w.task = "BeginOpen" -> BeginOpen(m, h, w, result)
      [] w.task = "BeginPersist" -> BeginPersist(m, h, w, result)
      [] w.task = "BeginTimer" -> BeginTimer(m, h, w, result)
      [] w.task = "StatementBinding" -> StatementBinding(m, h, w, result)
      [] w.task = "StatementExecute" -> StatementExecute(m, h, w, result)
      [] w.task = "CommitBinding" -> CommitBinding(m, h, w, result)
      [] w.task = "ValidatingPersist" -> ValidatingPersist(m, h, w, result)
      [] w.task = "Validator" -> VerdictArrived(m, h, w, result = "allow")
      [] w.task = "CommitPersist" -> CommitPersist(m, h, w, result)
      [] w.task = "CommitSend" -> CommitSend(m, h, w, result)
      [] w.task = "RollbackBinding" -> RollbackBinding(m, h, w, result)
      [] w.task = "RollbackSend" -> RollbackSend(m, h, w)
      [] w.task = "CloseRollback" -> CloseRollback(m, h, w)
      [] w.task = "Reply" -> Reply(m, h, w, result)
      [] w.task = "ResetAfterPersist" -> Reset(Quiet(m))
      [] OTHER -> Fault(m)

\* An outcome nobody waits for: late after the end, else a fault.
Stale(m, ev) ==
    IF \/ IF m.rec.phase = "absent" THEN ~HasWork(m) ELSE m.rec.phase \in Terminal
       \/ ev.type = "callValidator" /\ m.revoked = ev.id
    THEN Quiet(m) ELSE Fault(m)

Outcome(m, h, ev) ==
    IF HasWork(m) /\ m.work.id = ev.id /\ AwaitedBy(m.work.task) = ev.type
    THEN Consume([m EXCEPT !.work = NoWork], h, m.work, ev.result)
    ELSE IF /\ m.callback.task # "none"
            /\ m.callback.id = ev.id
            /\ CallbackAwaits(m.callback.task) = ev.type
    THEN CallbackOutcome(m, h, ev.result)
    ELSE Stale(m, ev)

(***************************************************************************)
(* Client input and the timer                                              *)
(***************************************************************************)
Busy(m) == HasDeferred(m) \/ HasWork(m)
BusyCode(m) == IF HasDeferred(m) \/ m.work.lane = "client" THEN "internal"
               ELSE "unavailable"

Begin(m, h, cmd) ==
    IF cmd.snap # h.snap THEN Respond("conflict", Quiet(m))
    ELSE IF Busy(m) THEN Respond(BusyCode(m), Quiet(m))
    ELSE Wait(m, h, TaskWork("BeginBinding", "client", cmd))

\* An exact retry of the last completed command; a statement that does not
\* compile repeats nothing.
Replays(rec, cmd) == /\ cmd.seq # 0
                     /\ rec.last # NoDigest
                     /\ cmd.seq + 1 = rec.seq
                     /\ cmd.kind = "statement" => cmd.pay # "bad"
                     /\ DigestOf(cmd) = rec.last
LastReply(rec) == CASE rec.last.kind = "commit" -> "committed"
                    [] rec.last.kind = "rollback" -> "rolled_back"
                    [] OTHER -> "result"

\* COMMIT may have been sent: only a commit of that sequence is unknown, and
\* a record still `committing` is settled as `commit_unknown` first.
CommitUncertain(m, h, cmd) ==
    LET answer == IF cmd.kind = "commit" /\ cmd.seq = m.rec.seq
                  THEN "outcome_unknown" ELSE "unavailable"
    IN  IF m.work.lane = "client" THEN Respond("internal", Quiet(m))
        ELSE IF m.rec.phase = "committing"
        THEN PersistReply(SetPhase(Fresh(m.rec), "commit_unknown"), h, answer, answer)
        ELSE Respond(answer, Quiet(m))

Statement(m, h, cmd) ==
    IF m.rec.seq - 1 >= MaxStatements THEN Close(m, h, "client", "failed", "limit")
    ELSE IF cmd.pay = "bad" THEN Close(m, h, "client", "failed", "sql_rejected")
    ELSE Wait(m, h, TaskWork("StatementBinding", "client", cmd))

\* A command with the record's next sequence on an active transaction.
NextCommand(m, h, cmd) ==
    CASE cmd.kind = "statement" -> Statement(m, h, cmd)
      [] cmd.kind = "commit" ->
            Wait(m, h, [TaskWork("CommitBinding", "client", cmd) EXCEPT
                            !.check = IF Triggered(m.rec) THEN 1 ELSE 0])
      [] OTHER -> Wait(m, h, TaskWork("RollbackBinding", "client", cmd))

\* Mutant: the sequence is not compared with the record's.
AnySequence(m, h, cmd) ==
    IF m.rec.phase = "active" /\ m.rec.snap = h.snap /\ m.conn = "open" /\ ~h.due
    THEN NextCommand(m, h, cmd)
    ELSE Respond("unavailable", Quiet(m))

\* A command of the record's own caller and snapshot, nothing in progress.
OwnCommand(m, h, cmd) ==
    LET active == m.rec.phase = "active"
    IN  CASE m.rec.snap # h.snap /\ active ->
               Close(m, h, "client", "failed", "unavailable")
          [] m.rec.snap # h.snap /\ ~active -> Respond("unavailable", Quiet(m))
          [] OTHER ->
               IF active /\ (h.due \/ m.conn # "open")
               THEN Close(m, h, "client", IF h.due THEN "expired" ELSE "failed",
                          "unavailable")
               ELSE IF cmd.seq = 0 THEN Respond("invalid", Quiet(m))
               ELSE IF ~active THEN Respond("unavailable", Quiet(m))
               ELSE IF cmd.seq # m.rec.seq
               THEN Close(m, h, "client", "failed", "conflict")
               ELSE NextCommand(m, h, cmd)

\* Mutant: the caller is not compared with the one that began.
AnyCaller(m, h, cmd) ==
    IF ~Live(m.rec) THEN Respond("unavailable", Quiet(m))
    ELSE IF Replays(m.rec, cmd) THEN Respond(LastReply(m.rec), Quiet(m))
    ELSE IF m.rec.phase \in {"committing", "commit_unknown"}
    THEN CommitUncertain(m, h, cmd)
    ELSE IF Busy(m) THEN Respond(BusyCode(m), Quiet(m))
    ELSE IF cmd.snap # m.rec.snap THEN Respond("unavailable", Quiet(m))
    ELSE OwnCommand(m, h, cmd)

Command(m, h, cmd) ==
    IF m.rec.phase = "discarded"
    THEN Respond(IF cmd.kind = "commit" THEN "outcome_unknown" ELSE "unavailable",
                 Quiet(m))
    ELSE IF m.rec.phase = "absent" \/ cmd.auth # m.rec.auth
    THEN Respond("unavailable", Quiet(m))
    ELSE IF Replays(m.rec, cmd) THEN Respond(LastReply(m.rec), Quiet(m))
    ELSE IF m.rec.phase \in {"committing", "commit_unknown"}
    THEN CommitUncertain(m, h, cmd)
    ELSE IF Busy(m) THEN Respond(BusyCode(m), Quiet(m))
    ELSE IF cmd.snap # m.rec.snap THEN Respond("unavailable", Quiet(m))
    ELSE OwnCommand(m, h, cmd)

Forwarded(m, h, cmd) ==
    CASE cmd.kind = "begin" -> Begin(m, h, cmd)
      [] cmd.kind \in {"statement", "commit", "rollback"} -> Command(m, h, cmd)
      [] cmd.kind = "query" -> CallbackQuery(m, h, cmd)
      [] OTHER -> Respond("invalid", Quiet(m))

\* Client work an expiry waits for instead of overtaking it.
Defers(w) ==
    /\ w.lane = "client"
    /\ \/ w.task \in {"BeginBinding", "BeginOpen", "BeginPersist", "BeginTimer",
                      "StatementBinding", "StatementExecute", "CommitBinding",
                      "ValidatingPersist", "RollbackBinding"}
       \/ w.task = "Reply" /\ w.expire_after

Timer(m, h) ==
    IF ~h.due \/ m.rec.phase \notin {"active", "validating"} THEN Quiet(m)
    ELSE IF /\ m.rec.phase = "validating"
            /\ m.work.task = "Validator" \/ HasDeferred(m)
    THEN ExpireValidating(m, h)
    ELSE IF HasWork(m)
    THEN Quiet([m EXCEPT !.rollback_requested = @ \/ Defers(m.work)])
    ELSE Close(m, h, "background", "expired", "none")

(***************************************************************************)
(* Failing closed, and the step itself                                     *)
(***************************************************************************)
\* Mutant: a transaction abandoned while `committing` is recorded as failed.
AbandonFails(m, h) ==
    IF m.rec.phase \notin {"active", "validating", "committing"}
    THEN Quiet(Fresh(m.rec))
    ELSE [Quiet(SetPhase(Fresh(m.rec), "failed")) EXCEPT
             !.await = [type |-> "persist", id |-> h.id, arg |-> 0]]

\* Abandon drops the volatile part; its persist has no task waiting.
Abandon(m, h) ==
    LET next == IF m.rec.phase \in {"active", "validating"} /\ m.conn # "none"
                THEN "failed"
                ELSE IF m.rec.phase = "committing" THEN "commit_unknown" ELSE "absent"
    IN  IF next = "absent" THEN Quiet(Fresh(m.rec))
        ELSE [Quiet(SetPhase(Fresh(m.rec), next)) EXCEPT
                 !.await = [type |-> "persist", id |-> h.id, arg |-> 0]]

\* What a fault answers: everyone who waits, and the event's own caller.
FaultReply(m, ev) ==
    LET unsure == m.rec.phase \in {"committing", "commit_unknown"}
    IN  IF m.work.lane = "client"
        THEN IF unsure /\ m.work.task \in {"CommitPersist", "CommitSend", "Reply"}
             THEN "outcome_unknown" ELSE "internal"
        ELSE IF HasDeferred(m) THEN "internal"
        ELSE IF ev.type # "forwarded" \/ ev.cmd.kind = "query" THEN "none"
        ELSE IF unsure /\ ev.cmd.kind = "commit"
        THEN "outcome_unknown" ELSE "internal"
FaultCallbackReply(m, ev) ==
    IF \/ m.callback.task # "none"
       \/ ev.type = "forwarded" /\ ev.cmd.kind = "query"
    THEN "internal" ELSE "none"

FailClosed(m, h, ev) ==
    LET next == IF m.rec.phase \in {"active", "validating"} /\ ~Idle(m) THEN "failed"
                ELSE IF m.rec.phase = "committing" THEN "commit_unknown" ELSE "absent"
        o == IF next = "absent" THEN Reset(Quiet(Fresh(m.rec)))
             ELSE Wait(SetPhase(Fresh(m.rec), next), h,
                       TaskWork("ResetAfterPersist", "background", NoCmd))
    IN  [o EXCEPT !.client = FaultReply(m, ev),
                  !.callback = FaultCallbackReply(m, ev)]

\* Mutants: the unreadable record is kept; it is deleted.
KeepUnreadable(h, ev) ==
    Quiet(Fresh([NoRec EXCEPT !.phase = "unreadable"]))
DeleteUnreadable(h, ev) ==
    Wait(Fresh(NoRec), h, ReplyWork("background", "none", "none"))

\* An unreadable record (there is no volatile part beside one): replace it
\* with the tombstone and answer as the tombstone is answered.
Discard(h, ev) ==
    LET o == Wait(Fresh(Tombstone), h, ReplyWork("background", "none", "none"))
    IN  IF ev.type # "forwarded" THEN o
        ELSE IF ev.cmd.kind = "query" THEN RespondCallback("unavailable", o)
        ELSE Respond(IF ev.cmd.kind = "commit" THEN "outcome_unknown"
                     ELSE "unavailable", o)

Dispatch(m, h, ev) ==
    CASE ev.type = "abandon" -> Abandon(m, h)
      [] ev.type = "forwarded" -> Forwarded(m, h, ev.cmd)
      [] ev.type = "timerFired" -> Timer(m, h)
      [] OTHER -> Outcome(m, h, ev)

FinishOutput(o) ==
    IF o.reset THEN [o EXCEPT !.m = Fresh(NoRec)]
    ELSE IF Idle(o.m) THEN [o EXCEPT !.m = Fresh(o.m.rec)] ELSE o

\* One step on readable state: a fault restores the state the step started
\* from and fails closed.
RunDispatch(m, h, ev) ==
    LET o == Dispatch(m, h, ev)
    IN  FinishOutput(IF o.fault \/ (~o.reset /\ ~Consistent(o.m))
                     THEN FailClosed(m, h, ev) ELSE o)

(***************************************************************************)
(* A state in which COMMIT may have been sent: the record says so, and no  *)
(* work in progress can say anything else later, nor use the connection.   *)
(***************************************************************************)
Sealing == {"committing", "commit_unknown", "committed", "discarded"}
Sealed(m) ==
    /\ m.rec.phase \in Sealing
    /\ m.conn # "open"
    /\ ~HasDeferred(m)
    /\ \/ m.work.task \in {"none", "BeginBinding", "CommitSend", "ResetAfterPersist"}
       \/ m.work.task = "Reply" /\ ~m.work.expire_after
==============================================================================
