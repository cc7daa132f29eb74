--------------------------- MODULE StepMachineProofs ---------------------------
(***************************************************************************)
(* One step of the machine, for every event and every value of the         *)
(* constants: a step from a typed state yields a typed output (StepType),  *)
(* which steps ask for COMMIT (CommitStep), and what the steps after it    *)
(* may still do (SealedStep).                                              *)
(***************************************************************************)
EXTENDS StepMachine, TLAPS

(***************************************************************************)
(* The empty values and the builders                                       *)
(***************************************************************************)
\* No command, no record and the tombstone are what their types say.
LEMMA EmptyTypes ==
    /\ NoCmd \in Commands
    /\ NoDigest \in Digests
    /\ NoRec \in Records
    /\ Tombstone \in Records
    /\ NoWork \in Works
    /\ NoCallback \in Callbacks
    /\ NoCap \in Capabilities
    /\ NoEffect \in Effects
<1>1. NoCmd \in Commands
  BY DEF NoCmd, Commands, Kinds, Payloads, SnapshotOrNone, PrincipalOrNone
<1>2. NoDigest \in Digests
  BY DEF NoDigest, Digests, Kinds, Payloads
<1>3. NoRec \in Records
  BY <1>2 DEF NoRec, Records, Phases, SnapshotOrNone, PrincipalOrNone
<1>4. Tombstone \in Records
  BY <1>3 DEF Tombstone, Records, Phases, Terminal
<1>5. NoWork \in Works
  BY <1>1, <1>3 DEF NoWork, Works, Tasks, Lanes, Phases, Replies
<1>6. NoCallback \in Callbacks /\ NoCap \in Capabilities
  BY DEF NoCallback, Callbacks, NoCap, Capabilities
<1>7. NoEffect \in Effects
  BY DEF NoEffect, Effects
<1> QED BY <1>1, <1>2, <1>3, <1>4, <1>5, <1>6, <1>7

\* The state without a volatile part.
LEMMA FreshType ==
    ASSUME NEW rec \in Records
    PROVE  Fresh(rec) \in Machines
BY EmptyTypes DEF Fresh, Machines, Connections

\* The outputs without effects.
LEMMA QuietType ==
    ASSUME NEW m \in Machines
    PROVE  Quiet(m) \in Outputs /\ Fault(m) \in Outputs
BY EmptyTypes DEF Quiet, Fault, Outputs, Replies

\* A reply or a reset added to an output.
LEMMA ReplyTypes ==
    ASSUME NEW o \in Outputs, NEW reply \in Replies
    PROVE  /\ Respond(reply, o) \in Outputs
           /\ RespondCallback(reply, o) \in Outputs
           /\ Reset(o) \in Outputs
BY DEF Respond, RespondCallback, Reset, Outputs

\* Every task waits for one type of effect.
LEMMA AwaitedByType ==
    ASSUME NEW task
    PROVE  /\ AwaitedBy(task) \in EffectTypes \cup {"none"}
           /\ CallbackAwaits(task) \in EffectTypes \cup {"none"}
BY DEF AwaitedBy, CallbackAwaits, EffectTypes

\* An output that awaits the effect of a work.
LEMMA WaitType ==
    ASSUME NEW m \in Machines, NEW h \in HostFacts, NEW w \in Works
    PROVE  Wait(m, h, w) \in Outputs
<1>1. [m EXCEPT !.work = [w EXCEPT !.id = h.id]] \in Machines
  <2>1. [w EXCEPT !.id = h.id] \in Works
    BY DEF Works, HostFacts
  <2> QED BY <2>1 DEF Machines
<1> DEFINE arg == IF w.task \in {"StatementExecute", "CommitSend"} THEN w.cmd.seq
                  ELSE IF w.task = "Validator" THEN w.check ELSE 0
           effect == [type |-> AwaitedBy(w.task), id |-> h.id, arg |-> arg]
<1>2. effect \in Effects
  <2>1. arg \in Nat
    BY DEF Works, Commands
  <2> HIDE DEF arg
  <2> QED BY <2>1, AwaitedByType DEF Effects, HostFacts
<1>3. Wait(m, h, w) = [Quiet([m EXCEPT !.work = [w EXCEPT !.id = h.id]])
                        EXCEPT !.await = effect]
  BY DEF Wait
<1> HIDE DEF effect
<1> QED BY <1>1, <1>2, <1>3, QuietType DEF Outputs

\* An output that awaits the effect of a validator's query.
LEMMA WaitCallbackType ==
    ASSUME NEW m \in Machines, NEW h \in HostFacts, NEW task \in {"Binding", "Execute"},
           NEW q, q.tok \in Nat, q.seq \in Nat
    PROVE  WaitCallback(m, h, task, q) \in Outputs
<1> DEFINE cb == [id |-> h.id, task |-> task, tok |-> q.tok, seq |-> q.seq]
           effect == [type |-> CallbackAwaits(task), id |-> h.id, arg |-> 0]
<1>1. [m EXCEPT !.callback = cb] \in Machines
  <2>1. cb \in Callbacks BY DEF Callbacks, HostFacts
  <2> HIDE DEF cb
  <2> QED BY <2>1 DEF Machines
<1>2. effect \in Effects BY AwaitedByType DEF Effects, HostFacts
<1>3. WaitCallback(m, h, task, q) = [Quiet([m EXCEPT !.callback = cb]) EXCEPT
                                        !.await = effect]
  BY DEF WaitCallback
<1> HIDE DEF cb, effect
<1> QED BY <1>1, <1>2, <1>3, QuietType DEF Outputs

\* The works that operators build.
LEMMA TaskWorkType ==
    ASSUME NEW task \in Tasks, NEW lane \in Lanes, NEW cmd \in Commands
    PROVE  TaskWork(task, lane, cmd) \in Works
BY EmptyTypes DEF TaskWork, Works

\* The work of a persist before a reply.
LEMMA ReplyWorkType ==
    ASSUME NEW lane \in Lanes, NEW reply \in Replies, NEW failure \in Replies
    PROVE  ReplyWork(lane, reply, failure) \in Works
BY EmptyTypes DEF ReplyWork, Works, Tasks

\* The fields of typed values, as the operators below take them apart.
LEMMA MachineFields ==
    ASSUME NEW m \in Machines
    PROVE  /\ m.rec \in Records /\ m.rec.phase \in Phases /\ m.rec.seq \in Nat
           /\ m.work \in Works /\ m.deferred \in Works
           /\ m.callback \in Callbacks /\ m.cap \in Capabilities
           /\ m.rollback_requested \in BOOLEAN
BY DEF Machines, Records

\* The fields of a work.
LEMMA WorkFields ==
    ASSUME NEW w \in Works
    PROVE  /\ w.task \in Tasks /\ w.lane \in Lanes /\ w.cmd \in Commands
           /\ w.check \in Nat /\ w.phase \in Phases /\ w.reply \in Replies
           /\ w.failure \in Replies /\ w.restore \in Records
           /\ w.allowed \in BOOLEAN /\ w.id \in Nat
BY DEF Works

\* A work or a connection state put into a machine.
LEMMA MachineUpdates ==
    ASSUME NEW m \in Machines
    PROVE  /\ [m EXCEPT !.work = NoWork] \in Machines
           /\ [m EXCEPT !.callback = NoCallback] \in Machines
           /\ [m EXCEPT !.cap = NoCap] \in Machines
           /\ [m EXCEPT !.deferred = NoWork] \in Machines
           /\ [m EXCEPT !.rollback_requested = TRUE] \in Machines
           /\ \A c \in Connections : [m EXCEPT !.conn = c] \in Machines
           /\ \A rec \in Records : [m EXCEPT !.rec = rec] \in Machines
BY EmptyTypes DEF Machines

\* A phase set on the record (step.rs set_phase).
LEMMA SetPhaseType ==
    ASSUME NEW m \in Machines, NEW phase \in Phases
    PROVE  SetPhase(m, phase) \in Machines
<1>1. [m EXCEPT !.rec = Tombstone] \in Machines
  BY EmptyTypes, MachineUpdates
<1>2. [m EXCEPT !.rec.phase = phase] \in Machines
  BY DEF Machines, Records
<1> QED BY <1>1, <1>2 DEF SetPhase

\* A revoked capability (checks.rs revoke).
LEMMA RevokeType ==
    ASSUME NEW m \in Machines
    PROVE  Revoke(m) \in Machines
<1> DEFINE revoked == IF m.work.task = "Validator" THEN m.work.id ELSE m.revoked
<1>1. revoked \in Nat BY DEF Machines, Works
<1>2. Revoke(m) = [m EXCEPT !.cap = NoCap, !.revoked = revoked]
  BY DEF Revoke, Machines
<1> HIDE DEF revoked
<1> QED BY <1>1, <1>2, EmptyTypes DEF Machines

\* A persisted phase (step.rs persist_phase).
LEMMA PersistPhaseType ==
    ASSUME NEW m \in Machines, NEW h \in HostFacts, NEW lane \in Lanes,
           NEW phase \in Phases, NEW reply \in Replies
    PROVE  PersistPhase(m, h, lane, phase, reply) \in Outputs
<1> DEFINE failure == IF reply = "none" THEN "none" ELSE "internal"
<1>1. failure \in Replies BY DEF Replies, Codes
<1>2. Respond(reply, Quiet([m EXCEPT !.work = NoWork])) \in Outputs
  BY MachineUpdates, QuietType, ReplyTypes
<1>3. Wait(SetPhase(m, phase), h, ReplyWork(lane, reply, failure)) \in Outputs
  <2> HIDE DEF failure
  <2> QED BY <1>1, SetPhaseType, ReplyWorkType, WaitType
<1> QED BY <1>2, <1>3 DEF PersistPhase

\* Closing: a rollback, then the phase (step.rs close).
LEMMA CloseType ==
    ASSUME NEW m \in Machines, NEW h \in HostFacts, NEW lane \in Lanes,
           NEW phase \in Phases, NEW reply \in Replies
    PROVE  Close(m, h, lane, phase, reply) \in Outputs
<1> DEFINE w == [TaskWork("CloseRollback", lane, NoCmd) EXCEPT
                    !.phase = phase, !.reply = reply]
<1>1. w \in Works
  <2>1. TaskWork("CloseRollback", lane, NoCmd) \in Works
    BY TaskWorkType, EmptyTypes DEF Tasks
  <2> QED BY <2>1 DEF Works
<1>2. /\ [Revoke(m) EXCEPT !.conn = "closing"] \in Machines
      /\ [Revoke(m) EXCEPT !.conn = "none"] \in Machines
  BY RevokeType, MachineUpdates DEF Connections
<1>3. Wait([Revoke(m) EXCEPT !.conn = "closing"], h, w) \in Outputs
  <2> HIDE DEF w
  <2> QED BY <1>1, <1>2, WaitType
<1>4. PersistPhase([Revoke(m) EXCEPT !.conn = "none"], h, lane, phase, reply) \in Outputs
  BY <1>2, PersistPhaseType
<1> QED BY <1>3, <1>4, QuietType DEF Close

\* Closing for an expiry (step.rs expire_client).
LEMMA ExpireClientType ==
    ASSUME NEW m \in Machines, NEW h \in HostFacts, NEW lane \in Lanes
    PROVE  ExpireClient(m, h, lane) \in Outputs
BY CloseType DEF ExpireClient, Phases, Terminal, Replies, Codes

\* A persist before a reply (step.rs persist_reply).
LEMMA PersistReplyType ==
    ASSUME NEW m \in Machines, NEW h \in HostFacts, NEW reply \in Replies,
           NEW failure \in Replies
    PROVE  PersistReply(m, h, reply, failure) \in Outputs
BY ReplyWorkType, WaitType DEF PersistReply, Lanes

\* A finished terminal command (step.rs complete).
LEMMA CompleteType ==
    ASSUME NEW m \in Machines, NEW phase \in Phases, NEW cmd \in Commands
    PROVE  Complete(m, phase, cmd) \in Machines
<1>1. DigestOf(cmd) \in Digests BY DEF DigestOf, Digests, Commands
<1> DEFINE d == DigestOf(cmd)
           next == m.rec.seq + 1
           rec == [m.rec EXCEPT !.seq = next, !.last = d]
<1> HIDE DEF d
<1>2. rec \in Records
  <2>1. m.rec \in Records /\ next \in Nat BY MachineFields
  <2> HIDE DEF next
  <2> QED BY <1>1, <2>1 DEF d, Records
<1>3. [m EXCEPT !.rec.seq = @ + 1, !.rec.last = d] = [m EXCEPT !.rec = rec]
  BY DEF Machines, Records
<1>4. [m EXCEPT !.rec.seq = @ + 1, !.rec.last = d] \in Machines
  <2> HIDE DEF rec
  <2> QED BY <1>2, <1>3, MachineUpdates
<1> QED BY <1>4, SetPhaseType DEF Complete, d

\* The words operators pass on are in their sets.
LEMMA Words ==
    /\ {"absent", "active", "validating", "committing", "committed",
        "rolled_back", "failed", "expired", "commit_unknown"} \subseteq Phases
    /\ {"none", "state", "result", "committed", "rolled_back", "internal",
        "unavailable", "conflict", "outcome_unknown", "check_rejected",
        "binding_rejected", "database", "sql_rejected", "limit",
        "invalid"} \subseteq Replies
    /\ {"client", "background"} \subseteq Lanes
    /\ {"none", "opening", "open", "closing"} \subseteq Connections
    /\ {"BeginBinding", "BeginOpen", "BeginPersist", "BeginTimer",
        "StatementBinding", "StatementExecute", "CommitBinding",
        "ValidatingPersist", "Validator", "Verdict", "CommitPersist",
        "CommitSend", "RollbackBinding", "RollbackSend", "CloseRollback",
        "Reply", "ResetAfterPersist"} \subseteq Tasks
BY DEF Phases, HasDeadline, Terminal, Replies, Codes, Lanes, Connections, Tasks

(***************************************************************************)
(* Commit checks and validator callbacks                                   *)
(***************************************************************************)
LEMMA CheckWorkType ==
    ASSUME NEW task \in Tasks, NEW w \in Works, NEW check \in Nat
    PROVE  [TaskWork(task, w.lane, w.cmd) EXCEPT !.check = check] \in Works
<1>1. TaskWork(task, w.lane, w.cmd) \in Works BY WorkFields, TaskWorkType
<1> QED BY <1>1 DEF Works

\* A validator call (checks.rs issue).
LEMMA IssueType ==
    ASSUME NEW m \in Machines, NEW h \in HostFacts, NEW w \in Works
    PROVE  Issue(m, h, w) \in Outputs
<1> DEFINE cap == [check |-> w.check, next |-> 1]
           v == [TaskWork("Validator", w.lane, w.cmd) EXCEPT !.check = w.check]
<1>1. [m EXCEPT !.cap = cap] \in Machines
  <2>1. cap \in Capabilities BY WorkFields DEF Capabilities
  <2> HIDE DEF cap
  <2> QED BY <2>1 DEF Machines
<1>2. v \in Works BY WorkFields, CheckWorkType, Words
<1>3. Wait([m EXCEPT !.cap = cap], h, v) \in Outputs
  <2> HIDE DEF cap, v
  <2> QED BY <1>1, <1>2, WaitType
<1>4. Close(m, h, w.lane, "failed", "check_rejected") \in Outputs
  BY WorkFields, CloseType, Words
<1> QED BY <1>3, <1>4 DEF Issue

\* The start of validation (checks.rs start_checks).
LEMMA StartChecksType ==
    ASSUME NEW m \in Machines, NEW h \in HostFacts, NEW w \in Works
    PROVE  StartChecks(m, h, w) \in Outputs
<1>1. Close(m, h, w.lane, "failed", "check_rejected") \in Outputs
  BY WorkFields, CloseType, Words
<1>2. Wait(SetPhase(m, "validating"), h,
           [TaskWork("ValidatingPersist", w.lane, w.cmd) EXCEPT !.check = 1])
        \in Outputs
  <2>1. [TaskWork("ValidatingPersist", w.lane, w.cmd) EXCEPT !.check = 1] \in Works
    BY CheckWorkType, Words
  <2>2. SetPhase(m, "validating") \in Machines BY SetPhaseType, Words
  <2> QED BY <2>1, <2>2, WaitType
<1> QED BY <1>1, <1>2, QuietType DEF StartChecks

\* A verdict taken (checks.rs verdict).
LEMMA VerdictType ==
    ASSUME NEW m \in Machines, NEW h \in HostFacts, NEW w \in Works, NEW allowed
    PROVE  Verdict(m, h, w, allowed) \in Outputs
<1>1. Close(m, h, w.lane, "failed", "check_rejected") \in Outputs
  BY WorkFields, CloseType, Words
<1>2. Issue(m, h, [w EXCEPT !.check = @ + 1]) \in Outputs
  <2>1. [w EXCEPT !.check = @ + 1] \in Works BY DEF Works
  <2> QED BY <2>1, IssueType
<1>3. Wait(m, h, TaskWork("CommitBinding", w.lane, w.cmd)) \in Outputs
  BY WorkFields, TaskWorkType, WaitType, Words
<1> QED BY <1>1, <1>2, <1>3 DEF Verdict

\* A verdict taken or deferred (checks.rs verdict_arrived).
LEMMA VerdictArrivedType ==
    ASSUME NEW m \in Machines, NEW h \in HostFacts, NEW w \in Works,
           NEW allowed \in BOOLEAN
    PROVE  VerdictArrived(m, h, w, allowed) \in Outputs
<1> DEFINE n == [m EXCEPT !.cap = NoCap]
           v == [w EXCEPT !.id = 0, !.task = "Verdict", !.allowed = allowed]
<1>1. n \in Machines BY MachineUpdates
<1>2. v \in Works BY Words DEF Works
<1>3. Quiet([n EXCEPT !.deferred = v]) \in Outputs
  <2> HIDE DEF n, v
  <2>1. [n EXCEPT !.deferred = v] \in Machines BY <1>1, <1>2 DEF Machines
  <2> QED BY <2>1, QuietType
<1>4. Verdict(n, h, w, allowed) \in Outputs
  <2> HIDE DEF n
  <2> QED BY <1>1, VerdictType
<1> QED BY <1>3, <1>4 DEF VerdictArrived

\* An expired validation (checks.rs expire_validating).
LEMMA ExpireValidatingType ==
    ASSUME NEW m \in Machines, NEW h \in HostFacts
    PROVE  ExpireValidating(m, h) \in Outputs
<1> DEFINE ended == IF HasWork(m)
                    THEN [m EXCEPT !.cap = NoCap, !.revoked = m.work.id,
                                   !.work = NoWork]
                    ELSE [m EXCEPT !.cap = NoCap, !.deferred = NoWork]
           n == SetPhase(ended, "expired")
<1>1. ended \in Machines
  BY MachineFields, WorkFields, EmptyTypes DEF Machines
<1>2. n \in Machines
  <2> HIDE DEF ended
  <2> QED BY <1>1, SetPhaseType, Words
<1>3. ExpireValidating(m, h) =
        Respond("check_rejected",
            IF CallbackExecuting(n)
            THEN Quiet([n EXCEPT !.rollback_requested = TRUE])
            ELSE Close(n, h, "background", "expired", "none"))
  BY DEF ExpireValidating
<1> HIDE DEF n
<1>4. Quiet([n EXCEPT !.rollback_requested = TRUE]) \in Outputs
  BY <1>2, MachineUpdates, QuietType
<1>5. Close(n, h, "background", "expired", "none") \in Outputs
  BY <1>2, CloseType, Words
<1> QED BY <1>3, <1>4, <1>5, ReplyTypes, Words

\* A failed validation (checks.rs fail_validation).
LEMMA FailValidationType ==
    ASSUME NEW m \in Machines, NEW h \in HostFacts, NEW reply \in Replies
    PROVE  FailValidation(m, h, reply) \in Outputs
<1> DEFINE n == [m EXCEPT !.callback = NoCallback, !.cap = NoCap,
                          !.revoked = m.work.id, !.work = NoWork]
<1>1. n \in Machines BY MachineFields, WorkFields, EmptyTypes DEF Machines
<1>2. RespondCallback(reply, Close(n, h, "client", "failed", "check_rejected"))
        \in Outputs
  <2> HIDE DEF n
  <2> QED BY <1>1, CloseType, ReplyTypes, Words
<1> QED BY <1>2, QuietType DEF FailValidation

\* A validator's query (checks.rs callback_query).
LEMMA CallbackQueryType ==
    ASSUME NEW m \in Machines, NEW h \in HostFacts, NEW q \in Commands
    PROVE  CallbackQuery(m, h, q) \in Outputs
<1>1. \A reply \in Replies : RespondCallback(reply, Quiet(m)) \in Outputs
  BY QuietType, ReplyTypes
<1>2. \A reply \in Replies : FailValidation(m, h, reply) \in Outputs
  BY FailValidationType
<1>3. WaitCallback(m, h, "Binding", q) \in Outputs
  BY WaitCallbackType DEF Commands
<1> QED BY <1>1, <1>2, <1>3, Words DEF CallbackQuery

\* What waited for the connection (checks.rs after_callback).
LEMMA AfterCallbackType ==
    ASSUME NEW m \in Machines, NEW h \in HostFacts
    PROVE  AfterCallback(m, h) \in Outputs
<1>1. Verdict([m EXCEPT !.deferred = NoWork], h, m.deferred, m.deferred.allowed)
        \in Outputs
  BY MachineUpdates, MachineFields, VerdictType
<1>2. Close(m, h, "background", m.rec.phase, "none") \in Outputs
  BY MachineFields, CloseType, Words
<1> QED BY <1>1, <1>2, QuietType DEF AfterCallback

\* A failed query (checks.rs callback_failed).
LEMMA CallbackFailedType ==
    ASSUME NEW m \in Machines, NEW h \in HostFacts, NEW live, NEW reply \in Replies
    PROVE  CallbackFailed(m, h, live, reply) \in Outputs
BY FailValidationType, AfterCallbackType, ReplyTypes, Words DEF CallbackFailed

\* The outcome of a query's effect (checks.rs callback_outcome).
LEMMA CallbackOutcomeType ==
    ASSUME NEW m \in Machines, NEW h \in HostFacts, NEW result
    PROVE  CallbackOutcome(m, h, result) \in Outputs
<1> DEFINE cb == m.callback
           n == [m EXCEPT !.callback = NoCallback]
           live == CapabilityLive(n) /\ n.cap.check = cb.tok
<1>1. cb \in Callbacks /\ n \in Machines BY MachineFields, MachineUpdates
<1>2. CallbackOutcome(m, h, result) =
        IF cb.task = "Binding" THEN CallbackBinding(n, h, cb, live, result)
        ELSE CallbackExecuted(n, h, cb, live, result)
  BY DEF CallbackOutcome
<1> HIDE DEF cb, n, live
<1>3. CallbackBinding(n, h, cb, live, result) \in Outputs
  <2>1. WaitCallback(n, h, "Execute", cb) \in Outputs
    BY <1>1, WaitCallbackType DEF Callbacks
  <2>2. FailValidation(n, h, "unavailable") \in Outputs
    BY <1>1, FailValidationType, Words
  <2>3. RespondCallback("unavailable", AfterCallback(n, h)) \in Outputs
    BY <1>1, AfterCallbackType, ReplyTypes, Words
  <2>4. /\ CallbackFailed(n, h, live, "binding_rejected") \in Outputs
        /\ CallbackFailed(n, h, live, "database") \in Outputs
    BY <1>1, CallbackFailedType, Words
  <2> QED BY <2>1, <2>2, <2>3, <2>4 DEF CallbackBinding
<1>4. CallbackExecuted(n, h, cb, live, result) \in Outputs
  <2>1. RespondCallback("result", Quiet([n EXCEPT !.cap.next = cb.seq + 1])) \in Outputs
    <3>1. [n EXCEPT !.cap.next = cb.seq + 1] \in Machines
      BY <1>1 DEF Machines, Capabilities, Callbacks
    <3> QED BY <3>1, QuietType, ReplyTypes, Words
  <2>2. FailValidation(n, h, "limit") \in Outputs
    BY <1>1, FailValidationType, Words
  <2>3. RespondCallback("unavailable", AfterCallback(n, h)) \in Outputs
    BY <1>1, AfterCallbackType, ReplyTypes, Words
  <2>4. CallbackFailed(n, h, live, "database") \in Outputs
    BY <1>1, CallbackFailedType, Words
  <2> QED BY <2>1, <2>2, <2>3, <2>4 DEF CallbackExecuted
<1> QED BY <1>2, <1>3, <1>4

(***************************************************************************)
(* Outcomes of the client and background lanes                             *)
(***************************************************************************)
LEMMA RecheckType ==
    ASSUME NEW m \in Machines, NEW h \in HostFacts, NEW lane \in Lanes,
           NEW next \in Outputs
    PROVE  Recheck(m, h, lane, next) \in Outputs
BY QuietType, ExpireClientType, CloseType, Words DEF Recheck

\* A refused binding ends the transaction.
LEMMA BindingRefusedType ==
    ASSUME NEW m \in Machines, NEW h \in HostFacts, NEW w \in Works, NEW result
    PROVE  BindingRefused(m, h, w, result) \in Outputs
BY WorkFields, CloseType, Words DEF BindingRefused

\* The binding check of a begin.
LEMMA BeginBindingType ==
    ASSUME NEW m \in Machines, NEW h \in HostFacts, NEW w \in Works, NEW result
    PROVE  BeginBinding(m, h, w, result) \in Outputs
<1>1. \A reply \in Replies : Respond(reply, Quiet(m)) \in Outputs
  BY QuietType, ReplyTypes
<1>2. Wait([m EXCEPT !.conn = "opening"], h, TaskWork("BeginOpen", "client", w.cmd))
        \in Outputs
  BY WorkFields, TaskWorkType, MachineUpdates, WaitType, Words
<1>3. PersistReply(SetPhase(m, "failed"), h, "unavailable", "internal") \in Outputs
  BY SetPhaseType, PersistReplyType, Words
<1>4. BeginChecked(m, h, w) \in Outputs
  BY <1>1, <1>2, <1>3, Words DEF BeginChecked
<1> QED BY <1>1, <1>4, Words DEF BeginBinding

\* The opened connection of a begin.
LEMMA BeginOpenType ==
    ASSUME NEW m \in Machines, NEW h \in HostFacts, NEW w \in Works, NEW result
    PROVE  BeginOpen(m, h, w, result) \in Outputs
<1> DEFINE rec == [NoRec EXCEPT !.phase = "active", !.seq = 1,
                                !.snap = w.cmd.snap, !.auth = w.cmd.auth]
           n == [m EXCEPT !.conn = "open", !.rec = rec]
<1>1. n \in Machines
  <2>1. rec \in Records BY EmptyTypes, WorkFields, Words DEF Records, Commands
  <2> HIDE DEF rec
  <2> QED BY <2>1, Words DEF Machines
<1>2. Wait(n, h, TaskWork("BeginPersist", w.lane, NoCmd)) \in Outputs
  <2> HIDE DEF n
  <2> QED BY <1>1, EmptyTypes, WorkFields, TaskWorkType, WaitType, Words
<1>3. Respond("database", Quiet([m EXCEPT !.conn = "none"])) \in Outputs
  BY MachineUpdates, QuietType, ReplyTypes, Words
<1> QED BY <1>2, <1>3 DEF BeginOpen

\* The first persist of a begin.
LEMMA BeginPersistType ==
    ASSUME NEW m \in Machines, NEW h \in HostFacts, NEW w \in Works, NEW result
    PROVE  BeginPersist(m, h, w, result) \in Outputs
<1>1. Wait(m, h, TaskWork("BeginTimer", w.lane, NoCmd)) \in Outputs
  BY EmptyTypes, WorkFields, TaskWorkType, WaitType, Words
<1> QED BY <1>1, WorkFields, CloseType, QuietType, Words DEF BeginPersist

\* The timer of a begin.
LEMMA BeginTimerType ==
    ASSUME NEW m \in Machines, NEW h \in HostFacts, NEW w \in Works, NEW result
    PROVE  BeginTimer(m, h, w, result) \in Outputs
BY WorkFields, CloseType, ExpireClientType, QuietType, ReplyTypes, Words
   DEF BeginTimer

\* The binding check of a statement.
LEMMA StatementBindingType ==
    ASSUME NEW m \in Machines, NEW h \in HostFacts, NEW w \in Works, NEW result
    PROVE  StatementBinding(m, h, w, result) \in Outputs
<1>1. Wait(m, h, [w EXCEPT !.task = "StatementExecute"]) \in Outputs
  <2>1. [w EXCEPT !.task = "StatementExecute"] \in Works BY Words DEF Works
  <2> QED BY <2>1, WaitType
<1> QED BY <1>1, WorkFields, RecheckType, BindingRefusedType DEF StatementBinding

\* A finished statement: the record it leaves and the work that answers it.
LEMMA StatementDoneType ==
    ASSUME NEW m \in Machines, NEW w \in Works
    PROVE  /\ [[m EXCEPT !.conn = "open"] EXCEPT
                  !.rec.seq = w.cmd.seq + 1, !.rec.last = DigestOf(w.cmd),
                  !.rec.dirty = @ \/ w.cmd.pay = "write"] \in Machines
           /\ [ReplyWork(w.lane, "result", "internal") EXCEPT
                  !.expire_after = TRUE, !.restore = m.rec] \in Works
<1> DEFINE n == [m EXCEPT !.conn = "open"]
           done == [n EXCEPT !.rec.seq = w.cmd.seq + 1,
                             !.rec.last = DigestOf(w.cmd),
                             !.rec.dirty = @ \/ w.cmd.pay = "write"]
           seq == w.cmd.seq + 1
           last == DigestOf(w.cmd)
           dirty == n.rec.dirty \/ w.cmd.pay = "write"
           rec == [n.rec EXCEPT !.seq = seq, !.last = last, !.dirty = dirty]
<1>1. n \in Machines BY MachineUpdates, Words
<1>2. seq \in Nat /\ last \in Digests
  BY DEF DigestOf, Digests, Works, Commands
<1>3. dirty \in BOOLEAN OBVIOUS
<1>4. rec \in Records
  <2> HIDE DEF n, seq, last, dirty
  <2> QED BY <1>1, <1>2, <1>3, MachineFields DEF Records
<1>5. done = [n EXCEPT !.rec = rec]
  <2> HIDE DEF n
  <2> QED BY <1>1 DEF Machines, Records
<1>6. done \in Machines
  <2> HIDE DEF n, rec, done
  <2> QED BY <1>1, <1>4, <1>5, MachineUpdates
<1>7. ReplyWork(w.lane, "result", "internal") \in Works
  BY WorkFields, ReplyWorkType, Words
<1>8. [ReplyWork(w.lane, "result", "internal") EXCEPT
          !.expire_after = TRUE, !.restore = m.rec] \in Works
  BY <1>7, MachineFields DEF Works
<1> QED BY <1>6, <1>8

\* An executed statement.
LEMMA StatementExecuteType ==
    ASSUME NEW m \in Machines, NEW h \in HostFacts, NEW w \in Works, NEW result
    PROVE  StatementExecute(m, h, w, result) \in Outputs
<1> DEFINE n == [m EXCEPT !.conn = "open"]
           done == [n EXCEPT !.rec.seq = w.cmd.seq + 1,
                             !.rec.last = DigestOf(w.cmd),
                             !.rec.dirty = @ \/ w.cmd.pay = "write"]
           v == [ReplyWork(w.lane, "result", "internal") EXCEPT
                    !.expire_after = TRUE, !.restore = m.rec]
<1>1. n \in Machines BY MachineUpdates, Words
<1>2. done \in Machines /\ v \in Works BY StatementDoneType
<1>3. Wait(done, h, v) \in Outputs
  <2> HIDE DEF done, v
  <2> QED BY <1>2, WaitType
<1>4. /\ ExpireClient(n, h, w.lane) \in Outputs
      /\ \A reply \in Replies : Close(n, h, w.lane, "failed", reply) \in Outputs
  <2> HIDE DEF n
  <2> QED BY <1>1, WorkFields, ExpireClientType, CloseType, Words
<1>5. StatementExecute(m, h, w, result) =
        IF n.rollback_requested THEN ExpireClient(n, h, w.lane)
        ELSE IF result # "ok"
        THEN Close(n, h, w.lane, "failed",
                   IF result = "refused" THEN "limit" ELSE "database")
        ELSE IF ~Live(n.rec) THEN Fault(m)
        ELSE Wait(done, h, v)
  BY DEF StatementExecute
<1> HIDE DEF n, done, v
<1> QED BY <1>3, <1>4, <1>5, QuietType, Words

\* The binding check of a commit.
LEMMA CommitBindingType ==
    ASSUME NEW m \in Machines, NEW h \in HostFacts, NEW w \in Works, NEW result
    PROVE  CommitBinding(m, h, w, result) \in Outputs
<1>1. Wait(SetPhase(m, "committing"), h, TaskWork("CommitPersist", w.lane, w.cmd))
        \in Outputs
  BY WorkFields, SetPhaseType, TaskWorkType, WaitType, Words
<1> QED BY <1>1, WorkFields, StartChecksType, RecheckType, BindingRefusedType
        DEF CommitBinding

\* The persist of `validating`.
LEMMA ValidatingPersistType ==
    ASSUME NEW m \in Machines, NEW h \in HostFacts, NEW w \in Works, NEW result
    PROVE  ValidatingPersist(m, h, w, result) \in Outputs
BY WorkFields, CloseType, IssueType, Words DEF ValidatingPersist

\* The persist of `committing`.
LEMMA CommitPersistType ==
    ASSUME NEW m \in Machines, NEW h \in HostFacts, NEW w \in Works, NEW result
    PROVE  CommitPersist(m, h, w, result) \in Outputs
<1>1. Wait([m EXCEPT !.conn = "closing"], h, TaskWork("CommitSend", w.lane, w.cmd))
        \in Outputs
  BY WorkFields, MachineUpdates, TaskWorkType, WaitType, Words
<1> QED BY <1>1, WorkFields, CloseType, QuietType, Words DEF CommitPersist

\* COMMIT's answer.
LEMMA CommitSendType ==
    ASSUME NEW m \in Machines, NEW h \in HostFacts, NEW w \in Works, NEW result
    PROVE  CommitSend(m, h, w, result) \in Outputs
<1> DEFINE n == [m EXCEPT !.conn = "none"]
<1>1. n \in Machines BY MachineUpdates, Words
<1> HIDE DEF n
<1>2. Wait(Complete(n, "committed", w.cmd), h,
           ReplyWork(w.lane, "committed", "committed")) \in Outputs
  BY <1>1, WorkFields, CompleteType, ReplyWorkType, WaitType, Words
<1>3. Close(n, h, w.lane, "failed", "unavailable") \in Outputs
  BY <1>1, WorkFields, CloseType, Words
<1>4. Wait(SetPhase(n, "commit_unknown"), h,
           ReplyWork(w.lane, "outcome_unknown", "outcome_unknown")) \in Outputs
  BY <1>1, WorkFields, SetPhaseType, ReplyWorkType, WaitType, Words
<1> QED BY <1>2, <1>3, <1>4, QuietType DEF CommitSend, n

\* The binding check and the answer of a rollback, and of a close.
LEMMA RollbackType ==
    ASSUME NEW m \in Machines, NEW h \in HostFacts, NEW w \in Works, NEW result
    PROVE  /\ RollbackBinding(m, h, w, result) \in Outputs
           /\ RollbackSend(m, h, w) \in Outputs
           /\ CloseRollback(m, h, w) \in Outputs
<1>1. /\ [m EXCEPT !.conn = "none"] \in Machines
      /\ [m EXCEPT !.conn = "closing"] \in Machines
  BY MachineUpdates, Words
<1>2. RollbackBinding(m, h, w, result) \in Outputs
  <2>1. Wait([m EXCEPT !.conn = "closing"], h,
             TaskWork("RollbackSend", w.lane, w.cmd)) \in Outputs
    BY <1>1, WorkFields, TaskWorkType, WaitType, Words
  <2> QED BY <2>1, WorkFields, RecheckType, BindingRefusedType DEF RollbackBinding
<1>3. RollbackSend(m, h, w) \in Outputs
  <2>1. Wait(Complete([m EXCEPT !.conn = "none"], "rolled_back", w.cmd), h,
             ReplyWork(w.lane, "rolled_back", "internal")) \in Outputs
    BY <1>1, WorkFields, CompleteType, ReplyWorkType, WaitType, Words
  <2> QED BY <2>1, QuietType DEF RollbackSend
<1>4. CloseRollback(m, h, w) \in Outputs
  BY <1>1, WorkFields, PersistPhaseType DEF CloseRollback
<1> QED BY <1>2, <1>3, <1>4

\* The persist before a reply.
LEMMA ReplyType ==
    ASSUME NEW m \in Machines, NEW h \in HostFacts, NEW w \in Works, NEW result
    PROVE  Reply(m, h, w, result) \in Outputs
<1>1. Respond(w.reply, IF w.expire_after /\ m.rollback_requested
                       THEN Close(m, h, "background", "expired", "none")
                       ELSE Quiet(m)) \in Outputs
  BY WorkFields, CloseType, QuietType, ReplyTypes, Words
<1>2. Close([m EXCEPT !.rec = w.restore], h, w.lane, "failed", w.failure) \in Outputs
  BY WorkFields, MachineUpdates, CloseType, Words
<1>3. Reset(Respond(w.failure, Quiet(m))) \in Outputs
  BY WorkFields, QuietType, ReplyTypes
<1> QED BY <1>1, <1>2, <1>3 DEF Reply

\* An outcome its lane waited for (step.rs consume).
LEMMA ConsumeType ==
    ASSUME NEW m \in Machines, NEW h \in HostFacts, NEW w \in Works, NEW result
    PROVE  Consume(m, h, w, result) \in Outputs
<1>1. VerdictArrived(m, h, w, result = "allow") \in Outputs BY VerdictArrivedType
<1>2. Reset(Quiet(m)) \in Outputs BY QuietType, ReplyTypes, Words
<1> QED BY <1>1, <1>2, QuietType, BeginBindingType, BeginOpenType,
           BeginPersistType, BeginTimerType, StatementBindingType,
           StatementExecuteType, CommitBindingType, ValidatingPersistType,
           CommitPersistType, CommitSendType, RollbackType, ReplyType
        DEF Consume

\* Any outcome (step.rs outcome).
LEMMA OutcomeType ==
    ASSUME NEW m \in Machines, NEW h \in HostFacts, NEW ev
    PROVE  Outcome(m, h, ev) \in Outputs
<1>1. Consume([m EXCEPT !.work = NoWork], h, m.work, ev.result) \in Outputs
  BY MachineUpdates, MachineFields, ConsumeType
<1>2. Stale(m, ev) \in Outputs BY QuietType DEF Stale
<1> QED BY <1>1, <1>2, CallbackOutcomeType DEF Outcome

(***************************************************************************)
(* Client input, the timer and failing closed                              *)
(***************************************************************************)
LEMMA BeginType ==
    ASSUME NEW m \in Machines, NEW h \in HostFacts, NEW cmd \in Commands
    PROVE  Begin(m, h, cmd) \in Outputs
<1>1. Wait(m, h, TaskWork("BeginBinding", "client", cmd)) \in Outputs
  BY TaskWorkType, WaitType, Words
<1>2. BusyCode(m) \in Replies BY Words DEF BusyCode
<1> QED BY <1>1, <1>2, QuietType, ReplyTypes, Words DEF Begin

\* A command that finds a commit in doubt.
LEMMA CommitUncertainType ==
    ASSUME NEW m \in Machines, NEW h \in HostFacts, NEW cmd \in Commands
    PROVE  CommitUncertain(m, h, cmd) \in Outputs
<1> DEFINE answer == IF cmd.kind = "commit" /\ cmd.seq = m.rec.seq
                     THEN "outcome_unknown" ELSE "unavailable"
<1>1. answer \in Replies BY Words
<1>2. SetPhase(Fresh(m.rec), "commit_unknown") \in Machines
  BY MachineFields, FreshType, SetPhaseType, Words
<1>3. CommitUncertain(m, h, cmd) =
        IF m.work.lane = "client" THEN Respond("internal", Quiet(m))
        ELSE IF m.rec.phase = "committing"
        THEN PersistReply(SetPhase(Fresh(m.rec), "commit_unknown"), h, answer, answer)
        ELSE Respond(answer, Quiet(m))
  BY DEF CommitUncertain
<1> HIDE DEF answer
<1> QED BY <1>1, <1>2, <1>3, PersistReplyType, QuietType, ReplyTypes, Words

\* A command with the record's next sequence.
LEMMA NextCommandType ==
    ASSUME NEW m \in Machines, NEW h \in HostFacts, NEW cmd \in Commands
    PROVE  NextCommand(m, h, cmd) \in Outputs
<1>1. Statement(m, h, cmd) \in Outputs
  <2>1. Wait(m, h, TaskWork("StatementBinding", "client", cmd)) \in Outputs
    BY TaskWorkType, WaitType, Words
  <2> QED BY <2>1, CloseType, Words DEF Statement
<1>2. Wait(m, h, [TaskWork("CommitBinding", "client", cmd) EXCEPT
                     !.check = IF Triggered(m.rec) THEN 1 ELSE 0]) \in Outputs
  <2> DEFINE check == IF Triggered(m.rec) THEN 1 ELSE 0
  <2>1. TaskWork("CommitBinding", "client", cmd) \in Works BY TaskWorkType, Words
  <2>2. check \in Nat OBVIOUS
  <2> HIDE DEF check
  <2>3. [TaskWork("CommitBinding", "client", cmd) EXCEPT !.check = check] \in Works
    BY <2>1, <2>2 DEF Works
  <2> QED BY <2>3, WaitType DEF check
<1>3. Wait(m, h, TaskWork("RollbackBinding", "client", cmd)) \in Outputs
  BY TaskWorkType, WaitType, Words
<1> QED BY <1>1, <1>2, <1>3 DEF NextCommand

\* Any statement, commit or rollback (step.rs command).
LEMMA CommandType ==
    ASSUME NEW m \in Machines, NEW h \in HostFacts, NEW cmd \in Commands
    PROVE  Command(m, h, cmd) \in Outputs
<1>1. \A reply \in Replies : Respond(reply, Quiet(m)) \in Outputs
  BY QuietType, ReplyTypes
<1>2. OwnCommand(m, h, cmd) \in Outputs
  <2>1. \A phase \in Phases, reply \in Replies :
          Close(m, h, "client", phase, reply) \in Outputs
    BY CloseType, Words
  <2> QED BY <1>1, <2>1, NextCommandType, Words DEF OwnCommand
<1>3. LastReply(m.rec) \in Replies BY Words DEF LastReply
<1>4. BusyCode(m) \in Replies BY Words DEF BusyCode
<1> QED BY <1>1, <1>2, <1>3, <1>4, CommitUncertainType, Words DEF Command

\* Any forwarded input (step.rs forwarded).
LEMMA ForwardedType ==
    ASSUME NEW m \in Machines, NEW h \in HostFacts, NEW cmd \in Commands
    PROVE  Forwarded(m, h, cmd) \in Outputs
BY BeginType, CommandType, CallbackQueryType, QuietType, ReplyTypes, Words
   DEF Forwarded

\* The timer (step.rs timer).
LEMMA TimerType ==
    ASSUME NEW m \in Machines, NEW h \in HostFacts
    PROVE  Timer(m, h) \in Outputs
<1>1. Quiet([m EXCEPT !.rollback_requested = @ \/ Defers(m.work)]) \in Outputs
  <2> DEFINE requested == m.rollback_requested \/ Defers(m.work)
  <2>1. requested \in BOOLEAN OBVIOUS
  <2>2. [m EXCEPT !.rollback_requested = @ \/ Defers(m.work)] =
        [m EXCEPT !.rollback_requested = requested]
    BY DEF Machines
  <2> HIDE DEF requested
  <2>3. [m EXCEPT !.rollback_requested = requested] \in Machines
    BY <2>1 DEF Machines
  <2> QED BY <2>2, <2>3, QuietType
<1> QED BY <1>1, ExpireValidatingType, CloseType, QuietType, Words DEF Timer

\* An abandoned owner (step.rs abandon).
LEMMA AbandonType ==
    ASSUME NEW m \in Machines, NEW h \in HostFacts
    PROVE  Abandon(m, h) \in Outputs
<1> DEFINE next == IF m.rec.phase \in {"active", "validating"} /\ m.conn # "none"
                   THEN "failed"
                   ELSE IF m.rec.phase = "committing" THEN "commit_unknown"
                   ELSE "absent"
           effect == [type |-> "persist", id |-> h.id, arg |-> 0]
           o == Quiet(SetPhase(Fresh(m.rec), next))
<1>1. next \in Phases BY Words
<1>2. effect \in Effects BY DEF Effects, EffectTypes, HostFacts
<1>3. Abandon(m, h) = IF next = "absent" THEN Quiet(Fresh(m.rec))
                      ELSE [o EXCEPT !.await = effect]
  BY DEF Abandon
<1>4. o \in Outputs
  <2> HIDE DEF next
  <2> QED BY <1>1, MachineFields, FreshType, SetPhaseType, QuietType
<1> HIDE DEF next, effect, o
<1> QED BY <1>2, <1>3, <1>4, MachineFields, FreshType, QuietType DEF Outputs

\* A step that fails closed (step.rs fail_closed).
LEMMA FailClosedType ==
    ASSUME NEW m \in Machines, NEW h \in HostFacts, NEW ev
    PROVE  FailClosed(m, h, ev) \in Outputs
<1> DEFINE next == IF m.rec.phase \in {"active", "validating"} /\ ~Idle(m) THEN "failed"
                   ELSE IF m.rec.phase = "committing" THEN "commit_unknown"
                   ELSE "absent"
           o == IF next = "absent" THEN Reset(Quiet(Fresh(m.rec)))
                ELSE Wait(SetPhase(Fresh(m.rec), next), h,
                          TaskWork("ResetAfterPersist", "background", NoCmd))
<1>1. next \in Phases BY Words
<1>2. o \in Outputs
  <2> HIDE DEF next
  <2>1. Reset(Quiet(Fresh(m.rec))) \in Outputs
    BY MachineFields, FreshType, QuietType, ReplyTypes, Words
  <2>2. Wait(SetPhase(Fresh(m.rec), next), h,
             TaskWork("ResetAfterPersist", "background", NoCmd)) \in Outputs
    BY <1>1, EmptyTypes, MachineFields, FreshType, SetPhaseType, TaskWorkType,
       WaitType, Words
  <2> QED BY <2>1, <2>2
<1>3. FaultReply(m, ev) \in Replies /\ FaultCallbackReply(m, ev) \in Replies
  BY Words DEF FaultReply, FaultCallbackReply
<1>4. FailClosed(m, h, ev) = [o EXCEPT !.client = FaultReply(m, ev),
                                       !.callback = FaultCallbackReply(m, ev)]
  BY DEF FailClosed
<1> HIDE DEF o
<1> QED BY <1>2, <1>3, <1>4 DEF Outputs

\* The end of a step (step.rs finish_output).
LEMMA FinishOutputType ==
    ASSUME NEW o \in Outputs
    PROVE  FinishOutput(o) \in Outputs
<1>1. o.m \in Machines /\ o.m.rec \in Records
  BY DEF Outputs, Machines
<1>2. Fresh(NoRec) \in Machines /\ Fresh(o.m.rec) \in Machines
  BY <1>1, EmptyTypes, FreshType
<1>3. \A n \in Machines : [o EXCEPT !.m = n] \in Outputs
  BY DEF Outputs
<1> QED BY <1>2, <1>3 DEF FinishOutput

\* Discarding an unreadable record yields a typed output.
LEMMA DiscardType ==
    ASSUME NEW h \in HostFacts, NEW ev
    PROVE  Discard(h, ev) \in Outputs
<1> DEFINE o == Wait(Fresh(Tombstone), h, ReplyWork("background", "none", "none"))
<1>1. o \in Outputs
  BY EmptyTypes, FreshType, ReplyWorkType, WaitType, Words
<1>2. Discard(h, ev) =
        IF ev.type # "forwarded" THEN o
        ELSE IF ev.cmd.kind = "query" THEN RespondCallback("unavailable", o)
        ELSE Respond(IF ev.cmd.kind = "commit" THEN "outcome_unknown"
                     ELSE "unavailable", o)
  BY DEF Discard
<1> HIDE DEF o
<1> QED BY <1>1, <1>2, ReplyTypes, Words

\* One step of the machine (step.rs run_dispatch): from any typed state, on
\* any event, the state it leaves, its replies and the effect it asks for are
\* typed, whether it succeeds or fails closed.
THEOREM StepType ==
    ASSUME NEW m \in Machines, NEW h \in HostFacts, NEW ev \in Events
    PROVE  RunDispatch(m, h, ev) \in Outputs
<1>1. ev.cmd \in Commands BY DEF Events
<1>2. Dispatch(m, h, ev) \in Outputs
  BY <1>1, AbandonType, ForwardedType, TimerType, OutcomeType DEF Dispatch
<1> QED BY <1>2, FailClosedType, FinishOutputType DEF RunDispatch

(***************************************************************************)
(* Which steps lead to COMMIT.  A plain step neither awaits a commit nor   *)
(* the persist before it: at most it leaves that persist's work as it was. *)
(* CommitBinding and CommitPersist alone are not plain.                    *)
(***************************************************************************)
Apart(o) == o.await.type # "commit" /\ o.m.work.task # "CommitPersist"
Plain(m, o) ==
    \/ Apart(o)
    \/ /\ o.await.type \notin {"commit", "persist"}
       /\ o.m.work = m.work
       /\ o.m.rec = m.rec

\* What waiting for the effect of a work leaves in the output.
LEMMA WaitFacts ==
    ASSUME NEW m \in Machines, NEW h \in HostFacts, NEW w \in Works
    PROVE  /\ Wait(m, h, w).m = [m EXCEPT !.work = [w EXCEPT !.id = h.id]]
           /\ Wait(m, h, w).m.work.task = w.task
           /\ Wait(m, h, w).m.work.id = h.id
           /\ Wait(m, h, w).m.work.expire_after = w.expire_after
           /\ Wait(m, h, w).m.rec = m.rec
           /\ Wait(m, h, w).m.conn = m.conn
           /\ Wait(m, h, w).m.deferred = m.deferred
           /\ Wait(m, h, w).await.type = AwaitedBy(w.task)
           /\ Wait(m, h, w).await.id = h.id
           /\ Wait(m, h, w).reset = FALSE
           /\ Wait(m, h, w).fault = FALSE
<1> DEFINE v == [w EXCEPT !.id = h.id]
           n == [m EXCEPT !.work = v]
           arg == IF w.task \in {"StatementExecute", "CommitSend"} THEN w.cmd.seq
                  ELSE IF w.task = "Validator" THEN w.check ELSE 0
           effect == [type |-> AwaitedBy(w.task), id |-> h.id, arg |-> arg]
<1>1. v.task = w.task /\ v.id = h.id /\ v.expire_after = w.expire_after
  BY DEF Works
<1>2. /\ n.work = v /\ n.rec = m.rec /\ n.conn = m.conn
      /\ n.deferred = m.deferred
  <2> HIDE DEF v
  <2> QED BY DEF Machines
<1>3. effect.type = AwaitedBy(w.task) /\ effect.id = h.id
  <2> HIDE DEF arg
  <2> QED OBVIOUS
<1>4. Wait(m, h, w) = [Quiet(n) EXCEPT !.await = effect]
  BY DEF Wait
<1> HIDE DEF n, effect
<1>5. /\ Wait(m, h, w).m = n /\ Wait(m, h, w).await = effect
      /\ Wait(m, h, w).reset = FALSE /\ Wait(m, h, w).fault = FALSE
  BY <1>4 DEF Quiet
<1> QED BY <1>1, <1>2, <1>3, <1>5 DEF n

\* Waiting for anything but COMMIT and the persist before it.
LEMMA WaitApart ==
    ASSUME NEW m \in Machines, NEW h \in HostFacts, NEW w \in Works,
           w.task \notin {"CommitPersist", "CommitSend"}
    PROVE  Apart(Wait(m, h, w))
<1>1. AwaitedBy(w.task) # "commit" BY DEF AwaitedBy
<1> QED BY <1>1, WaitFacts DEF Apart

\* Outputs without an effect.
LEMMA QuietPlain ==
    ASSUME NEW m \in Machines, NEW n \in Machines,
           n.work.task # "CommitPersist" \/ (n.work = m.work /\ n.rec = m.rec)
    PROVE  Plain(m, Quiet(n)) /\ Plain(m, Fault(n))
BY DEF Plain, Apart, Quiet, Fault, NoEffect

\* A reply or a reset keeps an output plain.
LEMMA ReplyPlain ==
    ASSUME NEW m, NEW o \in Outputs, NEW reply \in Replies, Plain(m, o)
    PROVE  /\ Plain(m, Respond(reply, o))
           /\ Plain(m, RespondCallback(reply, o))
           /\ Plain(m, Reset(o))
BY DEF Plain, Apart, Respond, RespondCallback, Reset, Outputs

\* A reply or a reset keeps an output apart from COMMIT.
LEMMA ReplyApart ==
    ASSUME NEW o \in Outputs, NEW reply \in Replies, Apart(o)
    PROVE  /\ Apart(Respond(reply, o))
           /\ Apart(RespondCallback(reply, o))
           /\ Apart(Reset(o))
BY DEF Apart, Respond, RespondCallback, Reset, Outputs

\* The task of a built work.
LEMMA BuiltTasks ==
    /\ \A task \in Tasks, lane \in Lanes, cmd \in Commands :
          /\ TaskWork(task, lane, cmd).task = task
          /\ TaskWork(task, lane, cmd).expire_after = FALSE
    /\ \A lane \in Lanes, reply \in Replies, failure \in Replies :
          /\ ReplyWork(lane, reply, failure).task = "Reply"
          /\ ReplyWork(lane, reply, failure).expire_after = FALSE
BY DEF TaskWork, ReplyWork, NoWork

\* A lane that goes on to another task.
LEMMA WaitTaskApart ==
    ASSUME NEW m \in Machines, NEW h \in HostFacts, NEW lane \in Lanes,
           NEW cmd \in Commands, NEW task \in Tasks \ {"CommitPersist", "CommitSend"}
    PROVE  Apart(Wait(m, h, TaskWork(task, lane, cmd)))
<1>1. TaskWork(task, lane, cmd) \in Works BY TaskWorkType
<1>2. TaskWork(task, lane, cmd).task = task BY BuiltTasks
<1> QED BY <1>1, <1>2, WaitApart

\* A lane that answers after a persist.
LEMMA WaitReplyApart ==
    ASSUME NEW m \in Machines, NEW h \in HostFacts, NEW lane \in Lanes,
           NEW reply \in Replies, NEW failure \in Replies
    PROVE  Apart(Wait(m, h, ReplyWork(lane, reply, failure)))
<1>1. ReplyWork(lane, reply, failure) \in Works BY ReplyWorkType
<1>2. ReplyWork(lane, reply, failure).task = "Reply" BY BuiltTasks
<1> QED BY <1>1, <1>2, WaitApart

\* A step is plain when it is apart from COMMIT, and only then if no
\* commit's persist was in progress; the rest of the state does not matter.
LEMMA PlainFacts ==
    ASSUME NEW m, NEW o
    PROVE  /\ Apart(o) => Plain(m, o)
           /\ Plain(m, o) /\ m.work.task # "CommitPersist" => Apart(o)
           /\ \A n : n.work = m.work /\ n.rec = m.rec /\ Plain(n, o) => Plain(m, o)
BY DEF Plain, Apart

\* Revoking a capability leaves work, record and deferred verdict.
LEMMA RevokeKeeps ==
    ASSUME NEW m \in Machines
    PROVE  /\ Revoke(m).work = m.work /\ Revoke(m).rec = m.rec
           /\ Revoke(m).deferred = m.deferred
BY DEF Revoke, Machines

\* Setting a phase changes the record alone.
LEMMA SetPhaseKeeps ==
    ASSUME NEW m \in Machines, NEW phase \in Phases
    PROVE  /\ SetPhase(m, phase).work = m.work
           /\ SetPhase(m, phase).conn = m.conn
           /\ SetPhase(m, phase).deferred = m.deferred
           /\ SetPhase(m, phase).callback = m.callback
           /\ SetPhase(m, phase).rec.phase \in {m.rec.phase, phase}
           /\ Live(m.rec) => SetPhase(m, phase).rec.phase = phase
BY DEF SetPhase, Machines, Records, Tombstone, NoRec

\* Persisting a phase is apart from COMMIT.
LEMMA PersistPhaseApart ==
    ASSUME NEW m \in Machines, NEW h \in HostFacts, NEW lane \in Lanes,
           NEW phase \in Phases, NEW reply \in Replies
    PROVE  Apart(PersistPhase(m, h, lane, phase, reply))
<1> DEFINE n == [m EXCEPT !.work = NoWork]
           failure == IF reply = "none" THEN "none" ELSE "internal"
           w == ReplyWork(lane, reply, failure)
<1>1. n \in Machines /\ n.work.task = "none"
  BY MachineUpdates DEF Machines, NoWork
<1>2. Apart(Respond(reply, Quiet(n)))
  <2> HIDE DEF n
  <2>1. Apart(Quiet(n)) BY <1>1, QuietPlain, PlainFacts
  <2> QED BY <1>1, <2>1, QuietType, ReplyApart
<1>3. w \in Works /\ w.task = "Reply"
  BY ReplyWorkType, Words DEF ReplyWork, NoWork
<1>4. Apart(Wait(SetPhase(m, phase), h, w))
  <2> HIDE DEF w
  <2> QED BY <1>3, SetPhaseType, WaitApart
<1> QED BY <1>2, <1>4 DEF PersistPhase

\* Closing is plain.
LEMMA ClosePlain ==
    ASSUME NEW m \in Machines, NEW h \in HostFacts, NEW lane \in Lanes,
           NEW phase \in Phases, NEW reply \in Replies
    PROVE  Plain(m, Close(m, h, lane, phase, reply))
<1> DEFINE w == [TaskWork("CloseRollback", lane, NoCmd) EXCEPT
                    !.phase = phase, !.reply = reply]
<1>1. w \in Works /\ w.task = "CloseRollback"
  <2>1. /\ TaskWork("CloseRollback", lane, NoCmd) \in Works
        /\ TaskWork("CloseRollback", lane, NoCmd).task = "CloseRollback"
    BY TaskWorkType, BuiltTasks, EmptyTypes, Words
  <2> QED BY <2>1 DEF Works
<1>2. /\ [Revoke(m) EXCEPT !.conn = "closing"] \in Machines
      /\ [Revoke(m) EXCEPT !.conn = "none"] \in Machines
  BY RevokeType, MachineUpdates, Words
<1>3. Apart(Wait([Revoke(m) EXCEPT !.conn = "closing"], h, w))
  <2> HIDE DEF w
  <2> QED BY <1>1, <1>2, WaitApart
<1>4. Apart(PersistPhase([Revoke(m) EXCEPT !.conn = "none"], h, lane, phase, reply))
  BY <1>2, PersistPhaseApart
<1> QED BY <1>3, <1>4, QuietPlain, PlainFacts DEF Close

\* Closing for an expiry is plain.
LEMMA ExpireClientPlain ==
    ASSUME NEW m \in Machines, NEW h \in HostFacts, NEW lane \in Lanes
    PROVE  Plain(m, ExpireClient(m, h, lane))
BY ClosePlain, Words DEF ExpireClient

\* A persist before a reply is apart from COMMIT.
LEMMA PersistReplyApart ==
    ASSUME NEW m \in Machines, NEW h \in HostFacts, NEW reply \in Replies,
           NEW failure \in Replies
    PROVE  Apart(PersistReply(m, h, reply, failure))
<1>1. ReplyWork("client", reply, failure) \in Works BY ReplyWorkType, Words
<1>2. ReplyWork("client", reply, failure).task = "Reply" BY DEF ReplyWork, NoWork
<1> QED BY <1>1, <1>2, WaitApart DEF PersistReply

\* The effects of a validator's query are plain.
LEMMA WaitCallbackPlain ==
    ASSUME NEW m \in Machines, NEW h, NEW task \in {"Binding", "Execute"}, NEW q
    PROVE  Plain(m, WaitCallback(m, h, task, q))
<1> DEFINE cb == [id |-> h.id, task |-> task, tok |-> q.tok, seq |-> q.seq]
           n == [m EXCEPT !.callback = cb]
           effect == [type |-> CallbackAwaits(task), id |-> h.id, arg |-> 0]
<1>1. n.work = m.work /\ n.rec = m.rec
  <2> HIDE DEF cb
  <2> QED BY DEF Machines
<1>2. effect.type \notin {"commit", "persist"} BY DEF CallbackAwaits
<1>3. WaitCallback(m, h, task, q) = [Quiet(n) EXCEPT !.await = effect]
  BY DEF WaitCallback
<1> HIDE DEF n, effect
<1> QED BY <1>1, <1>2, <1>3 DEF Quiet, Plain

\* A validator call is plain.
LEMMA IssuePlain ==
    ASSUME NEW m \in Machines, NEW h \in HostFacts, NEW w \in Works
    PROVE  Plain(m, Issue(m, h, w))
<1> DEFINE cap == [check |-> w.check, next |-> 1]
           v == [TaskWork("Validator", w.lane, w.cmd) EXCEPT !.check = w.check]
<1>1. [m EXCEPT !.cap = cap] \in Machines
  <2>1. cap \in Capabilities BY WorkFields DEF Capabilities
  <2> HIDE DEF cap
  <2> QED BY <2>1 DEF Machines
<1>2. v \in Works /\ v.task = "Validator"
  <2>1. v \in Works BY WorkFields, CheckWorkType, Words
  <2> QED BY <2>1 DEF TaskWork, NoWork
<1>3. Apart(Wait([m EXCEPT !.cap = cap], h, v))
  <2> HIDE DEF cap, v
  <2> QED BY <1>1, <1>2, WaitApart
<1>4. Plain(m, Close(m, h, w.lane, "failed", "check_rejected"))
  BY WorkFields, ClosePlain, Words
<1> QED BY <1>3, <1>4, PlainFacts DEF Issue

\* The start of validation is plain.
LEMMA StartChecksPlain ==
    ASSUME NEW m \in Machines, NEW h \in HostFacts, NEW w \in Works
    PROVE  Plain(m, StartChecks(m, h, w))
<1> DEFINE v == [TaskWork("ValidatingPersist", w.lane, w.cmd) EXCEPT !.check = 1]
<1>1. Plain(m, Close(m, h, w.lane, "failed", "check_rejected"))
  BY WorkFields, ClosePlain, Words
<1>2. v \in Works /\ v.task = "ValidatingPersist"
  <2>1. v \in Works BY CheckWorkType, Words
  <2> QED BY <2>1 DEF TaskWork, NoWork
<1>3. Apart(Wait(SetPhase(m, "validating"), h, v))
  <2> HIDE DEF v
  <2> QED BY <1>2, SetPhaseType, WaitApart, Words
<1> QED BY <1>1, <1>3, QuietPlain, PlainFacts DEF StartChecks

\* A verdict is plain: the last one asks for another binding check.
LEMMA VerdictPlain ==
    ASSUME NEW m \in Machines, NEW h \in HostFacts, NEW w \in Works, NEW allowed
    PROVE  Plain(m, Verdict(m, h, w, allowed))
<1>1. Plain(m, Close(m, h, w.lane, "failed", "check_rejected"))
  BY WorkFields, ClosePlain, Words
<1>2. Plain(m, Issue(m, h, [w EXCEPT !.check = @ + 1]))
  <2>1. [w EXCEPT !.check = @ + 1] \in Works BY DEF Works
  <2> QED BY <2>1, IssuePlain
<1>3. Apart(Wait(m, h, TaskWork("CommitBinding", w.lane, w.cmd)))
  BY WorkFields, WaitTaskApart DEF Tasks
<1> QED BY <1>1, <1>2, <1>3, PlainFacts DEF Verdict

\* So is a verdict that waits for the connection.
LEMMA VerdictArrivedPlain ==
    ASSUME NEW m \in Machines, NEW h \in HostFacts, NEW w \in Works,
           NEW allowed \in BOOLEAN
    PROVE  Plain(m, VerdictArrived(m, h, w, allowed))
<1> DEFINE n == [m EXCEPT !.cap = NoCap]
           v == [w EXCEPT !.id = 0, !.task = "Verdict", !.allowed = allowed]
<1>1. n \in Machines /\ n.work = m.work /\ n.rec = m.rec
  BY MachineUpdates DEF Machines
<1>2. v \in Works BY Words DEF Works
<1>3. Plain(m, Quiet([n EXCEPT !.deferred = v]))
  <2> HIDE DEF n, v
  <2>1. /\ [n EXCEPT !.deferred = v] \in Machines
        /\ [n EXCEPT !.deferred = v].work = n.work
        /\ [n EXCEPT !.deferred = v].rec = n.rec
    BY <1>1, <1>2 DEF Machines
  <2> QED BY <1>1, <2>1, QuietPlain
<1>4. Plain(m, Verdict(n, h, w, allowed))
  <2> HIDE DEF n
  <2> QED BY <1>1, VerdictPlain, PlainFacts
<1> QED BY <1>3, <1>4 DEF VerdictArrived

\* An expired validation is apart from COMMIT.
LEMMA ExpireValidatingPlain ==
    ASSUME NEW m \in Machines, NEW h \in HostFacts,
           m.work.task # "CommitPersist"
    PROVE  Apart(ExpireValidating(m, h))
<1> DEFINE ended == IF HasWork(m)
                    THEN [m EXCEPT !.cap = NoCap, !.revoked = m.work.id,
                                   !.work = NoWork]
                    ELSE [m EXCEPT !.cap = NoCap, !.deferred = NoWork]
           n == SetPhase(ended, "expired")
<1>1. ended \in Machines
  BY MachineFields, WorkFields, EmptyTypes DEF Machines
<1>2. ended.work.task # "CommitPersist"
  BY DEF Machines, NoWork
<1>3. n \in Machines /\ n.work = ended.work
  <2> HIDE DEF ended
  <2> QED BY <1>1, SetPhaseType, SetPhaseKeeps, Words
<1>4. ExpireValidating(m, h) =
        Respond("check_rejected",
            IF CallbackExecuting(n)
            THEN Quiet([n EXCEPT !.rollback_requested = TRUE])
            ELSE Close(n, h, "background", "expired", "none"))
  BY DEF ExpireValidating
<1> HIDE DEF n, ended
<1>5. [n EXCEPT !.rollback_requested = TRUE] \in Machines /\
      [n EXCEPT !.rollback_requested = TRUE].work = n.work
  BY <1>3, MachineUpdates DEF Machines
<1>6. Apart(Quiet([n EXCEPT !.rollback_requested = TRUE]))
  BY <1>2, <1>3, <1>5, QuietPlain, PlainFacts
<1>7. Apart(Close(n, h, "background", "expired", "none"))
  BY <1>2, <1>3, ClosePlain, PlainFacts, Words
<1>8. /\ Quiet([n EXCEPT !.rollback_requested = TRUE]) \in Outputs
      /\ Close(n, h, "background", "expired", "none") \in Outputs
  BY <1>3, <1>5, QuietType, CloseType, Words
<1> QED BY <1>4, <1>6, <1>7, <1>8, ReplyApart, Words

\* A failed validation is plain.
LEMMA FailValidationPlain ==
    ASSUME NEW m \in Machines, NEW h \in HostFacts, NEW reply \in Replies
    PROVE  Plain(m, FailValidation(m, h, reply))
<1> DEFINE n == [m EXCEPT !.callback = NoCallback, !.cap = NoCap,
                          !.revoked = m.work.id, !.work = NoWork]
<1>1. n \in Machines /\ n.work = NoWork
  BY MachineFields, WorkFields, EmptyTypes DEF Machines
<1>2. Apart(RespondCallback(reply, Close(n, h, "client", "failed", "check_rejected")))
  <2> HIDE DEF n
  <2>1. n.work.task # "CommitPersist" BY <1>1 DEF NoWork
  <2>2. Apart(Close(n, h, "client", "failed", "check_rejected"))
    BY <1>1, <2>1, ClosePlain, PlainFacts, Words
  <2>3. Close(n, h, "client", "failed", "check_rejected") \in Outputs
    BY <1>1, CloseType, Words
  <2> QED BY <2>2, <2>3, ReplyApart
<1> QED BY <1>2, QuietPlain, PlainFacts DEF FailValidation

\* A validator's query is plain.
LEMMA CallbackQueryPlain ==
    ASSUME NEW m \in Machines, NEW h \in HostFacts, NEW q \in Commands
    PROVE  Plain(m, CallbackQuery(m, h, q))
<1>1. \A reply \in Replies : Plain(m, RespondCallback(reply, Quiet(m)))
  BY QuietType, QuietPlain, ReplyPlain
<1>2. \A reply \in Replies : Plain(m, FailValidation(m, h, reply))
  BY FailValidationPlain
<1>3. Plain(m, WaitCallback(m, h, "Binding", q))
  BY WaitCallbackPlain
<1> QED BY <1>1, <1>2, <1>3, Words DEF CallbackQuery

\* What waited for the connection is plain.
LEMMA AfterCallbackPlain ==
    ASSUME NEW m \in Machines, NEW h \in HostFacts
    PROVE  Plain(m, AfterCallback(m, h))
<1> DEFINE n == [m EXCEPT !.deferred = NoWork]
<1>1. n \in Machines /\ n.work = m.work /\ n.rec = m.rec
  BY MachineUpdates DEF Machines
<1>2. Plain(m, Verdict(n, h, m.deferred, m.deferred.allowed))
  <2> HIDE DEF n
  <2> QED BY <1>1, MachineFields, VerdictPlain, PlainFacts
<1>3. Plain(m, Close(m, h, "background", m.rec.phase, "none"))
  BY MachineFields, ClosePlain, Words
<1> QED BY <1>2, <1>3, QuietPlain DEF AfterCallback

\* A failed query is plain.
LEMMA CallbackFailedPlain ==
    ASSUME NEW m \in Machines, NEW h \in HostFacts, NEW live, NEW reply \in Replies
    PROVE  Plain(m, CallbackFailed(m, h, live, reply))
BY FailValidationPlain, AfterCallbackPlain, AfterCallbackType, ReplyPlain, Words
   DEF CallbackFailed

\* The outcome of a query's effect is plain.
LEMMA CallbackOutcomePlain ==
    ASSUME NEW m \in Machines, NEW h \in HostFacts, NEW result
    PROVE  Plain(m, CallbackOutcome(m, h, result))
<1> DEFINE cb == m.callback
           n == [m EXCEPT !.callback = NoCallback]
           live == CapabilityLive(n) /\ n.cap.check = cb.tok
<1>1. cb \in Callbacks /\ n \in Machines /\ n.work = m.work /\ n.rec = m.rec
  BY MachineFields, MachineUpdates DEF Machines
<1>2. CallbackOutcome(m, h, result) =
        IF cb.task = "Binding" THEN CallbackBinding(n, h, cb, live, result)
        ELSE CallbackExecuted(n, h, cb, live, result)
  BY DEF CallbackOutcome
<1> HIDE DEF cb, n, live
<1>3. Plain(n, CallbackBinding(n, h, cb, live, result))
  <2>1. Plain(n, WaitCallback(n, h, "Execute", cb))
    BY <1>1, WaitCallbackPlain
  <2>2. Plain(n, FailValidation(n, h, "unavailable"))
    BY <1>1, FailValidationPlain, Words
  <2>3. Plain(n, RespondCallback("unavailable", AfterCallback(n, h)))
    BY <1>1, AfterCallbackPlain, AfterCallbackType, ReplyPlain, Words
  <2>4. /\ Plain(n, CallbackFailed(n, h, live, "binding_rejected"))
        /\ Plain(n, CallbackFailed(n, h, live, "database"))
    BY <1>1, CallbackFailedPlain, Words
  <2> QED BY <2>1, <2>2, <2>3, <2>4 DEF CallbackBinding
<1>4. Plain(n, CallbackExecuted(n, h, cb, live, result))
  <2>1. Plain(n, RespondCallback("result", Quiet([n EXCEPT !.cap.next = cb.seq + 1])))
    <3>1. /\ [n EXCEPT !.cap.next = cb.seq + 1] \in Machines
          /\ [n EXCEPT !.cap.next = cb.seq + 1].work = n.work
          /\ [n EXCEPT !.cap.next = cb.seq + 1].rec = n.rec
      BY <1>1 DEF Machines, Capabilities, Callbacks
    <3> QED BY <1>1, <3>1, QuietType, QuietPlain, ReplyPlain, Words
  <2>2. Plain(n, FailValidation(n, h, "limit"))
    BY <1>1, FailValidationPlain, Words
  <2>3. Plain(n, RespondCallback("unavailable", AfterCallback(n, h)))
    BY <1>1, AfterCallbackPlain, AfterCallbackType, ReplyPlain, Words
  <2>4. Plain(n, CallbackFailed(n, h, live, "database"))
    BY <1>1, CallbackFailedPlain, Words
  <2> QED BY <2>1, <2>2, <2>3, <2>4 DEF CallbackExecuted
<1>5. Plain(n, CallbackOutcome(m, h, result)) BY <1>2, <1>3, <1>4
<1> QED BY <1>1, <1>5, PlainFacts

\* The persist of `committing` is on its way.
CommitAnnounced(h, o) ==
    /\ o.await.type = "persist"
    /\ o.m.work.task = "CommitPersist"
    /\ o.m.work.id = h.id
    /\ o.m.rec.phase = "committing"
    /\ o.reset = FALSE

\* COMMIT is on its way, under the record that announced it.
CommitAsked(m, o) ==
    /\ o.await.type = "commit"
    /\ o.m.work.task = "CommitSend"
    /\ o.m.conn = "closing"
    /\ o.m.rec = m.rec
    /\ o.reset = FALSE

\* With no commit's persist in progress, a reply and a close are apart.
LEMMA ReplyOrCloseApart ==
    ASSUME NEW m \in Machines, NEW h \in HostFacts, NEW lane \in Lanes,
           m.work.task # "CommitPersist"
    PROVE  /\ \A phase \in Phases, reply \in Replies :
                Apart(Close(m, h, lane, phase, reply))
           /\ \A reply \in Replies : Apart(Respond(reply, Quiet(m)))
           /\ Apart(ExpireClient(m, h, lane))
           /\ Apart(Quiet(m)) /\ Apart(Fault(m))
<1>1. \A phase \in Phases, reply \in Replies : Apart(Close(m, h, lane, phase, reply))
  BY ClosePlain, PlainFacts
<1>2. Apart(Quiet(m)) /\ Apart(Fault(m)) BY QuietPlain, PlainFacts
<1>3. \A reply \in Replies : Apart(Respond(reply, Quiet(m)))
  BY <1>2, QuietType, ReplyApart
<1>4. Apart(ExpireClient(m, h, lane)) BY ExpireClientPlain, PlainFacts
<1> QED BY <1>1, <1>2, <1>3, <1>4

\* The checks after a binding check either close or go on.
LEMMA RecheckApart ==
    ASSUME NEW m \in Machines, NEW h \in HostFacts, NEW w \in Works, NEW result,
           NEW next, m.work.task # "CommitPersist"
    PROVE  /\ Apart(BindingRefused(m, h, w, result))
           /\ \/ Apart(Recheck(m, h, w.lane, next))
              \/ Recheck(m, h, w.lane, next) = next /\ Live(m.rec)
BY WorkFields, ReplyOrCloseApart, Words DEF BindingRefused, Recheck

\* Every step of a begin is apart from COMMIT.
LEMMA BeginApart ==
    ASSUME NEW m \in Machines, NEW h \in HostFacts, NEW w \in Works, NEW result,
           m.work.task # "CommitPersist"
    PROVE  /\ Apart(BeginBinding(m, h, w, result))
           /\ Apart(BeginOpen(m, h, w, result))
           /\ Apart(BeginPersist(m, h, w, result))
           /\ Apart(BeginTimer(m, h, w, result))
<1>0. w.lane \in Lanes /\ w.cmd \in Commands BY WorkFields
<1>1. Apart(BeginBinding(m, h, w, result))
  <2>1. \A reply \in Replies : Apart(Respond(reply, Quiet(m)))
    BY <1>0, ReplyOrCloseApart
  <2>2. Apart(Wait([m EXCEPT !.conn = "opening"], h,
                   TaskWork("BeginOpen", "client", w.cmd)))
    BY <1>0, MachineUpdates, WaitTaskApart, Words DEF Tasks
  <2>3. Apart(PersistReply(SetPhase(m, "failed"), h, "unavailable", "internal"))
    BY SetPhaseType, PersistReplyApart, Words
  <2>4. Apart(BeginChecked(m, h, w))
    BY <2>1, <2>2, <2>3, Words DEF BeginChecked
  <2> QED BY <2>1, <2>4, Words DEF BeginBinding
<1>2. Apart(BeginOpen(m, h, w, result))
  <2> DEFINE rec == [NoRec EXCEPT !.phase = "active", !.seq = 1,
                                  !.snap = w.cmd.snap, !.auth = w.cmd.auth]
             n == [m EXCEPT !.conn = "open", !.rec = rec]
             closed == [m EXCEPT !.conn = "none"]
  <2>1. n \in Machines
    <3>1. rec \in Records BY <1>0, EmptyTypes, Words DEF Records, Commands
    <3> HIDE DEF rec
    <3> QED BY <3>1, Words DEF Machines
  <2>2. Apart(Wait(n, h, TaskWork("BeginPersist", w.lane, NoCmd)))
    <3> HIDE DEF n
    <3> QED BY <1>0, <2>1, EmptyTypes, WaitTaskApart DEF Tasks
  <2>3. closed \in Machines /\ closed.work = m.work
    BY MachineUpdates, Words DEF Machines
  <2>4. Apart(Respond("database", Quiet(closed)))
    <3> HIDE DEF closed
    <3> QED BY <1>0, <2>3, ReplyOrCloseApart, Words
  <2> QED BY <2>2, <2>4 DEF BeginOpen
<1>3. Apart(BeginPersist(m, h, w, result))
  <2>1. Apart(Wait(m, h, TaskWork("BeginTimer", w.lane, NoCmd)))
    BY <1>0, EmptyTypes, WaitTaskApart DEF Tasks
  <2> QED BY <1>0, <2>1, ReplyOrCloseApart, Words DEF BeginPersist
<1>4. Apart(BeginTimer(m, h, w, result))
  BY <1>0, ReplyOrCloseApart, Words DEF BeginTimer
<1> QED BY <1>1, <1>2, <1>3, <1>4

\* Every step of a statement is apart from COMMIT.
LEMMA StatementApart ==
    ASSUME NEW m \in Machines, NEW h \in HostFacts, NEW w \in Works, NEW result,
           m.work.task # "CommitPersist"
    PROVE  /\ Apart(StatementBinding(m, h, w, result))
           /\ Apart(StatementExecute(m, h, w, result))
<1>0. w.lane \in Lanes /\ w.cmd \in Commands BY WorkFields
<1>1. Apart(StatementBinding(m, h, w, result))
  <2> DEFINE v == [w EXCEPT !.task = "StatementExecute"]
  <2>1. v \in Works /\ v.task = "StatementExecute" BY Words DEF Works
  <2>2. Apart(Wait(m, h, v))
    <3> HIDE DEF v
    <3> QED BY <2>1, WaitApart
  <2> QED BY <2>2, RecheckApart DEF StatementBinding
<1>2. Apart(StatementExecute(m, h, w, result))
  <2> DEFINE n == [m EXCEPT !.conn = "open"]
             done == [n EXCEPT !.rec.seq = w.cmd.seq + 1,
                               !.rec.last = DigestOf(w.cmd),
                               !.rec.dirty = @ \/ w.cmd.pay = "write"]
             v == [ReplyWork(w.lane, "result", "internal") EXCEPT
                      !.expire_after = TRUE, !.restore = m.rec]
  <2>1. n \in Machines /\ n.work = m.work
    BY MachineUpdates, Words DEF Machines
  <2>2. v.task = "Reply" BY DEF ReplyWork, NoWork
  <2>3. Apart(Wait(done, h, v))
    <3>1. done \in Machines /\ v \in Works BY StatementDoneType
    <3> HIDE DEF n, done, v
    <3> QED BY <2>2, <3>1, WaitApart
  <2>4. /\ Apart(ExpireClient(n, h, w.lane))
        /\ \A reply \in Replies : Apart(Close(n, h, w.lane, "failed", reply))
    <3> HIDE DEF n
    <3> QED BY <1>0, <2>1, ReplyOrCloseApart, Words
  <2>5. Apart(Fault(m)) BY <1>0, ReplyOrCloseApart
  <2>6. StatementExecute(m, h, w, result) =
          IF n.rollback_requested THEN ExpireClient(n, h, w.lane)
          ELSE IF result # "ok"
          THEN Close(n, h, w.lane, "failed",
                     IF result = "refused" THEN "limit" ELSE "database")
          ELSE IF ~Live(n.rec) THEN Fault(m)
          ELSE Wait(done, h, v)
    BY DEF StatementExecute
  <2> HIDE DEF n, done, v
  <2> QED BY <2>3, <2>4, <2>5, <2>6, Words
<1> QED BY <1>1, <1>2

\* The binding check before a commit announces it, or is plain.
LEMMA CommitBindingCommits ==
    ASSUME NEW m \in Machines, NEW h \in HostFacts, NEW w \in Works, NEW result,
           m.work.task # "CommitPersist"
    PROVE  LET o == CommitBinding(m, h, w, result)
           IN  Apart(o) \/ CommitAnnounced(h, o)
<1> DEFINE n == SetPhase(m, "committing")
           v == TaskWork("CommitPersist", w.lane, w.cmd)
           next == IF w.check = 1 THEN StartChecks(m, h, w) ELSE Wait(n, h, v)
<1>1. v \in Works /\ v.task = "CommitPersist"
  <2>1. v \in Works BY WorkFields, TaskWorkType DEF Tasks
  <2> QED BY <2>1 DEF TaskWork, NoWork
<1>2. n \in Machines /\ (Live(m.rec) => n.rec.phase = "committing")
  BY SetPhaseType, SetPhaseKeeps, Words
<1>3. Live(m.rec) => CommitAnnounced(h, Wait(n, h, v))
  <2> HIDE DEF n, v
  <2>1. AwaitedBy(v.task) = "persist" BY <1>1 DEF AwaitedBy
  <2> DEFINE o == Wait(n, h, v)
  <2>2. /\ o.await.type = AwaitedBy(v.task) /\ o.m.work.task = v.task
        /\ o.m.work.id = h.id /\ o.m.rec = n.rec /\ o.reset = FALSE
    BY <1>1, <1>2, WaitFacts
  <2> HIDE DEF o
  <2>3. Live(m.rec) => CommitAnnounced(h, o)
    BY <1>1, <1>2, <2>1, <2>2 DEF CommitAnnounced
  <2> QED BY <2>3 DEF o
<1>4. Apart(StartChecks(m, h, w)) BY StartChecksPlain, PlainFacts
<1>5. Live(m.rec) => Apart(next) \/ CommitAnnounced(h, next)
  BY <1>3, <1>4
<1>6. CommitBinding(m, h, w, result) =
        IF result # "ok" THEN BindingRefused(m, h, w, result)
        ELSE Recheck(m, h, w.lane, next)
  BY DEF CommitBinding
<1> HIDE DEF next
<1> QED BY <1>5, <1>6, RecheckApart

\* The persist that announced a commit asks for COMMIT, once it is stored.
LEMMA CommitPersistCommits ==
    ASSUME NEW m \in Machines, NEW h \in HostFacts, NEW w \in Works, NEW result,
           m.work.task # "CommitPersist"
    PROVE  LET o == CommitPersist(m, h, w, result)
           IN  Apart(o) \/ (result = "ok" /\ CommitAsked(m, o))
<1> DEFINE n == [m EXCEPT !.conn = "closing"]
           v == TaskWork("CommitSend", w.lane, w.cmd)
<1>1. v \in Works /\ v.task = "CommitSend"
  <2>1. v \in Works BY WorkFields, TaskWorkType DEF Tasks
  <2> QED BY <2>1 DEF TaskWork, NoWork
<1>2. n \in Machines /\ n.conn = "closing" /\ n.rec = m.rec
  BY MachineUpdates, Words DEF Machines
<1>3. CommitAsked(m, Wait(n, h, v))
  <2> HIDE DEF n, v
  <2>1. AwaitedBy(v.task) = "commit" BY <1>1 DEF AwaitedBy
  <2> QED BY <1>1, <1>2, <2>1, WaitFacts DEF CommitAsked
<1> QED BY <1>3, WorkFields, ReplyOrCloseApart, Words DEF CommitPersist

\* COMMIT's answer, validation's persist, rollbacks and replies are apart.
LEMMA EndApart ==
    ASSUME NEW m \in Machines, NEW h \in HostFacts, NEW w \in Works, NEW result,
           m.work.task # "CommitPersist"
    PROVE  /\ Apart(CommitSend(m, h, w, result))
           /\ Apart(ValidatingPersist(m, h, w, result))
           /\ Apart(RollbackBinding(m, h, w, result))
           /\ Apart(RollbackSend(m, h, w))
           /\ Apart(CloseRollback(m, h, w))
           /\ Apart(Reply(m, h, w, result))
<1>0. /\ w.lane \in Lanes /\ w.cmd \in Commands /\ w.phase \in Phases
      /\ w.reply \in Replies /\ w.failure \in Replies /\ w.restore \in Records
  BY WorkFields
<1> DEFINE n == [m EXCEPT !.conn = "none"]
           restored == [m EXCEPT !.rec = w.restore]
<1>1. /\ n \in Machines /\ n.work = m.work
      /\ restored \in Machines /\ restored.work = m.work
  BY <1>0, MachineUpdates, Words DEF Machines
<1>2. Apart(Fault(m)) BY <1>0, ReplyOrCloseApart
<1>3. Apart(CommitSend(m, h, w, result))
  <2> HIDE DEF n
  <2>1. Apart(Wait(Complete(n, "committed", w.cmd), h,
                   ReplyWork(w.lane, "committed", "committed")))
    BY <1>0, <1>1, CompleteType, WaitReplyApart, Words
  <2>2. Apart(Close(n, h, w.lane, "failed", "unavailable"))
    BY <1>0, <1>1, ReplyOrCloseApart, Words
  <2>3. Apart(Wait(SetPhase(n, "commit_unknown"), h,
                   ReplyWork(w.lane, "outcome_unknown", "outcome_unknown")))
    BY <1>0, <1>1, SetPhaseType, WaitReplyApart, Words
  <2> QED BY <1>2, <2>1, <2>2, <2>3 DEF CommitSend, n
<1>4. Apart(ValidatingPersist(m, h, w, result))
  <2>1. Apart(Issue(m, h, w)) BY IssuePlain, PlainFacts
  <2> QED BY <1>0, <2>1, ReplyOrCloseApart, Words DEF ValidatingPersist
<1>5. Apart(RollbackBinding(m, h, w, result))
  <2>1. Apart(Wait([m EXCEPT !.conn = "closing"], h,
                   TaskWork("RollbackSend", w.lane, w.cmd)))
    BY <1>0, MachineUpdates, WaitTaskApart, Words DEF Tasks
  <2> QED BY <2>1, RecheckApart DEF RollbackBinding
<1>6. Apart(RollbackSend(m, h, w))
  <2> HIDE DEF n
  <2>1. Apart(Wait(Complete(n, "rolled_back", w.cmd), h,
                   ReplyWork(w.lane, "rolled_back", "internal")))
    BY <1>0, <1>1, CompleteType, WaitReplyApart, Words
  <2> QED BY <1>2, <2>1 DEF RollbackSend, n
<1>7. Apart(CloseRollback(m, h, w))
  <2> HIDE DEF n
  <2>1. Apart(PersistPhase(n, h, w.lane, w.phase, w.reply))
    BY <1>0, <1>1, PersistPhaseApart
  <2> QED BY <2>1 DEF CloseRollback, n
<1>8. Apart(Reply(m, h, w, result))
  <2> DEFINE o == IF w.expire_after /\ m.rollback_requested
                  THEN Close(m, h, "background", "expired", "none") ELSE Quiet(m)
  <2>1. o \in Outputs BY CloseType, QuietType, Words
  <2>2. Apart(o) BY ReplyOrCloseApart, Words
  <2>3. Apart(Respond(w.reply, o))
    <3> HIDE DEF o
    <3> QED BY <1>0, <2>1, <2>2, ReplyApart
  <2>4. Apart(Close(restored, h, w.lane, "failed", w.failure))
    <3> HIDE DEF restored
    <3> QED BY <1>0, <1>1, ReplyOrCloseApart, Words
  <2>5. Apart(Reset(Respond(w.failure, Quiet(m))))
    <3>1. Apart(Respond(w.failure, Quiet(m))) BY <1>0, ReplyOrCloseApart
    <3>2. Respond(w.failure, Quiet(m)) \in Outputs BY <1>0, QuietType, ReplyTypes
    <3> QED BY <1>0, <3>1, <3>2, ReplyApart
  <2> QED BY <2>3, <2>4, <2>5 DEF Reply
<1> QED BY <1>3, <1>4, <1>5, <1>6, <1>7, <1>8

\* An outcome that a lane consumes: only the two steps before a COMMIT are
\* not plain.
LEMMA ConsumeCommits ==
    ASSUME NEW m \in Machines, NEW h \in HostFacts, NEW w \in Works, NEW result,
           m.work.task # "CommitPersist"
    PROVE  LET o == Consume(m, h, w, result)
           IN  \/ Apart(o)
               \/ w.task = "CommitBinding" /\ CommitAnnounced(h, o)
               \/ w.task = "CommitPersist" /\ result = "ok" /\ CommitAsked(m, o)
<1>1. Apart(VerdictArrived(m, h, w, result = "allow"))
  BY VerdictArrivedPlain, PlainFacts
<1>2. Apart(Fault(m)) /\ Apart(Reset(Quiet(m)))
  <2>1. Apart(Quiet(m)) /\ Apart(Fault(m)) BY WorkFields, ReplyOrCloseApart
  <2> QED BY <2>1, QuietType, ReplyApart, Words
<1> QED BY <1>1, <1>2, BeginApart, StatementApart, CommitBindingCommits,
           CommitPersistCommits, EndApart DEF Consume

\* Any outcome: the two steps before a COMMIT are the only ones not plain.
LEMMA OutcomeCommits ==
    ASSUME NEW m \in Machines, NEW h \in HostFacts, NEW ev
    PROVE  LET o == Outcome(m, h, ev)
           IN  \/ Plain(m, o)
               \/ m.work.task = "CommitBinding" /\ CommitAnnounced(h, o)
               \/ /\ m.work.task = "CommitPersist" /\ m.work.id = ev.id
                  /\ ev.type = "persist" /\ ev.result = "ok"
                  /\ CommitAsked(m, o)
<1> DEFINE n == [m EXCEPT !.work = NoWork]
<1>1. n \in Machines /\ n.work.task # "CommitPersist" /\ n.rec = m.rec
  BY MachineUpdates DEF Machines, NoWork
<1>2. m.work \in Works BY MachineFields
<1>3. LET o == Consume(n, h, m.work, ev.result)
      IN  \/ Apart(o)
          \/ m.work.task = "CommitBinding" /\ CommitAnnounced(h, o)
          \/ /\ m.work.task = "CommitPersist" /\ ev.result = "ok"
             /\ CommitAsked(n, o)
  <2> HIDE DEF n
  <2> QED BY <1>1, <1>2, ConsumeCommits
<1>4. \A o : CommitAsked(n, o) => CommitAsked(m, o)
  BY <1>1 DEF CommitAsked
<1>5. Plain(m, Stale(m, ev)) BY QuietPlain DEF Stale
<1>6. Plain(m, CallbackOutcome(m, h, ev.result)) BY CallbackOutcomePlain
<1>7. AwaitedBy("CommitPersist") = "persist" BY DEF AwaitedBy
<1>8. CASE HasWork(m) /\ m.work.id = ev.id /\ AwaitedBy(m.work.task) = ev.type
  <2>1. Outcome(m, h, ev) = Consume(n, h, m.work, ev.result) BY <1>8 DEF Outcome
  <2> HIDE DEF n
  <2> QED BY <1>3, <1>4, <1>7, <1>8, <2>1, PlainFacts
<1>9. CASE ~(HasWork(m) /\ m.work.id = ev.id /\ AwaitedBy(m.work.task) = ev.type)
  BY <1>5, <1>6, <1>9 DEF Outcome
<1> QED BY <1>8, <1>9

\* A command is plain: it starts with a binding check.
LEMMA CommandPlain ==
    ASSUME NEW m \in Machines, NEW h \in HostFacts, NEW cmd \in Commands
    PROVE  Plain(m, Command(m, h, cmd))
<1>1. \A reply \in Replies : Plain(m, Respond(reply, Quiet(m)))
  BY QuietType, QuietPlain, ReplyPlain
<1>2. Plain(m, NextCommand(m, h, cmd))
  <2>1. Plain(m, Statement(m, h, cmd))
    <3>1. Apart(Wait(m, h, TaskWork("StatementBinding", "client", cmd)))
      BY WaitTaskApart, Words DEF Tasks
    <3> QED BY <3>1, ClosePlain, PlainFacts, Words DEF Statement
  <2> DEFINE check == IF Triggered(m.rec) THEN 1 ELSE 0
             v == [TaskWork("CommitBinding", "client", cmd) EXCEPT !.check = check]
  <2>2. v \in Works /\ v.task = "CommitBinding"
    <3>1. TaskWork("CommitBinding", "client", cmd) \in Works
      BY TaskWorkType, Words
    <3>2. TaskWork("CommitBinding", "client", cmd).task = "CommitBinding"
      BY DEF TaskWork, NoWork
    <3>3. check \in Nat OBVIOUS
    <3> HIDE DEF check
    <3> QED BY <3>1, <3>2, <3>3 DEF Works
  <2>3. Apart(Wait(m, h, v))
    <3> HIDE DEF v
    <3> QED BY <2>2, WaitApart
  <2>4. Apart(Wait(m, h, TaskWork("RollbackBinding", "client", cmd)))
    BY WaitTaskApart, Words DEF Tasks
  <2>5. Plain(m, Wait(m, h, v)) BY <2>3, PlainFacts
  <2>6. Plain(m, Wait(m, h, TaskWork("RollbackBinding", "client", cmd)))
    BY <2>4, PlainFacts
  <2> QED BY <2>1, <2>5, <2>6 DEF NextCommand
<1>3. Plain(m, OwnCommand(m, h, cmd))
  <2>1. \A phase \in Phases, reply \in Replies :
          Plain(m, Close(m, h, "client", phase, reply))
    BY ClosePlain, Words
  <2> QED BY <1>1, <1>2, <2>1, Words DEF OwnCommand
<1>4. Plain(m, CommitUncertain(m, h, cmd))
  <2> DEFINE answer == IF cmd.kind = "commit" /\ cmd.seq = m.rec.seq
                       THEN "outcome_unknown" ELSE "unavailable"
  <2>1. answer \in Replies BY Words
  <2>2. SetPhase(Fresh(m.rec), "commit_unknown") \in Machines
    BY MachineFields, FreshType, SetPhaseType, Words
  <2>3. CommitUncertain(m, h, cmd) =
          IF m.work.lane = "client" THEN Respond("internal", Quiet(m))
          ELSE IF m.rec.phase = "committing"
          THEN PersistReply(SetPhase(Fresh(m.rec), "commit_unknown"), h, answer, answer)
          ELSE Respond(answer, Quiet(m))
    BY DEF CommitUncertain
  <2> HIDE DEF answer
  <2> QED BY <1>1, <2>1, <2>2, <2>3, PersistReplyApart, PlainFacts, Words
<1>5. LastReply(m.rec) \in Replies BY Words DEF LastReply
<1>6. BusyCode(m) \in Replies BY Words DEF BusyCode
<1> QED BY <1>1, <1>3, <1>4, <1>5, <1>6, Words DEF Command

\* Any forwarded input is plain.
LEMMA ForwardedPlain ==
    ASSUME NEW m \in Machines, NEW h \in HostFacts, NEW cmd \in Commands
    PROVE  Plain(m, Forwarded(m, h, cmd))
<1>1. \A reply \in Replies : Plain(m, Respond(reply, Quiet(m)))
  BY QuietType, QuietPlain, ReplyPlain
<1>2. Plain(m, Begin(m, h, cmd))
  <2>1. Apart(Wait(m, h, TaskWork("BeginBinding", "client", cmd)))
    BY WaitTaskApart, Words DEF Tasks
  <2>2. BusyCode(m) \in Replies BY Words DEF BusyCode
  <2> QED BY <1>1, <2>1, <2>2, PlainFacts, Words DEF Begin
<1> QED BY <1>1, <1>2, CommandPlain, CallbackQueryPlain, Words DEF Forwarded

\* The timer is plain.
LEMMA TimerPlain ==
    ASSUME NEW m \in Machines, NEW h \in HostFacts, Consistent(m)
    PROVE  Plain(m, Timer(m, h))
<1>1. Plain(m, Quiet([m EXCEPT !.rollback_requested = @ \/ Defers(m.work)]))
  BY DEF Plain, Apart, Quiet, NoEffect, Machines
<1>2. m.work.task = "Validator" \/ HasDeferred(m) => m.work.task # "CommitPersist"
  BY DEF Consistent, HasWork
<1>3. m.work.task = "Validator" \/ HasDeferred(m) => Plain(m, ExpireValidating(m, h))
  BY <1>2, ExpireValidatingPlain, PlainFacts
<1>4. Plain(m, Close(m, h, "background", "expired", "none")) BY ClosePlain, Words
<1> QED BY <1>1, <1>3, <1>4, QuietPlain DEF Timer

\* Abandoning and failing closed are apart from COMMIT.
LEMMA FailApart ==
    ASSUME NEW m \in Machines, NEW h \in HostFacts, NEW ev
    PROVE  Apart(Abandon(m, h)) /\ Apart(FailClosed(m, h, ev))
<1>1. /\ Fresh(m.rec) \in Machines /\ Fresh(m.rec).work.task = "none"
      /\ \A phase \in Phases : /\ SetPhase(Fresh(m.rec), phase) \in Machines
                               /\ SetPhase(Fresh(m.rec), phase).work.task = "none"
  <2>1. Fresh(m.rec) \in Machines /\ Fresh(m.rec).work.task = "none"
    BY MachineFields, FreshType DEF Fresh, NoWork
  <2> QED BY <2>1, SetPhaseType, SetPhaseKeeps
<1>2. Apart(Abandon(m, h))
  <2> DEFINE next == IF m.rec.phase \in {"active", "validating"} /\ m.conn # "none"
                     THEN "failed"
                     ELSE IF m.rec.phase = "committing" THEN "commit_unknown"
                     ELSE "absent"
             effect == [type |-> "persist", id |-> h.id, arg |-> 0]
  <2>1. next \in Phases BY Words
  <2>2. Abandon(m, h) =
          IF next = "absent" THEN Quiet(Fresh(m.rec))
          ELSE [Quiet(SetPhase(Fresh(m.rec), next)) EXCEPT !.await = effect]
    BY DEF Abandon
  <2>3. effect.type = "persist" OBVIOUS
  <2> HIDE DEF next, effect
  <2> QED BY <1>1, <2>1, <2>2, <2>3 DEF Apart, Quiet, NoEffect
<1>3. Apart(FailClosed(m, h, ev))
  <2> DEFINE next == IF m.rec.phase \in {"active", "validating"} /\ ~Idle(m) THEN "failed"
                     ELSE IF m.rec.phase = "committing" THEN "commit_unknown"
                     ELSE "absent"
             reset == Reset(Quiet(Fresh(m.rec)))
             persist == Wait(SetPhase(Fresh(m.rec), next), h,
                             TaskWork("ResetAfterPersist", "background", NoCmd))
             o == IF next = "absent" THEN reset ELSE persist
  <2>1. next \in Phases BY Words
  <2>2. reset \in Outputs /\ Apart(reset)
    BY <1>1, QuietType, ReplyTypes, Words DEF Apart, Reset, Quiet, NoEffect
  <2>3. persist \in Outputs /\ Apart(persist)
    <3> HIDE DEF next
    <3>1. SetPhase(Fresh(m.rec), next) \in Machines BY <1>1, <2>1
    <3>2. TaskWork("ResetAfterPersist", "background", NoCmd) \in Works
      BY EmptyTypes, TaskWorkType, Words
    <3>3. persist \in Outputs BY <3>1, <3>2, WaitType
    <3>4. Apart(persist)
      BY <3>1, EmptyTypes, WaitTaskApart, Words DEF Tasks
    <3> QED BY <3>3, <3>4
  <2>4. o \in Outputs /\ Apart(o)
    <3> HIDE DEF reset, persist
    <3> QED BY <2>2, <2>3
  <2>5. FailClosed(m, h, ev) = [o EXCEPT !.client = FaultReply(m, ev),
                                         !.callback = FaultCallbackReply(m, ev)]
    BY DEF FailClosed
  <2> HIDE DEF o
  <2> QED BY <2>4, <2>5 DEF Apart, Outputs
<1> QED BY <1>2, <1>3

(***************************************************************************)
(* Steps after COMMIT may have been sent.  They leave a sealed state, or   *)
(* reset without asking for anything.                                      *)
(***************************************************************************)
SealedOut(o) == \/ Sealed(o.m) /\ o.reset = FALSE
                \/ o.reset = TRUE /\ o.await.type = "none"

\* Outputs without effects, and replies added to an output.
LEMMA SealedQuiet ==
    ASSUME NEW m \in Machines, Sealed(m)
    PROVE  /\ SealedOut(Quiet(m)) /\ SealedOut(Fault(m))
           /\ \A reply \in Replies : /\ SealedOut(Respond(reply, Quiet(m)))
                                     /\ SealedOut(RespondCallback(reply, Quiet(m)))
                                     /\ SealedOut(Reset(Respond(reply, Quiet(m))))
           /\ SealedOut(Reset(Quiet(m)))
BY DEF SealedOut, Quiet, Fault, Respond, RespondCallback, Reset, NoEffect

\* A lane that goes on to a task which keeps the seal.
LEMMA SealedWait ==
    ASSUME NEW m \in Machines, NEW h \in HostFacts, NEW w \in Works,
           m.rec.phase \in Sealing, m.conn # "open", ~HasDeferred(m),
           \/ w.task \in {"BeginBinding", "ResetAfterPersist"}
           \/ w.task = "Reply" /\ ~w.expire_after
    PROVE  SealedOut(Wait(m, h, w))
<1> DEFINE o == Wait(m, h, w)
<1>1. /\ o.m.work.task = w.task /\ o.m.work.expire_after = w.expire_after
      /\ o.m.rec = m.rec /\ o.m.conn = m.conn /\ o.m.deferred = m.deferred
      /\ o.reset = FALSE
  BY WaitFacts
<1> HIDE DEF o
<1>2. w.expire_after \in BOOLEAN BY DEF Works
<1>3. ~HasDeferred(o.m) BY <1>1 DEF HasDeferred
<1>4. \/ o.m.work.task \in {"none", "BeginBinding", "CommitSend", "ResetAfterPersist"}
      \/ o.m.work.task = "Reply" /\ ~o.m.work.expire_after
  BY <1>1, <1>2
<1>5. Sealed(o.m) BY <1>1, <1>3, <1>4 DEF Sealed
<1> QED BY <1>1, <1>5 DEF SealedOut, o

\* A lane that answers after a persist keeps the seal.
LEMMA SealedReplyWait ==
    ASSUME NEW m \in Machines, NEW h \in HostFacts, NEW lane \in Lanes,
           NEW reply \in Replies, NEW failure \in Replies,
           m.rec.phase \in Sealing, m.conn # "open", ~HasDeferred(m)
    PROVE  SealedOut(Wait(m, h, ReplyWork(lane, reply, failure)))
<1>1. ReplyWork(lane, reply, failure) \in Works BY ReplyWorkType
<1>2. /\ ReplyWork(lane, reply, failure).task = "Reply"
      /\ ReplyWork(lane, reply, failure).expire_after = FALSE
  BY BuiltTasks
<1> QED BY <1>1, <1>2, SealedWait

\* A sealed state stays sealed without its volatile part, and when it is
\* settled as `commit_unknown`.
LEMMA SealedFresh ==
    ASSUME NEW rec \in Records, rec.phase \in Sealing
    PROVE  LET n == Fresh(rec)
               settled == SetPhase(n, "commit_unknown")
           IN  /\ n \in Machines /\ Sealed(n) /\ n.rec = rec
               /\ settled \in Machines /\ Sealed(settled)
<1> DEFINE n == Fresh(rec)
           settled == SetPhase(n, "commit_unknown")
<1>1. n \in Machines BY FreshType
<1>2. /\ n.rec = rec /\ n.conn = "none" /\ n.deferred.task = "none"
      /\ n.work.task = "none"
  BY DEF Fresh, NoWork
<1>3. Sealed(n) BY <1>2 DEF Sealed, HasDeferred
<1> HIDE DEF n
<1>4. settled \in Machines BY <1>1, SetPhaseType, Words
<1>5. /\ settled.rec.phase \in {n.rec.phase, "commit_unknown"}
      /\ settled.conn = n.conn /\ settled.deferred = n.deferred
      /\ settled.work = n.work
  BY <1>1, SetPhaseKeeps, Words
<1> HIDE DEF settled
<1>6. Sealed(settled) BY <1>2, <1>5 DEF Sealed, HasDeferred, Sealing
<1> QED BY <1>1, <1>2, <1>3, <1>4, <1>6 DEF n, settled

\* Callback queries and their outcomes find the capability dead.
LEMMA SealedCallback ==
    ASSUME NEW m \in Machines, NEW h \in HostFacts, Sealed(m)
    PROVE  /\ \A q \in Commands : SealedOut(CallbackQuery(m, h, q))
           /\ \A result : SealedOut(CallbackOutcome(m, h, result))
<1>1. \A q \in Commands : SealedOut(CallbackQuery(m, h, q))
  BY SealedQuiet, Words DEF CallbackQuery, CapabilityLive, Sealed
<1>2. ASSUME NEW result PROVE SealedOut(CallbackOutcome(m, h, result))
  <2> DEFINE cb == m.callback
             n == [m EXCEPT !.callback = NoCallback]
             live == CapabilityLive(n) /\ n.cap.check = cb.tok
  <2>1. /\ n \in Machines /\ n.work = m.work /\ n.rec = m.rec
        /\ n.conn = m.conn /\ n.deferred = m.deferred
    BY MachineUpdates DEF Machines
  <2>2. Sealed(n) BY <2>1 DEF Sealed, HasDeferred
  <2>3. ~live BY <2>2 DEF CapabilityLive, Sealed
  <2>4. CallbackOutcome(m, h, result) =
          IF cb.task = "Binding" THEN CallbackBinding(n, h, cb, live, result)
          ELSE CallbackExecuted(n, h, cb, live, result)
    BY DEF CallbackOutcome
  <2> HIDE DEF cb, n, live
  <2>5. AfterCallback(n, h) = Quiet(n) BY <2>2 DEF AfterCallback, Sealed
  <2>6. SealedOut(RespondCallback("unavailable", AfterCallback(n, h)))
    BY <2>1, <2>2, <2>5, SealedQuiet, Words
  <2>7. \A reply : SealedOut(CallbackFailed(n, h, live, reply))
    BY <2>3, <2>6 DEF CallbackFailed
  <2>8. SealedOut(CallbackBinding(n, h, cb, live, result))
    BY <2>3, <2>6, <2>7 DEF CallbackBinding
  <2>9. SealedOut(CallbackExecuted(n, h, cb, live, result))
    BY <2>3, <2>6, <2>7 DEF CallbackExecuted
  <2> QED BY <2>4, <2>8, <2>9
<1> QED BY <1>1, <1>2

\* COMMIT's answer, unless it proves that nothing was sent: the record says
\* `committed` or `commit_unknown`.
LEMMA SealedCommitSend ==
    ASSUME NEW m \in Machines, NEW h \in HostFacts, NEW w \in Works, NEW result,
           Sealed(m), result # "not_committed"
    PROVE  SealedOut(CommitSend(m, h, w, result))
<1> DEFINE n == [m EXCEPT !.conn = "none"]
           done == Complete(n, "committed", w.cmd)
           unknown == SetPhase(n, "commit_unknown")
<1>0. w.lane \in Lanes /\ w.cmd \in Commands BY WorkFields
<1>1. /\ n \in Machines /\ n.rec = m.rec /\ n.conn = "none"
      /\ n.deferred = m.deferred
  BY MachineUpdates, Words DEF Machines
<1>2. SealedOut(Fault(m)) BY SealedQuiet
<1>3. CommitSend(m, h, w, result) =
        CASE result = "ok" ->
               IF ~Live(n.rec) THEN Fault(m)
               ELSE Wait(done, h, ReplyWork(w.lane, "committed", "committed"))
          [] result = "not_committed" -> Close(n, h, w.lane, "failed", "unavailable")
          [] OTHER -> Wait(unknown, h,
                           ReplyWork(w.lane, "outcome_unknown", "outcome_unknown"))
  BY DEF CommitSend
<1> HIDE DEF n
<1>4. /\ unknown \in Machines /\ unknown.conn = "none"
      /\ unknown.deferred = m.deferred
      /\ unknown.rec.phase \in {m.rec.phase, "commit_unknown"}
  BY <1>1, SetPhaseType, SetPhaseKeeps, Words
<1>5. /\ done \in Machines
      /\ Live(n.rec) => /\ done.conn = "none" /\ done.deferred = m.deferred
                        /\ done.rec.phase = "committed"
  <2>1. done \in Machines BY <1>0, <1>1, CompleteType, Words
  <2> DEFINE next == m.rec.seq + 1
             last == DigestOf(w.cmd)
             rec == [m.rec EXCEPT !.seq = next, !.last = last]
             k == [n EXCEPT !.rec = rec]
  <2>2. done = SetPhase(k, "committed")
    BY <1>1 DEF Complete, Machines, Records
  <2>3. /\ m.rec \in Records /\ next \in Nat /\ last \in Digests
    BY <1>0, MachineFields DEF DigestOf, Digests, Commands
  <2> HIDE DEF next, last
  <2>4. rec \in Records /\ rec.phase = m.rec.phase BY <2>3 DEF Records
  <2> HIDE DEF rec
  <2>5. /\ k \in Machines /\ k.conn = "none" /\ k.deferred = m.deferred
        /\ k.rec = rec
    BY <1>1, <2>4, MachineUpdates DEF Machines
  <2> HIDE DEF k, done
  <2>6. Live(n.rec) => Live(k.rec) BY <1>1, <2>4, <2>5 DEF Live
  <2> QED BY <2>1, <2>2, <2>5, <2>6, SetPhaseKeeps, Words
<1> HIDE DEF done, unknown
<1>6. SealedOut(Wait(unknown, h,
                     ReplyWork(w.lane, "outcome_unknown", "outcome_unknown")))
  <2>1. unknown.rec.phase \in Sealing BY <1>4 DEF Sealed, Sealing
  <2> QED BY <1>0, <1>4, <2>1, SealedReplyWait, Words DEF Sealed, HasDeferred
<1>7. Live(n.rec) => SealedOut(Wait(done, h, ReplyWork(w.lane, "committed", "committed")))
  <2>1. Live(n.rec) => done.rec.phase \in Sealing BY <1>5 DEF Sealing
  <2> QED BY <1>0, <1>5, <2>1, SealedReplyWait, Words DEF Sealed, HasDeferred
<1> QED BY <1>2, <1>3, <1>6, <1>7

\* What a lane does with the outcome it waited for.
LEMMA SealedConsume ==
    ASSUME NEW m \in Machines, NEW h \in HostFacts, NEW w \in Works, NEW result,
           Sealed(m),
           \/ w.task \in {"BeginBinding", "ResetAfterPersist"}
           \/ w.task = "CommitSend" /\ result # "not_committed"
           \/ w.task = "Reply" /\ ~w.expire_after
    PROVE  SealedOut(Consume(m, h, w, result))
<1>0. w.reply \in Replies /\ w.failure \in Replies BY WorkFields
<1>1. SealedOut(BeginBinding(m, h, w, result))
  <2>1. SealedOut(BeginChecked(m, h, w))
    <3>1. m.rec.phase \notin {"absent", "active"} BY DEF Sealed, Sealing
    <3> QED BY <3>1, SealedQuiet, Words DEF BeginChecked
  <2> QED BY <2>1, SealedQuiet, Words DEF BeginBinding
<1>2. w.task = "CommitSend" => SealedOut(CommitSend(m, h, w, result))
  BY SealedCommitSend
<1>3. w.task = "Reply" => SealedOut(Reply(m, h, w, result))
  <2>1. SealedOut(Respond(w.reply, Quiet(m))) BY <1>0, SealedQuiet
  <2>2. SealedOut(Reset(Respond(w.failure, Quiet(m)))) BY <1>0, SealedQuiet
  <2> QED BY <2>1, <2>2 DEF Reply
<1>4. SealedOut(Reset(Quiet(m))) BY SealedQuiet
<1> QED BY <1>1, <1>2, <1>3, <1>4 DEF Consume

\* An outcome, other than COMMIT's proof that nothing was sent.
LEMMA SealedOutcome ==
    ASSUME NEW m \in Machines, NEW h \in HostFacts, NEW ev, Sealed(m),
           ~(ev.type = "commit" /\ ev.result = "not_committed")
    PROVE  SealedOut(Outcome(m, h, ev))
<1> DEFINE n == [m EXCEPT !.work = NoWork]
           w == m.work
<1>1. /\ n \in Machines /\ n.work.task = "none" /\ n.rec = m.rec
      /\ n.conn = m.conn /\ n.deferred = m.deferred
  BY MachineUpdates DEF Machines, NoWork
<1>2. Sealed(n) BY <1>1 DEF Sealed, HasDeferred
<1>3. w \in Works BY MachineFields
<1>4. AwaitedBy("CommitSend") = "commit" BY DEF AwaitedBy
<1>5. SealedOut(Stale(m, ev)) BY SealedQuiet DEF Stale
<1>6. SealedOut(CallbackOutcome(m, h, ev.result)) BY SealedCallback
<1>7. CASE HasWork(m) /\ w.id = ev.id /\ AwaitedBy(w.task) = ev.type
  <2>1. Outcome(m, h, ev) = Consume(n, h, w, ev.result) BY <1>7 DEF Outcome
  <2>2. \/ w.task \in {"BeginBinding", "ResetAfterPersist"}
        \/ w.task = "CommitSend" /\ ev.result # "not_committed"
        \/ w.task = "Reply" /\ ~w.expire_after
    BY <1>4, <1>7 DEF Sealed, HasWork
  <2> HIDE DEF n, w
  <2> QED BY <1>1, <1>2, <1>3, <2>1, <2>2, SealedConsume
<1>8. CASE ~(HasWork(m) /\ w.id = ev.id /\ AwaitedBy(w.task) = ev.type)
  BY <1>5, <1>6, <1>8 DEF Outcome
<1> QED BY <1>7, <1>8

\* A command is answered, after settling a `committing` record.
LEMMA SealedForwarded ==
    ASSUME NEW m \in Machines, NEW h \in HostFacts, NEW cmd \in Commands, Sealed(m)
    PROVE  SealedOut(Forwarded(m, h, cmd))
<1>1. \A reply \in Replies : SealedOut(Respond(reply, Quiet(m))) BY SealedQuiet
<1>2. LastReply(m.rec) \in Replies BY Words DEF LastReply
<1>3. BusyCode(m) \in Replies BY Words DEF BusyCode
<1>4. SealedOut(Begin(m, h, cmd))
  <2> DEFINE w == TaskWork("BeginBinding", "client", cmd)
  <2>1. w \in Works /\ w.task = "BeginBinding" BY TaskWorkType, BuiltTasks, Words
  <2> HIDE DEF w
  <2>2. SealedOut(Wait(m, h, w)) BY <2>1, SealedWait DEF Sealed
  <2> QED BY <1>1, <1>3, <2>2, Words DEF Begin, w
<1>5. SealedOut(CommitUncertain(m, h, cmd))
  <2> DEFINE answer == IF cmd.kind = "commit" /\ cmd.seq = m.rec.seq
                       THEN "outcome_unknown" ELSE "unavailable"
             n == SetPhase(Fresh(m.rec), "commit_unknown")
  <2>1. answer \in Replies BY Words
  <2>2. n \in Machines /\ Sealed(n)
    BY MachineFields, SealedFresh DEF Sealed
  <2>3. CommitUncertain(m, h, cmd) =
          IF m.work.lane = "client" THEN Respond("internal", Quiet(m))
          ELSE IF m.rec.phase = "committing" THEN PersistReply(n, h, answer, answer)
          ELSE Respond(answer, Quiet(m))
    BY DEF CommitUncertain
  <2> HIDE DEF answer, n
  <2>4. SealedOut(PersistReply(n, h, answer, answer))
    BY <2>1, <2>2, SealedReplyWait, Words DEF PersistReply, Sealed
  <2> QED BY <1>1, <2>1, <2>3, <2>4, Words
<1>6. SealedOut(OwnCommand(m, h, cmd))
  <2>1. m.rec.phase # "active" BY DEF Sealed, Sealing
  <2> QED BY <1>1, <2>1, Words DEF OwnCommand
<1>7. SealedOut(Command(m, h, cmd))
  BY <1>1, <1>2, <1>3, <1>5, <1>6, Words DEF Command
<1> QED BY <1>1, <1>4, <1>7, SealedCallback, Words DEF Forwarded

\* Abandoning, and failing closed, settle a `committing` record.
LEMMA SealedFail ==
    ASSUME NEW m \in Machines, NEW h \in HostFacts, NEW ev, Sealed(m)
    PROVE  SealedOut(Abandon(m, h)) /\ SealedOut(FailClosed(m, h, ev))
<1> DEFINE n == Fresh(m.rec)
           settled == SetPhase(n, "commit_unknown")
<1>0. m.rec \in Records /\ m.rec.phase \in Sealing BY MachineFields DEF Sealed
<1>1. n \in Machines /\ Sealed(n) /\ settled \in Machines /\ Sealed(settled)
  BY <1>0, SealedFresh
<1>2. m.rec.phase \notin {"active", "validating"} BY <1>0 DEF Sealing
<1>3. SealedOut(Abandon(m, h))
  <2> DEFINE effect == [type |-> "persist", id |-> h.id, arg |-> 0]
  <2>1. Abandon(m, h) = IF m.rec.phase = "committing"
                        THEN [Quiet(settled) EXCEPT !.await = effect] ELSE Quiet(n)
    BY <1>2 DEF Abandon
  <2> HIDE DEF n, settled, effect
  <2> QED BY <1>1, <2>1, SealedQuiet DEF SealedOut, Quiet
<1>4. SealedOut(FailClosed(m, h, ev))
  <2> DEFINE w == TaskWork("ResetAfterPersist", "background", NoCmd)
             o == IF m.rec.phase = "committing" THEN Wait(settled, h, w)
                  ELSE Reset(Quiet(n))
  <2>1. FailClosed(m, h, ev) = [o EXCEPT !.client = FaultReply(m, ev),
                                         !.callback = FaultCallbackReply(m, ev)]
    BY <1>2 DEF FailClosed
  <2>2. w \in Works /\ w.task = "ResetAfterPersist"
    BY EmptyTypes, TaskWorkType, BuiltTasks, Words
  <2> HIDE DEF n, settled, w
  <2>3. SealedOut(Wait(settled, h, w)) /\ Wait(settled, h, w) \in Outputs
    BY <1>1, <2>2, SealedWait, WaitType DEF Sealed
  <2>4. SealedOut(Reset(Quiet(n))) /\ Reset(Quiet(n)) \in Outputs
    BY <1>1, SealedQuiet, QuietType, ReplyTypes, Words
  <2>5. SealedOut(o) /\ o \in Outputs BY <2>3, <2>4
  <2> HIDE DEF o
  <2> QED BY <2>1, <2>5 DEF SealedOut, Outputs
<1> QED BY <1>3, <1>4

(***************************************************************************)
(* The step as a whole                                                     *)
(***************************************************************************)
\* What the end of a step does to an output: it drops the state on a reset
\* and the volatile part of an idle state, and leaves the effect alone.
LEMMA Finished ==
    ASSUME NEW o \in Outputs
    PROVE  LET f == FinishOutput(o)
           IN  /\ f.await = o.await /\ f.reset = o.reset
               /\ o.reset => f.m = Fresh(NoRec)
               /\ ~o.reset => \/ f.m = o.m
                              \/ f.m = Fresh(o.m.rec) /\ ~HasWork(o.m)
BY DEF FinishOutput, Outputs, Idle

\* A state without a volatile part is consistent and has no work.
LEMMA FreshFacts ==
    ASSUME NEW rec
    PROVE  /\ Consistent(Fresh(rec)) /\ Fresh(rec).work.task = "none"
           /\ Fresh(rec).rec = rec
BY DEF Fresh, NoWork, NoCallback, NoCap, Consistent, HasWork, HasDeferred

\* Failing closed leaves a consistent state (step.rs fail_closed).
LEMMA FailConsistent ==
    ASSUME NEW m \in Machines, NEW h \in HostFacts, NEW ev
    PROVE  LET o == FailClosed(m, h, ev) IN o.reset \/ Consistent(o.m)
<1> DEFINE next == IF m.rec.phase \in {"active", "validating"} /\ ~Idle(m) THEN "failed"
                   ELSE IF m.rec.phase = "committing" THEN "commit_unknown"
                   ELSE "absent"
           n == SetPhase(Fresh(m.rec), next)
           w == TaskWork("ResetAfterPersist", "background", NoCmd)
           reset == Reset(Quiet(Fresh(m.rec)))
           o == IF next = "absent" THEN reset ELSE Wait(n, h, w)
<1>1. next \in Phases BY Words
<1>2. FailClosed(m, h, ev) = [o EXCEPT !.client = FaultReply(m, ev),
                                       !.callback = FaultCallbackReply(m, ev)]
  BY DEF FailClosed
<1>3. reset \in Outputs /\ reset.reset = TRUE
  BY MachineFields, FreshType, QuietType, ReplyTypes, Words DEF Reset, Quiet
<1> HIDE DEF next, reset
<1>4. n \in Machines BY <1>1, MachineFields, FreshType, SetPhaseType
<1>5. n.cap.check = 0 /\ n.callback.task = "none" /\ n.deferred.task = "none"
  BY DEF SetPhase, Fresh, NoCap, NoCallback, NoWork
<1>6. w \in Works /\ w.task = "ResetAfterPersist"
  BY EmptyTypes, TaskWorkType, BuiltTasks, Words
<1> HIDE DEF n, w
<1>7. Wait(n, h, w) \in Outputs BY <1>4, <1>6, WaitType
<1>8. /\ Wait(n, h, w).m.work.task = "ResetAfterPersist"
      /\ Wait(n, h, w).m.cap = n.cap /\ Wait(n, h, w).m.callback = n.callback
      /\ Wait(n, h, w).m.deferred = n.deferred
  <2>1. /\ Wait(n, h, w).m = [n EXCEPT !.work = [w EXCEPT !.id = h.id]]
        /\ Wait(n, h, w).m.work.task = w.task
    BY <1>4, <1>6, WaitFacts
  <2> DEFINE v == [w EXCEPT !.id = h.id]
  <2> HIDE DEF v
  <2>2. Wait(n, h, w).m = [n EXCEPT !.work = v] BY <2>1 DEF v
  <2> QED BY <1>4, <1>6, <2>1, <2>2 DEF Machines
<1>9. Consistent(Wait(n, h, w).m)
  BY <1>5, <1>8 DEF Consistent, HasWork, HasDeferred
<1>10. o \in Outputs /\ (o.reset \/ Consistent(o.m)) BY <1>3, <1>7, <1>9
<1> HIDE DEF o
<1> QED BY <1>2, <1>10 DEF Outputs

\* A step leaves a consistent state, and leads to COMMIT in two ways only: a
\* confirmed binding announces it by persisting `committing`, and the success
\* of that very persist asks for it (step.rs CommitBinding, CommitPersist).
THEOREM CommitStep ==
    ASSUME NEW m \in Machines, NEW h \in HostFacts, NEW ev \in Events, Consistent(m)
    PROVE  LET o == RunDispatch(m, h, ev)
           IN  /\ Consistent(o.m)
               /\ \/ Plain(m, o)
                  \/ CommitAnnounced(h, o)
                  \/ /\ m.work.task = "CommitPersist" /\ m.work.id = ev.id
                     /\ ev.type = "persist" /\ ev.result = "ok"
                     /\ CommitAsked(m, o) /\ ~HasDeferred(o.m)
<1> DEFINE Asked(o) == /\ m.work.task = "CommitPersist" /\ m.work.id = ev.id
                       /\ ev.type = "persist" /\ ev.result = "ok"
                       /\ CommitAsked(m, o)
           d == Dispatch(m, h, ev)
           failed == FailClosed(m, h, ev)
           o == IF d.fault \/ (~d.reset /\ ~Consistent(d.m)) THEN failed ELSE d
           f == FinishOutput(o)
<1>1. ev.cmd \in Commands BY DEF Events
<1>2. d \in Outputs /\ failed \in Outputs
  BY <1>1, AbandonType, ForwardedType, TimerType, OutcomeType, FailClosedType
     DEF Dispatch
<1>3. RunDispatch(m, h, ev) = f BY DEF RunDispatch
<1>4. Plain(m, d) \/ CommitAnnounced(h, d) \/ Asked(d)
  <2>1. Plain(m, Abandon(m, h)) BY FailApart, PlainFacts
  <2>2. Plain(m, Forwarded(m, h, ev.cmd)) BY <1>1, ForwardedPlain
  <2>3. Plain(m, Timer(m, h)) BY TimerPlain
  <2>4. LET x == Outcome(m, h, ev)
        IN  Plain(m, x) \/ CommitAnnounced(h, x) \/ Asked(x)
    BY OutcomeCommits
  <2> HIDE DEF Asked
  <2> QED BY <2>1, <2>2, <2>3, <2>4 DEF Dispatch
<1>5. Apart(failed) /\ (failed.reset \/ Consistent(failed.m))
  BY FailApart, FailConsistent
<1> HIDE DEF d, failed
<1>6. o \in Outputs /\ (o.reset \/ Consistent(o.m)) BY <1>2, <1>5
<1>7. Plain(m, o) \/ CommitAnnounced(h, o) \/ Asked(o)
  <2> HIDE DEF Asked
  <2> QED BY <1>4, <1>5, PlainFacts
<1> HIDE DEF o
<1>8. /\ f.await = o.await /\ f.reset = o.reset
      /\ o.reset => f.m = Fresh(NoRec)
      /\ ~o.reset => \/ f.m = o.m
                     \/ f.m = Fresh(o.m.rec) /\ ~HasWork(o.m)
  BY <1>6, Finished
<1> HIDE DEF f
<1>9. o.reset \in BOOLEAN BY <1>6 DEF Outputs
<1>10. Consistent(f.m) BY <1>6, <1>8, <1>9, FreshFacts
<1>11. CASE Plain(m, o)
  <2>1. f.m = o.m \/ f.m.work.task = "none" BY <1>8, <1>9, FreshFacts
  <2>2. f.await.type # "commit" BY <1>8, <1>11 DEF Plain, Apart
  <2>3. Plain(m, f) BY <1>8, <1>11, <2>1, <2>2 DEF Plain, Apart
  <2> QED BY <1>3, <1>10, <2>3
<1>12. CASE CommitAnnounced(h, o)
  <2>1. f.m = o.m BY <1>8, <1>12 DEF CommitAnnounced, HasWork
  <2>2. CommitAnnounced(h, f) BY <1>8, <1>12, <2>1 DEF CommitAnnounced
  <2> QED BY <1>3, <1>10, <2>2
<1>13. CASE Asked(o)
  <2>1. f.m = o.m BY <1>8, <1>13 DEF CommitAsked, HasWork
  <2>2. Asked(f) BY <1>8, <1>13, <2>1 DEF CommitAsked
  <2>3. ~HasDeferred(f.m)
    BY <1>10, <1>13, <2>1 DEF CommitAsked, Consistent, HasWork
  <2> QED BY <1>3, <1>10, <2>2, <2>3
<1> QED BY <1>7, <1>11, <1>12, <1>13

\* From a state in which COMMIT may have been sent, every step but COMMIT's
\* own proof that it was not sent leaves such a state, whatever event comes
\* late, twice or out of order; or it forgets the state and touches nothing.
THEOREM SealedStep ==
    ASSUME NEW m \in Machines, NEW h \in HostFacts, NEW ev \in Events, Sealed(m),
           ~(ev.type = "commit" /\ ev.result = "not_committed")
    PROVE  SealedOut(RunDispatch(m, h, ev))
<1> DEFINE d == Dispatch(m, h, ev)
           failed == FailClosed(m, h, ev)
           o == IF d.fault \/ (~d.reset /\ ~Consistent(d.m)) THEN failed ELSE d
           f == FinishOutput(o)
<1>1. ev.cmd \in Commands BY DEF Events
<1>2. d \in Outputs /\ failed \in Outputs
  BY <1>1, AbandonType, ForwardedType, TimerType, OutcomeType, FailClosedType
     DEF Dispatch
<1>3. SealedOut(Timer(m, h))
  <2>1. Timer(m, h) = Quiet(m) BY DEF Timer, Sealed, Sealing
  <2> QED BY <2>1, SealedQuiet
<1>4. SealedOut(d)
  BY <1>1, <1>3, SealedFail, SealedForwarded, SealedOutcome DEF Dispatch
<1>5. SealedOut(failed) BY SealedFail
<1>6. RunDispatch(m, h, ev) = f BY DEF RunDispatch
<1> HIDE DEF d, failed
<1>7. o \in Outputs /\ SealedOut(o) BY <1>2, <1>4, <1>5
<1> HIDE DEF o
<1>8. /\ f.await = o.await /\ f.reset = o.reset
      /\ ~o.reset => f.m = o.m \/ f.m = Fresh(o.m.rec)
  BY <1>7, Finished
<1> HIDE DEF f
<1>9. o.m.rec \in Records BY <1>7 DEF Outputs, Machines
<1>10. CASE o.reset = TRUE BY <1>6, <1>7, <1>8, <1>10 DEF SealedOut
<1>11. CASE o.reset = FALSE
  <2>1. Sealed(o.m) BY <1>7, <1>11 DEF SealedOut
  <2>2. Sealed(Fresh(o.m.rec)) BY <1>9, <2>1, SealedFresh DEF Sealed
  <2> QED BY <1>6, <1>8, <1>11, <2>1, <2>2 DEF SealedOut
<1> QED BY <1>7, <1>10, <1>11 DEF SealedOut

\* Discarding an unreadable record leaves a sealed state.
LEMMA SealedDiscard ==
    ASSUME NEW h \in HostFacts, NEW ev
    PROVE  LET o == FinishOutput(Discard(h, ev))
           IN  SealedOut(o) /\ Apart(o) /\ Consistent(o.m)
<1> DEFINE w == ReplyWork("background", "none", "none")
           o == Wait(Fresh(Tombstone), h, w)
           d == Discard(h, ev)
           f == FinishOutput(d)
<1>1. Tombstone \in Records /\ Tombstone.phase \in Sealing
  BY EmptyTypes DEF Tombstone, NoRec, Sealing
<1>2. Fresh(Tombstone) \in Machines /\ Sealed(Fresh(Tombstone))
  BY <1>1, SealedFresh
<1>3. w \in Works /\ w.task = "Reply" BY ReplyWorkType, BuiltTasks, Words
<1>4. o \in Outputs BY <1>2, <1>3, WaitType
<1>5. SealedOut(o) BY <1>2, SealedReplyWait, Words DEF Sealed
<1>6. Apart(o) BY <1>2, <1>3, WaitApart
<1>7. Consistent(o.m)
  <2>1. o.m = [Fresh(Tombstone) EXCEPT !.work = [w EXCEPT !.id = h.id]] /\
        o.m.work.task = "Reply"
    BY <1>2, <1>3, WaitFacts
  <2> DEFINE v == [w EXCEPT !.id = h.id]
  <2> HIDE DEF v
  <2>2. o.m = [Fresh(Tombstone) EXCEPT !.work = v] BY <2>1 DEF v
  <2>3. /\ o.m.cap = Fresh(Tombstone).cap
        /\ o.m.callback = Fresh(Tombstone).callback
        /\ o.m.deferred = Fresh(Tombstone).deferred
    BY <1>2, <2>2 DEF Machines
  <2>4. /\ Fresh(Tombstone).cap.check = 0
        /\ Fresh(Tombstone).callback.task = "none"
        /\ Fresh(Tombstone).deferred.task = "none"
    BY DEF Fresh, NoCap, NoCallback, NoWork
  <2> HIDE DEF o
  <2> QED BY <2>1, <2>3, <2>4 DEF Consistent, HasWork, HasDeferred
<1>8. o.m.work.task = "Reply" /\ o.reset = FALSE BY <1>2, <1>3, WaitFacts
<1>9. d = IF ev.type # "forwarded" THEN o
          ELSE IF ev.cmd.kind = "query" THEN RespondCallback("unavailable", o)
          ELSE Respond(IF ev.cmd.kind = "commit" THEN "outcome_unknown"
                       ELSE "unavailable", o)
  BY DEF Discard
<1> HIDE DEF o, d
<1>10. d \in Outputs /\ d.m = o.m /\ d.await = o.await /\ d.reset = o.reset
  BY <1>4, <1>9, ReplyTypes, Words DEF Respond, RespondCallback, Outputs
<1>11. f.await = o.await /\ f.reset = FALSE /\ f.m = o.m
  BY <1>8, <1>10, Finished DEF HasWork
<1> HIDE DEF f
<1>12. SealedOut(f) /\ Apart(f) /\ Consistent(f.m)
  BY <1>5, <1>6, <1>7, <1>8, <1>11 DEF SealedOut, Apart
<1> QED BY <1>12 DEF f, d
==============================================================================
