---------------------------- MODULE OwnerStepProofs ----------------------------
(***************************************************************************)
(* What one step of the machine may do to the record, the connection and   *)
(* the work in progress, for every event and every value of the constants. *)
(* Orderly says which work goes with which phase and connection; a step    *)
(* from an orderly state resets or does what Steps allows, and then leaves *)
(* an orderly state (MachineSteps).                                        *)
(***************************************************************************)
EXTENDS StepMachineProofs

(***************************************************************************)
(* Which work goes with which record                                       *)
(***************************************************************************)
\* The phases that end a transaction for certain, without a commit.
Endings == {"rolled_back", "failed", "expired"}

\* The command of a work is one its record's own caller sent for the record's
\* next sequence, under the record's snapshot, which is the runtime's.
Owns(m, w, snap) ==
    /\ w.lane = "client"
    /\ w.cmd.seq # 0 /\ w.cmd.seq = m.rec.seq
    /\ w.cmd.auth = m.rec.auth
    /\ w.cmd.snap = m.rec.snap
    /\ m.rec.snap = snap

\* The phase and the connection a work w needs.
At(m, phases, conn) == m.rec.phase \in phases /\ m.conn = conn
Fits(m, w, snap) ==
    /\ w.task = "BeginOpen" => m.rec.phase = "absent"
    /\ w.task \in {"BeginPersist", "BeginTimer"} => At(m, {"active"}, "open")
    /\ w.task \in {"StatementBinding", "StatementExecute", "RollbackBinding"} =>
          At(m, {"active"}, "open") /\ Owns(m, w, snap)
    /\ w.task = "RollbackSend" => At(m, {"active"}, "closing") /\ Owns(m, w, snap)
    /\ w.task = "CommitBinding" =>
          At(m, {"active", "validating"}, "open") /\ Owns(m, w, snap)
    /\ w.task \in {"ValidatingPersist", "Validator", "Verdict"} =>
          At(m, {"validating"}, "open") /\ Owns(m, w, snap)
    /\ w.task = "CommitPersist" => At(m, {"committing"}, "open") /\ Owns(m, w, snap)
    /\ w.task = "CommitSend" => At(m, {"committing"}, "closing") /\ Owns(m, w, snap)
    /\ w.task = "CloseRollback" =>
          At(m, HasDeadline \cup {w.phase}, "closing") /\ w.phase \in Endings
    /\ w.task = "Reply" /\ w.expire_after =>
          At(m, {"active"}, "open") /\ w.restore.phase = "active"
    /\ w.task \in {"Reply", "ResetAfterPersist"} /\ ~w.expire_after =>
          m.rec.phase \in Terminal /\ m.conn # "open"

\* What is not in progress is empty.
Tidy(m) == /\ ~HasWork(m) => m.work = NoWork
           /\ ~HasDeferred(m) => m.deferred = NoWork
           /\ m.callback.task = "none" => m.callback = NoCallback

\* An open connection belongs to a transaction that has not ended, or that
\* expired under a query; queries belong to a validation, and one that holds
\* the connection keeps every other user of it waiting.
Holds(m) ==
    /\ m.conn = "open" => m.rec.phase \in HasDeadline \cup {"expired"}
    /\ m.callback.task # "none" => m.rec.phase \notin {"absent", "active"}
    /\ CallbackExecuting(m) => m.work.task \in {"none", "Validator", "BeginBinding"}

Orderly(m, snap) ==
    Fits(m, m.work, snap) /\ Fits(m, m.deferred, snap) /\ Tidy(m) /\ Holds(m)

(***************************************************************************)
(* The moves of a lane.  m is the state without the work w that the event  *)
(* answered, o the output.                                                 *)
(***************************************************************************)
\* A task is taken up and its effect asked for.
ArgOf(task, cmd, check) ==
    IF task \in {"StatementExecute", "CommitSend"} THEN cmd.seq
    ELSE IF task = "Validator" THEN check ELSE 0
Goes(m, h, o, task, lane, cmd, check) ==
    /\ o.reset = FALSE
    /\ o.m.work.task = task /\ o.m.work.id = h.id /\ o.m.work.lane = lane
    /\ o.m.work.cmd = cmd /\ o.m.work.check = check
    /\ o.m.deferred = m.deferred /\ o.m.callback = m.callback
    /\ o.await.type = AwaitedBy(task) /\ o.await.id = h.id
    /\ o.await.arg = ArgOf(task, cmd, check)

\* The state stays, but for the connection.
Keeps(m, o, conn) == o.m.rec = m.rec /\ o.m.conn = conn
Phased(m, o, phase, conn) == o.m.rec = [m.rec EXCEPT !.phase = phase] /\ o.m.conn = conn

\* A begin opens, records and arms the transaction.
NewRecord(cmd) == [NoRec EXCEPT !.phase = "active", !.seq = 1, !.snap = cmd.snap,
                                !.auth = cmd.auth]
BeginMoves(m, h, w, result, o) ==
    \/ /\ w.task = "BeginBinding" /\ result = "ok" /\ m.rec.phase = "absent"
       /\ Goes(m, h, o, "BeginOpen", "client", w.cmd, 0) /\ Keeps(m, o, "opening")
    \/ /\ w.task = "BeginOpen" /\ result = "ok"
       /\ Goes(m, h, o, "BeginPersist", w.lane, NoCmd, 0)
       /\ o.m.rec = NewRecord(w.cmd) /\ o.m.conn = "open"
    \/ /\ w.task = "BeginPersist" /\ result = "ok"
       /\ Goes(m, h, o, "BeginTimer", w.lane, NoCmd, 0) /\ Keeps(m, o, m.conn)

\* A statement is executed, then recorded.
DoneRecord(rec, cmd) ==
    [rec EXCEPT !.seq = cmd.seq + 1, !.last = DigestOf(cmd),
                !.dirty = rec.dirty \/ cmd.pay = "write"]
StatementMoves(m, h, w, result, o) ==
    \/ /\ w.task = "StatementBinding" /\ result = "ok"
       /\ Goes(m, h, o, "StatementExecute", w.lane, w.cmd, w.check) /\ Keeps(m, o, m.conn)
    \/ /\ w.task = "StatementExecute" /\ result = "ok"
       /\ Goes(m, h, o, "Reply", w.lane, NoCmd, 0)
       /\ o.m.work.expire_after = TRUE /\ o.m.work.restore = m.rec
       /\ o.m.rec = DoneRecord(m.rec, w.cmd) /\ o.m.conn = "open"

\* A verdict calls the next validator, or has the binding confirmed.
VerdictMoves(m, h, w, allowed, o) ==
    /\ allowed
    /\ \/ /\ w.check < Checks
          /\ Goes(m, h, o, "Validator", w.lane, w.cmd, w.check + 1)
          /\ m.conn = "open" /\ Keeps(m, o, "open")
       \/ /\ ~(w.check < Checks)
          /\ Goes(m, h, o, "CommitBinding", w.lane, w.cmd, 0) /\ Keeps(m, o, m.conn)

\* A verdict that waits for the query that holds the connection.
Postpones(m, w, allowed, o) ==
    /\ w.task = "Validator" /\ CallbackExecuting(m)
    /\ o.reset = FALSE /\ o.await = NoEffect
    /\ o.m.work = m.work /\ o.m.callback = m.callback
    /\ o.m.deferred.task = "Verdict" /\ o.m.deferred.allowed = allowed
    /\ o.m.deferred.lane = w.lane /\ o.m.deferred.cmd = w.cmd
    /\ o.m.deferred.check = w.check
    /\ Keeps(m, o, m.conn)

\* A commit is checked, announced, sent and recorded.
CommitMoves(m, h, w, result, o) ==
    \/ /\ w.task = "CommitBinding" /\ result = "ok" /\ w.check = 1 /\ Triggered(m.rec)
       /\ Goes(m, h, o, "ValidatingPersist", w.lane, w.cmd, 1)
       /\ Phased(m, o, "validating", m.conn)
    \/ /\ w.task = "CommitBinding" /\ result = "ok" /\ w.check # 1
       /\ Goes(m, h, o, "CommitPersist", w.lane, w.cmd, 0)
       /\ Phased(m, o, "committing", m.conn)
    \/ /\ w.task = "ValidatingPersist" /\ result = "ok" /\ m.conn = "open"
       /\ Goes(m, h, o, "Validator", w.lane, w.cmd, w.check) /\ Keeps(m, o, "open")
    \/ /\ w.task = "Validator" /\ ~CallbackExecuting(m)
       /\ VerdictMoves(m, h, w, result = "allow", o)
    \/ Postpones(m, w, result = "allow", o)
    \/ /\ w.task = "CommitPersist" /\ result = "ok"
       /\ Goes(m, h, o, "CommitSend", w.lane, w.cmd, 0) /\ Keeps(m, o, "closing")

\* A work that ends in a persist before its reply.
Answers(m, h, o) ==
    /\ o.reset = FALSE
    /\ o.m.work.task = "Reply" /\ o.m.work.id = h.id
    /\ o.m.work.expire_after = FALSE
    /\ o.m.deferred = m.deferred /\ o.m.callback = m.callback
    /\ o.await.type = "persist" /\ o.await.id = h.id
FinalRecord(rec, cmd, phase) ==
    [rec EXCEPT !.seq = @ + 1, !.last = DigestOf(cmd), !.phase = phase]
SettleMoves(m, h, w, result, o) ==
    \/ /\ w.task = "CommitSend" /\ result = "ok" /\ Answers(m, h, o)
       /\ o.m.rec = FinalRecord(m.rec, w.cmd, "committed") /\ o.m.conn = "none"
    \/ /\ w.task = "CommitSend" /\ result \notin {"ok", "not_committed"}
       /\ Answers(m, h, o) /\ Phased(m, o, "commit_unknown", "none")
    \/ /\ w.task = "RollbackBinding" /\ result = "ok"
       /\ Goes(m, h, o, "RollbackSend", w.lane, w.cmd, 0) /\ Keeps(m, o, "closing")
    \/ /\ w.task = "RollbackSend" /\ Answers(m, h, o)
       /\ o.m.rec = FinalRecord(m.rec, w.cmd, "rolled_back") /\ o.m.conn = "none"
    \/ /\ w.task = "CloseRollback" /\ Answers(m, h, o) /\ Phased(m, o, w.phase, "none")
    \/ /\ w.task = "BeginBinding" /\ m.rec.phase = "active" /\ m.conn # "open"
       /\ Answers(m, h, o) /\ Phased(m, o, "failed", m.conn)

\* Closing: the connection is rolled back, or the end recorded at once.
Closes(m, h, o, phase) ==
    /\ o.reset = FALSE /\ ~CallbackExecuting(m)
    /\ o.m.work.id = h.id /\ o.m.work.expire_after = FALSE
    /\ o.m.deferred = m.deferred /\ o.m.callback = m.callback
    /\ o.await.id = h.id
    /\ \/ /\ m.conn = "open" /\ Keeps(m, o, "closing")
          /\ o.m.work.task = "CloseRollback" /\ o.m.work.phase = phase
          /\ o.await.type = "rollback"
       \/ /\ m.conn # "open" /\ Phased(m, o, phase, "none")
          /\ o.m.work.task = "Reply" /\ o.await.type = "persist"

\* The work is over and nothing follows it.
Rests(m, w, o) ==
    /\ w.task \in {"BeginBinding", "BeginOpen", "BeginTimer", "Reply"}
    /\ o.reset = FALSE /\ o.await = NoEffect
    /\ o.m.work = m.work /\ o.m.deferred = m.deferred /\ o.m.callback = m.callback
    /\ Keeps(m, o, IF w.task = "BeginOpen" THEN "none" ELSE m.conn)
Resets(o) == o.reset = TRUE /\ o.await = NoEffect

\* What an outcome leads to.  A statement that could not be recorded closes
\* from the record before it.
Consumed(m, h, w, result, o) ==
    \/ o.fault = TRUE
    \/ Resets(o)
    \/ Rests(m, w, o)
    \/ BeginMoves(m, h, w, result, o)
    \/ StatementMoves(m, h, w, result, o)
    \/ CommitMoves(m, h, w, result, o)
    \/ SettleMoves(m, h, w, result, o)
    \/ \E phase \in Endings :
          \/ m.rec.phase \in HasDeadline /\ Closes(m, h, o, phase)
          \/ /\ w.task = "Reply" /\ w.expire_after
             /\ Closes([m EXCEPT !.rec = w.restore], h, o, phase)

(***************************************************************************)
(* The operators every move is made of                                     *)
(***************************************************************************)
\* What waiting for the effect of a work leaves in the output.
LEMMA WaitGoes ==
    ASSUME NEW m \in Machines, NEW h \in HostFacts, NEW w \in Works
    PROVE  /\ Goes(m, h, Wait(m, h, w), w.task, w.lane, w.cmd, w.check)
           /\ Keeps(m, Wait(m, h, w), m.conn)
           /\ Wait(m, h, w).m.work.expire_after = w.expire_after
           /\ Wait(m, h, w).m.work.restore = w.restore
           /\ Wait(m, h, w).m.work.phase = w.phase
           /\ Wait(m, h, w).fault = FALSE
<1> DEFINE v == [w EXCEPT !.id = h.id]
           n == [m EXCEPT !.work = v]
           arg == IF w.task \in {"StatementExecute", "CommitSend"} THEN w.cmd.seq
                  ELSE IF w.task = "Validator" THEN w.check ELSE 0
           effect == [type |-> AwaitedBy(w.task), id |-> h.id, arg |-> arg]
<1>1. /\ v.task = w.task /\ v.id = h.id /\ v.expire_after = w.expire_after
      /\ v.lane = w.lane /\ v.cmd = w.cmd /\ v.check = w.check
      /\ v.restore = w.restore /\ v.phase = w.phase
  BY DEF Works
<1>2. /\ n.work = v /\ n.rec = m.rec /\ n.conn = m.conn
      /\ n.deferred = m.deferred /\ n.callback = m.callback
  <2> HIDE DEF v
  <2> QED BY DEF Machines
<1>3. /\ effect.type = AwaitedBy(w.task) /\ effect.id = h.id
      /\ effect.arg = ArgOf(w.task, w.cmd, w.check)
  <2>1. arg = ArgOf(w.task, w.cmd, w.check) BY DEF ArgOf
  <2> HIDE DEF arg
  <2> QED BY <2>1
<1>4. Wait(m, h, w) = [Quiet(n) EXCEPT !.await = effect]
  BY DEF Wait
<1> HIDE DEF n, effect
<1>5. /\ Wait(m, h, w).m = n /\ Wait(m, h, w).await = effect
      /\ Wait(m, h, w).reset = FALSE /\ Wait(m, h, w).fault = FALSE
  BY <1>4 DEF Quiet
<1> HIDE DEF v
<1> QED BY <1>1, <1>2, <1>3, <1>5 DEF Goes, Keeps

\* The fields of a built work.
LEMMA BuiltFields ==
    /\ \A task, lane, cmd :
          /\ TaskWork(task, lane, cmd).task = task
          /\ TaskWork(task, lane, cmd).lane = lane
          /\ TaskWork(task, lane, cmd).cmd = cmd
          /\ TaskWork(task, lane, cmd).check = 0
          /\ TaskWork(task, lane, cmd).expire_after = FALSE
    /\ \A lane, reply, failure :
          /\ ReplyWork(lane, reply, failure).task = "Reply"
          /\ ReplyWork(lane, reply, failure).lane = lane
          /\ ReplyWork(lane, reply, failure).cmd = NoCmd
          /\ ReplyWork(lane, reply, failure).check = 0
          /\ ReplyWork(lane, reply, failure).expire_after = FALSE
BY DEF TaskWork, ReplyWork, NoWork

\* A lane goes on to a task without a check.
LEMMA TaskGoes ==
    ASSUME NEW m \in Machines, NEW h \in HostFacts, NEW task \in Tasks,
           NEW lane \in Lanes, NEW cmd \in Commands
    PROVE  LET o == Wait(m, h, TaskWork(task, lane, cmd))
           IN  /\ Goes(m, h, o, task, lane, cmd, 0)
               /\ Keeps(m, o, m.conn)
               /\ o.fault = FALSE
<1> DEFINE w == TaskWork(task, lane, cmd)
<1>1. w \in Works BY TaskWorkType
<1>2. w.task = task /\ w.lane = lane /\ w.cmd = cmd /\ w.check = 0 BY BuiltFields
<1> HIDE DEF w
<1>3. Goes(m, h, Wait(m, h, w), w.task, w.lane, w.cmd, w.check)
      /\ Keeps(m, Wait(m, h, w), m.conn) /\ Wait(m, h, w).fault = FALSE
  BY <1>1, WaitGoes
<1>4. Goes(m, h, Wait(m, h, w), task, lane, cmd, 0) BY <1>2, <1>3
<1> QED BY <1>3, <1>4 DEF w

\* A lane goes on to a task with a check.
LEMMA CheckGoes ==
    ASSUME NEW m \in Machines, NEW h \in HostFacts, NEW task \in Tasks,
           NEW w \in Works, NEW check \in Nat
    PROVE  LET v == [TaskWork(task, w.lane, w.cmd) EXCEPT !.check = check]
               o == Wait(m, h, v)
           IN  /\ Goes(m, h, o, task, w.lane, w.cmd, check)
               /\ Keeps(m, o, m.conn)
               /\ o.fault = FALSE
<1> DEFINE u == TaskWork(task, w.lane, w.cmd)
           v == [u EXCEPT !.check = check]
<1>1. v \in Works BY CheckWorkType
<1>2. u \in Works /\ u.task = task /\ u.lane = w.lane /\ u.cmd = w.cmd
  BY WorkFields, TaskWorkType, BuiltFields
<1>3. v.task = task /\ v.lane = w.lane /\ v.cmd = w.cmd /\ v.check = check
  <2> HIDE DEF u
  <2> QED BY <1>2 DEF Works
<1> HIDE DEF v
<1>4. Goes(m, h, Wait(m, h, v), v.task, v.lane, v.cmd, v.check)
      /\ Keeps(m, Wait(m, h, v), m.conn) /\ Wait(m, h, v).fault = FALSE
  BY <1>1, WaitGoes
<1>5. Goes(m, h, Wait(m, h, v), task, w.lane, w.cmd, check) BY <1>3, <1>4
<1> QED BY <1>4, <1>5 DEF v

\* A lane answers after a persist.
LEMMA ReplyAnswers ==
    ASSUME NEW m \in Machines, NEW h \in HostFacts, NEW lane \in Lanes,
           NEW reply \in Replies, NEW failure \in Replies
    PROVE  LET o == Wait(m, h, ReplyWork(lane, reply, failure))
           IN  Answers(m, h, o) /\ Keeps(m, o, m.conn) /\ o.fault = FALSE
<1> DEFINE w == ReplyWork(lane, reply, failure)
<1>1. w \in Works BY ReplyWorkType
<1>2. w.task = "Reply" /\ w.expire_after = FALSE BY BuiltFields
<1>3. AwaitedBy("Reply") = "persist" BY DEF AwaitedBy
<1> HIDE DEF w
<1>4. /\ Goes(m, h, Wait(m, h, w), w.task, w.lane, w.cmd, w.check)
      /\ Keeps(m, Wait(m, h, w), m.conn) /\ Wait(m, h, w).fault = FALSE
      /\ Wait(m, h, w).m.work.expire_after = w.expire_after
  BY <1>1, WaitGoes
<1>5. Answers(m, h, Wait(m, h, w)) BY <1>2, <1>3, <1>4 DEF Answers, Goes
<1> QED BY <1>4, <1>5 DEF w

\* A reply changes neither the state nor the effect; quiet outputs have none.
LEMMA ReplyKeeps ==
    /\ \A o \in Outputs : \A reply :
          /\ Respond(reply, o).m = o.m /\ Respond(reply, o).await = o.await
          /\ Respond(reply, o).reset = o.reset /\ Respond(reply, o).fault = o.fault
          /\ RespondCallback(reply, o).m = o.m
          /\ RespondCallback(reply, o).await = o.await
          /\ RespondCallback(reply, o).reset = o.reset
          /\ RespondCallback(reply, o).fault = o.fault
          /\ Reset(o).await = o.await /\ Reset(o).reset = TRUE
    /\ \A n : /\ Quiet(n).m = n /\ Quiet(n).await = NoEffect
              /\ Quiet(n).reset = FALSE /\ Quiet(n).fault = FALSE
              /\ Fault(n).fault = TRUE
BY DEF Respond, RespondCallback, Reset, Quiet, Fault, Outputs

\* What a set phase leaves.
LEMMA SetPhaseMoves ==
    ASSUME NEW m \in Machines, NEW phase \in Phases, phase # "discarded", Live(m.rec)
    PROVE  /\ SetPhase(m, phase) \in Machines
           /\ SetPhase(m, phase).rec = [m.rec EXCEPT !.phase = phase]
           /\ SetPhase(m, phase).conn = m.conn
           /\ SetPhase(m, phase).work = m.work
           /\ SetPhase(m, phase).deferred = m.deferred
           /\ SetPhase(m, phase).callback = m.callback
<1>1. SetPhase(m, phase) = [m EXCEPT !.rec.phase = phase] BY DEF SetPhase
<1> DEFINE rec == [m.rec EXCEPT !.phase = phase]
<1>2. [m EXCEPT !.rec.phase = phase] = [m EXCEPT !.rec = rec] BY DEF Machines
<1>3. [m EXCEPT !.rec = rec].rec = rec
  BY DEF Machines
<1> HIDE DEF rec
<1>4. /\ [m EXCEPT !.rec = rec].conn = m.conn
      /\ [m EXCEPT !.rec = rec].work = m.work
      /\ [m EXCEPT !.rec = rec].deferred = m.deferred
      /\ [m EXCEPT !.rec = rec].callback = m.callback
  BY DEF Machines
<1> QED BY <1>1, <1>2, <1>3, <1>4, SetPhaseType DEF rec

\* Closing moves on to a rollback or to the persist of the end.
LEMMA CloseMoves ==
    ASSUME NEW m \in Machines, NEW h \in HostFacts, NEW lane \in Lanes,
           NEW phase \in Endings, NEW reply \in Replies, Live(m.rec)
    PROVE  LET o == Close(m, h, lane, phase, reply)
           IN  o.fault = TRUE \/ Closes(m, h, o, phase)
<1> DEFINE o == Close(m, h, lane, phase, reply)
           r == Revoke(m)
<1>0. phase \in Phases /\ phase # "discarded" BY DEF Endings, Phases, Terminal
<1>1. /\ r \in Machines /\ r.rec = m.rec /\ r.deferred = m.deferred
      /\ r.callback = m.callback
  BY RevokeType DEF Revoke, Machines
<1>2. CASE CallbackExecuting(m) BY <1>2, ReplyKeeps DEF Close
<1>3. CASE ~CallbackExecuting(m) /\ m.conn = "open"
  <2> DEFINE u == TaskWork("CloseRollback", lane, NoCmd)
             w == [u EXCEPT !.phase = phase, !.reply = reply]
             n == [r EXCEPT !.conn = "closing"]
  <2>1. u \in Works /\ u.task = "CloseRollback" /\ u.expire_after = FALSE
    BY TaskWorkType, BuiltFields, EmptyTypes, Words
  <2>2. w \in Works /\ w.task = "CloseRollback" /\ w.phase = phase
        /\ w.expire_after = FALSE
    <3> HIDE DEF u
    <3> QED BY <1>0, <2>1 DEF Works
  <2>3. /\ n \in Machines /\ n.rec = m.rec /\ n.conn = "closing"
        /\ n.deferred = m.deferred /\ n.callback = m.callback
    <3> HIDE DEF r
    <3> QED BY <1>1, MachineUpdates, Words DEF Machines
  <2>4. o = Wait(n, h, w) BY <1>3 DEF Close
  <2> HIDE DEF n, w, o
  <2>5. /\ Goes(n, h, o, w.task, w.lane, w.cmd, w.check) /\ Keeps(n, o, n.conn)
        /\ o.m.work.phase = w.phase /\ o.m.work.expire_after = w.expire_after
    BY <2>2, <2>3, <2>4, WaitGoes
  <2>6. AwaitedBy("CloseRollback") = "rollback" BY DEF AwaitedBy
  <2>7. Closes(m, h, o, phase)
    BY <1>3, <2>2, <2>3, <2>5, <2>6 DEF Closes, Goes, Keeps
  <2> QED BY <2>7 DEF o
<1>4. CASE ~CallbackExecuting(m) /\ m.conn # "open"
  <2> DEFINE n == [r EXCEPT !.conn = "none"]
             p == SetPhase(n, phase)
             failure == IF reply = "none" THEN "none" ELSE "internal"
  <2>1. /\ n \in Machines /\ n.rec = m.rec /\ n.conn = "none"
        /\ n.deferred = m.deferred /\ n.callback = m.callback
    <3> HIDE DEF r
    <3> QED BY <1>1, MachineUpdates, Words DEF Machines
  <2>2. o = PersistPhase(n, h, lane, phase, reply) BY <1>4 DEF Close
  <2>3. failure \in Replies BY Words
  <2>4. o = Wait(p, h, ReplyWork(lane, reply, failure))
    <3> HIDE DEF n
    <3> QED BY <2>1, <2>2 DEF PersistPhase, Live
  <2> HIDE DEF n, failure, o
  <2>5. /\ p \in Machines /\ p.rec = [m.rec EXCEPT !.phase = phase]
        /\ p.conn = "none" /\ p.deferred = m.deferred /\ p.callback = m.callback
    BY <1>0, <2>1, SetPhaseMoves
  <2> HIDE DEF p
  <2>6. Answers(p, h, o) /\ Keeps(p, o, p.conn) BY <2>3, <2>4, <2>5, ReplyAnswers
  <2>7. Closes(m, h, o, phase)
    BY <1>4, <2>5, <2>6 DEF Closes, Answers, Keeps, Phased
  <2> QED BY <2>7 DEF o
<1> QED BY <1>2, <1>3, <1>4

(***************************************************************************)
(* The outcomes of a lane's work                                           *)
(***************************************************************************)
\* Phases with a deadline are those of a record that lives.
LEMMA LivePhases ==
    /\ \A m : m.rec.phase \in HasDeadline => Live(m.rec)
    /\ \A m : m.rec.phase \in Endings \cup {"commit_unknown", "committed"} => Live(m.rec)
BY DEF HasDeadline, Endings, Live

\* Whatever work was in progress, closing is a move.
LEMMA CloseConsumed ==
    ASSUME NEW m \in Machines, NEW h \in HostFacts, NEW w \in Works, NEW result,
           m.rec.phase \in HasDeadline
    PROVE  /\ \A lane \in Lanes, phase \in Endings, reply \in Replies :
                 Consumed(m, h, w, result, Close(m, h, lane, phase, reply))
           /\ \A lane \in Lanes : Consumed(m, h, w, result, ExpireClient(m, h, lane))
           /\ Consumed(m, h, w, result, BindingRefused(m, h, w, result))
<1>1. \A lane \in Lanes, phase \in Endings, reply \in Replies :
         Consumed(m, h, w, result, Close(m, h, lane, phase, reply))
  BY CloseMoves, LivePhases DEF Consumed
<1>2. "expired" \in Endings /\ "failed" \in Endings BY DEF Endings
<1>3. \A lane \in Lanes : Consumed(m, h, w, result, ExpireClient(m, h, lane))
  BY <1>1, <1>2, Words DEF ExpireClient
<1>4. Consumed(m, h, w, result, BindingRefused(m, h, w, result))
  BY <1>1, <1>2, WorkFields, Words DEF BindingRefused
<1> QED BY <1>1, <1>3, <1>4

\* A fault, a reply alone and a reset are moves.
LEMMA QuietConsumed ==
    ASSUME NEW m \in Machines, NEW h \in HostFacts, NEW w \in Works, NEW result
    PROVE  /\ Consumed(m, h, w, result, Fault(m))
           /\ w.task \in {"BeginBinding", "BeginTimer", "Reply"} =>
                 \A reply : Consumed(m, h, w, result, Respond(reply, Quiet(m)))
           /\ \A reply : Consumed(m, h, w, result, Reset(Respond(reply, Quiet(m))))
           /\ Consumed(m, h, w, result, Reset(Quiet(m)))
<1>1. Quiet(m) \in Outputs BY QuietType
<1>2. Consumed(m, h, w, result, Fault(m)) BY ReplyKeeps DEF Consumed
<1>3. ASSUME NEW reply, w.task \in {"BeginBinding", "BeginTimer", "Reply"}
      PROVE  Consumed(m, h, w, result, Respond(reply, Quiet(m)))
  <2> DEFINE o == Respond(reply, Quiet(m))
  <2>1. o.m = m /\ o.await = NoEffect /\ o.reset = FALSE BY <1>1, ReplyKeeps
  <2> HIDE DEF o
  <2>2. Rests(m, w, o) BY <1>3, <2>1 DEF Rests, Keeps
  <2>3. Consumed(m, h, w, result, o) BY <2>2 DEF Consumed
  <2> QED BY <2>3 DEF o
<1>4. ASSUME NEW reply
      PROVE  Consumed(m, h, w, result, Reset(Respond(reply, Quiet(m))))
  <2> DEFINE p == Respond(reply, Quiet(m))
  <2>1. p.await = NoEffect BY <1>1, ReplyKeeps
  <2>2. Reset(p).await = NoEffect /\ Reset(p).reset = TRUE
    BY <2>1 DEF Reset, Respond, Quiet
  <2>3. Resets(Reset(p)) BY <2>2 DEF Resets
  <2> QED BY <2>3 DEF Consumed
<1>5. Consumed(m, h, w, result, Reset(Quiet(m)))
  <2>1. Resets(Reset(Quiet(m))) BY <1>1, ReplyKeeps DEF Resets
  <2> QED BY <2>1 DEF Consumed
<1> QED BY <1>2, <1>3, <1>4, <1>5

\* The checks after a binding check close, or go on under the record's snapshot.
LEMMA RecheckConsumed ==
    ASSUME NEW m \in Machines, NEW h \in HostFacts, NEW w \in Works, NEW result,
           NEW next, m.rec.phase \in HasDeadline
    PROVE  LET o == Recheck(m, h, w.lane, next)
           IN  \/ Consumed(m, h, w, result, o)
               \/ o = next /\ Live(m.rec) /\ m.rec.snap = h.snap
<1>1. w.lane \in Lanes /\ "failed" \in Endings BY WorkFields DEF Endings
<1>2. CASE ~Live(m.rec) BY <1>2, QuietConsumed DEF Recheck
<1>3. CASE Live(m.rec)
  <2>1. /\ Consumed(m, h, w, result, ExpireClient(m, h, w.lane))
        /\ Consumed(m, h, w, result, Close(m, h, w.lane, "failed", "unavailable"))
    BY <1>1, <1>3, CloseConsumed, Words
  <2> QED BY <1>3, <2>1 DEF Recheck
<1> QED BY <1>2, <1>3

\* The outcome of a begin's binding check.
LEMMA BeginBindingMoves ==
    ASSUME NEW m \in Machines, NEW h \in HostFacts, NEW w \in Works, NEW result,
           w.task = "BeginBinding"
    PROVE  Consumed(m, h, w, result, BeginBinding(m, h, w, result))
<1>1. \A reply : Consumed(m, h, w, result, Respond(reply, Quiet(m)))
  BY QuietConsumed
<1>2. CASE m.rec.phase = "absent" /\ result = "ok"
  <2> DEFINE n == [m EXCEPT !.conn = "opening"]
             o == Wait(n, h, TaskWork("BeginOpen", "client", w.cmd))
  <2>1. /\ n \in Machines /\ n.rec = m.rec /\ n.conn = "opening"
        /\ n.deferred = m.deferred /\ n.callback = m.callback
    BY MachineUpdates, Words DEF Machines
  <2>2. BeginBinding(m, h, w, result) = o
    <3> HIDE DEF o
    <3>1. ~Live(m.rec) /\ m.rec.phase # "discarded" BY <1>2 DEF Live
    <3>2. BeginChecked(m, h, w) = o BY <1>2, <3>1 DEF BeginChecked, o, n
    <3> QED BY <1>2, <3>2 DEF BeginBinding
  <2> HIDE DEF n
  <2>3. Goes(n, h, o, "BeginOpen", "client", w.cmd, 0) /\ Keeps(n, o, n.conn)
    BY <2>1, TaskGoes, WorkFields, Words
  <2> HIDE DEF o
  <2>4. BeginMoves(m, h, w, result, o)
    BY <1>2, <2>1, <2>3 DEF BeginMoves, Goes, Keeps
  <2> QED BY <2>2, <2>4 DEF Consumed
<1>3. CASE result = "ok" /\ m.rec.phase = "active" /\ m.conn # "open"
           /\ ~(m.rec.auth # w.cmd.auth \/ m.rec.snap # w.cmd.snap)
  <2> DEFINE n == SetPhase(m, "failed")
             o == Wait(n, h, ReplyWork("client", "unavailable", "internal"))
  <2>0. Live(m.rec) BY <1>3 DEF Live
  <2>1. /\ n \in Machines /\ n.rec = [m.rec EXCEPT !.phase = "failed"]
        /\ n.conn = m.conn /\ n.deferred = m.deferred /\ n.callback = m.callback
    BY <2>0, SetPhaseMoves, Words
  <2>2. BeginBinding(m, h, w, result) = o
    BY <1>3, <2>0 DEF BeginBinding, BeginChecked, PersistReply
  <2> HIDE DEF n
  <2>3. Answers(n, h, o) /\ Keeps(n, o, n.conn)
    BY <2>1, ReplyAnswers, WorkFields, Words
  <2> HIDE DEF o
  <2>4. SettleMoves(m, h, w, result, o)
    BY <1>3, <2>1, <2>3 DEF SettleMoves, Answers, Keeps, Phased
  <2> QED BY <2>2, <2>4 DEF Consumed
<1>4. CASE result # "ok" BY <1>1, <1>4 DEF BeginBinding
<1>5. CASE /\ result = "ok" /\ m.rec.phase # "absent"
           /\ ~(/\ m.rec.phase = "active" /\ m.conn # "open"
                /\ ~(m.rec.auth # w.cmd.auth \/ m.rec.snap # w.cmd.snap))
  <2>1. \E reply : BeginBinding(m, h, w, result) = Respond(reply, Quiet(m))
    BY <1>5 DEF BeginBinding, BeginChecked, Live
  <2> QED BY <1>1, <2>1
<1> QED BY <1>2, <1>3, <1>4, <1>5

\* The outcomes of the later steps of a begin.
LEMMA BeginLaterMoves ==
    ASSUME NEW m \in Machines, NEW h \in HostFacts, NEW w \in Works, NEW result,
           NEW snap, Fits(m, w, snap)
    PROVE  /\ w.task = "BeginOpen" => Consumed(m, h, w, result, BeginOpen(m, h, w, result))
           /\ w.task = "BeginPersist" =>
                 Consumed(m, h, w, result, BeginPersist(m, h, w, result))
           /\ w.task = "BeginTimer" =>
                 Consumed(m, h, w, result, BeginTimer(m, h, w, result))
<1>0. w.lane \in Lanes /\ w.cmd \in Commands /\ "failed" \in Endings
  BY WorkFields DEF Endings
<1>1. ASSUME w.task = "BeginOpen", result = "ok"
      PROVE  Consumed(m, h, w, result, BeginOpen(m, h, w, result))
  <2> DEFINE rec == NewRecord(w.cmd)
             n == [m EXCEPT !.conn = "open", !.rec = rec]
             o == Wait(n, h, TaskWork("BeginPersist", w.lane, NoCmd))
  <2>1. rec \in Records
    BY <1>0, EmptyTypes DEF NewRecord, Records, Commands, Phases, HasDeadline
  <2>2. BeginOpen(m, h, w, result) = o BY <1>1 DEF BeginOpen, NewRecord
  <2> HIDE DEF rec
  <2>3. /\ n \in Machines /\ n.rec = rec /\ n.conn = "open"
        /\ n.deferred = m.deferred /\ n.callback = m.callback
    BY <2>1, Words DEF Machines
  <2> HIDE DEF n
  <2>4. Goes(n, h, o, "BeginPersist", w.lane, NoCmd, 0) /\ Keeps(n, o, n.conn)
    BY <1>0, <2>3, TaskGoes, EmptyTypes, Words
  <2> HIDE DEF o
  <2>5. BeginMoves(m, h, w, result, o)
    BY <1>1, <2>3, <2>4 DEF BeginMoves, Goes, Keeps, rec
  <2> QED BY <2>2, <2>5 DEF Consumed
<1>2. ASSUME w.task = "BeginOpen", result # "ok"
      PROVE  Consumed(m, h, w, result, BeginOpen(m, h, w, result))
  <2> DEFINE n == [m EXCEPT !.conn = "none"]
             o == Respond("database", Quiet(n))
  <2>1. /\ n \in Machines /\ n.rec = m.rec /\ n.conn = "none" /\ n.work = m.work
        /\ n.deferred = m.deferred /\ n.callback = m.callback
    BY MachineUpdates, Words DEF Machines
  <2>2. BeginOpen(m, h, w, result) = o BY <1>2 DEF BeginOpen
  <2> HIDE DEF n
  <2>3. o.m = n /\ o.await = NoEffect /\ o.reset = FALSE
    BY <2>1, QuietType, ReplyKeeps
  <2> HIDE DEF o
  <2>4. Rests(m, w, o) BY <1>2, <2>1, <2>3 DEF Rests, Keeps
  <2> QED BY <2>2, <2>4 DEF Consumed
<1>3. ASSUME w.task \in {"BeginPersist", "BeginTimer"}
      PROVE  Live(m.rec) /\ m.rec.phase \in HasDeadline
  BY <1>3, LivePhases DEF Fits, At, HasDeadline
<1>4. ASSUME w.task = "BeginPersist"
      PROVE  Consumed(m, h, w, result, BeginPersist(m, h, w, result))
  <2> DEFINE o == Wait(m, h, TaskWork("BeginTimer", w.lane, NoCmd))
  <2>1. Consumed(m, h, w, result, Close(m, h, w.lane, "failed", "internal"))
    BY <1>0, <1>3, <1>4, CloseConsumed, Words
  <2>2. Goes(m, h, o, "BeginTimer", w.lane, NoCmd, 0) /\ Keeps(m, o, m.conn)
    BY <1>0, TaskGoes, EmptyTypes, Words
  <2>3. result = "ok" => Consumed(m, h, w, result, o)
    <3> HIDE DEF o
    <3> QED BY <1>4, <2>2 DEF BeginMoves, Consumed
  <2> QED BY <2>1, <2>3, QuietConsumed DEF BeginPersist
<1>5. ASSUME w.task = "BeginTimer"
      PROVE  Consumed(m, h, w, result, BeginTimer(m, h, w, result))
  BY <1>0, <1>3, <1>5, CloseConsumed, QuietConsumed, Words DEF BeginTimer
<1> QED BY <1>1, <1>2, <1>4, <1>5

\* The outcomes of a statement.
LEMMA StatementMove ==
    ASSUME NEW m \in Machines, NEW h \in HostFacts, NEW w \in Works, NEW result,
           NEW snap, Fits(m, w, snap)
    PROVE  /\ w.task = "StatementBinding" =>
                 Consumed(m, h, w, result, StatementBinding(m, h, w, result))
           /\ w.task = "StatementExecute" =>
                 Consumed(m, h, w, result, StatementExecute(m, h, w, result))
<1>0. w.lane \in Lanes /\ w.cmd \in Commands /\ "failed" \in Endings
  BY WorkFields DEF Endings
<1>1. ASSUME w.task \in {"StatementBinding", "StatementExecute"}
      PROVE  Live(m.rec) /\ m.rec.phase \in HasDeadline /\ m.conn = "open"
  BY <1>1, LivePhases DEF Fits, At, HasDeadline
<1>2. ASSUME w.task = "StatementBinding"
      PROVE  Consumed(m, h, w, result, StatementBinding(m, h, w, result))
  <2> DEFINE v == [w EXCEPT !.task = "StatementExecute"]
             next == Wait(m, h, v)
  <2>1. /\ v \in Works /\ v.task = "StatementExecute" /\ v.lane = w.lane
        /\ v.cmd = w.cmd /\ v.check = w.check
    BY Words DEF Works
  <2>2. Goes(m, h, next, "StatementExecute", w.lane, w.cmd, w.check)
        /\ Keeps(m, next, m.conn)
    <3> HIDE DEF v
    <3>1. Goes(m, h, next, v.task, v.lane, v.cmd, v.check) /\ Keeps(m, next, m.conn)
      BY <2>1, WaitGoes
    <3> QED BY <2>1, <3>1
  <2>3. StatementBinding(m, h, w, result) =
          IF result # "ok" THEN BindingRefused(m, h, w, result)
          ELSE Recheck(m, h, w.lane, next)
    BY DEF StatementBinding
  <2> HIDE DEF next
  <2>4. result = "ok" => Consumed(m, h, w, result, next)
    BY <1>2, <2>2 DEF StatementMoves, Consumed
  <2>5. Consumed(m, h, w, result, BindingRefused(m, h, w, result))
    BY <1>1, <1>2, CloseConsumed
  <2> QED BY <1>1, <1>2, <2>3, <2>4, <2>5, RecheckConsumed
<1>3. ASSUME w.task = "StatementExecute"
      PROVE  Consumed(m, h, w, result, StatementExecute(m, h, w, result))
  <2> DEFINE n == [m EXCEPT !.conn = "open"]
             done == [n EXCEPT !.rec.seq = w.cmd.seq + 1,
                               !.rec.last = DigestOf(w.cmd),
                               !.rec.dirty = @ \/ w.cmd.pay = "write"]
             u == ReplyWork(w.lane, "result", "internal")
             v == [u EXCEPT !.expire_after = TRUE, !.restore = m.rec]
             o == Wait(done, h, v)
             seq == w.cmd.seq + 1
             last == DigestOf(w.cmd)
             dirty == m.rec.dirty \/ w.cmd.pay = "write"
             rec == [m.rec EXCEPT !.seq = seq, !.last = last, !.dirty = dirty]
  <2>1. n = m BY <1>1, <1>3 DEF Machines
  <2>2. done \in Machines /\ v \in Works BY StatementDoneType
  <2>3. done = [m EXCEPT !.rec = rec]
    <3>1. done = [m EXCEPT !.rec.seq = w.cmd.seq + 1,
                           !.rec.last = DigestOf(w.cmd),
                           !.rec.dirty = @ \/ w.cmd.pay = "write"]
      <4> HIDE DEF n
      <4> QED BY <2>1
    <3> QED BY <3>1 DEF Machines, Records
  <2>4. rec = DoneRecord(m.rec, w.cmd) BY DEF DoneRecord
  <2>5. /\ done.rec = rec /\ done.conn = m.conn /\ done.deferred = m.deferred
        /\ done.callback = m.callback
    <3> HIDE DEF rec, done
    <3> QED BY <2>3 DEF Machines
  <2>6. u \in Works /\ u.task = "Reply" /\ u.lane = w.lane /\ u.cmd = NoCmd /\ u.check = 0
    <3>1. u \in Works BY <1>0, ReplyWorkType, Words
    <3>2. u.task = "Reply" /\ u.lane = w.lane /\ u.cmd = NoCmd /\ u.check = 0
      BY BuiltFields
    <3> QED BY <3>1, <3>2
  <2>7. /\ v.task = "Reply" /\ v.expire_after = TRUE /\ v.restore = m.rec
        /\ v.lane = w.lane /\ v.cmd = NoCmd /\ v.check = 0
    <3> HIDE DEF u
    <3> QED BY <2>6 DEF Works
  <2>8. StatementExecute(m, h, w, result) =
          IF n.rollback_requested THEN ExpireClient(n, h, w.lane)
          ELSE IF result # "ok"
          THEN Close(n, h, w.lane, "failed",
                     IF result = "refused" THEN "limit" ELSE "database")
          ELSE IF ~Live(n.rec) THEN Fault(m)
          ELSE o
    BY DEF StatementExecute
  <2> HIDE DEF n, done, v, rec
  <2>9. /\ Goes(done, h, o, v.task, v.lane, v.cmd, v.check) /\ Keeps(done, o, done.conn)
        /\ o.m.work.expire_after = v.expire_after /\ o.m.work.restore = v.restore
    BY <2>2, WaitGoes
  <2> HIDE DEF o
  <2>10. result = "ok" => Consumed(m, h, w, result, o)
    <3>1. Goes(done, h, o, "Reply", w.lane, NoCmd, 0) BY <2>7, <2>9
    <3>2. Goes(m, h, o, "Reply", w.lane, NoCmd, 0) BY <2>5, <3>1 DEF Goes
    <3>3. o.m.rec = DoneRecord(m.rec, w.cmd) /\ o.m.conn = "open"
      BY <1>1, <1>3, <2>4, <2>5, <2>9 DEF Keeps
    <3>4. result = "ok" => StatementMoves(m, h, w, result, o)
      BY <1>3, <2>7, <2>9, <3>2, <3>3 DEF StatementMoves
    <3> QED BY <3>4 DEF Consumed
  <2>11. /\ Consumed(m, h, w, result, ExpireClient(m, h, w.lane))
         /\ \A reply \in Replies :
               Consumed(m, h, w, result, Close(m, h, w.lane, "failed", reply))
    BY <1>0, <1>1, <1>3, CloseConsumed
  <2> QED BY <2>1, <2>8, <2>10, <2>11, QuietConsumed, Words
<1> QED BY <1>2, <1>3

\* A validator is called, or the validation closed.
LEMMA IssueMoves ==
    ASSUME NEW m \in Machines, NEW h \in HostFacts, NEW w \in Works, Live(m.rec)
    PROVE  LET o == Issue(m, h, w)
           IN  \/ o.fault = TRUE \/ \E phase \in Endings : Closes(m, h, o, phase)
               \/ /\ m.conn = "open" /\ Keeps(m, o, "open")
                  /\ Goes(m, h, o, "Validator", w.lane, w.cmd, w.check)
<1> DEFINE n == [m EXCEPT !.cap = [check |-> w.check, next |-> 1]]
           v == [TaskWork("Validator", w.lane, w.cmd) EXCEPT !.check = w.check]
           o == Wait(n, h, v)
<1>0. w.lane \in Lanes /\ w.check \in Nat /\ "failed" \in Endings
  BY WorkFields DEF Endings
<1>1. n \in Machines
  <2>1. [check |-> w.check, next |-> 1] \in Capabilities BY <1>0 DEF Capabilities
  <2> QED BY <2>1 DEF Machines
<1>2. /\ n.rec = m.rec /\ n.conn = m.conn /\ n.deferred = m.deferred
      /\ n.callback = m.callback
  BY DEF Machines
<1>3. Issue(m, h, w) = IF h.due \/ m.conn # "open"
                       THEN Close(m, h, w.lane, "failed", "check_rejected") ELSE o
  BY DEF Issue
<1> HIDE DEF n
<1>4. Goes(n, h, o, "Validator", w.lane, w.cmd, w.check) /\ Keeps(n, o, n.conn)
  BY <1>0, <1>1, CheckGoes, Words
<1> HIDE DEF o
<1>5. m.conn = "open" => Goes(m, h, o, "Validator", w.lane, w.cmd, w.check)
                         /\ Keeps(m, o, "open")
  BY <1>2, <1>4 DEF Goes, Keeps
<1>6. LET c == Close(m, h, w.lane, "failed", "check_rejected")
      IN  c.fault = TRUE \/ Closes(m, h, c, "failed")
  BY <1>0, CloseMoves, Words
<1> QED BY <1>0, <1>3, <1>5, <1>6

\* A verdict goes on or closes.
LEMMA VerdictMove ==
    ASSUME NEW m \in Machines, NEW h \in HostFacts, NEW w \in Works, NEW allowed,
           Live(m.rec)
    PROVE  LET o == Verdict(m, h, w, allowed)
           IN  \/ o.fault = TRUE \/ \E phase \in Endings : Closes(m, h, o, phase)
               \/ VerdictMoves(m, h, w, allowed, o)
<1>0. w.lane \in Lanes /\ w.cmd \in Commands /\ w.check \in Nat /\ "failed" \in Endings
  BY WorkFields DEF Endings
<1>1. CASE ~allowed
  BY <1>0, <1>1, CloseMoves, Words DEF Verdict
<1>2. CASE allowed /\ w.check < Checks
  <2> DEFINE v == [w EXCEPT !.check = @ + 1]
             o == Issue(m, h, v)
  <2>1. v \in Works /\ v.lane = w.lane /\ v.cmd = w.cmd /\ v.check = w.check + 1
    BY <1>0 DEF Works
  <2>2. Verdict(m, h, w, allowed) = o BY <1>2 DEF Verdict
  <2> HIDE DEF v
  <2>3. \/ o.fault = TRUE \/ \E phase \in Endings : Closes(m, h, o, phase)
        \/ /\ m.conn = "open" /\ Keeps(m, o, "open")
           /\ Goes(m, h, o, "Validator", v.lane, v.cmd, v.check)
    BY <2>1, IssueMoves
  <2> HIDE DEF o
  <2>4. Goes(m, h, o, "Validator", v.lane, v.cmd, v.check) =>
           Goes(m, h, o, "Validator", w.lane, w.cmd, w.check + 1)
    BY <2>1
  <2> QED BY <1>2, <2>2, <2>3, <2>4 DEF VerdictMoves
<1>3. CASE allowed /\ ~(w.check < Checks)
  <2> DEFINE o == Wait(m, h, TaskWork("CommitBinding", w.lane, w.cmd))
  <2>1. Verdict(m, h, w, allowed) = o BY <1>3 DEF Verdict
  <2>2. Goes(m, h, o, "CommitBinding", w.lane, w.cmd, 0) /\ Keeps(m, o, m.conn)
    BY <1>0, TaskGoes, Words
  <2> HIDE DEF o
  <2> QED BY <1>3, <2>1, <2>2 DEF VerdictMoves
<1> QED BY <1>1, <1>2, <1>3

\* The outcome of a validator call.
LEMMA VerdictArrivedMove ==
    ASSUME NEW m \in Machines, NEW h \in HostFacts, NEW w \in Works, NEW result,
           w.task = "Validator", m.rec.phase \in HasDeadline, Live(m.rec)
    PROVE  Consumed(m, h, w, result, VerdictArrived(m, h, w, result = "allow"))
<1> DEFINE allowed == result = "allow"
           n == [m EXCEPT !.cap = NoCap]
           v == [w EXCEPT !.id = 0, !.task = "Verdict", !.allowed = allowed]
           p == [n EXCEPT !.deferred = v]
<1>0. allowed \in BOOLEAN OBVIOUS
<1>1. /\ n \in Machines /\ n.rec = m.rec /\ n.conn = m.conn /\ n.deferred = m.deferred
      /\ n.callback = m.callback /\ n.work = m.work
  BY MachineUpdates DEF Machines
<1>2. VerdictArrived(m, h, w, allowed) =
        IF CallbackExecuting(n) THEN Quiet(p) ELSE Verdict(n, h, w, allowed)
  BY DEF VerdictArrived
<1>3. CallbackExecuting(n) <=> CallbackExecuting(m) BY <1>1 DEF CallbackExecuting
<1> HIDE DEF allowed
<1>4. /\ v.task = "Verdict" /\ v.allowed = allowed /\ v.lane = w.lane
      /\ v.cmd = w.cmd /\ v.check = w.check
  BY <1>0 DEF Works
<1> HIDE DEF n, v
<1>5. CASE CallbackExecuting(m)
  <2>1. /\ p.rec = m.rec /\ p.conn = m.conn /\ p.work = m.work
        /\ p.callback = m.callback /\ p.deferred = v
    BY <1>1 DEF Machines
  <2> HIDE DEF p
  <2> DEFINE o == Quiet(p)
  <2>2. o.m = p /\ o.await = NoEffect /\ o.reset = FALSE BY ReplyKeeps
  <2> HIDE DEF o
  <2>3. Postpones(m, w, allowed, o)
    BY <1>4, <1>5, <2>1, <2>2 DEF Postpones, Keeps
  <2>4. CommitMoves(m, h, w, result, o) BY <2>3 DEF CommitMoves, allowed
  <2>5. Consumed(m, h, w, result, o) BY <2>4 DEF Consumed
  <2>6. VerdictArrived(m, h, w, allowed) = o BY <1>2, <1>3, <1>5 DEF o
  <2> QED BY <2>5, <2>6 DEF allowed
<1>6. CASE ~CallbackExecuting(m)
  <2> DEFINE o == Verdict(n, h, w, allowed)
  <2>1. Live(n.rec) BY <1>1
  <2>2. \/ o.fault = TRUE \/ \E phase \in Endings : Closes(n, h, o, phase)
        \/ VerdictMoves(n, h, w, allowed, o)
    BY <1>1, <2>1, VerdictMove
  <2> HIDE DEF o
  <2>3. \A phase \in Endings : Closes(n, h, o, phase) => Closes(m, h, o, phase)
    BY <1>1, <1>3 DEF Closes, Keeps, Phased
  <2>4. VerdictMoves(n, h, w, allowed, o) => VerdictMoves(m, h, w, allowed, o)
    BY <1>1 DEF VerdictMoves, Goes, Keeps
  <2>5. VerdictMoves(m, h, w, allowed, o) => CommitMoves(m, h, w, result, o)
    BY <1>6 DEF CommitMoves, allowed
  <2>6. Consumed(m, h, w, result, o) BY <2>2, <2>3, <2>4, <2>5 DEF Consumed
  <2>7. VerdictArrived(m, h, w, allowed) = o BY <1>2, <1>3, <1>6 DEF o
  <2> QED BY <2>6, <2>7 DEF allowed
<1> QED BY <1>5, <1>6

\* The outcome of a commit's binding check.
LEMMA CommitBindingMoves ==
    ASSUME NEW m \in Machines, NEW h \in HostFacts, NEW w \in Works, NEW result,
           w.task = "CommitBinding", m.rec.phase \in HasDeadline, Live(m.rec)
    PROVE  Consumed(m, h, w, result, CommitBinding(m, h, w, result))
<1>0. w.lane \in Lanes /\ w.cmd \in Commands /\ "failed" \in Endings
  BY WorkFields DEF Endings
<1> DEFINE n == SetPhase(m, "validating")
           v == [TaskWork("ValidatingPersist", w.lane, w.cmd) EXCEPT !.check = 1]
           start == Wait(n, h, v)
           p == SetPhase(m, "committing")
           announce == Wait(p, h, TaskWork("CommitPersist", w.lane, w.cmd))
           next == IF w.check = 1 THEN StartChecks(m, h, w) ELSE announce
<1>1. /\ n \in Machines /\ n.rec = [m.rec EXCEPT !.phase = "validating"]
      /\ n.conn = m.conn /\ n.deferred = m.deferred /\ n.callback = m.callback
  BY SetPhaseMoves, Words
<1>2. /\ p \in Machines /\ p.rec = [m.rec EXCEPT !.phase = "committing"]
      /\ p.conn = m.conn /\ p.deferred = m.deferred /\ p.callback = m.callback
  BY SetPhaseMoves, Words
<1>3. StartChecks(m, h, w) =
        IF ~Triggered(m.rec) THEN Fault(m)
        ELSE IF ~(1..Checks \subseteq Configured)
        THEN Close(m, h, w.lane, "failed", "check_rejected")
        ELSE start
  BY DEF StartChecks
<1>4. CommitBinding(m, h, w, result) =
        IF result # "ok" THEN BindingRefused(m, h, w, result)
        ELSE Recheck(m, h, w.lane, next)
  BY DEF CommitBinding
<1> HIDE DEF n, p
<1>5. Goes(n, h, start, "ValidatingPersist", w.lane, w.cmd, 1) /\ Keeps(n, start, n.conn)
  BY <1>1, CheckGoes, Words
<1>6. Goes(p, h, announce, "CommitPersist", w.lane, w.cmd, 0)
      /\ Keeps(p, announce, p.conn)
  BY <1>0, <1>2, TaskGoes, Words
<1> HIDE DEF start, announce
<1>7. result = "ok" /\ w.check = 1 /\ Triggered(m.rec) =>
         Consumed(m, h, w, result, start)
  <2>1. Goes(m, h, start, "ValidatingPersist", w.lane, w.cmd, 1)
        /\ Phased(m, start, "validating", m.conn)
    BY <1>1, <1>5 DEF Goes, Keeps, Phased
  <2>2. result = "ok" /\ w.check = 1 /\ Triggered(m.rec) =>
           CommitMoves(m, h, w, result, start)
    BY <2>1 DEF CommitMoves
  <2> QED BY <2>2 DEF Consumed
<1>8. result = "ok" /\ w.check # 1 => Consumed(m, h, w, result, announce)
  <2>1. Goes(m, h, announce, "CommitPersist", w.lane, w.cmd, 0)
        /\ Phased(m, announce, "committing", m.conn)
    BY <1>2, <1>6 DEF Goes, Keeps, Phased
  <2>2. result = "ok" /\ w.check # 1 => CommitMoves(m, h, w, result, announce)
    BY <2>1 DEF CommitMoves
  <2> QED BY <2>2 DEF Consumed
<1>9. /\ Consumed(m, h, w, result, Close(m, h, w.lane, "failed", "check_rejected"))
      /\ Consumed(m, h, w, result, BindingRefused(m, h, w, result))
  BY <1>0, CloseConsumed, Words
<1>10. result = "ok" => Consumed(m, h, w, result, next)
  BY <1>3, <1>7, <1>8, <1>9, QuietConsumed
<1> HIDE DEF next
<1> QED BY <1>4, <1>9, <1>10, RecheckConsumed

\* The outcomes of the persists of a commit.
LEMMA CommitPersistMoves ==
    ASSUME NEW m \in Machines, NEW h \in HostFacts, NEW w \in Works, NEW result,
           m.rec.phase \in HasDeadline, Live(m.rec)
    PROVE  /\ w.task = "ValidatingPersist" =>
                 Consumed(m, h, w, result, ValidatingPersist(m, h, w, result))
           /\ w.task = "CommitPersist" =>
                 Consumed(m, h, w, result, CommitPersist(m, h, w, result))
<1>0. /\ w.lane \in Lanes /\ w.cmd \in Commands
      /\ "failed" \in Endings /\ "expired" \in Endings
  BY WorkFields DEF Endings
<1>1. \A phase \in Endings, reply \in Replies :
         Consumed(m, h, w, result, Close(m, h, w.lane, phase, reply))
  BY <1>0, CloseConsumed
<1>2. ASSUME w.task = "ValidatingPersist"
      PROVE  Consumed(m, h, w, result, ValidatingPersist(m, h, w, result))
  <2> DEFINE o == Issue(m, h, w)
  <2>1. \/ o.fault = TRUE \/ \E phase \in Endings : Closes(m, h, o, phase)
        \/ /\ m.conn = "open" /\ Keeps(m, o, "open")
           /\ Goes(m, h, o, "Validator", w.lane, w.cmd, w.check)
    BY IssueMoves
  <2>2. ValidatingPersist(m, h, w, result) =
          IF result # "ok" THEN Close(m, h, w.lane, "failed", "internal")
          ELSE IF Expired(m, h) \/ m.rollback_requested
          THEN Close(m, h, w.lane, "expired", "check_rejected")
          ELSE o
    BY DEF ValidatingPersist
  <2> HIDE DEF o
  <2>3. result = "ok" => Consumed(m, h, w, result, o)
    BY <1>2, <2>1 DEF Consumed, CommitMoves
  <2> QED BY <1>0, <1>1, <2>2, <2>3, Words
<1>3. ASSUME w.task = "CommitPersist"
      PROVE  Consumed(m, h, w, result, CommitPersist(m, h, w, result))
  <2> DEFINE n == [m EXCEPT !.conn = "closing"]
             o == Wait(n, h, TaskWork("CommitSend", w.lane, w.cmd))
  <2>1. /\ n \in Machines /\ n.rec = m.rec /\ n.conn = "closing"
        /\ n.deferred = m.deferred /\ n.callback = m.callback
    BY MachineUpdates, Words DEF Machines
  <2>2. CommitPersist(m, h, w, result) =
          IF result # "ok" THEN Close(m, h, w.lane, "failed", "internal")
          ELSE IF m.rec.phase \notin HasDeadline THEN Fault(m)
          ELSE IF h.due \/ m.rollback_requested
          THEN Close(m, h, w.lane, "expired", "unavailable")
          ELSE o
    BY DEF CommitPersist
  <2> HIDE DEF n
  <2>3. Goes(n, h, o, "CommitSend", w.lane, w.cmd, 0) /\ Keeps(n, o, n.conn)
    BY <1>0, <2>1, TaskGoes, Words
  <2> HIDE DEF o
  <2>4. Goes(m, h, o, "CommitSend", w.lane, w.cmd, 0) /\ Keeps(m, o, "closing")
    BY <2>1, <2>3 DEF Goes, Keeps
  <2>5. result = "ok" => Consumed(m, h, w, result, o)
    BY <1>3, <2>4 DEF Consumed, CommitMoves
  <2> QED BY <1>0, <1>1, <2>2, <2>5, QuietConsumed, Words
<1> QED BY <1>2, <1>3

\* A finished terminal command leaves its final record.
LEMMA CompleteMoves ==
    ASSUME NEW m \in Machines, NEW phase \in {"committed", "rolled_back"},
           NEW cmd \in Commands, Live(m.rec)
    PROVE  LET n == Complete(m, phase, cmd)
           IN  /\ n \in Machines /\ n.rec = FinalRecord(m.rec, cmd, phase)
               /\ n.conn = m.conn /\ n.deferred = m.deferred
               /\ n.callback = m.callback /\ n.work = m.work
<1> DEFINE d == DigestOf(cmd)
           next == m.rec.seq + 1
           rec == [m.rec EXCEPT !.seq = next, !.last = d]
           p == [m EXCEPT !.rec = rec]
<1>0. phase \in Phases /\ phase # "discarded" BY Words
<1>1. d \in Digests BY DEF DigestOf, Digests, Commands
<1>2. m.rec \in Records /\ next \in Nat BY MachineFields
<1>3. Complete(m, phase, cmd) = SetPhase([m EXCEPT !.rec.seq = @ + 1, !.rec.last = d],
                                         phase)
  BY DEF Complete
<1>4. [m EXCEPT !.rec.seq = @ + 1, !.rec.last = d] = p
  <2> HIDE DEF d
  <2> QED BY DEF Machines, Records
<1>5. FinalRecord(m.rec, cmd, phase) = [rec EXCEPT !.phase = phase]
  <2> HIDE DEF d
  <2>1. FinalRecord(m.rec, cmd, phase) =
          [m.rec EXCEPT !.seq = next, !.last = d, !.phase = phase]
    BY DEF FinalRecord, d
  <2> QED BY <1>2, <2>1 DEF Records
<1> HIDE DEF d, next
<1>6. rec \in Records /\ rec.phase = m.rec.phase BY <1>1, <1>2 DEF Records
<1> HIDE DEF rec
<1>7. /\ p \in Machines /\ p.rec = rec /\ p.conn = m.conn /\ p.work = m.work
      /\ p.deferred = m.deferred /\ p.callback = m.callback
  BY <1>6, MachineUpdates DEF Machines
<1>8. Live(p.rec) BY <1>6, <1>7 DEF Live
<1> HIDE DEF p
<1> DEFINE q == SetPhase(p, phase)
<1>9. Complete(m, phase, cmd) = q BY <1>3, <1>4
<1>10. /\ q \in Machines /\ q.rec = [p.rec EXCEPT !.phase = phase]
       /\ q.conn = p.conn /\ q.work = p.work /\ q.deferred = p.deferred
       /\ q.callback = p.callback
  BY <1>0, <1>7, <1>8, SetPhaseMoves
<1> HIDE DEF q
<1>11. q.rec = FinalRecord(m.rec, cmd, phase) BY <1>5, <1>7, <1>10
<1> QED BY <1>7, <1>9, <1>10, <1>11

\* The answers that settle a transaction leave a persist before their reply.
LEMMA FinalAnswer ==
    ASSUME NEW m \in Machines, NEW h \in HostFacts, NEW w \in Works,
           NEW phase \in {"committed", "rolled_back"}, NEW reply \in Replies,
           NEW failure \in Replies, Live(m.rec)
    PROVE  LET n == [m EXCEPT !.conn = "none"]
               o == Wait(Complete(n, phase, w.cmd), h, ReplyWork(w.lane, reply, failure))
           IN  /\ Answers(m, h, o) /\ o.m.rec = FinalRecord(m.rec, w.cmd, phase)
               /\ o.m.conn = "none"
<1> DEFINE n == [m EXCEPT !.conn = "none"]
           p == Complete(n, phase, w.cmd)
           o == Wait(p, h, ReplyWork(w.lane, reply, failure))
<1>0. w.lane \in Lanes /\ w.cmd \in Commands BY WorkFields
<1>1. /\ n \in Machines /\ n.rec = m.rec /\ n.conn = "none"
      /\ n.deferred = m.deferred /\ n.callback = m.callback
  BY MachineUpdates, Words DEF Machines
<1> HIDE DEF n
<1>2. /\ p \in Machines /\ p.rec = FinalRecord(n.rec, w.cmd, phase)
      /\ p.conn = n.conn /\ p.deferred = n.deferred /\ p.callback = n.callback
  <2>1. Live(n.rec) BY <1>1
  <2> QED BY <1>0, <1>1, <2>1, CompleteMoves
<1> HIDE DEF p
<1>3. Answers(p, h, o) /\ Keeps(p, o, p.conn) BY <1>0, <1>2, ReplyAnswers
<1> HIDE DEF o
<1>4. /\ Answers(m, h, o) /\ o.m.rec = FinalRecord(m.rec, w.cmd, phase)
      /\ o.m.conn = "none"
  BY <1>1, <1>2, <1>3 DEF Answers, Keeps
<1> QED BY <1>4 DEF o, p, n

\* The outcomes of COMMIT.
LEMMA CommitSendMoves ==
    ASSUME NEW m \in Machines, NEW h \in HostFacts, NEW w \in Works, NEW result,
           w.task = "CommitSend", m.rec.phase \in HasDeadline, Live(m.rec), m.conn # "open"
    PROVE  Consumed(m, h, w, result, CommitSend(m, h, w, result))
<1> DEFINE n == [m EXCEPT !.conn = "none"]
           done == Wait(Complete(n, "committed", w.cmd), h,
                        ReplyWork(w.lane, "committed", "committed"))
           closed == Close(n, h, w.lane, "failed", "unavailable")
           p == SetPhase(n, "commit_unknown")
           unsure == Wait(p, h, ReplyWork(w.lane, "outcome_unknown", "outcome_unknown"))
<1>0. w.lane \in Lanes /\ "failed" \in Endings BY WorkFields DEF Endings
<1>1. /\ n \in Machines /\ n.rec = m.rec /\ n.conn = "none"
      /\ n.deferred = m.deferred /\ n.callback = m.callback
  BY MachineUpdates, Words DEF Machines
<1>2. CommitSend(m, h, w, result) =
        CASE result = "ok" -> IF ~Live(n.rec) THEN Fault(m) ELSE done
          [] result = "not_committed" -> closed
          [] OTHER -> unsure
  BY DEF CommitSend
<1>3. Answers(m, h, done) /\ done.m.rec = FinalRecord(m.rec, w.cmd, "committed")
      /\ done.m.conn = "none"
  BY FinalAnswer, Words
<1> HIDE DEF n
<1>4. Live(n.rec) BY <1>1
<1>5. closed.fault = TRUE \/ Closes(n, h, closed, "failed")
  BY <1>0, <1>1, <1>4, CloseMoves, Words
<1>6. /\ p \in Machines /\ p.rec = [m.rec EXCEPT !.phase = "commit_unknown"]
      /\ p.conn = "none" /\ p.deferred = m.deferred /\ p.callback = m.callback
  BY <1>1, <1>4, SetPhaseMoves, Words
<1> HIDE DEF p
<1>7. Answers(p, h, unsure) /\ Keeps(p, unsure, p.conn)
  BY <1>0, <1>6, ReplyAnswers, Words
<1> HIDE DEF done, closed, unsure
<1>8. Answers(m, h, unsure) /\ Phased(m, unsure, "commit_unknown", "none")
  BY <1>6, <1>7 DEF Answers, Keeps, Phased
<1>9. Closes(n, h, closed, "failed") => Closes(m, h, closed, "failed")
  BY <1>1 DEF Closes, Keeps, Phased, CallbackExecuting
<1>10. CASE result = "ok"
  <2>1. SettleMoves(m, h, w, result, done) BY <1>3, <1>10 DEF SettleMoves
  <2>2. CommitSend(m, h, w, result) = done BY <1>2, <1>4, <1>10
  <2> QED BY <2>1, <2>2 DEF Consumed
<1>11. CASE result = "not_committed"
  <2>1. CommitSend(m, h, w, result) = closed BY <1>2, <1>11
  <2> QED BY <1>0, <1>5, <1>9, <2>1 DEF Consumed
<1>12. CASE result \notin {"ok", "not_committed"}
  <2>1. SettleMoves(m, h, w, result, unsure) BY <1>8, <1>12 DEF SettleMoves
  <2>2. CommitSend(m, h, w, result) = unsure BY <1>2, <1>12
  <2> QED BY <2>1, <2>2 DEF Consumed
<1> QED BY <1>10, <1>11, <1>12

\* The outcomes of a rollback.
LEMMA RollbackMoves ==
    ASSUME NEW m \in Machines, NEW h \in HostFacts, NEW w \in Works, NEW result,
           Live(m.rec)
    PROVE  /\ w.task = "RollbackBinding" /\ m.rec.phase \in HasDeadline =>
                 Consumed(m, h, w, result, RollbackBinding(m, h, w, result))
           /\ w.task = "RollbackSend" => Consumed(m, h, w, result, RollbackSend(m, h, w))
           /\ w.task = "CloseRollback" /\ w.phase \in Endings =>
                 Consumed(m, h, w, result, CloseRollback(m, h, w))
<1>0. /\ w.lane \in Lanes /\ w.cmd \in Commands /\ w.reply \in Replies
      /\ "failed" \in Endings
  BY WorkFields DEF Endings
<1>1. ASSUME w.task = "RollbackBinding", m.rec.phase \in HasDeadline
      PROVE  Consumed(m, h, w, result, RollbackBinding(m, h, w, result))
  <2> DEFINE n == [m EXCEPT !.conn = "closing"]
             next == Wait(n, h, TaskWork("RollbackSend", w.lane, w.cmd))
  <2>1. /\ n \in Machines /\ n.rec = m.rec /\ n.conn = "closing"
        /\ n.deferred = m.deferred /\ n.callback = m.callback
    BY MachineUpdates, Words DEF Machines
  <2>2. RollbackBinding(m, h, w, result) =
          IF result # "ok" THEN BindingRefused(m, h, w, result)
          ELSE Recheck(m, h, w.lane, next)
    BY DEF RollbackBinding
  <2> HIDE DEF n
  <2>3. Goes(n, h, next, "RollbackSend", w.lane, w.cmd, 0) /\ Keeps(n, next, n.conn)
    BY <1>0, <2>1, TaskGoes, Words
  <2> HIDE DEF next
  <2>4. Goes(m, h, next, "RollbackSend", w.lane, w.cmd, 0) /\ Keeps(m, next, "closing")
    BY <2>1, <2>3 DEF Goes, Keeps
  <2>5. result = "ok" => Consumed(m, h, w, result, next)
    BY <1>1, <2>4 DEF Consumed, SettleMoves
  <2>6. Consumed(m, h, w, result, BindingRefused(m, h, w, result))
    BY <1>1, CloseConsumed
  <2> QED BY <1>1, <2>2, <2>5, <2>6, RecheckConsumed
<1>2. ASSUME w.task = "RollbackSend"
      PROVE  Consumed(m, h, w, result, RollbackSend(m, h, w))
  <2> DEFINE n == [m EXCEPT !.conn = "none"]
             o == Wait(Complete(n, "rolled_back", w.cmd), h,
                       ReplyWork(w.lane, "rolled_back", "internal"))
  <2>1. RollbackSend(m, h, w) = IF ~Live(n.rec) THEN Fault(m) ELSE o
    BY DEF RollbackSend
  <2>2. n.rec = m.rec BY DEF Machines
  <2>3. Answers(m, h, o) /\ o.m.rec = FinalRecord(m.rec, w.cmd, "rolled_back")
        /\ o.m.conn = "none"
    BY FinalAnswer, Words
  <2> HIDE DEF o, n
  <2>4. Consumed(m, h, w, result, o) BY <1>2, <2>3 DEF Consumed, SettleMoves
  <2> QED BY <2>1, <2>2, <2>4
<1>3. ASSUME w.task = "CloseRollback", w.phase \in Endings
      PROVE  Consumed(m, h, w, result, CloseRollback(m, h, w))
  <2> DEFINE n == [m EXCEPT !.conn = "none"]
             p == SetPhase(n, w.phase)
             failure == IF w.reply = "none" THEN "none" ELSE "internal"
             o == Wait(p, h, ReplyWork(w.lane, w.reply, failure))
  <2>1. /\ n \in Machines /\ n.rec = m.rec /\ n.conn = "none"
        /\ n.deferred = m.deferred /\ n.callback = m.callback
    BY MachineUpdates, Words DEF Machines
  <2>2. CloseRollback(m, h, w) = PersistPhase(n, h, w.lane, w.phase, w.reply)
    BY DEF CloseRollback
  <2>3. failure \in Replies BY Words
  <2>4. CloseRollback(m, h, w) = o
    <3> HIDE DEF n
    <3> QED BY <2>1, <2>2 DEF PersistPhase, Live
  <2> HIDE DEF n, failure
  <2>5. Live(n.rec) /\ w.phase \in Phases /\ w.phase # "discarded"
    BY <1>3, <2>1 DEF Endings, Phases, Terminal
  <2>6. /\ p \in Machines /\ p.rec = [m.rec EXCEPT !.phase = w.phase]
        /\ p.conn = "none" /\ p.deferred = m.deferred /\ p.callback = m.callback
    BY <2>1, <2>5, SetPhaseMoves
  <2> HIDE DEF p
  <2>7. Answers(p, h, o) /\ Keeps(p, o, p.conn) BY <1>0, <2>3, <2>6, ReplyAnswers
  <2> HIDE DEF o
  <2>8. Answers(m, h, o) /\ Phased(m, o, w.phase, "none")
    BY <2>6, <2>7 DEF Answers, Keeps, Phased
  <2>9. SettleMoves(m, h, w, result, o) BY <1>3, <2>8 DEF SettleMoves
  <2> QED BY <2>4, <2>9 DEF Consumed
<1> QED BY <1>1, <1>2, <1>3

\* The outcome of the persist before a reply.
LEMMA ReplyMoves ==
    ASSUME NEW m \in Machines, NEW h \in HostFacts, NEW w \in Works, NEW result,
           w.task = "Reply", 
           w.expire_after => /\ m.rec.phase \in HasDeadline /\ Live(m.rec)
                             /\ Live(w.restore)
    PROVE  Consumed(m, h, w, result, Reply(m, h, w, result))
<1>0. /\ w.lane \in Lanes /\ w.failure \in Replies /\ w.restore \in Records
      /\ "failed" \in Endings /\ "expired" \in Endings
  BY WorkFields DEF Endings
<1>1. CASE result = "ok" /\ w.expire_after /\ m.rollback_requested
  <2> DEFINE c == Close(m, h, "background", "expired", "none")
             o == Respond(w.reply, c)
  <2>1. c.fault = TRUE \/ Closes(m, h, c, "expired")
    BY <1>0, <1>1, CloseMoves, Words
  <2>2. c \in Outputs BY CloseType, Words
  <2>3. Reply(m, h, w, result) = o BY <1>1 DEF Reply
  <2> HIDE DEF c
  <2>4. o.m = c.m /\ o.await = c.await /\ o.reset = c.reset /\ o.fault = c.fault
    BY <2>2, ReplyKeeps
  <2> HIDE DEF o
  <2>5. Closes(m, h, c, "expired") => Closes(m, h, o, "expired")
    BY <2>4 DEF Closes, Keeps, Phased
  <2> QED BY <1>0, <1>1, <2>1, <2>3, <2>4, <2>5 DEF Consumed
<1>2. CASE result = "ok" /\ ~(w.expire_after /\ m.rollback_requested)
  BY <1>2, QuietConsumed DEF Reply
<1>3. CASE result # "ok" /\ w.expire_after
  <2> DEFINE n == [m EXCEPT !.rec = w.restore]
             o == Close(n, h, w.lane, "failed", w.failure)
  <2>1. n \in Machines /\ n.rec = w.restore BY <1>0, MachineUpdates DEF Machines
  <2>2. Live(n.rec) BY <1>3, <2>1
  <2>3. Reply(m, h, w, result) = o BY <1>3 DEF Reply
  <2>4. o.fault = TRUE \/ Closes(n, h, o, "failed")
    <3> HIDE DEF n
    <3> QED BY <1>0, <2>1, <2>2, CloseMoves
  <2> HIDE DEF o
  <2>5. o.fault = TRUE \/ Closes([m EXCEPT !.rec = w.restore], h, o, "failed")
    BY <2>4
  <2> HIDE DEF n
  <2> QED BY <1>0, <1>3, <2>3, <2>5 DEF Consumed
<1>4. CASE result # "ok" /\ ~w.expire_after
  BY <1>4, QuietConsumed DEF Reply
<1> QED BY <1>1, <1>2, <1>3, <1>4

\* Every outcome a lane waited for is a move.
LEMMA ConsumeMoves ==
    ASSUME NEW m \in Machines, NEW h \in HostFacts, NEW w \in Works, NEW result,
           NEW snap, Fits(m, w, snap)
    PROVE  Consumed(m, h, w, result, Consume(m, h, w, result))
<1>1. ASSUME w.task \in {"CommitBinding", "ValidatingPersist", "Validator",
                         "CommitPersist", "CommitSend", "RollbackBinding",
                         "RollbackSend", "CloseRollback"}
      PROVE  Live(m.rec) /\ (w.task # "CloseRollback" => m.rec.phase \in HasDeadline)
  BY <1>1, LivePhases DEF Fits, At, HasDeadline, Endings
<1>2. w.task = "CloseRollback" => w.phase \in Endings BY DEF Fits
<1>3. w.task = "CommitSend" => m.conn # "open" BY DEF Fits, At
<1>4. w.task = "Reply" /\ w.expire_after => m.rec.phase \in HasDeadline /\ Live(m.rec)
                                            /\ Live(w.restore)
  BY DEF Fits, At, Live, HasDeadline
<1>5. CASE w.task \in {"BeginBinding", "BeginOpen", "BeginPersist", "BeginTimer"}
  BY <1>5, BeginBindingMoves, BeginLaterMoves DEF Consume
<1>6. CASE w.task \in {"StatementBinding", "StatementExecute"}
  BY <1>6, StatementMove DEF Consume
<1>7. CASE w.task \in {"CommitBinding", "ValidatingPersist", "Validator",
                       "CommitPersist", "CommitSend"}
  BY <1>1, <1>3, <1>7, CommitBindingMoves, CommitPersistMoves, VerdictArrivedMove,
     CommitSendMoves DEF Consume
<1>8. CASE w.task \in {"RollbackBinding", "RollbackSend", "CloseRollback"}
  BY <1>1, <1>2, <1>8, RollbackMoves DEF Consume
<1>9. CASE w.task \in {"Reply", "ResetAfterPersist"}
  BY <1>4, <1>9, ReplyMoves, QuietConsumed DEF Consume
<1>10. CASE w.task \in {"none", "Verdict"} BY <1>10, QuietConsumed DEF Consume
<1> QED BY <1>5, <1>6, <1>7, <1>8, <1>9, <1>10, WorkFields DEF Tasks

(***************************************************************************)
(* What a step may do, whatever its event                                  *)
(***************************************************************************)
BeginTasks == {"BeginBinding", "BeginOpen", "BeginPersist", "BeginTimer"}

\* The event is the outcome the work in progress waits for.
Answered(m, ev) ==
    HasWork(m) /\ m.work.id = ev.id /\ AwaitedBy(m.work.task) = ev.type
AnsweredAs(m, ev, task, result) ==
    Answered(m, ev) /\ m.work.task = task /\ ev.result = result

\* The phases one step leads to.
Leads(phase) ==
    CASE phase = "absent"     -> {"absent", "active"}
      [] phase = "active"     -> {"active", "validating", "committing"} \cup Endings
      [] phase = "validating" -> {"validating", "committing"} \cup Endings
      [] phase = "committing" -> {"committing", "commit_unknown", "committed"}
                                 \cup Endings
      [] OTHER                -> {}

\* The record: a final one stays; `committed` follows COMMIT's success, and the
\* record begins with a connection.
RecordSteps(m, ev, o) ==
    /\ m.rec.phase \in Terminal => o.m.rec = m.rec
    /\ m.rec.phase \notin Terminal => o.m.rec.phase \in Leads(m.rec.phase)
    /\ m.rec.phase # "committed" /\ o.m.rec.phase = "committed" =>
          AnsweredAs(m, ev, "CommitSend", "ok")
    /\ m.rec.phase = "absent" /\ o.m.rec.phase = "active" =>
          /\ AnsweredAs(m, ev, "BeginOpen", "ok") /\ o.m.work.task = "BeginPersist"
          /\ o.m.rec.seq = 1 /\ o.m.rec.dirty = FALSE
    /\ o.await.type = "persist" => o.m.rec.phase # "absent"

\* A record that is not stored yet ends, or is stored.
StartSteps(m, ev, o) ==
    m.rec.phase = "active" /\ m.work.task \in {"BeginPersist", "CloseRollback"} =>
        /\ \/ o.m.rec.phase \in Endings /\ o.m.conn # "open"
           \/ /\ o.m.rec.phase = "active"
              /\ o.m.work.task \in {"BeginPersist", "CloseRollback"}
           \/ AnsweredAs(m, ev, "BeginPersist", "ok")
        /\ \/ o.await.type \in {"none", "persist"}
           \/ Answered(m, ev) /\ m.work.task = "BeginPersist"

\* The connection is used while it is open, and closed by what ends it.
ConnSteps(m, ev, o) ==
    /\ o.m.conn = "open" => m.conn = "open" \/ AnsweredAs(m, ev, "BeginOpen", "ok")
    /\ o.await.type \in {"execute", "callValidator", "rollback", "commit"} =>
          m.conn = "open"
    /\ o.await.type \in {"rollback", "commit"} => o.m.conn = "closing"
    /\ o.await.type = "open" =>
          /\ AnsweredAs(m, ev, "BeginBinding", "ok")
          /\ m.rec.phase = "absent" /\ o.m.rec.phase = "absent" /\ o.m.conn = "opening"

\* New work waits for the effect the step asks for, under its fresh id.
WorkSteps(m, h, ev, o) ==
    /\ HasWork(o.m) => o.m.work = m.work \/ o.m.work.id = h.id
    /\ o.m.work.task \in BeginTasks =>
          \/ o.m.work = m.work
          \/ ev.type = "forwarded" /\ ev.cmd.kind = "begin"
          \/ Answered(m, ev) /\ m.work.task \in BeginTasks
    /\ o.m.work.task = "CommitSend" =>
          o.m.work = m.work \/ (o.await.type = "commit" /\ o.m.work.id = h.id)
    /\ o.await.type = "commit" => o.m.work.task = "CommitSend" /\ o.await.arg # 0
    /\ o.await.type = "rollback" => o.m.work.task \in {"RollbackSend", "CloseRollback"}
    /\ o.await.type = "none" \/ o.await.id = h.id

\* The event is the outcome a query waits for.
CallbackAnswered(m, ev) ==
    /\ m.callback.task # "none" /\ m.callback.id = ev.id
    /\ CallbackAwaits(m.callback.task) = ev.type

\* Whatever used the connection is what the event answers.
QueryFree(m, ev) == CallbackExecuting(m) => CallbackAnswered(m, ev)
Free(m, ev) == /\ m.work.task = "StatementExecute" => Answered(m, ev)
               /\ QueryFree(m, ev)

\* The effect with this id and argument executes m's statement, or its query.
Executes(m, id, arg) ==
    \/ m.work.task = "StatementExecute" /\ m.work.id = id /\ m.work.cmd.seq = arg
    \/ CallbackExecuting(m) /\ m.callback.id = id /\ arg = 0

\* The connection is used by one effect at a time: a step that asks for its use
\* finds it free, and what uses it keeps it until it is answered.
UseSteps(m, h, ev, o) ==
    /\ o.await.type = "execute" => Executes(o.m, h.id, o.await.arg)
    /\ o.await.type \in {"execute", "commit", "rollback"} => Free(m, ev)
    /\ o.await.type = "commit" =>
          /\ AnsweredAs(m, ev, "CommitPersist", "ok")
          /\ o.m.rec = m.rec /\ o.await.arg = m.rec.seq
    /\ o.await.type = "callValidator" =>
          /\ o.m.work.task = "Validator" /\ o.m.work.id = h.id
          /\ o.await.arg = o.m.work.check
    /\ o.m.conn = "open" =>
          /\ m.work.task = "StatementExecute" => o.m.work = m.work \/ Answered(m, ev)
          /\ CallbackExecuting(m) => o.m.callback = m.callback \/ CallbackAnswered(m, ev)

\* A transaction that can still commit: its sequence counts the statements that
\* succeeded, and it is dirty once one of them wrote.
Runs(m) == m.conn = "open" /\ m.rec.phase \in HasDeadline
CountSteps(m, ev, o) ==
    Runs(o.m) =>
        \/ AnsweredAs(m, ev, "BeginOpen", "ok")
        \/ /\ AnsweredAs(m, ev, "StatementExecute", "ok")
           /\ o.m.rec.seq = m.rec.seq + 1
           /\ o.m.rec.dirty = (m.rec.dirty \/ m.work.cmd.pay = "write")
        \/ /\ o.m.rec.seq = m.rec.seq /\ o.m.rec.dirty = m.rec.dirty
           /\ ~(Answered(m, ev) /\ m.work.task = "StatementExecute")

\* Its commit goes through the checks one by one.
Verdicted(m, ev, check) ==
    \/ AnsweredAs(m, ev, "Validator", "allow") /\ m.work.check = check
    \/ HasDeferred(m) /\ m.deferred.allowed /\ m.deferred.check = check
CheckMoves(m, ev, o) ==
    /\ o.m.work.task = "ValidatingPersist" =>
          /\ AnsweredAs(m, ev, "CommitBinding", "ok") /\ m.work.check = 1
          /\ o.m.work.check = 1 /\ Triggered(m.rec)
    /\ o.m.work.task = "Validator" =>
          \/ AnsweredAs(m, ev, "ValidatingPersist", "ok") /\ o.m.work.check = m.work.check
          \/ \E check \in Nat : /\ Verdicted(m, ev, check) /\ check < Checks
                                /\ o.m.work.check = check + 1
    /\ o.m.work.task = "CommitBinding" =>
          \/ /\ m.rec.phase = "active" /\ ~HasWork(m) /\ o.m.rec = m.rec
             /\ o.m.work.check = IF Triggered(m.rec) THEN 1 ELSE 0
          \/ \E check \in Nat : /\ Verdicted(m, ev, check) /\ ~(check < Checks)
                                /\ o.m.work.check = 0
    /\ o.m.work.task = "CommitPersist" =>
          AnsweredAs(m, ev, "CommitBinding", "ok") /\ m.work.check # 1
CheckSteps(m, ev, o) ==
    Runs(o.m) =>
        /\ (o.m.work = m.work /\ ~Answered(m, ev)) \/ CheckMoves(m, ev, o)
        /\ m.work.task = "Validator" => o.m.work = m.work \/ Answered(m, ev)
        /\ HasDeferred(o.m) =>
              \/ o.m.deferred = m.deferred
              \/ /\ Answered(m, ev) /\ m.work.task = "Validator"
                 /\ o.m.deferred.check = m.work.check
                 /\ o.m.deferred.allowed = (ev.result = "allow")

ProgressSteps(m, h, ev, o) ==
    UseSteps(m, h, ev, o) /\ CountSteps(m, ev, o) /\ CheckSteps(m, ev, o)

Steps(m, h, ev, o) ==
    \/ Resets(o)
    \/ /\ o.reset = FALSE
       /\ RecordSteps(m, ev, o) /\ StartSteps(m, ev, o)
       /\ ConnSteps(m, ev, o) /\ WorkSteps(m, h, ev, o)
       /\ ProgressSteps(m, h, ev, o)
       /\ Orderly(o.m, h.snap)

\* The state n without the work of m.
Taken(m, n) == /\ n.rec = m.rec /\ n.conn = m.conn /\ n.work = NoWork
               /\ n.deferred = m.deferred /\ n.callback = m.callback

\* The fields of the records a move leaves.
LEMMA RecordFields ==
    /\ \A rec \in Records : \A phase :
          /\ [rec EXCEPT !.phase = phase].phase = phase
          /\ [rec EXCEPT !.phase = phase].seq = rec.seq
          /\ [rec EXCEPT !.phase = phase].auth = rec.auth
          /\ [rec EXCEPT !.phase = phase].snap = rec.snap
          /\ [rec EXCEPT !.phase = phase].dirty = rec.dirty
    /\ \A rec \in Records : \A cmd, phase : FinalRecord(rec, cmd, phase).phase = phase
    /\ \A rec \in Records : \A cmd :
          /\ DoneRecord(rec, cmd).phase = rec.phase
          /\ DoneRecord(rec, cmd).seq = cmd.seq + 1
          /\ DoneRecord(rec, cmd).dirty = (rec.dirty \/ cmd.pay = "write")
    /\ \A cmd : /\ NewRecord(cmd).phase = "active" /\ NewRecord(cmd).seq = 1
                /\ NewRecord(cmd).dirty = FALSE
<1>1. \A rec \in Records : \A phase :
         /\ [rec EXCEPT !.phase = phase].phase = phase
         /\ [rec EXCEPT !.phase = phase].seq = rec.seq
         /\ [rec EXCEPT !.phase = phase].auth = rec.auth
         /\ [rec EXCEPT !.phase = phase].snap = rec.snap
         /\ [rec EXCEPT !.phase = phase].dirty = rec.dirty
  BY DEF Records
<1>2. \A rec \in Records : \A cmd, phase : FinalRecord(rec, cmd, phase).phase = phase
  BY DEF Records, FinalRecord
<1>3. \A rec \in Records : \A cmd :
         /\ DoneRecord(rec, cmd).phase = rec.phase
         /\ DoneRecord(rec, cmd).seq = cmd.seq + 1
         /\ DoneRecord(rec, cmd).dirty = (rec.dirty \/ cmd.pay = "write")
  BY DEF Records, DoneRecord
<1>4. \A cmd : /\ NewRecord(cmd).phase = "active" /\ NewRecord(cmd).seq = 1
               /\ NewRecord(cmd).dirty = FALSE
  BY DEF NewRecord, NoRec
<1> QED BY <1>1, <1>2, <1>3, <1>4

\* The effect of each task.
LEMMA AwaitedEffects ==
    /\ \A t \in {"BeginBinding", "StatementBinding", "CommitBinding",
                 "RollbackBinding"} : AwaitedBy(t) = "checkBinding"
    /\ AwaitedBy("BeginOpen") = "open"
    /\ \A t \in {"BeginPersist", "CommitPersist", "ValidatingPersist", "Reply",
                 "ResetAfterPersist"} : AwaitedBy(t) = "persist"
    /\ AwaitedBy("BeginTimer") = "setTimer"
    /\ AwaitedBy("Validator") = "callValidator"
    /\ AwaitedBy("StatementExecute") = "execute"
    /\ AwaitedBy("CommitSend") = "commit"
    /\ \A t \in {"RollbackSend", "CloseRollback"} : AwaitedBy(t) = "rollback"
BY DEF AwaitedBy

\* A step after which nothing can commit asks for no use of the connection but
\* its rollback.
LEMMA ClosedProgress ==
    ASSUME NEW m, NEW h, NEW ev, NEW o, o.m.conn # "open",
           o.await.type \notin {"execute", "callValidator", "commit"},
           o.await.type = "rollback" => Free(m, ev)
    PROVE  ProgressSteps(m, h, ev, o)
<1>1. UseSteps(m, h, ev, o) BY DEF UseSteps
<1>2. CountSteps(m, ev, o) /\ CheckSteps(m, ev, o) BY DEF CountSteps, CheckSteps, Runs
<1> QED BY <1>1, <1>2 DEF ProgressSteps

\* A step that does not use the connection, nor hears from a statement.
LEMMA KeptProgress ==
    ASSUME NEW m, NEW h, NEW ev, NEW o,
           o.await.type \notin {"execute", "callValidator", "commit", "rollback"},
           o.m.rec.seq = m.rec.seq, o.m.rec.dirty = m.rec.dirty,
           m.work.task = "StatementExecute" => ~Answered(m, ev) /\ o.m.work = m.work,
           o.m.callback = m.callback \/ QueryFree(m, ev),
           \/ o.m.work = m.work /\ ~Answered(m, ev)
           \/ CheckMoves(m, ev, o) /\ m.work.task # "Validator"
           \/ CheckMoves(m, ev, o) /\ Answered(m, ev),
           HasDeferred(o.m) => o.m.deferred = m.deferred
    PROVE  ProgressSteps(m, h, ev, o)
<1>1. UseSteps(m, h, ev, o) BY DEF UseSteps, QueryFree
<1>2. CountSteps(m, ev, o) BY DEF CountSteps
<1>3. CheckSteps(m, ev, o) BY DEF CheckSteps
<1> QED BY <1>1, <1>2, <1>3 DEF ProgressSteps

\* New work leaves no verdict waiting.
LEMMA OrderlyWork ==
    ASSUME NEW m \in Machines, NEW snap, Consistent(m), HasWork(m),
           Fits(m, m.work, snap), Holds(m), ~HasDeferred(m) => m.deferred = NoWork,
           m.callback.task = "none" => m.callback = NoCallback
    PROVE  Orderly(m, snap)
<1>1. m.deferred.task = "none" BY DEF Consistent, HasDeferred
<1>2. Fits(m, m.deferred, snap) BY <1>1 DEF Fits
<1>3. Tidy(m) BY DEF Tidy
<1> QED BY <1>2, <1>3 DEF Orderly

\* The steps of a begin.
LEMMA BeginSteps ==
    ASSUME NEW m \in Machines, NEW n, NEW h \in HostFacts, NEW ev, NEW o \in Outputs,
           Orderly(m, h.snap), Consistent(m), Taken(m, n), Answered(m, ev),
           Consistent(o.m), BeginMoves(n, h, m.work, ev.result, o)
    PROVE  Steps(m, h, ev, o)
<1> DEFINE w == m.work
<1>0. m.rec \in Records /\ o.m \in Machines BY MachineFields DEF Outputs
<1>1. ASSUME w.task = "BeginBinding", ev.result = "ok", m.rec.phase = "absent",
             Goes(n, h, o, "BeginOpen", "client", w.cmd, 0), Keeps(n, o, "opening")
      PROVE  Steps(m, h, ev, o)
  <2>1. /\ o.reset = FALSE /\ o.m.rec = m.rec /\ o.m.conn = "opening"
        /\ o.m.work.task = "BeginOpen" /\ o.m.work.id = h.id
        /\ o.await.type = "open" /\ o.await.id = h.id
        /\ o.m.deferred = m.deferred /\ o.m.callback = m.callback
    BY <1>1, AwaitedEffects DEF Taken, Goes, Keeps
  <2>2. RecordSteps(m, ev, o) BY <1>1, <2>1 DEF RecordSteps, Leads, Terminal
  <2>3. StartSteps(m, ev, o) BY <1>1 DEF StartSteps
  <2>4. ConnSteps(m, ev, o) BY <1>1, <2>1 DEF ConnSteps, AnsweredAs
  <2>5. WorkSteps(m, h, ev, o) BY <1>1, <2>1 DEF WorkSteps, BeginTasks
  <2>9. ProgressSteps(m, h, ev, o) BY <2>1, ClosedProgress
  <2>6. Fits(o.m, o.m.work, h.snap) BY <1>1, <2>1 DEF Fits
  <2>7. Holds(o.m) BY <1>1, <2>1 DEF Orderly, Holds, CallbackExecuting
  <2>8. Orderly(o.m, h.snap)
    BY <1>0, <2>1, <2>6, <2>7, OrderlyWork DEF Orderly, Tidy, HasWork, HasDeferred
  <2> QED BY <2>1, <2>2, <2>3, <2>4, <2>5, <2>8, <2>9 DEF Steps
<1>2. ASSUME w.task = "BeginOpen", ev.result = "ok",
             Goes(n, h, o, "BeginPersist", w.lane, NoCmd, 0),
             o.m.rec = NewRecord(w.cmd), o.m.conn = "open"
      PROVE  Steps(m, h, ev, o)
  <2>1. /\ o.reset = FALSE /\ o.m.rec.phase = "active" /\ o.m.conn = "open"
        /\ o.m.work.task = "BeginPersist" /\ o.m.work.id = h.id
        /\ o.await.type = "persist" /\ o.await.id = h.id
        /\ o.m.deferred = m.deferred /\ o.m.callback = m.callback
        /\ o.m.rec.seq = 1 /\ o.m.rec.dirty = FALSE
    BY <1>2, AwaitedEffects, RecordFields DEF Taken, Goes
  <2>2. m.rec.phase = "absent" BY <1>2 DEF Orderly, Fits
  <2>3. RecordSteps(m, ev, o)
    BY <1>2, <2>1, <2>2 DEF RecordSteps, Leads, Terminal, AnsweredAs
  <2>4. StartSteps(m, ev, o) BY <1>2 DEF StartSteps
  <2>5. ConnSteps(m, ev, o) BY <1>2, <2>1 DEF ConnSteps, AnsweredAs
  <2>6. WorkSteps(m, h, ev, o) BY <1>2, <2>1 DEF WorkSteps, BeginTasks
  <2>10. ProgressSteps(m, h, ev, o)
    <3>1. UseSteps(m, h, ev, o) BY <1>2, <2>1 DEF UseSteps
    <3>2. CountSteps(m, ev, o) BY <1>2, <2>1 DEF CountSteps, AnsweredAs
    <3>3. CheckSteps(m, ev, o) BY <1>2, <2>1 DEF CheckSteps, CheckMoves
    <3> QED BY <3>1, <3>2, <3>3 DEF ProgressSteps
  <2>7. Fits(o.m, o.m.work, h.snap) BY <1>2, <2>1 DEF Fits, At
  <2>8. Holds(o.m) BY <1>2, <2>1, <2>2 DEF Orderly, Holds, CallbackExecuting, HasDeadline
  <2>9. Orderly(o.m, h.snap)
    BY <1>0, <2>1, <2>7, <2>8, OrderlyWork DEF Orderly, Tidy, HasWork, HasDeferred
  <2> QED BY <2>1, <2>3, <2>4, <2>5, <2>6, <2>9, <2>10 DEF Steps
<1>3. ASSUME w.task = "BeginPersist", ev.result = "ok",
             Goes(n, h, o, "BeginTimer", w.lane, NoCmd, 0), Keeps(n, o, n.conn)
      PROVE  Steps(m, h, ev, o)
  <2>1. /\ o.reset = FALSE /\ o.m.rec = m.rec /\ o.m.conn = m.conn
        /\ o.m.work.task = "BeginTimer" /\ o.m.work.id = h.id
        /\ o.await.type = "setTimer" /\ o.await.id = h.id
        /\ o.m.deferred = m.deferred /\ o.m.callback = m.callback
    BY <1>3, AwaitedEffects DEF Taken, Goes, Keeps
  <2>2. m.rec.phase = "active" /\ m.conn = "open" BY <1>3 DEF Orderly, Fits, At
  <2>3. RecordSteps(m, ev, o) BY <2>1, <2>2 DEF RecordSteps, Leads, Terminal
  <2>4. StartSteps(m, ev, o) BY <1>3, <2>1 DEF StartSteps, AnsweredAs
  <2>5. ConnSteps(m, ev, o) BY <2>1, <2>2 DEF ConnSteps
  <2>6. WorkSteps(m, h, ev, o) BY <1>3, <2>1 DEF WorkSteps, BeginTasks
  <2>10. ProgressSteps(m, h, ev, o)
    <3>1. CheckMoves(m, ev, o) BY <2>1 DEF CheckMoves
    <3> QED BY <1>3, <2>1, <3>1, KeptProgress
  <2>7. Fits(o.m, o.m.work, h.snap) BY <2>1, <2>2 DEF Fits, At
  <2>8. Holds(o.m) BY <1>3, <2>1, <2>2 DEF Orderly, Holds, CallbackExecuting, HasDeadline
  <2>9. Orderly(o.m, h.snap)
    BY <1>0, <2>1, <2>7, <2>8, OrderlyWork DEF Orderly, Tidy, HasWork, HasDeferred
  <2> QED BY <2>1, <2>3, <2>4, <2>5, <2>6, <2>9, <2>10 DEF Steps
<1>4. n.rec = m.rec BY DEF Taken
<1> QED BY <1>1, <1>2, <1>3, <1>4 DEF BeginMoves

\* A step that takes up work other than a begin's.
LEMMA LaneSteps ==
    ASSUME NEW m \in Machines, NEW h \in HostFacts, NEW ev, NEW o \in Outputs,
           Orderly(m, h.snap), Consistent(o.m), o.reset = FALSE,
           o.m.work.task \notin BeginTasks \cup {"none"}, o.m.work.id = h.id,
           o.await.type = AwaitedBy(o.m.work.task), o.await.id = h.id,
           o.await.type = "commit" => o.await.arg # 0,
           o.m.deferred \in {m.deferred, NoWork}, o.m.callback \in {m.callback, NoCallback},
           RecordSteps(m, ev, o), StartSteps(m, ev, o), ConnSteps(m, ev, o),
           ProgressSteps(m, h, ev, o), Fits(o.m, o.m.work, h.snap), Holds(o.m)
    PROVE  Steps(m, h, ev, o)
<1>0. o.m \in Machines /\ o.m.work.task \in Tasks
  <2>1. o.m \in Machines BY DEF Outputs
  <2> QED BY <2>1, MachineFields, WorkFields
<1>1. NoWork.task = "none" /\ NoCallback.task = "none" BY DEF NoWork, NoCallback
<1>2. Orderly(o.m, h.snap)
  BY <1>0, <1>1, OrderlyWork DEF Orderly, Tidy, HasWork, HasDeferred
<1>3. /\ AwaitedBy(o.m.work.task) = "commit" <=> o.m.work.task = "CommitSend"
      /\ AwaitedBy(o.m.work.task) = "rollback" =>
            o.m.work.task \in {"RollbackSend", "CloseRollback"}
  BY <1>0, AwaitedEffects DEF Tasks, AwaitedBy
<1>4. WorkSteps(m, h, ev, o) BY <1>3 DEF WorkSteps
<1> QED BY <1>2, <1>4 DEF Steps

\* The steps of a statement.
LEMMA StatementSteps ==
    ASSUME NEW m \in Machines, NEW n, NEW h \in HostFacts, NEW ev, NEW o \in Outputs,
           Orderly(m, h.snap), Taken(m, n), Answered(m, ev),
           Consistent(o.m), StatementMoves(n, h, m.work, ev.result, o)
    PROVE  Steps(m, h, ev, o)
<1> DEFINE w == m.work
<1>0. m.rec \in Records BY MachineFields
<1>1. w.task \in {"StatementBinding", "StatementExecute"} BY DEF StatementMoves
<1>2. /\ m.rec.phase = "active" /\ m.conn = "open" /\ Owns(m, w, h.snap)
      /\ m.callback.task = "none"
  BY <1>1, MachineFields DEF Orderly, Fits, At, Holds, Callbacks
<1>3. StartSteps(m, ev, o) BY <1>1 DEF StartSteps
<1>4. ASSUME w.task = "StatementBinding",
             Goes(n, h, o, "StatementExecute", w.lane, w.cmd, w.check), Keeps(n, o, n.conn)
      PROVE  Steps(m, h, ev, o)
  <2>1. /\ o.reset = FALSE /\ o.m.rec = m.rec /\ o.m.conn = "open"
        /\ o.m.work.task = "StatementExecute" /\ o.m.work.id = h.id
        /\ o.m.work.lane = w.lane /\ o.m.work.cmd = w.cmd
        /\ o.await.type = "execute" /\ o.await.id = h.id /\ o.await.arg = w.cmd.seq
        /\ o.m.deferred = m.deferred /\ o.m.callback = m.callback
    BY <1>2, <1>4, AwaitedEffects DEF Taken, Goes, Keeps, ArgOf
  <2>2. RecordSteps(m, ev, o) BY <1>2, <2>1 DEF RecordSteps, Leads, Terminal
  <2>3. ConnSteps(m, ev, o) BY <1>2, <2>1 DEF ConnSteps
  <2>4. Fits(o.m, o.m.work, h.snap) BY <1>2, <2>1 DEF Fits, At, Owns
  <2>5. Holds(o.m) BY <1>2, <2>1 DEF Holds, CallbackExecuting, HasDeadline
  <2>6. ProgressSteps(m, h, ev, o)
    <3>1. Free(m, ev) BY <1>2, <1>4 DEF Free, QueryFree, CallbackExecuting
    <3>2. UseSteps(m, h, ev, o) BY <1>4, <2>1, <3>1 DEF UseSteps, Executes
    <3>3. CountSteps(m, ev, o) BY <1>4, <2>1 DEF CountSteps
    <3>4. CheckSteps(m, ev, o) BY <1>4, <2>1 DEF CheckSteps, CheckMoves
    <3> QED BY <3>2, <3>3, <3>4 DEF ProgressSteps
  <2> QED BY <1>3, <2>1, <2>2, <2>3, <2>4, <2>5, <2>6, LaneSteps, AwaitedEffects
          DEF BeginTasks
<1>5. ASSUME w.task = "StatementExecute", ev.result = "ok",
             Goes(n, h, o, "Reply", w.lane, NoCmd, 0),
             o.m.work.expire_after = TRUE, o.m.work.restore = n.rec,
             o.m.rec = DoneRecord(n.rec, w.cmd), o.m.conn = "open"
      PROVE  Steps(m, h, ev, o)
  <2>1. /\ o.reset = FALSE /\ o.m.rec.phase = "active" /\ o.m.conn = "open"
        /\ o.m.work.task = "Reply" /\ o.m.work.id = h.id
        /\ o.m.work.restore.phase = "active"
        /\ o.await.type = "persist" /\ o.await.id = h.id
        /\ o.m.deferred = m.deferred /\ o.m.callback = m.callback
        /\ o.m.rec.seq = w.cmd.seq + 1
        /\ o.m.rec.dirty = (m.rec.dirty \/ w.cmd.pay = "write")
    BY <1>0, <1>2, <1>5, RecordFields, AwaitedEffects DEF Taken, Goes
  <2>2. RecordSteps(m, ev, o) BY <1>2, <2>1 DEF RecordSteps, Leads, Terminal
  <2>3. ConnSteps(m, ev, o) BY <1>2, <2>1 DEF ConnSteps
  <2>4. Fits(o.m, o.m.work, h.snap) BY <1>5, <2>1 DEF Fits, At
  <2>5. Holds(o.m) BY <1>2, <2>1 DEF Holds, CallbackExecuting, HasDeadline
  <2>6. ProgressSteps(m, h, ev, o)
    <3>1. UseSteps(m, h, ev, o) BY <1>2, <2>1 DEF UseSteps, CallbackExecuting
    <3>2. CountSteps(m, ev, o) BY <1>2, <1>5, <2>1 DEF CountSteps, AnsweredAs, Owns
    <3>3. CheckSteps(m, ev, o) BY <1>5, <2>1 DEF CheckSteps, CheckMoves
    <3> QED BY <3>1, <3>2, <3>3 DEF ProgressSteps
  <2> QED BY <1>3, <2>1, <2>2, <2>3, <2>4, <2>5, <2>6, LaneSteps, AwaitedEffects
          DEF BeginTasks
<1> QED BY <1>4, <1>5 DEF StatementMoves

\* The steps after a verdict v, whose query (if any) has ended.
LEMMA VerdictSteps ==
    ASSUME NEW m \in Machines, NEW n, NEW h \in HostFacts, NEW ev, NEW o \in Outputs,
           NEW v, NEW allowed, Orderly(m, h.snap), Consistent(o.m),
           n.rec = m.rec, n.conn = m.conn, n.deferred \in {m.deferred, NoWork},
           n.callback \in {m.callback, NoCallback}, n.callback.task # "Execute",
           m.rec.phase = "validating", m.conn = "open", Owns(m, v, h.snap),
           v.check \in Nat, Verdicted(m, ev, v.check), QueryFree(m, ev),
           m.work.task # "none" => m.work.task = "Validator" /\ Answered(m, ev),
           VerdictMoves(n, h, v, allowed, o)
    PROVE  Steps(m, h, ev, o)
<1>1. StartSteps(m, ev, o) BY DEF StartSteps
<1>2. ASSUME NEW task, NEW check,
             \/ task = "Validator" /\ v.check < Checks /\ check = v.check + 1
             \/ task = "CommitBinding" /\ ~(v.check < Checks) /\ check = 0,
             Goes(n, h, o, task, v.lane, v.cmd, check), Keeps(n, o, "open")
      PROVE  Steps(m, h, ev, o)
  <2>1. /\ o.reset = FALSE /\ o.m.rec = m.rec /\ o.m.conn = "open"
        /\ o.m.work.task = task /\ o.m.work.id = h.id
        /\ o.m.work.lane = v.lane /\ o.m.work.cmd = v.cmd /\ o.m.work.check = check
        /\ o.await.type = AwaitedBy(task) /\ o.await.id = h.id
        /\ o.m.deferred \in {m.deferred, NoWork} /\ o.m.callback \in {m.callback, NoCallback}
        /\ o.m.callback.task # "Execute"
        /\ task = "Validator" => o.await.arg = check
    BY <1>2 DEF Goes, Keeps, ArgOf
  <2>2. /\ o.await.type \in {"callValidator", "checkBinding"}
        /\ o.await.type = "callValidator" => task = "Validator"
    BY <1>2, <2>1, AwaitedEffects
  <2>3. RecordSteps(m, ev, o) BY <2>1, <2>2 DEF RecordSteps, Leads, Terminal
  <2>4. ConnSteps(m, ev, o) BY <2>1, <2>2 DEF ConnSteps
  <2>5. Fits(o.m, o.m.work, h.snap) BY <1>2, <2>1 DEF Fits, At, Owns
  <2>6. Holds(o.m) BY <1>2, <2>1 DEF Holds, CallbackExecuting, HasDeadline
  <2>7. ProgressSteps(m, h, ev, o)
    <3>1. UseSteps(m, h, ev, o) BY <2>1, <2>2 DEF UseSteps, QueryFree
    <3>2. CountSteps(m, ev, o) BY <2>1 DEF CountSteps
    <3>3. CheckMoves(m, ev, o) BY <1>2, <2>1 DEF CheckMoves
    <3>4. HasDeferred(o.m) => o.m.deferred = m.deferred
      BY <2>1 DEF HasDeferred, NoWork
    <3>5. CheckSteps(m, ev, o) BY <2>1, <3>3, <3>4 DEF CheckSteps
    <3> QED BY <3>1, <3>2, <3>5 DEF ProgressSteps
  <2> QED BY <1>1, <1>2, <2>1, <2>2, <2>3, <2>4, <2>5, <2>6, <2>7, LaneSteps
          DEF BeginTasks
<1> QED BY <1>2 DEF VerdictMoves

\* The steps of a commit, up to COMMIT.
LEMMA CommitSteps ==
    ASSUME NEW m \in Machines, NEW n, NEW h \in HostFacts, NEW ev, NEW o \in Outputs,
           Orderly(m, h.snap), Consistent(m), Taken(m, n), Answered(m, ev),
           Consistent(o.m), CommitMoves(n, h, m.work, ev.result, o)
    PROVE  Steps(m, h, ev, o)
<1> DEFINE w == m.work
<1>0. m.rec \in Records BY MachineFields
<1>1. w.task \in {"CommitBinding", "ValidatingPersist", "Validator", "CommitPersist"}
  BY DEF CommitMoves, Postpones
<1>2. m.conn = "open" /\ Owns(m, w, h.snap) BY <1>1 DEF Orderly, Fits, At
<1>3. StartSteps(m, ev, o) BY <1>1 DEF StartSteps
<1>4. ASSUME w.task = "CommitBinding", ev.result = "ok",
             NEW task, NEW phase, NEW check,
             \/ /\ task = "ValidatingPersist" /\ phase = "validating"
                /\ check = 1 /\ w.check = 1 /\ Triggered(m.rec)
             \/ task = "CommitPersist" /\ phase = "committing" /\ w.check # 1,
             Goes(n, h, o, task, w.lane, w.cmd, check), Phased(n, o, phase, n.conn)
      PROVE  Steps(m, h, ev, o)
  <2>0. m.rec.phase \in {"active", "validating"} /\ m.callback.task # "Execute"
    BY <1>4 DEF Orderly, Fits, At, Holds, CallbackExecuting
  <2>1. /\ o.reset = FALSE /\ o.m.rec.phase = phase /\ o.m.conn = "open"
        /\ o.m.rec.seq = m.rec.seq /\ o.m.rec.auth = m.rec.auth /\ o.m.rec.snap = m.rec.snap
        /\ o.m.rec.dirty = m.rec.dirty
        /\ o.m.work.task = task /\ o.m.work.id = h.id /\ o.m.work.check = check
        /\ o.m.work.lane = w.lane /\ o.m.work.cmd = w.cmd
        /\ o.await.type = AwaitedBy(task) /\ o.await.id = h.id
        /\ o.m.deferred = m.deferred /\ o.m.callback = m.callback
    BY <1>0, <1>2, <1>4, RecordFields DEF Taken, Goes, Phased
  <2>2. o.await.type = "persist" BY <1>4, <2>1, AwaitedEffects
  <2>3. RecordSteps(m, ev, o) BY <1>4, <2>0, <2>1, <2>2 DEF RecordSteps, Leads, Terminal
  <2>4. ConnSteps(m, ev, o) BY <1>2, <2>1, <2>2 DEF ConnSteps
  <2>5. Fits(o.m, o.m.work, h.snap) BY <1>2, <1>4, <2>1 DEF Fits, At, Owns
  <2>6. Holds(o.m) BY <1>4, <2>0, <2>1 DEF Holds, CallbackExecuting, HasDeadline
  <2>7. ProgressSteps(m, h, ev, o)
    <3>1. CheckMoves(m, ev, o) BY <1>4, <2>1 DEF CheckMoves, AnsweredAs
    <3> QED BY <1>4, <2>1, <2>2, <3>1, KeptProgress
  <2> QED BY <1>3, <1>4, <2>1, <2>2, <2>3, <2>4, <2>5, <2>6, <2>7, LaneSteps
          DEF BeginTasks
<1>5. ASSUME w.task = "ValidatingPersist", ev.result = "ok",
             Goes(n, h, o, "Validator", w.lane, w.cmd, w.check), Keeps(n, o, "open")
      PROVE  Steps(m, h, ev, o)
  <2>0. m.rec.phase = "validating" /\ m.callback.task # "Execute"
    BY <1>5 DEF Orderly, Fits, At, Holds, CallbackExecuting
  <2>1. /\ o.reset = FALSE /\ o.m.rec = m.rec /\ o.m.conn = "open"
        /\ o.m.work.task = "Validator" /\ o.m.work.id = h.id
        /\ o.m.work.lane = w.lane /\ o.m.work.cmd = w.cmd /\ o.m.work.check = w.check
        /\ o.await.type = "callValidator" /\ o.await.id = h.id /\ o.await.arg = w.check
        /\ o.m.deferred = m.deferred /\ o.m.callback = m.callback
    BY <1>5, AwaitedEffects DEF Taken, Goes, Keeps, ArgOf
  <2>2. RecordSteps(m, ev, o) BY <2>0, <2>1 DEF RecordSteps, Leads, Terminal
  <2>3. ConnSteps(m, ev, o) BY <1>2, <2>1 DEF ConnSteps
  <2>4. Fits(o.m, o.m.work, h.snap) BY <1>2, <2>0, <2>1 DEF Fits, At, Owns
  <2>5. Holds(o.m) BY <2>0, <2>1 DEF Holds, CallbackExecuting, HasDeadline
  <2>6. ProgressSteps(m, h, ev, o)
    <3>1. UseSteps(m, h, ev, o) BY <1>5, <2>0, <2>1 DEF UseSteps, CallbackExecuting
    <3>2. CountSteps(m, ev, o) BY <1>5, <2>1 DEF CountSteps
    <3>3. CheckMoves(m, ev, o) BY <1>5, <2>1 DEF CheckMoves, AnsweredAs
    <3>4. CheckSteps(m, ev, o) BY <1>5, <2>1, <3>3 DEF CheckSteps
    <3> QED BY <3>1, <3>2, <3>4 DEF ProgressSteps
  <2> QED BY <1>3, <2>1, <2>2, <2>3, <2>4, <2>5, <2>6, LaneSteps, AwaitedEffects
          DEF BeginTasks
<1>6. ASSUME w.task = "Validator", ~CallbackExecuting(n),
             VerdictMoves(n, h, w, ev.result = "allow", o)
      PROVE  Steps(m, h, ev, o)
  <2>1. m.rec.phase = "validating" BY <1>6 DEF Orderly, Fits, At
  <2>2. w.check \in Nat BY MachineFields, WorkFields
  <2>3. Verdicted(m, ev, w.check) BY <1>6 DEF VerdictMoves, Verdicted, AnsweredAs
  <2>4. QueryFree(m, ev) BY <1>6 DEF QueryFree, Taken, CallbackExecuting
  <2> QED BY <1>2, <1>6, <2>1, <2>2, <2>3, <2>4, VerdictSteps DEF Taken, CallbackExecuting
<1>7. ASSUME w.task = "Validator", Postpones(n, w, ev.result = "allow", o)
      PROVE  Steps(m, h, ev, o)
  <2>0. m.rec.phase = "validating" /\ m.callback.task = "Execute"
    BY <1>7 DEF Orderly, Fits, At, Postpones, Taken, CallbackExecuting
  <2>1. /\ o.reset = FALSE /\ o.m.rec = m.rec /\ o.m.conn = "open"
        /\ o.m.work = NoWork /\ o.await = NoEffect
        /\ o.m.deferred.task = "Verdict" /\ o.m.deferred.lane = w.lane
        /\ o.m.deferred.cmd = w.cmd /\ o.m.callback = m.callback
        /\ o.m.deferred.check = w.check /\ o.m.deferred.allowed = (ev.result = "allow")
    BY <1>2, <1>7 DEF Taken, Postpones, Keeps
  <2>2. NoWork.task = "none" /\ NoEffect.type = "none" BY DEF NoWork, NoEffect
  <2>3. RecordSteps(m, ev, o) BY <2>0, <2>1, <2>2 DEF RecordSteps, Leads, Terminal
  <2>4. ConnSteps(m, ev, o) BY <1>2, <2>1, <2>2 DEF ConnSteps
  <2>5. WorkSteps(m, h, ev, o) BY <2>1, <2>2 DEF WorkSteps, HasWork, BeginTasks
  <2>6. Fits(o.m, o.m.work, h.snap) BY <2>1, <2>2 DEF Fits
  <2>7. Fits(o.m, o.m.deferred, h.snap) BY <1>2, <2>0, <2>1 DEF Fits, At, Owns
  <2>8. Holds(o.m) BY <2>0, <2>1, <2>2 DEF Holds, CallbackExecuting, HasDeadline
  <2>9. Tidy(o.m) BY <2>0, <2>1, <2>2 DEF Tidy, HasWork, HasDeferred
  <2>10. Orderly(o.m, h.snap) BY <2>6, <2>7, <2>8, <2>9 DEF Orderly
  <2>11. ProgressSteps(m, h, ev, o)
    <3>1. UseSteps(m, h, ev, o) BY <1>7, <2>1, <2>2 DEF UseSteps
    <3>2. CountSteps(m, ev, o) BY <1>7, <2>1 DEF CountSteps
    <3>3. CheckSteps(m, ev, o) BY <1>7, <2>1, <2>2 DEF CheckSteps, CheckMoves
    <3> QED BY <3>1, <3>2, <3>3 DEF ProgressSteps
  <2> QED BY <1>3, <2>1, <2>3, <2>4, <2>5, <2>10, <2>11 DEF Steps
<1>8. ASSUME w.task = "CommitPersist", ev.result = "ok",
             Goes(n, h, o, "CommitSend", w.lane, w.cmd, 0), Keeps(n, o, "closing")
      PROVE  Steps(m, h, ev, o)
  <2>0. m.rec.phase = "committing" /\ m.callback.task # "Execute" /\ w.cmd.seq # 0
    BY <1>2, <1>8 DEF Orderly, Fits, At, Holds, CallbackExecuting, Owns
  <2>1. /\ o.reset = FALSE /\ o.m.rec = m.rec /\ o.m.conn = "closing"
        /\ o.m.work.task = "CommitSend" /\ o.m.work.id = h.id
        /\ o.m.work.lane = w.lane /\ o.m.work.cmd = w.cmd
        /\ o.await.type = "commit" /\ o.await.id = h.id /\ o.await.arg = w.cmd.seq
        /\ o.m.deferred = m.deferred /\ o.m.callback = m.callback
    BY <1>8, AwaitedEffects DEF Taken, Goes, Keeps, ArgOf
  <2>2. RecordSteps(m, ev, o) BY <2>0, <2>1 DEF RecordSteps, Leads, Terminal
  <2>3. ConnSteps(m, ev, o) BY <1>2, <2>1 DEF ConnSteps
  <2>4. Fits(o.m, o.m.work, h.snap) BY <1>2, <2>0, <2>1 DEF Fits, At, Owns
  <2>5. Holds(o.m) BY <2>0, <2>1 DEF Holds, CallbackExecuting, HasDeadline
  <2>6. ProgressSteps(m, h, ev, o)
    <3>1. Free(m, ev) BY <1>8, <2>0 DEF Free, QueryFree, CallbackExecuting
    <3>2. UseSteps(m, h, ev, o)
      BY <1>2, <1>8, <2>1, <3>1 DEF UseSteps, AnsweredAs, Owns
    <3>3. CountSteps(m, ev, o) /\ CheckSteps(m, ev, o)
      BY <2>1 DEF CountSteps, CheckSteps, Runs
    <3> QED BY <3>2, <3>3 DEF ProgressSteps
  <2> QED BY <1>3, <2>0, <2>1, <2>2, <2>3, <2>4, <2>5, <2>6, LaneSteps, AwaitedEffects
          DEF BeginTasks
<1>9. CASE w.task = "CommitBinding"
  <2>1. /\ ev.result = "ok"
        /\ \/ /\ Goes(n, h, o, "ValidatingPersist", w.lane, w.cmd, 1)
              /\ w.check = 1 /\ Triggered(m.rec)
              /\ Phased(n, o, "validating", n.conn)
           \/ /\ Goes(n, h, o, "CommitPersist", w.lane, w.cmd, 0)
              /\ w.check # 1
              /\ Phased(n, o, "committing", n.conn)
    BY <1>9 DEF CommitMoves, Postpones, Taken
  <2> QED BY <1>4, <1>9, <2>1
<1>10. CASE w.task = "ValidatingPersist" BY <1>5, <1>10 DEF CommitMoves, Postpones
<1>11. CASE w.task = "Validator"
  <2>1. \/ ~CallbackExecuting(n) /\ VerdictMoves(n, h, w, ev.result = "allow", o)
        \/ Postpones(n, w, ev.result = "allow", o)
    BY <1>11 DEF CommitMoves
  <2> QED BY <1>6, <1>7, <1>11, <2>1
<1>12. CASE w.task = "CommitPersist" BY <1>8, <1>12 DEF CommitMoves, Postpones
<1> QED BY <1>1, <1>9, <1>10, <1>11, <1>12

\* The steps that close.  p is the state they close from.
LEMMA CloseSteps ==
    ASSUME NEW m \in Machines, NEW p, NEW h \in HostFacts, NEW ev, NEW o \in Outputs,
           NEW phase \in Endings, Orderly(m, h.snap), Consistent(o.m),
           p.rec \in Records, p.conn = m.conn, p.deferred \in {m.deferred, NoWork},
           p.callback \in {m.callback, NoCallback},
           \/ m.rec.phase \in HasDeadline /\ p.rec.phase = m.rec.phase
           \/ m.rec.phase = "validating" /\ p.rec.phase = "expired" /\ phase = "expired"
           \/ /\ m.rec.phase = "expired" /\ p.rec = m.rec /\ phase = "expired"
              /\ m.conn = "open",
           m.work.task \in {"BeginPersist", "StatementExecute"} => Answered(m, ev),
           p.callback = m.callback \/ QueryFree(m, ev),
           Closes(p, h, o, phase)
    PROVE  Steps(m, h, ev, o)
<1>0. phase \in Terminal /\ phase \notin HasDeadline /\ phase # "committed"
      /\ phase \notin {"absent", "active"}
  BY DEF Endings, Terminal, HasDeadline
<1>1. /\ o.reset = FALSE /\ o.m.work.id = h.id /\ o.await.id = h.id
      /\ o.m.work.expire_after = FALSE
      /\ o.m.deferred \in {m.deferred, NoWork} /\ o.m.callback \in {m.callback, NoCallback}
      /\ ~CallbackExecuting(o.m)
  BY DEF Closes, CallbackExecuting
<1>4. Free(m, ev) BY DEF Free, QueryFree, Closes, CallbackExecuting
<1>2. CASE m.conn = "open"
  <2>1. /\ o.m.rec = p.rec /\ o.m.conn = "closing" /\ o.m.work.task = "CloseRollback"
        /\ o.m.work.phase = phase /\ o.await.type = "rollback"
    BY <1>2 DEF Closes, Keeps
  <2>2. RecordSteps(m, ev, o)
    <3>1. CASE m.rec.phase \in HasDeadline /\ p.rec.phase = m.rec.phase
      BY <2>1, <3>1 DEF RecordSteps, Leads, Terminal, HasDeadline
    <3>2. CASE m.rec.phase = "validating" /\ p.rec.phase = "expired"
      BY <2>1, <3>2 DEF RecordSteps, Leads, Terminal, Endings
    <3>3. CASE m.rec.phase = "expired" /\ p.rec = m.rec
      BY <2>1, <3>3 DEF RecordSteps, Terminal
    <3> QED BY <3>1, <3>2, <3>3
  <2>3. StartSteps(m, ev, o)
    BY <1>2, <2>1 DEF StartSteps, Orderly, Fits, At, HasDeadline
  <2>4. ConnSteps(m, ev, o) BY <1>2, <2>1 DEF ConnSteps
  <2>5. Fits(o.m, o.m.work, h.snap) BY <1>1, <2>1 DEF Fits, At
  <2>6. Holds(o.m)
    BY <1>1, <2>1 DEF Orderly, Holds, CallbackExecuting, NoCallback
  <2>7. ProgressSteps(m, h, ev, o) BY <1>4, <2>1, ClosedProgress
  <2> QED BY <1>1, <2>1, <2>2, <2>3, <2>4, <2>5, <2>6, <2>7, LaneSteps, AwaitedEffects
          DEF BeginTasks
<1>3. CASE m.conn # "open"
  <2>1. /\ o.m.rec.phase = phase /\ o.m.conn = "none" /\ o.m.work.task = "Reply"
        /\ o.await.type = "persist"
    <3>1. /\ o.m.rec = [p.rec EXCEPT !.phase = phase] /\ o.m.conn = "none"
          /\ o.m.work.task = "Reply" /\ o.await.type = "persist"
      BY <1>3 DEF Closes, Phased
    <3>2. [p.rec EXCEPT !.phase = phase].phase = phase BY RecordFields
    <3> QED BY <3>1, <3>2
  <2>2. RecordSteps(m, ev, o)
    BY <1>0, <1>3, <2>1 DEF RecordSteps, Leads, Terminal, HasDeadline
  <2>3. StartSteps(m, ev, o) BY <2>1 DEF StartSteps
  <2>4. ConnSteps(m, ev, o) BY <2>1 DEF ConnSteps
  <2>5. Fits(o.m, o.m.work, h.snap) BY <1>0, <1>1, <2>1 DEF Fits
  <2>6. Holds(o.m) BY <1>0, <1>1, <2>1 DEF Holds
  <2>7. ProgressSteps(m, h, ev, o) BY <2>1, ClosedProgress
  <2> QED BY <1>1, <2>1, <2>2, <2>3, <2>4, <2>5, <2>6, <2>7, LaneSteps, AwaitedEffects
          DEF BeginTasks
<1> QED BY <1>2, <1>3

\* The steps that settle a transaction, and the persist of a lost one.
LEMMA SettleSteps ==
    ASSUME NEW m \in Machines, NEW n, NEW h \in HostFacts, NEW ev, NEW o \in Outputs,
           Orderly(m, h.snap), Taken(m, n), Answered(m, ev),
           Consistent(o.m), SettleMoves(n, h, m.work, ev.result, o)
    PROVE  Steps(m, h, ev, o)
<1> DEFINE w == m.work
<1>0. m.rec \in Records BY MachineFields
<1>1. ASSUME NEW phase \in Endings \cup {"committed", "commit_unknown"}, Answers(n, h, o),
             o.m.rec.phase = phase, o.m.conn # "open",
             m.rec.phase = phase => o.m.rec = m.rec,
             phase = "committed" => AnsweredAs(m, ev, "CommitSend", "ok"),
             \/ m.rec.phase \in HasDeadline \cup {phase} /\ phase \in Endings
             \/ m.rec.phase = "committing",
             m.callback.task # "Execute"
      PROVE  Steps(m, h, ev, o)
  <2>0. phase \in Terminal /\ phase \notin HasDeadline /\ phase \notin {"absent", "active"}
    BY DEF Endings, Terminal, HasDeadline
  <2>1. /\ o.reset = FALSE /\ o.m.work.task = "Reply" /\ o.m.work.id = h.id
        /\ o.m.work.expire_after = FALSE /\ o.await.type = "persist" /\ o.await.id = h.id
        /\ o.m.deferred = m.deferred /\ o.m.callback = m.callback
    BY <1>1 DEF Answers, Taken
  <2>2. RecordSteps(m, ev, o)
    BY <1>1, <2>0, <2>1 DEF RecordSteps, Leads, Terminal, HasDeadline, Endings
  <2>3. StartSteps(m, ev, o)
    BY <1>1, <2>1 DEF StartSteps, Endings
  <2>4. ConnSteps(m, ev, o) BY <1>1, <2>1 DEF ConnSteps
  <2>5. Fits(o.m, o.m.work, h.snap) BY <1>1, <2>0, <2>1 DEF Fits
  <2>6. Holds(o.m) BY <1>1, <2>0, <2>1 DEF Holds, CallbackExecuting
  <2>7. ProgressSteps(m, h, ev, o) BY <1>1, <2>1, ClosedProgress
  <2> QED BY <2>1, <2>2, <2>3, <2>4, <2>5, <2>6, <2>7, LaneSteps, AwaitedEffects
          DEF BeginTasks
<1>2. CASE w.task = "CommitSend"
  <2>1. /\ m.rec.phase = "committing" /\ m.callback.task # "Execute"
    BY <1>2 DEF Orderly, Fits, At, Holds, CallbackExecuting
  <2>2. \/ /\ ev.result = "ok" /\ Answers(n, h, o) /\ o.m.conn = "none"
           /\ o.m.rec = FinalRecord(m.rec, w.cmd, "committed")
        \/ Answers(n, h, o) /\ Phased(n, o, "commit_unknown", "none")
    BY <1>2 DEF SettleMoves, Taken
  <2>3. ASSUME Answers(n, h, o), Phased(n, o, "commit_unknown", "none")
        PROVE  Steps(m, h, ev, o)
    <3>1. o.m.rec.phase = "commit_unknown" /\ o.m.conn = "none"
      BY <1>0, <2>3, RecordFields DEF Phased, Taken
    <3> QED BY <1>1, <2>1, <2>3, <3>1
  <2>4. ASSUME ev.result = "ok", Answers(n, h, o), o.m.conn = "none",
               o.m.rec = FinalRecord(m.rec, w.cmd, "committed")
        PROVE  Steps(m, h, ev, o)
    <3>1. o.m.rec.phase = "committed" BY <1>0, <2>4, RecordFields
    <3>2. AnsweredAs(m, ev, "CommitSend", "ok") BY <1>2, <2>4 DEF AnsweredAs
    <3> QED BY <1>1, <2>1, <2>4, <3>1, <3>2
  <2> QED BY <2>2, <2>3, <2>4
<1>3. CASE w.task = "RollbackBinding"
  <2>0. /\ m.rec.phase = "active" /\ m.conn = "open" /\ Owns(m, w, h.snap)
        /\ m.callback.task = "none"
    BY <1>3, MachineFields DEF Orderly, Fits, At, Holds, Callbacks
  <2>1. /\ o.reset = FALSE /\ o.m.rec = m.rec /\ o.m.conn = "closing"
        /\ o.m.work.task = "RollbackSend" /\ o.m.work.id = h.id
        /\ o.m.work.lane = w.lane /\ o.m.work.cmd = w.cmd
        /\ o.await.type = "rollback" /\ o.await.id = h.id
        /\ o.m.deferred = m.deferred /\ o.m.callback = m.callback
    BY <1>3, AwaitedEffects DEF SettleMoves, Taken, Goes, Keeps
  <2>2. RecordSteps(m, ev, o) BY <2>0, <2>1 DEF RecordSteps, Leads, Terminal
  <2>3. ConnSteps(m, ev, o) BY <2>0, <2>1 DEF ConnSteps
  <2>4. Fits(o.m, o.m.work, h.snap) BY <2>0, <2>1 DEF Fits, At, Owns
  <2>5. Holds(o.m) BY <2>0, <2>1 DEF Holds, CallbackExecuting
  <2>6. StartSteps(m, ev, o) BY <1>3 DEF StartSteps
  <2>7. Free(m, ev) BY <1>3, <2>0 DEF Free, QueryFree, CallbackExecuting
  <2>8. ProgressSteps(m, h, ev, o) BY <2>1, <2>7, ClosedProgress
  <2> QED BY <2>1, <2>2, <2>3, <2>4, <2>5, <2>6, <2>8, LaneSteps, AwaitedEffects
          DEF BeginTasks
<1>4. CASE w.task = "RollbackSend"
  <2>1. /\ m.rec.phase = "active" /\ m.callback.task # "Execute"
    BY <1>4 DEF Orderly, Fits, At, Holds, CallbackExecuting
  <2>2. /\ Answers(n, h, o) /\ o.m.conn = "none"
        /\ o.m.rec = FinalRecord(m.rec, w.cmd, "rolled_back")
    BY <1>4 DEF SettleMoves, Taken
  <2>3. o.m.rec.phase = "rolled_back" BY <1>0, <2>2, RecordFields
  <2> QED BY <1>1, <2>1, <2>2, <2>3 DEF Endings, HasDeadline
<1>5. CASE w.task = "CloseRollback"
  <2>1. /\ m.rec.phase \in HasDeadline \cup {w.phase} /\ w.phase \in Endings
        /\ m.callback.task # "Execute"
    BY <1>5 DEF Orderly, Fits, At, Holds, CallbackExecuting
  <2>2. Answers(n, h, o) /\ o.m.conn = "none" /\ o.m.rec = [m.rec EXCEPT !.phase = w.phase]
    BY <1>5 DEF SettleMoves, Taken, Phased
  <2>3. o.m.rec.phase = w.phase BY <1>0, <2>2, RecordFields
  <2>4. m.rec.phase = w.phase => o.m.rec = m.rec BY <1>0, <2>2 DEF Records
  <2> QED BY <1>1, <2>1, <2>2, <2>3, <2>4 DEF Endings
<1>6. CASE w.task = "BeginBinding"
  <2>1. /\ m.rec.phase = "active" /\ m.conn # "open" /\ Answers(n, h, o)
        /\ o.m.conn # "open" /\ o.m.rec = [m.rec EXCEPT !.phase = "failed"]
    BY <1>6 DEF SettleMoves, Taken, Phased
  <2>2. m.callback.task = "none"
    BY <2>1, MachineFields DEF Orderly, Holds, Callbacks
  <2>3. o.m.rec.phase = "failed" BY <1>0, <2>1, RecordFields
  <2> QED BY <1>1, <2>1, <2>2, <2>3 DEF Endings, HasDeadline
<1> QED BY <1>2, <1>3, <1>4, <1>5, <1>6 DEF SettleMoves

\* A step that changes nothing of the record and the work, but for a query.
LEMMA UnmovedSteps ==
    ASSUME NEW m \in Machines, NEW h \in HostFacts, NEW ev, NEW o \in Outputs,
           Orderly(m, h.snap), o.reset = FALSE, o.await = NoEffect,
           o.m.rec = m.rec, o.m.conn = m.conn, o.m.work \in {m.work, NoWork},
           \/ o.m.work = m.work /\ ~Answered(m, ev)
           \/ m.work.task \in {"BeginBinding", "BeginOpen", "BeginTimer", "Reply"},
           o.m.deferred = m.deferred, o.m.callback \in {m.callback, NoCallback},
           o.m.callback = m.callback \/ QueryFree(m, ev)
    PROVE  Steps(m, h, ev, o)
<1>0. /\ NoWork.task = "none" /\ NoEffect.type = "none" /\ NoCallback.task = "none"
      /\ m.rec.phase \in Phases
  BY MachineFields DEF NoWork, NoEffect, NoCallback
<1>1. RecordSteps(m, ev, o)
  BY <1>0 DEF RecordSteps, Leads, Phases, HasDeadline, Terminal
<1>2. StartSteps(m, ev, o) BY <1>0 DEF StartSteps
<1>3. ConnSteps(m, ev, o) BY <1>0 DEF ConnSteps
<1>4. WorkSteps(m, h, ev, o) BY <1>0 DEF WorkSteps, HasWork, BeginTasks
<1>5. Fits(o.m, o.m.work, h.snap)
  <2>1. CASE o.m.work = m.work BY <2>1 DEF Orderly, Fits, At, Owns
  <2>2. CASE o.m.work = NoWork BY <1>0, <2>2 DEF Fits
  <2> QED BY <2>1, <2>2
<1>6. Fits(o.m, o.m.deferred, h.snap) BY DEF Orderly, Fits, At, Owns
<1>7. Tidy(o.m) /\ Holds(o.m)
  BY <1>0 DEF Orderly, Tidy, Holds, HasWork, HasDeferred, CallbackExecuting
<1>8. ProgressSteps(m, h, ev, o)
  <2>1. (o.m.work = m.work /\ ~Answered(m, ev)) \/ CheckMoves(m, ev, o)
    BY <1>0 DEF CheckMoves
  <2> QED BY <1>0, <2>1, KeptProgress
<1> QED BY <1>1, <1>2, <1>3, <1>4, <1>5, <1>6, <1>7, <1>8 DEF Steps, Orderly

\* The outcome of a lane's own work.
LEMMA ConsumedSteps ==
    ASSUME NEW m \in Machines, NEW h \in HostFacts, NEW ev, NEW o \in Outputs,
           Orderly(m, h.snap), Consistent(m), Answered(m, ev),
           o.fault # TRUE, o.reset = TRUE \/ Consistent(o.m),
           Consumed([m EXCEPT !.work = NoWork], h, m.work, ev.result, o)
    PROVE  Steps(m, h, ev, o)
<1> DEFINE n == [m EXCEPT !.work = NoWork]
           w == m.work
<1>0. n \in Machines /\ Taken(m, n) BY MachineUpdates DEF Taken, Machines
<1>1. m.rec \in Records /\ w.restore \in Records BY MachineFields, WorkFields
<1> HIDE DEF n
<1>2. CASE Resets(o) BY <1>2 DEF Steps
<1>3. ASSUME Rests(n, w, o) PROVE Steps(m, h, ev, o)
  <2>1. /\ w.task \in {"BeginBinding", "BeginOpen", "BeginTimer", "Reply"}
        /\ o.reset = FALSE /\ o.await = NoEffect /\ o.m.rec = m.rec /\ o.m.work = NoWork
        /\ o.m.deferred = m.deferred /\ o.m.callback = m.callback
        /\ o.m.conn = IF w.task = "BeginOpen" THEN "none" ELSE m.conn
    BY <1>0, <1>3 DEF Rests, Keeps, Taken
  <2>2. CASE w.task # "BeginOpen"
    <3>1. o.m.conn = m.conn BY <2>1, <2>2
    <3> QED BY <2>1, <3>1, UnmovedSteps
  <2>3. CASE w.task = "BeginOpen"
    <3>0. /\ NoWork.task = "none" /\ NoEffect.type = "none" /\ m.rec.phase = "absent"
          /\ o.m.conn = "none"
      BY <2>1, <2>3 DEF NoWork, NoEffect, Orderly, Fits
    <3>1. RecordSteps(m, ev, o) BY <2>1, <3>0 DEF RecordSteps, Leads, Terminal
    <3>2. StartSteps(m, ev, o) BY <3>0 DEF StartSteps
    <3>3. ConnSteps(m, ev, o) BY <2>1, <3>0 DEF ConnSteps
    <3>4. WorkSteps(m, h, ev, o) BY <2>1, <3>0 DEF WorkSteps, HasWork, BeginTasks
    <3>5. Fits(o.m, o.m.work, h.snap) BY <2>1, <3>0 DEF Fits
    <3>6. o.m.deferred.task = "none" BY <2>1, <2>3 DEF Consistent, HasWork, HasDeferred
    <3>7. Fits(o.m, o.m.deferred, h.snap) BY <3>6 DEF Fits
    <3>8. Tidy(o.m) /\ Holds(o.m)
      BY <2>1, <3>0 DEF Orderly, Tidy, Holds, HasWork, HasDeferred, CallbackExecuting
    <3>9. ProgressSteps(m, h, ev, o) BY <2>1, <3>0, ClosedProgress
    <3> QED BY <2>1, <3>1, <3>2, <3>3, <3>4, <3>5, <3>7, <3>8, <3>9 DEF Steps, Orderly
  <2> QED BY <2>2, <2>3
<1>4. ASSUME ~Resets(o), Consistent(o.m),
             \/ BeginMoves(n, h, w, ev.result, o) \/ StatementMoves(n, h, w, ev.result, o)
             \/ CommitMoves(n, h, w, ev.result, o) \/ SettleMoves(n, h, w, ev.result, o)
      PROVE  Steps(m, h, ev, o)
  BY <1>0, <1>4, BeginSteps, StatementSteps, CommitSteps, SettleSteps
<1>5. ASSUME NEW phase \in Endings, m.rec.phase \in HasDeadline, Closes(n, h, o, phase),
             Consistent(o.m)
      PROVE  Steps(m, h, ev, o)
  <2>1. /\ n.rec \in Records /\ n.conn = m.conn /\ n.deferred = m.deferred
        /\ n.callback = m.callback /\ n.rec.phase = m.rec.phase
    BY <1>0, <1>1 DEF Taken
  <2> QED BY <1>5, <2>1, CloseSteps
<1>6. ASSUME NEW phase \in Endings, w.task = "Reply", w.expire_after, Consistent(o.m),
             Closes([n EXCEPT !.rec = w.restore], h, o, phase)
      PROVE  Steps(m, h, ev, o)
  <2> DEFINE p == [n EXCEPT !.rec = w.restore]
  <2>1. /\ p.rec = w.restore /\ p.conn = n.conn /\ p.deferred = n.deferred
        /\ p.callback = n.callback
    BY <1>0 DEF Machines
  <2>2. /\ p.rec \in Records /\ p.conn = m.conn /\ p.deferred = m.deferred
        /\ p.callback = m.callback
    BY <1>0, <1>1, <2>1 DEF Taken
  <2>3. m.rec.phase \in HasDeadline /\ p.rec.phase = m.rec.phase
    BY <1>6, <2>1 DEF Orderly, Fits, At, HasDeadline
  <2>4. Closes(p, h, o, phase) BY <1>6
  <2> HIDE DEF p
  <2> QED BY <1>6, <2>2, <2>3, <2>4, CloseSteps
<1>7. o.reset = TRUE => Resets(o) \/ o.fault = TRUE
  BY DEF Consumed, n, Rests, BeginMoves, StatementMoves, CommitMoves, VerdictMoves,
         Postpones, SettleMoves, Closes, Goes, Answers
<1>8. n.rec.phase = m.rec.phase BY <1>0 DEF Taken
<1>9. CASE ~Resets(o)
  <2>1. Consistent(o.m) BY <1>7, <1>9
  <2>2. \/ Rests(n, w, o)
        \/ BeginMoves(n, h, w, ev.result, o) \/ StatementMoves(n, h, w, ev.result, o)
        \/ CommitMoves(n, h, w, ev.result, o) \/ SettleMoves(n, h, w, ev.result, o)
        \/ \E phase \in Endings :
              \/ m.rec.phase \in HasDeadline /\ Closes(n, h, o, phase)
              \/ /\ w.task = "Reply" /\ w.expire_after
                 /\ Closes([n EXCEPT !.rec = w.restore], h, o, phase)
    BY <1>8, <1>9 DEF Consumed, n
  <2> QED BY <1>3, <1>4, <1>5, <1>6, <1>9, <2>1, <2>2
<1> QED BY <1>2, <1>9

(***************************************************************************)
(* The callback lane                                                       *)
(***************************************************************************)
\* A query that waits leaves the validation as it is.
LEMMA QuerySteps ==
    ASSUME NEW m \in Machines, NEW h \in HostFacts, NEW ev, NEW o \in Outputs,
           Orderly(m, h.snap), o.reset = FALSE,
           o.await.type \in {"checkBinding", "execute"}, o.await.id = h.id,
           o.m.rec = m.rec, o.m.conn = m.conn, o.m.work = m.work,
           o.m.deferred = m.deferred, o.m.callback.task \in {"Binding", "Execute"},
           o.await.type = "execute" => o.m.callback.task = "Execute",
           o.m.callback.id = h.id, o.await.arg = 0, QueryFree(m, ev), ~Answered(m, ev),
           m.rec.phase = "validating", m.conn = "open", m.work.task = "Validator"
    PROVE  Steps(m, h, ev, o)
<1>1. RecordSteps(m, ev, o) BY DEF RecordSteps, Leads, Terminal
<1>2. StartSteps(m, ev, o) BY DEF StartSteps
<1>3. ConnSteps(m, ev, o) BY DEF ConnSteps
<1>4. WorkSteps(m, h, ev, o) BY DEF WorkSteps
<1>5. Fits(o.m, o.m.work, h.snap) /\ Fits(o.m, o.m.deferred, h.snap)
  BY DEF Orderly, Fits, At, Owns
<1>6. Tidy(o.m) BY DEF Orderly, Tidy, HasWork, HasDeferred
<1>7. Holds(o.m) BY DEF Orderly, Holds, CallbackExecuting
<1>8. ProgressSteps(m, h, ev, o)
  <2>1. Free(m, ev) BY DEF Free
  <2>2. UseSteps(m, h, ev, o)
    BY <2>1 DEF UseSteps, Executes, QueryFree, CallbackExecuting
  <2>3. CountSteps(m, ev, o) BY DEF CountSteps
  <2>4. CheckSteps(m, ev, o) BY DEF CheckSteps
  <2> QED BY <2>2, <2>3, <2>4 DEF ProgressSteps
<1> QED BY <1>1, <1>2, <1>3, <1>4, <1>5, <1>6, <1>7, <1>8 DEF Steps, Orderly

\* A query of the validator goes on, beside the work that waits for it.
Queries(m, h, task, o) ==
    /\ o.reset = FALSE /\ o.await.type \in {"checkBinding", "execute"}
    /\ o.await.id = h.id /\ o.m.rec = m.rec /\ o.m.conn = m.conn
    /\ o.m.work = m.work /\ o.m.deferred = m.deferred
    /\ o.m.callback.task = task /\ o.m.callback.id = h.id
    /\ o.await.type = "execute" => task = "Execute"
    /\ o.await.arg = 0

\* Waiting for a query's effect.
LEMMA WaitCallbackGoes ==
    ASSUME NEW m \in Machines, NEW h \in HostFacts, NEW task \in {"Binding", "Execute"},
           NEW q, q.tok \in Nat, q.seq \in Nat
    PROVE  Queries(m, h, task, WaitCallback(m, h, task, q))
<1> DEFINE cb == [id |-> h.id, task |-> task, tok |-> q.tok, seq |-> q.seq]
           n == [m EXCEPT !.callback = cb]
           effect == [type |-> CallbackAwaits(task), id |-> h.id, arg |-> 0]
           o == WaitCallback(m, h, task, q)
<1>1. cb.task = task /\ cb.id = h.id OBVIOUS
<1>2. /\ n.rec = m.rec /\ n.conn = m.conn /\ n.work = m.work /\ n.deferred = m.deferred
      /\ n.callback = cb
  <2> HIDE DEF cb
  <2> QED BY DEF Machines
<1>3. /\ effect.type \in {"checkBinding", "execute"} /\ effect.id = h.id
      /\ effect.type = "execute" => task = "Execute"
      /\ effect.arg = 0
  BY DEF CallbackAwaits
<1>4. o = [Quiet(n) EXCEPT !.await = effect] BY DEF WaitCallback
<1> HIDE DEF n, effect, o, cb
<1>5. o.m = n /\ o.await = effect /\ o.reset = FALSE BY <1>4 DEF Quiet
<1>6. Queries(m, h, task, o) BY <1>1, <1>2, <1>3, <1>5 DEF Queries
<1> QED BY <1>6 DEF o

\* Steps depends on these parts of an output only.
LEMMA SameSteps ==
    ASSUME NEW m, NEW h, NEW ev, NEW o, NEW p, Steps(m, h, ev, o),
           p.m.rec = o.m.rec, p.m.conn = o.m.conn, p.m.work = o.m.work,
           p.m.deferred = o.m.deferred, p.m.callback = o.m.callback,
           p.await = o.await, p.reset = o.reset
    PROVE  Steps(m, h, ev, p)
<1>1. CASE Resets(o) BY <1>1 DEF Steps, Resets
<1>2. CASE ~Resets(o)
  <2>1. RecordSteps(m, ev, p) BY <1>2 DEF Steps, RecordSteps
  <2>2. StartSteps(m, ev, p) BY <1>2 DEF Steps, StartSteps
  <2>3. ConnSteps(m, ev, p) BY <1>2 DEF Steps, ConnSteps
  <2>4. WorkSteps(m, h, ev, p) BY <1>2 DEF Steps, WorkSteps, HasWork
  <2>7. UseSteps(m, h, ev, p)
    BY <1>2 DEF Steps, ProgressSteps, UseSteps, Executes, CallbackExecuting
  <2>8. CountSteps(m, ev, p) BY <1>2 DEF Steps, ProgressSteps, CountSteps, Runs
  <2>9. CheckSteps(m, ev, p)
    BY <1>2 DEF Steps, ProgressSteps, CheckSteps, CheckMoves, Runs, HasDeferred
  <2>5. Fits(p.m, p.m.work, h.snap) /\ Fits(p.m, p.m.deferred, h.snap)
    BY <1>2 DEF Steps, Orderly, Fits, At, Owns
  <2>6. Tidy(p.m) /\ Holds(p.m)
    BY <1>2 DEF Steps, Orderly, Tidy, Holds, HasWork, HasDeferred, CallbackExecuting
  <2> QED BY <1>2, <2>1, <2>2, <2>3, <2>4, <2>5, <2>6, <2>7, <2>8, <2>9
          DEF Steps, ProgressSteps, Orderly
<1> QED BY <1>1, <1>2

\* An output that stands, or that the step replaces by failing closed.
Sound(m, h, ev, o) ==
    \/ o.fault = TRUE
    \/ o.reset = FALSE /\ ~Consistent(o.m)
    \/ Steps(m, h, ev, o)

\* A reply makes no difference.
LEMMA ReplySound ==
    ASSUME NEW m, NEW h, NEW ev, NEW o \in Outputs, Sound(m, h, ev, o), NEW reply
    PROVE  Sound(m, h, ev, Respond(reply, o)) /\ Sound(m, h, ev, RespondCallback(reply, o))
<1> DEFINE p == Respond(reply, o)
           q == RespondCallback(reply, o)
<1>1. /\ p.m = o.m /\ p.await = o.await /\ p.reset = o.reset /\ p.fault = o.fault
      /\ q.m = o.m /\ q.await = o.await /\ q.reset = o.reset /\ q.fault = o.fault
  BY ReplyKeeps
<1> HIDE DEF p, q
<1>2. Steps(m, h, ev, o) => Steps(m, h, ev, p) /\ Steps(m, h, ev, q)
  BY <1>1, SameSteps
<1>3. Sound(m, h, ev, p) /\ Sound(m, h, ev, q) BY <1>1, <1>2 DEF Sound
<1> QED BY <1>3 DEF p, q

\* Closing stands.
LEMMA CloseSound ==
    ASSUME NEW m \in Machines, NEW p \in Machines, NEW h \in HostFacts, NEW ev,
           NEW lane \in Lanes, NEW phase \in Endings, NEW reply \in Replies,
           Orderly(m, h.snap), p.conn = m.conn, p.deferred \in {m.deferred, NoWork},
           p.callback \in {m.callback, NoCallback},
           \/ m.rec.phase \in HasDeadline /\ p.rec.phase = m.rec.phase
           \/ m.rec.phase = "validating" /\ p.rec.phase = "expired" /\ phase = "expired"
           \/ /\ m.rec.phase = "expired" /\ p.rec = m.rec /\ phase = "expired"
              /\ m.conn = "open",
           m.work.task \in {"BeginPersist", "StatementExecute"} => Answered(m, ev),
           p.callback = m.callback \/ QueryFree(m, ev)
    PROVE  Sound(m, h, ev, Close(p, h, lane, phase, reply))
<1> DEFINE o == Close(p, h, lane, phase, reply)
<1>1. Live(p.rec) BY DEF Live, HasDeadline
<1>2. o.fault = TRUE \/ Closes(p, h, o, phase) BY <1>1, CloseMoves
<1>3. o \in Outputs
  <2>1. phase \in Phases BY DEF Endings, Phases, Terminal
  <2> QED BY <2>1, CloseType
<1>4. p.rec \in Records BY MachineFields
<1> HIDE DEF o
<1>5. Closes(p, h, o, phase) /\ Consistent(o.m) => Steps(m, h, ev, o)
  BY <1>3, <1>4, CloseSteps
<1>6. Closes(p, h, o, phase) => o.reset = FALSE BY DEF Closes
<1>7. Sound(m, h, ev, o) BY <1>2, <1>5, <1>6 DEF Sound
<1> QED BY <1>7 DEF o

\* A step that asks for nothing and leaves the work in progress stands.
LEMMA QuietSound ==
    ASSUME NEW m \in Machines, NEW p \in Machines, NEW h \in HostFacts, NEW ev,
           Orderly(m, h.snap), p.rec = m.rec, p.conn = m.conn, p.work = m.work,
           p.deferred = m.deferred, p.callback \in {m.callback, NoCallback},
           ~Answered(m, ev), p.callback = m.callback \/ QueryFree(m, ev)
    PROVE  Sound(m, h, ev, Quiet(p))
<1> DEFINE o == Quiet(p)
<1>1. o \in Outputs BY QuietType
<1>2. o.m = p /\ o.await = NoEffect /\ o.reset = FALSE BY ReplyKeeps
<1> HIDE DEF o
<1>3. Steps(m, h, ev, o) BY <1>1, <1>2, UnmovedSteps
<1> QED BY <1>3 DEF Sound, o

\* The same state, with or without a reply, stands; so does a fault.
LEMMA StaySound ==
    ASSUME NEW m \in Machines, NEW h \in HostFacts, NEW ev, Orderly(m, h.snap),
           ~Answered(m, ev)
    PROVE  /\ Sound(m, h, ev, Quiet(m)) /\ Sound(m, h, ev, Fault(m))
           /\ \A reply : /\ Sound(m, h, ev, Respond(reply, Quiet(m)))
                         /\ Sound(m, h, ev, RespondCallback(reply, Quiet(m)))
<1>1. Sound(m, h, ev, Quiet(m)) BY QuietSound
<1>2. Sound(m, h, ev, Fault(m)) BY ReplyKeeps DEF Sound
<1>3. Quiet(m) \in Outputs BY QuietType
<1> QED BY <1>1, <1>2, <1>3, ReplySound

\* A query that fails its validation.  n is m, or m without the query.
LEMMA FailValidationSound ==
    ASSUME NEW m \in Machines, NEW n \in Machines, NEW h \in HostFacts, NEW ev,
           NEW reply \in Replies, Orderly(m, h.snap), n.rec = m.rec, n.conn = m.conn,
           n.work = m.work, n.deferred = m.deferred, QueryFree(m, ev)
    PROVE  Sound(m, h, ev, FailValidation(n, h, reply))
<1> DEFINE p == [n EXCEPT !.callback = NoCallback, !.cap = NoCap,
                          !.revoked = n.work.id, !.work = NoWork]
           o == Close(p, h, "client", "failed", "check_rejected")
<1>1. /\ p \in Machines /\ p.rec = m.rec /\ p.conn = m.conn /\ p.deferred = m.deferred
      /\ p.callback = NoCallback
  <2>1. n.work.id \in Nat BY MachineFields, WorkFields
  <2> QED BY <2>1, EmptyTypes DEF Machines
<1>2. "failed" \in Endings BY DEF Endings
<1>3. FailValidation(n, h, reply) = IF n.work.task # "Validator" THEN Fault(n)
                                    ELSE RespondCallback(reply, o)
  BY DEF FailValidation
<1> HIDE DEF p
<1>4. CASE m.work.task = "Validator"
  <2>1. m.rec.phase \in HasDeadline BY <1>4 DEF Orderly, Fits, At, HasDeadline
  <2>2. Sound(m, h, ev, o) BY <1>1, <1>2, <1>4, <2>1, CloseSound, Words
  <2>3. o \in Outputs BY <1>1, CloseType, Words
  <2> HIDE DEF o
  <2> QED BY <1>3, <1>4, <2>2, <2>3, ReplySound
<1>5. CASE m.work.task # "Validator"
  BY <1>3, <1>5, ReplyKeeps DEF Sound
<1> QED BY <1>4, <1>5

\* What waited for the query: the verdict, or the rollback of an expiry.
LEMMA AfterCallbackSound ==
    ASSUME NEW m \in Machines, NEW n \in Machines, NEW h \in HostFacts, NEW ev,
           Orderly(m, h.snap), Consistent(m), n.rec = m.rec, n.conn = m.conn,
           n.work = m.work, n.deferred = m.deferred, n.callback = NoCallback,
           ~Answered(m, ev), QueryFree(m, ev)
    PROVE  Sound(m, h, ev, AfterCallback(n, h))
<1>1. CASE HasDeferred(n)
  <2> DEFINE p == [n EXCEPT !.deferred = NoWork]
             v == n.deferred
             o == Verdict(p, h, v, v.allowed)
  <2>1. /\ p \in Machines /\ p.rec = m.rec /\ p.conn = m.conn /\ p.deferred = NoWork
        /\ p.callback = NoCallback
    BY EmptyTypes DEF Machines
  <2>2. v \in Works /\ v = m.deferred /\ m.deferred.task = "Verdict" /\ ~HasWork(m)
    BY <1>1, MachineFields DEF Consistent, HasDeferred
  <2>3. m.rec.phase = "validating" /\ m.conn = "open" /\ Owns(m, v, h.snap)
    BY <2>2 DEF Orderly, Fits, At
  <2>4. AfterCallback(n, h) = o BY <1>1 DEF AfterCallback
  <2> HIDE DEF p, v
  <2>5. Live(p.rec) /\ m.rec.phase \in HasDeadline BY <2>1, <2>3 DEF Live, HasDeadline
  <2>6. \/ o.fault = TRUE \/ \E phase \in Endings : Closes(p, h, o, phase)
        \/ VerdictMoves(p, h, v, v.allowed, o)
    BY <2>1, <2>2, <2>5, VerdictMove
  <2>7. o \in Outputs
    <3>1. v.allowed \in BOOLEAN BY <2>2, WorkFields
    <3> QED BY <2>1, <2>2, <3>1, VerdictType
  <2> HIDE DEF o
  <2>8. m.work.task = "none" BY <2>2 DEF HasWork
  <2>9. NoCallback.task # "Execute" BY DEF NoCallback
  <2>10. ASSUME Consistent(o.m), NEW phase \in Endings, Closes(p, h, o, phase)
         PROVE  Steps(m, h, ev, o)
    <3>1. p.rec \in Records BY <2>1, MachineFields
    <3> QED BY <2>1, <2>5, <2>7, <2>8, <2>10, <3>1, CloseSteps
  <2>11. ASSUME Consistent(o.m), VerdictMoves(p, h, v, v.allowed, o)
         PROVE  Steps(m, h, ev, o)
    <3>1. v.check \in Nat BY <2>2, WorkFields
    <3>2. Verdicted(m, ev, v.check)
      BY <1>1, <2>2, <2>11 DEF VerdictMoves, Verdicted, HasDeferred
    <3> QED BY <2>1, <2>3, <2>7, <2>8, <2>9, <2>11, <3>1, <3>2, VerdictSteps
  <2>12. (\E phase \in Endings : Closes(p, h, o, phase)) \/ VerdictMoves(p, h, v, v.allowed, o)
         => o.reset = FALSE
    BY DEF Closes, VerdictMoves, Goes
  <2> QED BY <2>4, <2>6, <2>10, <2>11, <2>12 DEF Sound
<1>2. CASE /\ ~HasDeferred(n) /\ n.rollback_requested /\ ~HasWork(n) /\ n.conn = "open"
           /\ n.rec.phase \in Terminal
  <2>1. m.rec.phase = "expired" /\ m.conn = "open"
    BY <1>2 DEF Orderly, Holds, Terminal, HasDeadline
  <2>2. AfterCallback(n, h) = Close(n, h, "background", "expired", "none")
    BY <1>2, <2>1 DEF AfterCallback
  <2>3. "expired" \in Endings /\ m.work.task = "none"
    BY <1>2 DEF Endings, HasWork
  <2> QED BY <2>1, <2>2, <2>3, CloseSound, Words
<1>3. CASE /\ ~HasDeferred(n)
           /\ ~(/\ n.rollback_requested /\ ~HasWork(n) /\ n.conn = "open"
                /\ n.rec.phase \in Terminal)
  <2>1. AfterCallback(n, h) = Quiet(n) BY <1>3 DEF AfterCallback
  <2> QED BY <2>1, QuietSound
<1> QED BY <1>1, <1>2, <1>3

\* A query of a validator.
LEMMA CallbackQuerySound ==
    ASSUME NEW m \in Machines, NEW h \in HostFacts, NEW ev, NEW q \in Commands,
           Orderly(m, h.snap), ~Answered(m, ev)
    PROVE  Sound(m, h, ev, CallbackQuery(m, h, q))
<1>1. \A reply : Sound(m, h, ev, RespondCallback(reply, Quiet(m))) BY StaySound
<1> SUFFICES ASSUME m.callback.task = "none"
             PROVE  Sound(m, h, ev, CallbackQuery(m, h, q))
  BY <1>1 DEF CallbackQuery
<1>4. QueryFree(m, ev) BY DEF QueryFree, CallbackExecuting
<1>2. \A reply \in Replies : Sound(m, h, ev, FailValidation(m, h, reply))
  BY <1>4, FailValidationSound
<1>3. CapabilityLive(m) => Sound(m, h, ev, WaitCallback(m, h, "Binding", q))
  <2> DEFINE o == WaitCallback(m, h, "Binding", q)
  <2>1. q.tok \in Nat /\ q.seq \in Nat BY DEF Commands
  <2>2. /\ o.reset = FALSE /\ o.await.type \in {"checkBinding", "execute"}
        /\ o.await.id = h.id /\ o.m.rec = m.rec /\ o.m.conn = m.conn
        /\ o.m.work = m.work /\ o.m.deferred = m.deferred
        /\ o.m.callback.task = "Binding" /\ o.m.callback.id = h.id
        /\ o.await.type # "execute" /\ o.await.arg = 0
    <3>1. Queries(m, h, "Binding", o) BY <2>1, WaitCallbackGoes
    <3> HIDE DEF o
    <3> QED BY <3>1 DEF Queries
  <2>3. o \in Outputs BY <2>1, WaitCallbackType
  <2> HIDE DEF o
  <2>4. CapabilityLive(m) => Steps(m, h, ev, o)
    BY <1>4, <2>2, <2>3, QuerySteps DEF CapabilityLive
  <2>5. CapabilityLive(m) => Sound(m, h, ev, o) BY <2>4 DEF Sound
  <2> QED BY <2>5 DEF o
<1> QED BY <1>1, <1>2, <1>3, Words DEF CallbackQuery

\* The outcome of a query's effect.
LEMMA CallbackOutcomeSound ==
    ASSUME NEW m \in Machines, NEW h \in HostFacts, NEW ev, NEW result,
           Orderly(m, h.snap), Consistent(m), ~Answered(m, ev), CallbackAnswered(m, ev)
    PROVE  Sound(m, h, ev, CallbackOutcome(m, h, result))
<1> DEFINE cb == m.callback
           n == [m EXCEPT !.callback = NoCallback]
           live == CapabilityLive(n) /\ n.cap.check = cb.tok
<1>1. /\ n \in Machines /\ n.rec = m.rec /\ n.conn = m.conn /\ n.work = m.work
      /\ n.deferred = m.deferred /\ n.callback = NoCallback
  BY EmptyTypes DEF Machines
<1>2. cb \in Callbacks BY MachineFields
<1>3. CallbackOutcome(m, h, result) =
        IF cb.task = "Binding" THEN CallbackBinding(n, h, cb, live, result)
        ELSE CallbackExecuted(n, h, cb, live, result)
  BY DEF CallbackOutcome
<1>4. live => CapabilityLive(n) OBVIOUS
<1>12. QueryFree(m, ev) BY DEF QueryFree
<1> HIDE DEF cb, n, live
<1>5. \A reply \in Replies : Sound(m, h, ev, FailValidation(n, h, reply))
  BY <1>1, <1>12, FailValidationSound
<1>6. \A reply : Sound(m, h, ev, RespondCallback(reply, AfterCallback(n, h)))
  BY <1>1, <1>12, AfterCallbackSound, AfterCallbackType, ReplySound
<1>7. \A reply \in Replies : Sound(m, h, ev, CallbackFailed(n, h, live, reply))
  BY <1>5, <1>6 DEF CallbackFailed
<1>8. live => Sound(m, h, ev, WaitCallback(n, h, "Execute", cb))
  <2> DEFINE o == WaitCallback(n, h, "Execute", cb)
  <2>1. cb.tok \in Nat /\ cb.seq \in Nat BY <1>2 DEF Callbacks
  <2>2. /\ o.reset = FALSE /\ o.await.type \in {"checkBinding", "execute"}
        /\ o.await.id = h.id /\ o.m.rec = n.rec /\ o.m.conn = n.conn
        /\ o.m.work = n.work /\ o.m.deferred = n.deferred
        /\ o.m.callback.task = "Execute" /\ o.m.callback.id = h.id /\ o.await.arg = 0
    <3>1. Queries(n, h, "Execute", o)
      BY <1>1, <2>1, WaitCallbackGoes
    <3> HIDE DEF o
    <3> QED BY <3>1 DEF Queries
  <2>3. o \in Outputs BY <1>1, <2>1, WaitCallbackType
  <2> HIDE DEF o
  <2>4. live => Steps(m, h, ev, o)
    BY <1>1, <1>4, <1>12, <2>2, <2>3, QuerySteps DEF CapabilityLive
  <2>5. live => Sound(m, h, ev, o) BY <2>4 DEF Sound
  <2> QED BY <2>5 DEF o
<1>9. Sound(m, h, ev, RespondCallback("result", Quiet([n EXCEPT !.cap.next = cb.seq + 1])))
  <2> DEFINE cap == [n.cap EXCEPT !.next = cb.seq + 1]
             p == [n EXCEPT !.cap = cap]
  <2>1. [n EXCEPT !.cap.next = cb.seq + 1] = p BY <1>1 DEF Machines
  <2>2. cap \in Capabilities
    BY <1>1, <1>2, MachineFields DEF Capabilities, Callbacks
  <2> HIDE DEF cap
  <2>3. /\ p \in Machines /\ p.rec = m.rec /\ p.conn = m.conn /\ p.work = m.work
        /\ p.deferred = m.deferred /\ p.callback = NoCallback
    BY <1>1, <2>2 DEF Machines
  <2> HIDE DEF p
  <2>4. Sound(m, h, ev, Quiet(p)) /\ Quiet(p) \in Outputs
    BY <1>12, <2>3, QuietSound, QuietType
  <2>5. Sound(m, h, ev, RespondCallback("result", Quiet(p))) BY <2>4, ReplySound
  <2> QED BY <2>1, <2>5
<1>10. Sound(m, h, ev, CallbackBinding(n, h, cb, live, result))
  BY <1>5, <1>6, <1>7, <1>8, Words DEF CallbackBinding
<1>11. Sound(m, h, ev, CallbackExecuted(n, h, cb, live, result))
  BY <1>5, <1>6, <1>7, <1>9, Words DEF CallbackExecuted
<1> QED BY <1>3, <1>10, <1>11

(***************************************************************************)
(* The timer                                                               *)
(***************************************************************************)
\* A validation that expires, at once or after the query that holds the
\* connection.
LEMMA ExpireValidatingSound ==
    ASSUME NEW m \in Machines, NEW h \in HostFacts, NEW ev,
           Orderly(m, h.snap), Consistent(m), m.rec.phase = "validating",
           m.work.task = "Validator" \/ HasDeferred(m)
    PROVE  Sound(m, h, ev, ExpireValidating(m, h))
<1> DEFINE a == [m EXCEPT !.cap = NoCap, !.revoked = m.work.id, !.work = NoWork]
           b == [m EXCEPT !.cap = NoCap, !.deferred = NoWork]
           ended == IF HasWork(m) THEN a ELSE b
           n == SetPhase(ended, "expired")
           p == [n EXCEPT !.rollback_requested = TRUE]
           o == IF CallbackExecuting(n) THEN Quiet(p)
                ELSE Close(n, h, "background", "expired", "none")
<1>0. /\ NoWork.task = "none" /\ NoEffect.type = "none" /\ "expired" \in Endings
      /\ m.work.id \in Nat
  BY MachineFields, WorkFields DEF NoWork, NoEffect, Endings
<1>1. /\ a \in Machines /\ a.rec = m.rec /\ a.conn = m.conn /\ a.work = NoWork
      /\ a.deferred = m.deferred /\ a.callback = m.callback
  BY <1>0, EmptyTypes DEF Machines
<1>2. /\ b \in Machines /\ b.rec = m.rec /\ b.conn = m.conn /\ b.work = m.work
      /\ b.deferred = NoWork /\ b.callback = m.callback
  BY EmptyTypes DEF Machines
<1>3. /\ HasWork(m) => m.deferred = NoWork
      /\ ~HasWork(m) => m.work = NoWork
  BY DEF Orderly, Tidy, Consistent
<1> HIDE DEF a, b
<1>4. /\ ended \in Machines /\ ended.rec = m.rec /\ ended.conn = m.conn
      /\ ended.work = NoWork /\ ended.deferred = NoWork /\ ended.callback = m.callback
  BY <1>1, <1>2, <1>3
<1>5. ExpireValidating(m, h) = Respond("check_rejected", o)
  BY DEF ExpireValidating, a, b
<1> HIDE DEF ended
<1>6. /\ n \in Machines /\ n.rec.phase = "expired" /\ n.conn = m.conn
      /\ n.work = NoWork /\ n.deferred = NoWork /\ n.callback = m.callback
  <2>1. Live(ended.rec) BY <1>4 DEF Live
  <2>2. /\ n \in Machines /\ n.rec = [ended.rec EXCEPT !.phase = "expired"]
        /\ n.conn = m.conn /\ n.work = NoWork /\ n.deferred = NoWork
        /\ n.callback = m.callback
    BY <1>4, <2>1, SetPhaseMoves, Words
  <2>3. ended.rec \in Records BY <1>4, MachineFields
  <2> HIDE DEF n
  <2> QED BY <2>2, <2>3, RecordFields
<1> HIDE DEF n
<1>7. CASE CallbackExecuting(n)
  <2>1. /\ p \in Machines /\ p.rec = n.rec /\ p.conn = m.conn /\ p.work = NoWork
        /\ p.deferred = NoWork /\ p.callback = m.callback
    BY <1>6 DEF Machines
  <2> HIDE DEF p
  <2>2. o = Quiet(p) BY <1>7
  <2> HIDE DEF o
  <2>3. o.m = p /\ o.await = NoEffect /\ o.reset = FALSE /\ o \in Outputs
    BY <2>1, <2>2, ReplyKeeps, QuietType
  <2>4. m.callback.task = "Execute" BY <1>6, <1>7 DEF CallbackExecuting
  <2>5. RecordSteps(m, ev, o)
    BY <1>0, <1>6, <2>1, <2>3 DEF RecordSteps, Leads, Terminal, Endings
  <2>6. StartSteps(m, ev, o) BY DEF StartSteps
  <2>7. ConnSteps(m, ev, o) BY <1>0, <2>1, <2>3 DEF ConnSteps
  <2>8. WorkSteps(m, h, ev, o) BY <1>0, <2>1, <2>3 DEF WorkSteps, HasWork, BeginTasks
  <2>9. Fits(o.m, o.m.work, h.snap) /\ Fits(o.m, o.m.deferred, h.snap)
    BY <1>0, <2>1, <2>3 DEF Fits
  <2>10. Tidy(o.m) /\ Holds(o.m)
    BY <1>0, <1>6, <2>1, <2>3, <2>4 DEF Tidy, Holds, HasWork, HasDeferred, CallbackExecuting
  <2>13. ProgressSteps(m, h, ev, o)
    <3>1. m.work.task # "StatementExecute" BY DEF Consistent, HasWork
    <3>2. UseSteps(m, h, ev, o) BY <1>0, <2>1, <2>3, <3>1 DEF UseSteps
    <3>3. ~Runs(o.m) BY <1>6, <2>1, <2>3 DEF Runs, HasDeadline
    <3> QED BY <3>2, <3>3 DEF ProgressSteps, CountSteps, CheckSteps
  <2>11. Steps(m, h, ev, o)
    BY <2>3, <2>5, <2>6, <2>7, <2>8, <2>9, <2>10, <2>13 DEF Steps, Orderly
  <2>12. Sound(m, h, ev, o) BY <2>11 DEF Sound
  <2> QED BY <1>5, <2>3, <2>12, ReplySound
<1>8. CASE ~CallbackExecuting(n)
  <2>1. o = Close(n, h, "background", "expired", "none") BY <1>8
  <2>2. m.work.task \notin {"BeginPersist", "StatementExecute"} BY DEF Consistent, HasWork
  <2> HIDE DEF o
  <2>3. Sound(m, h, ev, o) BY <1>0, <1>6, <2>1, <2>2, CloseSound, Words
  <2>4. o \in Outputs BY <1>6, <2>1, CloseType, Words
  <2> QED BY <1>5, <2>3, <2>4, ReplySound
<1> QED BY <1>7, <1>8

\* The timer.
LEMMA TimerSound ==
    ASSUME NEW m \in Machines, NEW h \in HostFacts, NEW ev,
           Orderly(m, h.snap), Consistent(m), ~Answered(m, ev)
    PROVE  Sound(m, h, ev, Timer(m, h))
<1> DEFINE asked == m.rollback_requested \/ Defers(m.work)
           p == [m EXCEPT !.rollback_requested = asked]
<1>1. /\ p \in Machines /\ p.rec = m.rec /\ p.conn = m.conn /\ p.work = m.work
      /\ p.deferred = m.deferred /\ p.callback = m.callback
  <2>1. asked \in BOOLEAN OBVIOUS
  <2> HIDE DEF asked
  <2> QED BY <2>1 DEF Machines
<1>2. Sound(m, h, ev, Quiet(m)) BY StaySound
<1>3. Sound(m, h, ev, Quiet(p))
  <2> HIDE DEF p
  <2> QED BY <1>1, QuietSound
<1>4. m.rec.phase \in {"active", "validating"} /\ ~HasWork(m) =>
         Sound(m, h, ev, Close(m, h, "background", "expired", "none"))
  <2>1. "expired" \in Endings BY DEF Endings
  <2>2. m.rec.phase \in {"active", "validating"} => m.rec.phase \in HasDeadline
    BY DEF HasDeadline
  <2>3. ~HasWork(m) => m.work.task \notin {"BeginPersist", "StatementExecute"} BY DEF HasWork
  <2> QED BY <2>1, <2>2, <2>3, CloseSound, Words
<1>5. p = [m EXCEPT !.rollback_requested = @ \/ Defers(m.work)] OBVIOUS
<1> HIDE DEF p
<1> QED BY <1>2, <1>3, <1>4, <1>5, ExpireValidatingSound DEF Timer

(***************************************************************************)
(* Client input                                                            *)
(***************************************************************************)
\* A begin waits for its binding, or is refused at once.
LEMMA BeginSound ==
    ASSUME NEW m \in Machines, NEW h \in HostFacts, NEW ev, Orderly(m, h.snap),
           ev.cmd \in Commands, ev.type = "forwarded", ev.cmd.kind = "begin",
           ~Answered(m, ev)
    PROVE  Sound(m, h, ev, Begin(m, h, ev.cmd))
<1> DEFINE o == Wait(m, h, TaskWork("BeginBinding", "client", ev.cmd))
<1>1. ASSUME ~Busy(m) PROVE Sound(m, h, ev, o)
  <2>0. /\ m.work.task = "none" /\ m.deferred.task = "none" /\ m.rec.phase \in Phases
        /\ NoWork.task = "none"
    BY <1>1, MachineFields DEF Busy, HasWork, HasDeferred, NoWork
  <2>1. Goes(m, h, o, "BeginBinding", "client", ev.cmd, 0) /\ Keeps(m, o, m.conn)
    <3>1. "BeginBinding" \in Tasks /\ "client" \in Lanes BY DEF Tasks, Lanes
    <3> QED BY <3>1, TaskGoes
  <2> HIDE DEF o
  <2>2. /\ o.reset = FALSE /\ o.m.rec = m.rec /\ o.m.conn = m.conn
        /\ o.m.work.task = "BeginBinding" /\ o.m.work.id = h.id
        /\ o.m.deferred = m.deferred /\ o.m.callback = m.callback
        /\ o.await.type = "checkBinding" /\ o.await.id = h.id
    BY <2>1, AwaitedEffects DEF Goes, Keeps
  <2>3. RecordSteps(m, ev, o)
    BY <2>0, <2>2 DEF RecordSteps, Leads, Phases, HasDeadline, Terminal
  <2>4. StartSteps(m, ev, o) BY <2>0 DEF StartSteps
  <2>5. ConnSteps(m, ev, o) BY <2>2 DEF ConnSteps
  <2>6. WorkSteps(m, h, ev, o) BY <2>2 DEF WorkSteps
  <2>7. Fits(o.m, o.m.work, h.snap) /\ Fits(o.m, o.m.deferred, h.snap)
    BY <2>0, <2>2 DEF Fits
  <2>8. Tidy(o.m) /\ Holds(o.m)
    BY <2>2 DEF Orderly, Tidy, Holds, HasWork, HasDeferred, CallbackExecuting
  <2>9. ProgressSteps(m, h, ev, o)
    <3>1. CheckMoves(m, ev, o) BY <2>2 DEF CheckMoves
    <3> QED BY <2>0, <2>2, <3>1, KeptProgress
  <2> QED BY <2>2, <2>3, <2>4, <2>5, <2>6, <2>7, <2>8, <2>9 DEF Sound, Steps, Orderly
<1> HIDE DEF o
<1> QED BY <1>1, StaySound DEF Begin, o

\* A command waits for its binding under the record's own caller, sequence and
\* snapshot.
LEMMA OwnWaitSound ==
    ASSUME NEW m \in Machines, NEW h \in HostFacts, NEW ev, NEW w \in Works,
           Orderly(m, h.snap), ~HasWork(m), m.rec.phase = "active", m.conn = "open",
           w.task \in {"StatementBinding", "CommitBinding", "RollbackBinding"},
           w.task = "CommitBinding" => w.check = IF Triggered(m.rec) THEN 1 ELSE 0,
           Owns(m, w, h.snap)
    PROVE  Sound(m, h, ev, Wait(m, h, w))
<1> DEFINE o == Wait(m, h, w)
<1>0. m.work.task = "none" /\ m.callback.task = "none"
  BY MachineFields DEF HasWork, Orderly, Holds, Callbacks
<1>1. Goes(m, h, o, w.task, w.lane, w.cmd, w.check) /\ Keeps(m, o, m.conn) BY WaitGoes
<1>2. o \in Outputs BY WaitType
<1> HIDE DEF o
<1>3. AwaitedBy(w.task) = "checkBinding" BY AwaitedEffects
<1>4. /\ o.reset = FALSE /\ o.m.rec = m.rec /\ o.m.conn = "open"
      /\ o.m.work.task = w.task /\ o.m.work.id = h.id
      /\ o.m.work.lane = w.lane /\ o.m.work.cmd = w.cmd /\ o.m.work.check = w.check
      /\ o.m.deferred = m.deferred /\ o.m.callback = m.callback
      /\ o.await.type = "checkBinding" /\ o.await.id = h.id
  BY <1>1, <1>3 DEF Goes, Keeps
<1>5. RecordSteps(m, ev, o) BY <1>4 DEF RecordSteps, Leads, Terminal
<1>6. StartSteps(m, ev, o) BY <1>0 DEF StartSteps
<1>7. ConnSteps(m, ev, o) BY <1>4 DEF ConnSteps
<1>8. Owns(o.m, o.m.work, h.snap) BY <1>4 DEF Owns
<1>9. Fits(o.m, o.m.work, h.snap) BY <1>4, <1>8 DEF Fits, At
<1>10. Holds(o.m) BY <1>0, <1>4 DEF Holds, HasDeadline, CallbackExecuting
<1>11. w.task \notin BeginTasks \cup {"none"} BY DEF BeginTasks
<1>14. ProgressSteps(m, h, ev, o)
  <2>1. CheckMoves(m, ev, o) BY <1>4 DEF CheckMoves
  <2> QED BY <1>0, <1>4, <2>1, KeptProgress
<1>12. Consistent(o.m) => Steps(m, h, ev, o)
  BY <1>2, <1>3, <1>4, <1>5, <1>6, <1>7, <1>9, <1>10, <1>11, <1>14, LaneSteps
<1>13. Sound(m, h, ev, o) BY <1>4, <1>12 DEF Sound
<1> QED BY <1>13 DEF o

\* The commands of an active transaction.
LEMMA NextCommandSound ==
    ASSUME NEW m \in Machines, NEW h \in HostFacts, NEW ev, NEW cmd \in Commands,
           Orderly(m, h.snap), ~HasWork(m), m.rec.phase = "active", m.conn = "open",
           cmd.seq # 0, cmd.seq = m.rec.seq, cmd.auth = m.rec.auth,
           cmd.snap = m.rec.snap, m.rec.snap = h.snap
    PROVE  Sound(m, h, ev, NextCommand(m, h, cmd))
<1>1. \A reply \in Replies : Sound(m, h, ev, Close(m, h, "client", "failed", reply))
  <2>1. /\ "failed" \in Endings /\ m.rec.phase \in HasDeadline
        /\ m.work.task \notin {"BeginPersist", "StatementExecute"}
    BY DEF Endings, HasDeadline, HasWork
  <2> QED BY <2>1, CloseSound, Words
<1>2. ASSUME NEW task \in {"StatementBinding", "RollbackBinding"}
      PROVE  Sound(m, h, ev, Wait(m, h, TaskWork(task, "client", cmd)))
  <2> DEFINE w == TaskWork(task, "client", cmd)
  <2>1. w \in Works BY TaskWorkType DEF Tasks, Lanes
  <2>2. w.task = task /\ w.lane = "client" /\ w.cmd = cmd BY BuiltFields
  <2> HIDE DEF w
  <2>3. Owns(m, w, h.snap) BY <2>2 DEF Owns
  <2>4. Sound(m, h, ev, Wait(m, h, w)) BY <2>1, <2>2, <2>3, OwnWaitSound
  <2> QED BY <2>4 DEF w
<1>3. Sound(m, h, ev, Wait(m, h, [TaskWork("CommitBinding", "client", cmd) EXCEPT
                                     !.check = IF Triggered(m.rec) THEN 1 ELSE 0]))
  <2> DEFINE u == TaskWork("CommitBinding", "client", cmd)
             check == IF Triggered(m.rec) THEN 1 ELSE 0
             w == [u EXCEPT !.check = check]
  <2>0. check \in Nat OBVIOUS
  <2>1. u \in Works /\ u.task = "CommitBinding" /\ u.lane = "client" /\ u.cmd = cmd
    BY TaskWorkType, BuiltFields DEF Tasks, Lanes
  <2> HIDE DEF u, check
  <2>2. /\ w \in Works /\ w.task = "CommitBinding" /\ w.lane = "client" /\ w.cmd = cmd
        /\ w.check = check
    BY <2>0, <2>1 DEF Works
  <2> HIDE DEF w
  <2>3. Owns(m, w, h.snap) BY <2>2 DEF Owns
  <2>4. Sound(m, h, ev, Wait(m, h, w)) BY <2>2, <2>3, OwnWaitSound DEF check
  <2> QED BY <2>4 DEF w, u, check
<1>5. Sound(m, h, ev, Statement(m, h, cmd)) BY <1>1, <1>2, Words DEF Statement
<1> QED BY <1>2, <1>3, <1>5 DEF NextCommand

\* A record still `committing` is settled as unknown.
LEMMA CommitUncertainSound ==
    ASSUME NEW m \in Machines, NEW h \in HostFacts, NEW ev, NEW cmd,
           Orderly(m, h.snap), ~Answered(m, ev)
    PROVE  Sound(m, h, ev, CommitUncertain(m, h, cmd))
<1> DEFINE answer == IF cmd.kind = "commit" /\ cmd.seq = m.rec.seq
                     THEN "outcome_unknown" ELSE "unavailable"
           f == Fresh(m.rec)
           p == SetPhase(f, "commit_unknown")
           o == PersistReply(p, h, answer, answer)
<1>0. answer \in Replies BY Words
<1>1. CommitUncertain(m, h, cmd) =
        IF m.work.lane = "client" THEN Respond("internal", Quiet(m))
        ELSE IF m.rec.phase = "committing" THEN o
        ELSE Respond(answer, Quiet(m))
  BY DEF CommitUncertain
<1> HIDE DEF answer
<1>2. ASSUME m.rec.phase = "committing" PROVE Sound(m, h, ev, o)
  <2>1. /\ f \in Machines /\ f.rec = m.rec /\ f.conn = "none" /\ f.deferred = NoWork
        /\ f.callback = NoCallback /\ m.rec \in Records
    BY MachineFields, FreshType DEF Fresh
  <2> HIDE DEF f
  <2>2. Live(f.rec) BY <1>2, <2>1 DEF Live
  <2>3. /\ p \in Machines /\ p.rec = [m.rec EXCEPT !.phase = "commit_unknown"]
        /\ p.conn = "none" /\ p.deferred = NoWork /\ p.callback = NoCallback
    BY <2>1, <2>2, SetPhaseMoves, Words
  <2> HIDE DEF p
  <2>4. Answers(p, h, o) /\ Keeps(p, o, p.conn)
    BY <1>0, <2>3, ReplyAnswers, Words DEF PersistReply
  <2>5. o \in Outputs BY <1>0, <2>3, PersistReplyType
  <2> HIDE DEF o
  <2>6. /\ o.reset = FALSE /\ o.m.rec.phase = "commit_unknown" /\ o.m.conn = "none"
        /\ o.m.work.task = "Reply" /\ o.m.work.id = h.id
        /\ o.m.work.expire_after = FALSE
        /\ o.m.deferred = NoWork /\ o.m.callback = NoCallback
        /\ o.await.type = "persist" /\ o.await.id = h.id
    BY <2>1, <2>3, <2>4, RecordFields DEF Answers, Keeps
  <2>7. RecordSteps(m, ev, o) BY <1>2, <2>6 DEF RecordSteps, Leads, Terminal
  <2>8. StartSteps(m, ev, o) BY <1>2 DEF StartSteps
  <2>9. ConnSteps(m, ev, o) BY <2>6 DEF ConnSteps
  <2>10. Fits(o.m, o.m.work, h.snap) BY <2>6 DEF Fits, Terminal
  <2>11. Holds(o.m) BY <2>6 DEF Holds, CallbackExecuting, NoCallback
  <2>12. AwaitedBy("Reply") = "persist" /\ "Reply" \notin BeginTasks \cup {"none"}
    BY AwaitedEffects DEF BeginTasks
  <2>14. ProgressSteps(m, h, ev, o) BY <2>6, ClosedProgress
  <2>13. Consistent(o.m) => Steps(m, h, ev, o)
    BY <2>5, <2>6, <2>7, <2>8, <2>9, <2>10, <2>11, <2>12, <2>14, LaneSteps
  <2> QED BY <2>6, <2>13 DEF Sound
<1> HIDE DEF o
<1> QED BY <1>1, <1>2, StaySound

\* Input answers no effect.
LEMMA InputAnswers ==
    ASSUME NEW m \in Machines, NEW ev, ev.type \in {"forwarded", "timerFired"}
    PROVE  ~Answered(m, ev)
<1>1. m.work.task \in Tasks BY MachineFields, WorkFields
<1> QED BY <1>1 DEF Answered, AwaitedBy

\* Everything a caller or a validator forwards.
LEMMA ForwardedSound ==
    ASSUME NEW m \in Machines, NEW h \in HostFacts, NEW ev, Orderly(m, h.snap),
           Consistent(m), ev.cmd \in Commands, ev.type = "forwarded"
    PROVE  Sound(m, h, ev, Forwarded(m, h, ev.cmd))
<1> DEFINE cmd == ev.cmd
<1>0. ~Answered(m, ev) BY InputAnswers
<1>1. \A reply : Sound(m, h, ev, Respond(reply, Quiet(m))) BY <1>0, StaySound
<1>2. ASSUME ~Busy(m), m.rec.phase = "active"
      PROVE  \A phase \in Endings, reply \in Replies :
                Sound(m, h, ev, Close(m, h, "client", phase, reply))
  <2>1. /\ m.rec.phase \in HasDeadline
        /\ m.work.task \notin {"BeginPersist", "StatementExecute"}
    BY <1>2 DEF HasDeadline, Busy, HasWork
  <2> QED BY <2>1, CloseSound, Words
<1>3. ASSUME ~Busy(m), cmd.auth = m.rec.auth, cmd.snap = m.rec.snap
      PROVE  Sound(m, h, ev, OwnCommand(m, h, cmd))
  <2>1. "failed" \in Endings /\ "expired" \in Endings BY DEF Endings
  <2>2. ~HasWork(m) BY <1>3 DEF Busy
  <2>3. CASE m.rec.phase # "active"
    BY <1>1, <2>3 DEF OwnCommand
  <2>4. CASE m.rec.phase = "active"
    <3>1. \A phase \in {"failed", "expired"}, reply \in {"unavailable", "conflict"} :
             Sound(m, h, ev, Close(m, h, "client", phase, reply))
      BY <1>2, <1>3, <2>1, <2>4, Words
    <3>2. m.rec.snap = h.snap /\ m.conn = "open" /\ cmd.seq # 0 /\ cmd.seq = m.rec.seq
            => Sound(m, h, ev, NextCommand(m, h, cmd))
      BY <1>3, <2>2, <2>4, NextCommandSound
    <3> HIDE DEF cmd
    <3> QED BY <1>1, <2>4, <3>1, <3>2 DEF OwnCommand
  <2> QED BY <2>3, <2>4
<1>4. Sound(m, h, ev, Command(m, h, cmd))
  BY <1>0, <1>1, <1>3, CommitUncertainSound DEF Command
<1>5. Sound(m, h, ev, CallbackQuery(m, h, cmd)) BY <1>0, CallbackQuerySound
<1>6. cmd.kind = "begin" => Sound(m, h, ev, Begin(m, h, cmd)) BY <1>0, BeginSound
<1> HIDE DEF cmd
<1>7. Sound(m, h, ev, Forwarded(m, h, cmd))
  BY <1>1, <1>4, <1>5, <1>6 DEF Forwarded
<1> QED BY <1>7 DEF cmd

(***************************************************************************)
(* The step                                                                *)
(***************************************************************************)
\* The outcome of an effect, whoever waits for it.
LEMMA OutcomeSound ==
    ASSUME NEW m \in Machines, NEW h \in HostFacts, NEW ev, Orderly(m, h.snap),
           Consistent(m)
    PROVE  Sound(m, h, ev, Outcome(m, h, ev))
<1> DEFINE n == [m EXCEPT !.work = NoWork]
           w == m.work
           o == Consume(n, h, w, ev.result)
<1>1. n \in Machines /\ n.rec = m.rec /\ n.conn = m.conn /\ w \in Works
  BY MachineFields, EmptyTypes DEF Machines
<1>2. ASSUME Answered(m, ev) PROVE Sound(m, h, ev, o)
  <2>1. Fits(m, w, h.snap) BY DEF Orderly
  <2>2. o \in Outputs
    <3> HIDE DEF n
    <3> QED BY <1>1, ConsumeType
  <2>3. Consumed(n, h, w, ev.result, o)
    <3> HIDE DEF n, w
    <3>1. Fits(n, w, h.snap) BY <1>1, <2>1 DEF Fits, At, Owns
    <3> QED BY <1>1, <3>1, ConsumeMoves
  <2> HIDE DEF o
  <2>4. o.fault # TRUE /\ (o.reset = TRUE \/ Consistent(o.m)) => Steps(m, h, ev, o)
    BY <1>2, <2>2, <2>3, ConsumedSteps
  <2>5. o.reset \in BOOLEAN BY <2>2 DEF Outputs
  <2> QED BY <2>4, <2>5 DEF Sound
<1>3. ~Answered(m, ev) /\ CallbackAnswered(m, ev) =>
         Sound(m, h, ev, CallbackOutcome(m, h, ev.result))
  BY CallbackOutcomeSound
<1>4. ~Answered(m, ev) => Sound(m, h, ev, Stale(m, ev)) BY StaySound DEF Stale
<1> HIDE DEF n, w
<1> QED BY <1>2, <1>3, <1>4 DEF Outcome, Answered, CallbackAnswered, n, w

\* The state without a volatile part.
LEMMA FreshOrderly ==
    ASSUME NEW rec, NEW snap
    PROVE  /\ Orderly(Fresh(rec), snap)
           /\ Fresh(rec).rec = rec /\ Fresh(rec).conn = "none" /\ Fresh(rec).work = NoWork
           /\ Fresh(rec).deferred = NoWork /\ Fresh(rec).callback = NoCallback
<1> DEFINE f == Fresh(rec)
<1>1. /\ f.rec = rec /\ f.conn = "none" /\ f.work = NoWork /\ f.deferred = NoWork
      /\ f.callback = NoCallback
  BY DEF Fresh
<1> HIDE DEF f
<1>2. NoWork.task = "none" /\ NoCallback.task = "none" BY DEF NoWork, NoCallback
<1>3. Fits(f, f.work, snap) /\ Fits(f, f.deferred, snap) BY <1>1, <1>2 DEF Fits
<1>4. Tidy(f) /\ Holds(f) BY <1>1, <1>2 DEF Tidy, Holds, CallbackExecuting
<1> QED BY <1>1, <1>3, <1>4 DEF Orderly, f

\* Work that needs a connection has one.
LEMMA ConnectedWork ==
    ASSUME NEW m \in Machines, NEW snap, Orderly(m, snap),
           m.work.task \in {"BeginPersist", "CloseRollback"}
    PROVE  m.conn # "none"
BY DEF Orderly, Fits, At

\* A state whose volatile part is dropped, and whose record ends.
LEMMA DroppedSteps ==
    ASSUME NEW m \in Machines, NEW h \in HostFacts, NEW ev, NEW o,
           NEW next \in {"failed", "commit_unknown"}, Orderly(m, h.snap),
           next = "failed" => m.rec.phase \in {"active", "validating"},
           next = "commit_unknown" => m.rec.phase = "committing",
           o.reset = FALSE, o.m.rec.phase = next, o.m.conn = "none",
           o.m.work = NoWork \/ (/\ o.m.work.task = "ResetAfterPersist"
                                 /\ o.m.work.id = h.id /\ o.m.work.expire_after = FALSE),
           o.m.deferred = NoWork, o.m.callback = NoCallback,
           o.await.type = "persist", o.await.id = h.id
    PROVE  Steps(m, h, ev, o)
<1>0. /\ NoWork.task = "none" /\ NoCallback.task = "none" /\ NoWork.expire_after = FALSE
      /\ o.m.work.task \in {"none", "ResetAfterPersist"}
  BY DEF NoWork, NoCallback
<1>1. RecordSteps(m, ev, o)
  BY <1>0 DEF RecordSteps, Leads, Terminal, Endings
<1>2. StartSteps(m, ev, o) BY DEF StartSteps, Endings
<1>3. ConnSteps(m, ev, o) BY DEF ConnSteps
<1>4. WorkSteps(m, h, ev, o) BY <1>0 DEF WorkSteps, HasWork, BeginTasks
<1>5. Fits(o.m, o.m.work, h.snap) BY <1>0 DEF Fits, Terminal
<1>6. Fits(o.m, o.m.deferred, h.snap) BY <1>0 DEF Fits
<1>7. Tidy(o.m) /\ Holds(o.m)
  BY <1>0 DEF Tidy, Holds, HasWork, HasDeferred, CallbackExecuting
<1>8. ProgressSteps(m, h, ev, o) BY ClosedProgress
<1> QED BY <1>1, <1>2, <1>3, <1>4, <1>5, <1>6, <1>7, <1>8 DEF Steps, Orderly

\* Abandoning.
LEMMA AbandonSound ==
    ASSUME NEW m \in Machines, NEW h \in HostFacts, NEW ev, Orderly(m, h.snap)
    PROVE  Sound(m, h, ev, Abandon(m, h))
<1> DEFINE next == IF m.rec.phase \in {"active", "validating"} /\ m.conn # "none"
                   THEN "failed"
                   ELSE IF m.rec.phase = "committing" THEN "commit_unknown" ELSE "absent"
           f == Fresh(m.rec)
           p == SetPhase(f, next)
           effect == [type |-> "persist", id |-> h.id, arg |-> 0]
           o == [Quiet(p) EXCEPT !.await = effect]
           q == Quiet(f)
<1>1. Abandon(m, h) = IF next = "absent" THEN q ELSE o BY DEF Abandon
<1>2. /\ f \in Machines /\ f.rec = m.rec /\ f.conn = "none" /\ f.work = NoWork
      /\ f.deferred = NoWork /\ f.callback = NoCallback /\ m.rec \in Records
      /\ m.rec.phase \in Phases
  BY MachineFields, FreshType, FreshOrderly
<1>3. /\ NoWork.task = "none" /\ NoEffect.type = "none"
  BY DEF NoWork, NoEffect
<1>4. CASE next = "absent"
  <2>1. q.m = f /\ q.await = NoEffect /\ q.reset = FALSE BY ReplyKeeps
  <2>2. m.rec.phase = "active" => m.work.task \notin {"BeginPersist", "CloseRollback"}
    BY <1>4, ConnectedWork
  <2>3. Orderly(f, h.snap) BY FreshOrderly
  <2> HIDE DEF next, q, f
  <2>4. RecordSteps(m, ev, q)
    BY <1>2, <1>3, <2>1 DEF RecordSteps, Leads, Phases, HasDeadline, Terminal
  <2>5. StartSteps(m, ev, q) BY <2>2 DEF StartSteps
  <2>6. ConnSteps(m, ev, q) BY <1>2, <1>3, <2>1 DEF ConnSteps
  <2>7. WorkSteps(m, h, ev, q) BY <1>2, <1>3, <2>1 DEF WorkSteps, HasWork, BeginTasks
  <2>9. ProgressSteps(m, h, ev, q) BY <1>2, <1>3, <2>1, ClosedProgress
  <2>8. Steps(m, h, ev, q) BY <2>1, <2>3, <2>4, <2>5, <2>6, <2>7, <2>9 DEF Steps
  <2> QED BY <1>1, <1>4, <2>8 DEF Sound
<1>5. CASE next # "absent"
  <2>1. /\ next \in {"failed", "commit_unknown"}
        /\ next = "failed" => m.rec.phase \in {"active", "validating"}
        /\ next = "commit_unknown" => m.rec.phase = "committing"
    BY <1>5
  <2> HIDE DEF next, f
  <2>2. Live(f.rec) BY <1>2, <2>1 DEF Live
  <2>3. /\ p \in Machines /\ p.rec = [m.rec EXCEPT !.phase = next]
        /\ p.conn = "none" /\ p.work = NoWork /\ p.deferred = NoWork
        /\ p.callback = NoCallback
    BY <1>2, <2>1, <2>2, SetPhaseMoves, Words
  <2> HIDE DEF p
  <2>4. p.rec.phase = next BY <1>2, <2>3, RecordFields
  <2>5. effect.type = "persist" /\ effect.id = h.id OBVIOUS
  <2> HIDE DEF effect
  <2>6. o.m = p /\ o.await = effect /\ o.reset = FALSE BY DEF Quiet
  <2> HIDE DEF o
  <2>7. Steps(m, h, ev, o) BY <2>1, <2>3, <2>4, <2>5, <2>6, DroppedSteps
  <2> QED BY <1>1, <1>5, <2>7 DEF Sound
<1> QED BY <1>4, <1>5

\* Failing closed.
LEMMA FailClosedSteps ==
    ASSUME NEW m \in Machines, NEW h \in HostFacts, NEW ev, Orderly(m, h.snap)
    PROVE  Steps(m, h, ev, FailClosed(m, h, ev))
<1> DEFINE next == IF m.rec.phase \in {"active", "validating"} /\ ~Idle(m) THEN "failed"
                   ELSE IF m.rec.phase = "committing" THEN "commit_unknown" ELSE "absent"
           f == Fresh(m.rec)
           p == SetPhase(f, next)
           reset == Reset(Quiet(f))
           wait == Wait(p, h, TaskWork("ResetAfterPersist", "background", NoCmd))
           o == IF next = "absent" THEN reset ELSE wait
           c == FaultReply(m, ev)
           d == FaultCallbackReply(m, ev)
           e == [o EXCEPT !.client = c, !.callback = d]
<1>1. FailClosed(m, h, ev) = e BY DEF FailClosed
<1>2. /\ f \in Machines /\ f.rec = m.rec /\ f.conn = "none" /\ f.work = NoWork
      /\ f.deferred = NoWork /\ f.callback = NoCallback /\ m.rec \in Records
  BY MachineFields, FreshType, FreshOrderly
<1> HIDE DEF c, d, f
<1>3. CASE next = "absent"
  <2>1. o = reset BY <1>3
  <2>2. Quiet(f) \in Outputs BY <1>2, QuietType
  <2>3. reset \in Outputs /\ reset.await = NoEffect /\ reset.reset = TRUE
    BY <2>2, ReplyTypes, ReplyKeeps, Words
  <2> HIDE DEF reset, o
  <2>4. e.await = NoEffect /\ e.reset = TRUE BY <2>1, <2>3 DEF Outputs
  <2> QED BY <1>1, <2>4 DEF Steps, Resets
<1>4. CASE next # "absent"
  <2>1. /\ next \in {"failed", "commit_unknown"}
        /\ next = "failed" => m.rec.phase \in {"active", "validating"}
        /\ next = "commit_unknown" => m.rec.phase = "committing"
    BY <1>4
  <2>0. o = wait BY <1>4
  <2> HIDE DEF next
  <2>2. Live(f.rec) BY <1>2, <2>1 DEF Live
  <2>3. /\ p \in Machines /\ p.rec = [m.rec EXCEPT !.phase = next]
        /\ p.conn = "none" /\ p.deferred = NoWork /\ p.callback = NoCallback
    BY <1>2, <2>1, <2>2, SetPhaseMoves, Words
  <2> HIDE DEF p
  <2>4. p.rec.phase = next BY <1>2, <2>3, RecordFields
  <2> DEFINE w == TaskWork("ResetAfterPersist", "background", NoCmd)
  <2>5. w \in Works /\ w.task = "ResetAfterPersist" /\ w.expire_after = FALSE
    BY TaskWorkType, EmptyTypes, BuiltFields, Words DEF Tasks
  <2>6. wait = Wait(p, h, w) OBVIOUS
  <2>7. AwaitedBy("ResetAfterPersist") = "persist" BY AwaitedEffects
  <2> HIDE DEF w, wait, o
  <2>8. /\ Goes(p, h, wait, w.task, w.lane, w.cmd, w.check) /\ Keeps(p, wait, p.conn)
        /\ wait.m.work.expire_after = w.expire_after
    BY <2>3, <2>5, <2>6, WaitGoes
  <2>9. wait \in Outputs BY <2>3, <2>5, <2>6, WaitType
  <2>10. e.m = wait.m /\ e.await = wait.await /\ e.reset = wait.reset
    BY <2>0, <2>9 DEF Outputs
  <2> HIDE DEF e
  <2>11. /\ e.reset = FALSE /\ e.m.rec.phase = next /\ e.m.conn = "none"
         /\ e.m.work.task = "ResetAfterPersist" /\ e.m.work.id = h.id
         /\ e.m.work.expire_after = FALSE
         /\ e.m.deferred = NoWork /\ e.m.callback = NoCallback
         /\ e.await.type = "persist" /\ e.await.id = h.id
    BY <2>3, <2>4, <2>5, <2>7, <2>8, <2>10 DEF Goes, Keeps
  <2>12. Steps(m, h, ev, e) BY <2>1, <2>11, DroppedSteps
  <2> QED BY <1>1, <2>12
<1> QED BY <1>3, <1>4

\* Dropping an idle volatile part makes no difference.
LEMMA FinishSteps ==
    ASSUME NEW m, NEW h, NEW ev, NEW o \in Outputs, Steps(m, h, ev, o)
    PROVE  Steps(m, h, ev, FinishOutput(o))
<1> DEFINE f == FinishOutput(o)
<1>0. o.reset \in BOOLEAN BY DEF Outputs
<1>1. CASE o.reset = TRUE
  <2>1. f.await = o.await /\ f.reset = o.reset BY Finished
  <2>2. o.await = NoEffect BY <1>1 DEF Steps, Resets
  <2> QED BY <1>1, <2>1, <2>2 DEF Steps, Resets
<1>2. CASE o.reset = FALSE /\ Idle(o.m)
  <2> DEFINE g == Fresh(o.m.rec)
  <2>1. f = [o EXCEPT !.m = g] BY <1>2 DEF FinishOutput
  <2>2. /\ g.rec = o.m.rec /\ g.conn = "none" /\ g.work = NoWork /\ g.deferred = NoWork
        /\ g.callback = NoCallback
    BY FreshOrderly
  <2> HIDE DEF g, f
  <2>3. f.m = g /\ f.await = o.await /\ f.reset = o.reset BY <2>1 DEF Outputs
  <2>4. /\ o.m.conn = "none" /\ o.m.work = NoWork /\ o.m.deferred = NoWork
        /\ o.m.callback = NoCallback
    BY <1>2 DEF Steps, Resets, Orderly, Tidy, Idle
  <2>5. Steps(m, h, ev, f) BY <2>2, <2>3, <2>4, SameSteps
  <2> QED BY <2>5 DEF f
<1>3. CASE o.reset = FALSE /\ ~Idle(o.m)
  BY <1>3 DEF FinishOutput
<1> QED BY <1>0, <1>1, <1>2, <1>3

\* Every step of the machine, on every event: a reset, or one of the moves
\* Steps allows, from an orderly and consistent state to an orderly one
\* (step.rs step, dispatch, fail_closed).
THEOREM MachineSteps ==
    ASSUME NEW m \in Machines, NEW h \in HostFacts, NEW ev \in Events,
           Orderly(m, h.snap), Consistent(m)
    PROVE  Steps(m, h, ev, RunDispatch(m, h, ev))
<1> DEFINE d == Dispatch(m, h, ev)
           failed == FailClosed(m, h, ev)
           o == IF d.fault \/ (~d.reset /\ ~Consistent(d.m)) THEN failed ELSE d
<1>1. ev.cmd \in Commands BY DEF Events
<1>2. d \in Outputs /\ failed \in Outputs
  BY <1>1, AbandonType, ForwardedType, TimerType, OutcomeType, FailClosedType
     DEF Dispatch
<1>3. Sound(m, h, ev, d)
  <2>1. ev.type = "timerFired" => Sound(m, h, ev, Timer(m, h)) BY InputAnswers, TimerSound
  <2> QED BY <1>1, <2>1, AbandonSound, ForwardedSound, OutcomeSound DEF Dispatch
<1>4. Steps(m, h, ev, failed) BY FailClosedSteps
<1>5. RunDispatch(m, h, ev) = FinishOutput(o) BY DEF RunDispatch
<1> HIDE DEF d, failed
<1>6. d.fault \in BOOLEAN /\ d.reset \in BOOLEAN BY <1>2 DEF Outputs
<1>7. CASE d.fault \/ (~d.reset /\ ~Consistent(d.m))
  <2>1. o = failed BY <1>7
  <2> QED BY <1>2, <1>4, <1>5, <2>1, FinishSteps
<1>8. CASE ~(d.fault \/ (~d.reset /\ ~Consistent(d.m)))
  <2>1. o = d BY <1>8
  <2>2. Steps(m, h, ev, d) BY <1>3, <1>6, <1>8 DEF Sound
  <2> QED BY <1>2, <1>5, <2>1, <2>2, FinishSteps
<1> QED BY <1>7, <1>8

\* An unreadable record is replaced by the tombstone (step.rs discard).
LEMMA DiscardSteps ==
    ASSUME NEW h \in HostFacts, NEW ev
    PROVE  LET o == FinishOutput(Discard(h, ev))
           IN  /\ o.reset = FALSE /\ o.m.rec = Tombstone /\ o.m.conn = "none"
               /\ o.m.work.task = "Reply" /\ o.m.work.id = h.id
               /\ o.await.type = "persist" /\ o.await.id = h.id
               /\ Orderly(o.m, h.snap)
<1> DEFINE w == ReplyWork("background", "none", "none")
           t == Fresh(Tombstone)
           o == Wait(t, h, w)
           d == Discard(h, ev)
           f == FinishOutput(d)
<1>1. /\ t \in Machines /\ t.rec = Tombstone /\ t.conn = "none" /\ t.deferred = NoWork
      /\ t.callback = NoCallback
  BY FreshOrderly, FreshType, EmptyTypes
<1>2. Answers(t, h, o) /\ Keeps(t, o, t.conn) /\ o \in Outputs
  <2> HIDE DEF t
  <2>1. o \in Outputs BY <1>1, ReplyWorkType, WaitType, Words
  <2> QED BY <1>1, <2>1, ReplyAnswers, Words
<1>3. d = o \/ \E reply : d = RespondCallback(reply, o) \/ d = Respond(reply, o)
  BY DEF Discard
<1> HIDE DEF o, t, d
<1>4. d.m = o.m /\ d.await = o.await /\ d.reset = o.reset BY <1>2, <1>3, ReplyKeeps
<1>5. d \in Outputs BY DiscardType DEF d
<1>6. /\ d.reset = FALSE /\ d.m.rec = Tombstone /\ d.m.conn = "none"
      /\ d.m.work.task = "Reply" /\ d.m.work.id = h.id /\ d.m.work.expire_after = FALSE
      /\ d.m.deferred = NoWork /\ d.m.callback = NoCallback
      /\ d.await.type = "persist" /\ d.await.id = h.id
  BY <1>1, <1>2, <1>4 DEF Answers, Keeps
<1>7. ~Idle(d.m) BY <1>6 DEF Idle, HasWork
<1>8. f = d BY <1>6, <1>7 DEF FinishOutput
<1>9. NoWork.task = "none" /\ NoCallback.task = "none" /\ Tombstone.phase \in Terminal
  BY DEF NoWork, NoCallback, Tombstone, NoRec, Terminal
<1>10. Fits(d.m, d.m.work, h.snap) /\ Fits(d.m, d.m.deferred, h.snap)
  BY <1>6, <1>9 DEF Fits
<1>11. Tidy(d.m) /\ Holds(d.m)
  BY <1>6, <1>9 DEF Tidy, Holds, HasWork, HasDeferred, CallbackExecuting
<1>12. Orderly(d.m, h.snap) BY <1>10, <1>11 DEF Orderly
<1> QED BY <1>6, <1>8, <1>12 DEF d
===============================================================================
